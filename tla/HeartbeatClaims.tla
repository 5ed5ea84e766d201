--------------------------- MODULE HeartbeatClaims ---------------------------
(***************************************************************************)
(* What the comments, tests and guides of the repository say of the run    *)
(* coordinator, where the code does something else.                        *)
(***************************************************************************)
EXTENDS HeartbeatService

\* heartbeat_service.rs:171: "Cancel an active run for an issue. Called after
\* force_release to stop ongoing execution": no child process is started for a
\* run that has been cancelled.
CancelStopsExecution ==
  [][\A e \in Execs : process[e] = "none" /\ process'[e] = "alive" =>
       run[RunOf(e)].status # "cancelled"]_vars

\* heartbeat_service.rs:449: "SIGTERM first, wait for the grace period, then
\* SIGKILL": the child a cancel has taken from the map comes to its end, also
\* when it would not end by itself.
GracePeriodEndsChild ==
  \A c \in Callers, e \in Execs :
    At(c, "cx_signal") /\ <<caller[c].run, caller[c].origin>> = e
      ~> process[e] # "alive"

\* state_machine.rs:67: "From Terminated - no transitions allowed".
TerminatedIsFinal ==
  [][\A a \in Agents : agent[a] = "terminated" => agent'[a] = "terminated"]_vars

=============================================================================
