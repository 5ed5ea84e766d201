--------------------------- MODULE RunLifecycle ---------------------------
(***************************************************************************)
(* What a row of heartbeat_runs promises its readers, whatever the tasks   *)
(* that write it do: a run is submitted for one agent and one issue, in    *)
(* order of its number, is started at most once, and once it has ended it  *)
(* has ended for good.  How it ended may still be rewritten: cancel_run    *)
(* and the stuck run detector update the row without looking at it.        *)
(***************************************************************************)
EXTENDS Integers

CONSTANTS MaxRuns, Agents, Issues, NoAgent, NoIssue

VARIABLE run

Runs == 1..MaxRuns
Active == {"queued", "running"}
Ended == {"succeeded", "failed", "cancelled", "timed_out"}

Init == run = [r \in Runs |-> [status |-> "absent", agent |-> NoAgent, issue |-> NoIssue]]

Submit(r) ==
  /\ run[r].status = "absent"
  /\ \A q \in Runs : q < r => run[q].status # "absent"
  /\ \E a \in Agents, i \in Issues :
       run' = [run EXCEPT ![r] = [status |-> "queued", agent |-> a, issue |-> i]]

Start(r) ==
  /\ run[r].status = "queued"
  /\ run' = [run EXCEPT ![r].status = "running"]

End(r) ==
  /\ run[r].status \in Active
  /\ \E s \in Ended : run' = [run EXCEPT ![r].status = s]

Rewrite(r) ==
  /\ run[r].status \in Ended
  /\ \E s \in {"cancelled", "timed_out"} : run' = [run EXCEPT ![r].status = s]

Next == \E r \in Runs : Submit(r) \/ Start(r) \/ End(r) \/ Rewrite(r)

Spec == Init /\ [][Next]_run
===========================================================================
