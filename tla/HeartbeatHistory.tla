-------------------------- MODULE HeartbeatHistory --------------------------
(***************************************************************************)
(* HeartbeatService with a record of what each wakeup could know.  wakeup  *)
(* looks for an active run of the agent and issue and inserts a new one in *)
(* another statement, with nothing that keeps a second wakeup out in       *)
(* between.  The record only listens: every step of HeartbeatService is a  *)
(* step here.                                                              *)
(***************************************************************************)
EXTENDS HeartbeatService

VARIABLES
  known,     \* the runs that existed at the lookup of a wakeup that is to insert one
  knew       \* the same, of the wakeup that inserted a run

history == <<known, knew>>

\* A wakeup's insert adds run r.
Inserts(c, r) == ~Exists(r) /\ WakeupInsertRun(c) /\ caller'[c].run = r

Record ==
  /\ known' = [c \in Callers |-> IF caller'[c].pc # "wk_insert" THEN {}
                                 ELSE IF At(c, "wk_insert") THEN known[c]
                                 ELSE {r \in Runs : Exists(r)}]
  /\ knew' = [r \in Runs |-> IF \E c \in Callers : Inserts(c, r)
                             THEN UNION {known[c] : c \in {d \in Callers : Inserts(d, r)}}
                             ELSE knew[r]]

HistoryInit ==
  /\ Init
  /\ known = [c \in Callers |-> {}]
  /\ knew = [r \in Runs |-> {}]
HistoryNext == Next /\ Record
HistorySpec == HistoryInit /\ [][HistoryNext]_<<vars, history>>

-----------------------------------------------------------------------------
\* wakeup, by any number of requests and the boot sweep at a time: an agent has
\* two active runs for one issue only when neither existed as the wakeup of the
\* other looked.  A run that a lookup could see, queued by a wakeup that is not
\* through or brought back by a late statement after it had ended, has no twin.
TwinsOverlapped ==
  \A r, q \in Runs :
    r # q /\ Active(r) /\ Active(q) /\ IsFor(q, run[r].agent, run[r].issue) =>
      r \notin knew[q] /\ q \notin knew[r]

=============================================================================
