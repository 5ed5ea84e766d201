--------------------------- MODULE GenerationSlot ---------------------------
(***************************************************************************)
(* What a record that is generated by an agent promises its readers: it    *)
(* waits for at most one generation task at a time, a task works for one   *)
(* record, and delivers at most once, while the record waits for it.  A    *)
(* record may stop waiting for a task, or wait for another one instead;    *)
(* what the old one delivers is then refused.                              *)
(***************************************************************************)
CONSTANTS Records, Tasks, NoTask

VARIABLES
  holder,      \* holder[c]: the task that record c waits for, or NoTask
  finished     \* the tasks that have delivered

slotVars == <<holder, finished>>

Init ==
  /\ holder = [c \in Records |-> NoTask]
  /\ finished = {}

\* Record c starts to wait for task g.
Begin(c, g) ==
  /\ g \notin finished
  /\ \A d \in Records : holder[d] # g
  /\ holder' = [holder EXCEPT ![c] = g]
  /\ UNCHANGED finished

\* The task that c waits for delivers.
Deliver(c) ==
  /\ holder[c] # NoTask
  /\ holder' = [holder EXCEPT ![c] = NoTask]
  /\ finished' = finished \cup {holder[c]}

\* c no longer waits: the task ended without a result, or c is gone.
Release(c) ==
  /\ holder' = [holder EXCEPT ![c] = NoTask]
  /\ UNCHANGED finished

Next ==
  \E c \in Records :
    \/ \E g \in Tasks : Begin(c, g)
    \/ Deliver(c)
    \/ Release(c)

Spec == Init /\ [][Next]_slotVars
=============================================================================
