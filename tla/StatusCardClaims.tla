-------------------------- MODULE StatusCardClaims --------------------------
(***************************************************************************)
(* What the documentation of the status card worker says of a generation,  *)
(* where the code does something else.                                     *)
(***************************************************************************)
EXTENDS StatusCards

\* status_card_worker.rs:7, step 2 of the background chain: "通过 heartbeat
\* wakeup 唤醒 agent 执行" (the agent is woken through a heartbeat wakeup).  A
\* generation that a card waits for, and that no request or execution still
\* holds, has had its wakeup.
GenerationsWoken ==
  \A c \in Cards, g \in Generations :
    card[c].generation = g /\ (\A t \in Tasks : task[t].gen # g) => g \in woken
=============================================================================
