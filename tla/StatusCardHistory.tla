------------------------- MODULE StatusCardHistory -------------------------
(***************************************************************************)
(* StatusCards with a record of the evaluations whose claim was taken from *)
(* them.  An execution of the scheduler job claims a due card by moving    *)
(* next_eval_at to the end of a window, and works on the card without a    *)
(* lock.  Two others may move next_eval_at back into the window meanwhile: *)
(* the write-back of a summary, and an execution that is at the card too.  *)
(* The record only listens: every step of StatusCards is a step here.      *)
(***************************************************************************)
EXTENDS StatusCards

VARIABLE reopened    \* executions whose card somebody else has rescheduled

Evaluating(t, c) == t \in Executions /\ task[t].card = c

\* How somebody else reschedules the card that t evaluates
SummaryWritten(t) ==
  \E h \in Tasks : /\ WriteSummary(h) /\ task[h].card = task[t].card
                   /\ card[task[h].card].generation = task[h].gen
AnotherEnds(t) ==
  \E u \in Executions \ {t} : /\ task[u].card = task[t].card /\ task'[u].card # task[u].card
                              /\ card'[task[u].card] # card[task[u].card]

RecordReopened ==
  reopened' = {t \in Executions :
                 /\ task[t].card # None /\ task'[t].card = task[t].card
                 /\ t \in reopened \/ SummaryWritten(t) \/ AnotherEnds(t)}

HistoryInit == CardsInit /\ reopened = {}
HistoryNext == CardsNext /\ RecordReopened
HistorySpec == HistoryInit /\ [][HistoryNext]_<<cardVars, reopened>>

-----------------------------------------------------------------------------
\* tick_due_status_cards: two executions of the job evaluate one card at a time
\* only when the claim of one of them had run out, or when a summary written
\* back, or the end of another evaluation, has rescheduled the card under it.
\* A manual refresh, a patch, a compile or a finalizer never does that.
ScanExclusive ==
  \A c \in Cards, t, u \in Executions :
    t # u /\ Evaluating(t, c) /\ Evaluating(u, c) =>
      \E x \in {t, u} : x \in reopened \/ clock >= task[x].now + ClaimWindow

=============================================================================
