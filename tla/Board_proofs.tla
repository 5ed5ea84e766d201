---------------------------- MODULE Board_proofs ----------------------------
(***************************************************************************)
(* Theorems about Decisions, SummarySlots and IssueDocuments, the requests *)
(* of the board and of agents that race for one row, for every number of   *)
(* rows, requests and failures.                                            *)
(***************************************************************************)
EXTENDS Decisions, SummarySlots, IssueDocuments, TLAPS

-----------------------------------------------------------------------------
(* Decisions.  A request claims effects only for the option that the row   *)
(* shows: the one it won the row with (ClaimsFit), and a row with a        *)
(* running execution is never open again (RunningSettled).                 *)

Row == [status : Statuses \cup {"absent"}, execution : ExecutionsOf,
        chosen : Options \cup {Nothing}, key : Keys \cup {Nothing}]
AskRow == [pc : {"quiet", "count", "insert", "link", "decide", "claim", "dismiss", "cancel"},
           on : Decisions \cup {Nothing}, option : Options \cup {Nothing},
           key : Keys \cup {Nothing}, late : BOOLEAN, row : Row, next : Nat]
Effect == [of : Decisions, index : Nat, option : Options]

AskFits(k, rows) ==
  /\ k.pc \in {"link", "decide", "claim", "dismiss", "cancel"} => k.on \in Decisions
  /\ k.pc \in {"decide", "claim"} => k.option \in Options
  /\ k.pc = "claim" =>
       rows[k.on].chosen = k.option /\ rows[k.on].execution = "running"
DecisionTypes ==
  /\ decision \in [Decisions -> Row]
  /\ ask \in [Askers -> AskRow]
  /\ effects \in SUBSET Effect
RunningSettled ==
  \A d \in Decisions :
    decision[d].execution = "running" => decision[d].status \in {"decided", "expired"}
DecisionsInv ==
  DecisionTypes /\ RunningSettled /\ OneOutcome /\ \A r \in Askers : AskFits(ask[r], decision)

\* The invariant of Decisions holds before any request.
LEMMA DecisionsInitially == DecisionsInit => DecisionsInv
BY DecisionsAssumption
   DEF DecisionsInit, DecisionsInv, DecisionTypes, RunningSettled, OneOutcome, AskFits, Row, AskRow,
       Effect, NoDecision, Quiet, ExecutionsOf, Statuses

\* An action that leaves the rows and the claims alone.
LEMMA OwnTurn ==
  ASSUME DecisionsInv, NEW r \in Askers, NEW k \in AskRow, AskFits(k, decision), Turn(r, k),
         UNCHANGED <<decision, effects>>
  PROVE  DecisionsInv'
BY DEF DecisionsInv, DecisionTypes, RunningSettled, OneOutcome, AskFits, Turn

\* An action that writes one row: the claims and the requests of another kind of
\* row stay as they are.
LEMMA RowWritten ==
  ASSUME DecisionsInv, NEW d \in Decisions, NEW row \in Row,
         decision' = [decision EXCEPT ![d] = row],
         row.execution = "running" => row.status \in {"decided", "expired"},
         decision[d].execution = "running" =>
           row.execution = "running" /\ row.chosen = decision[d].chosen,
         NEW r \in Askers, NEW k \in AskRow, AskFits(k, decision'), Turn(r, k), UNCHANGED effects
  PROVE  DecisionsInv'
<1>1. DecisionTypes'
  BY DEF DecisionsInv, DecisionTypes, Turn
<1>2. RunningSettled'
  BY DEF DecisionsInv, DecisionTypes, RunningSettled
<1>3. OneOutcome'
  BY DEF DecisionsInv, DecisionTypes, RunningSettled, OneOutcome, Effect
<1>4. ASSUME NEW q \in Askers
      PROVE  AskFits(ask[q], decision)'
  BY DEF DecisionsInv, DecisionTypes, AskFits, Turn
<1> QED BY <1>1, <1>2, <1>3, <1>4 DEF DecisionsInv


\* A request handler at rest holds nothing of a decision.
LEMMA QuietFits == Quiet \in AskRow /\ AskFits(Quiet, decision) /\ AskFits(Quiet, decision')
BY DEF Quiet, AskRow, NoDecision, Row, ExecutionsOf, Statuses, AskFits

\* The steps that read, and those that end a request without a write.
LEMMA Reads ==
  ASSUME DecisionsInv, NEW r \in Askers,
         \/ \E k \in Keys \cup {Nothing} :
              LookupKey(r, k) \/ \E d \in Decisions, o \in Options : LoadToDecide(r, d, o, k)
         \/ \E d \in Decisions : LoadToClose(r, d)
         \/ CountOpen(r) \/ LinkTargets(r) \/ AnswerSettled(r) \/ RefuseInput(r) \/ AskFails(r)
  PROVE  DecisionsInv'
<1>1. ASSUME NEW k \in Keys \cup {Nothing}, LookupKey(r, k)
      PROVE  DecisionsInv'
  <2>1. [Quiet EXCEPT !.pc = "count", !.key = k] \in AskRow
    BY QuietFits DEF AskRow, Quiet
  <2>2. AskFits([Quiet EXCEPT !.pc = "count", !.key = k], decision)
    BY DEF AskFits, Quiet
  <2> QED BY <1>1, <2>1, <2>2, QuietFits, OwnTurn DEF LookupKey, Done
<1>2. ASSUME NEW k \in Keys \cup {Nothing}, NEW d \in Decisions, NEW o \in Options,
             LoadToDecide(r, d, o, k)
      PROVE  DecisionsInv'
  <2> DEFINE next == [Quiet EXCEPT !.pc = "decide", !.on = d, !.option = o, !.key = k,
                                   !.late = d \in overdue, !.row = decision[d]]
  <2>0. ASSUME NEW l \in BOOLEAN
        PROVE  [Quiet EXCEPT !.pc = "decide", !.on = d, !.option = o, !.key = k, !.late = l,
                             !.row = decision[d]] \in AskRow
    BY QuietFits DEF AskRow, Quiet, DecisionsInv, DecisionTypes
  <2>1. (d \in overdue) \in BOOLEAN
    BY SMT
  <2>2. next \in AskRow
    BY <2>0, <2>1, Zenon
  <2>3. AskFits(next, decision)
    BY DEF AskFits, Quiet
  <2> QED BY <1>2, <2>2, <2>3, QuietFits, OwnTurn DEF LoadToDecide, Done
<1>3. ASSUME NEW d \in Decisions, LoadToClose(r, d)
      PROVE  DecisionsInv'
  <2>1. ASSUME NEW pc \in {"dismiss", "cancel"}
        PROVE  /\ [Quiet EXCEPT !.pc = pc, !.on = d] \in AskRow
               /\ AskFits([Quiet EXCEPT !.pc = pc, !.on = d], decision)
    BY QuietFits DEF AskRow, Quiet, AskFits
  <2> QED BY <1>3, <2>1, QuietFits, OwnTurn DEF LoadToClose, Done
<1>4. CASE CountOpen(r)
  <2>1. ask[r].pc = "count" => [ask[r] EXCEPT !.pc = "insert"] \in AskRow
                               /\ AskFits([ask[r] EXCEPT !.pc = "insert"], decision)
    BY DEF DecisionsInv, DecisionTypes, AskRow, AskFits
  <2> QED BY <1>4, <2>1, QuietFits, OwnTurn DEF CountOpen, Done
<1>5. CASE LinkTargets(r) \/ AnswerSettled(r) \/ RefuseInput(r) \/ AskFails(r)
  BY <1>5, QuietFits, OwnTurn DEF LinkTargets, AnswerSettled, RefuseInput, AskFails, Done
<1> QED BY <1>1, <1>2, <1>3, <1>4, <1>5

\* An INSERT of a decision, new or lost to the same key, keeps the invariant.
LEMMA InsertDecisionKeeps ==
  ASSUME DecisionsInv, NEW r \in Askers, InsertDecision(r)
  PROVE  DecisionsInv'
<1> DEFINE row == [NoDecision EXCEPT !.status = "open", !.key = ask[r].key]
<1>1. row \in Row /\ row.execution # "running"
  BY DEF DecisionsInv, DecisionTypes, AskRow, NoDecision, Row, ExecutionsOf, Statuses
<1>2. CASE UNCHANGED decision /\ Done(r)
  BY <1>2, QuietFits, OwnTurn DEF InsertDecision, Done
<1>3. ASSUME NEW d \in Decisions, decision[d].status = "absent",
             decision' = [decision EXCEPT ![d] = row],
             Turn(r, [ask[r] EXCEPT !.pc = "link", !.on = d])
      PROVE  DecisionsInv'
  <2>1. [ask[r] EXCEPT !.pc = "link", !.on = d] \in AskRow
        /\ AskFits([ask[r] EXCEPT !.pc = "link", !.on = d], decision')
    BY ZenonT(40) DEF DecisionsInv, DecisionTypes, AskRow, AskFits
  <2>2. decision[d].execution # "running"
    BY <1>3 DEF DecisionsInv, RunningSettled
  <2> QED BY <1>1, <1>3, <2>1, <2>2, RowWritten DEF InsertDecision
<1> QED BY <1>2, <1>3 DEF InsertDecision

\* The expiry, which writes the row whatever its status is by then, keeps the invariant.
LEMMA ExpireDecisionKeeps ==
  ASSUME DecisionsInv, NEW r \in Askers, ExpireDecision(r)
  PROVE  DecisionsInv'
<1> DEFINE row == [decision[ask[r].on] EXCEPT !.status = "expired"]
<1>1. ask[r].on \in Decisions
  BY DEF ExpireDecision, DecisionsInv, AskFits
<1>2. row \in Row /\ row.status = "expired" /\ row.execution = decision[ask[r].on].execution
      /\ row.chosen = decision[ask[r].on].chosen
  BY <1>1 DEF DecisionsInv, DecisionTypes, Row, Statuses
<1>3. decision' = [decision EXCEPT ![ask[r].on] = row]
  BY DEF ExpireDecision
<1> QED BY <1>1, <1>2, <1>3, QuietFits, RowWritten, ZenonT(40) DEF ExpireDecision, Done

\* The guarded UPDATE to running keeps the invariant: it finds no effect claimed.
LEMMA DecideKeeps ==
  ASSUME DecisionsInv, NEW r \in Askers, Decide(r)
  PROVE  DecisionsInv'
<1> DEFINE d == ask[r].on
           row == [status |-> "decided", execution |-> "running", chosen |-> ask[r].option,
                   key |-> IF decision[d].key = Nothing THEN ask[r].key ELSE decision[d].key]
           next == [ask[r] EXCEPT !.pc = "claim", !.next = 1]
<1>1. d \in Decisions /\ ask[r].option \in Options
  BY DEF Decide, DecisionsInv, AskFits
<1>2. CASE UNCHANGED decision /\ Done(r)
  BY <1>2, QuietFits, OwnTurn DEF Decide, Done
<1>3. CASE decision[d].status = "open" /\ decision' = [decision EXCEPT ![d] = row] /\ Turn(r, next)
  <2>1. row \in Row
    BY <1>1 DEF Row, DecisionsInv, DecisionTypes, AskRow, ExecutionsOf, Statuses
  <2>2. decision[d].execution # "running"
    BY <1>1, <1>3 DEF DecisionsInv, RunningSettled
  <2>3. next \in AskRow
    BY DEF DecisionsInv, DecisionTypes, AskRow
  <2>4. decision'[d] = row
    BY <1>1, <1>3 DEF DecisionsInv, DecisionTypes
  <2>5. AskFits(next, decision')
    BY <1>1, <2>4 DEF DecisionsInv, DecisionTypes, AskRow, AskFits
  <2> QED BY <1>1, <1>3, <2>1, <2>2, <2>3, <2>5, RowWritten DEF Decide
<1> QED BY <1>2, <1>3 DEF Decide

\* A claim of the next effect, or the end of the claims, keeps the invariant.
LEMMA ClaimEffectKeeps ==
  ASSUME DecisionsInv, NEW r \in Askers, ClaimEffect(r)
  PROVE  DecisionsInv'
<1> DEFINE d == ask[r].on
           i == ask[r].next
           next == [ask[r] EXCEPT !.next = i + 1]
           claim == [of |-> d, index |-> i, option |-> ask[r].option]
<1>1. CASE UNCHANGED effects /\ Done(r)
  BY <1>1, QuietFits, OwnTurn DEF ClaimEffect, Done
<1>2. CASE effects' \in {effects, effects \cup {claim}} /\ Turn(r, next)
  <2>1. d \in Decisions /\ ask[r].option \in Options /\ i \in Nat
        /\ decision[d].chosen = ask[r].option /\ decision[d].execution = "running"
    BY DEF ClaimEffect, DecisionsInv, DecisionTypes, AskRow, AskFits
  <2>2. next \in AskRow /\ AskFits(next, decision) /\ UNCHANGED decision
    BY <2>1 DEF ClaimEffect, DecisionsInv, DecisionTypes, AskRow, AskFits
  <2>3. DecisionTypes'
    BY <1>2, <2>1, <2>2 DEF DecisionsInv, DecisionTypes, Turn, Effect
  <2>4. OneOutcome'
    BY <1>2, <2>1, <2>2 DEF DecisionsInv, DecisionTypes, OneOutcome, RunningSettled
  <2>5. ASSUME NEW q \in Askers
        PROVE  AskFits(ask[q], decision)'
    BY <1>2, <2>2 DEF DecisionsInv, DecisionTypes, AskFits, Turn
  <2> QED BY <2>2, <2>3, <2>4, <2>5 DEF DecisionsInv, RunningSettled
<1> QED BY <1>1, <1>2 DEF ClaimEffect

\* A dismissal, guarded on an open row, keeps the invariant.
LEMMA DismissKeeps ==
  ASSUME DecisionsInv, NEW r \in Askers, Dismiss(r)
  PROVE  DecisionsInv'
<1> DEFINE d == ask[r].on
<1>1. d \in Decisions
  BY DEF Dismiss, DecisionsInv, AskFits
<1>2. CASE decision[d].status # "open"
  BY <1>2, QuietFits, OwnTurn DEF Dismiss, Done
<1>3. CASE decision[d].status = "open"
  <2>1. PICK chosen \in Options \cup {Nothing} :
          decision' = [decision EXCEPT ![d].status = "decided", ![d].chosen = chosen,
                                       ![d].execution = "skipped"]
    BY <1>3 DEF Dismiss
  <2> DEFINE row == [decision[d] EXCEPT !.status = "decided", !.chosen = chosen,
                                        !.execution = "skipped"]
  <2>2. row \in Row /\ row.execution = "skipped"
    BY <1>1, ZenonT(40) DEF DecisionsInv, DecisionTypes, Row, Statuses, ExecutionsOf
  <2>3. decision' = [decision EXCEPT ![d] = row]
    BY <1>1, <2>1 DEF DecisionsInv, DecisionTypes, Row
  <2>4. decision[d].execution # "running"
    BY <1>1, <1>3 DEF DecisionsInv, RunningSettled
  <2> QED BY <1>1, <2>2, <2>3, <2>4, QuietFits, RowWritten DEF Dismiss, Done
<1> QED BY <1>2, <1>3

\* A cancel, guarded on an open row, keeps the invariant.
LEMMA CancelDecisionKeeps ==
  ASSUME DecisionsInv, NEW r \in Askers, CancelDecision(r)
  PROVE  DecisionsInv'
<1> DEFINE d == ask[r].on
           row == [decision[d] EXCEPT !.status = "cancelled"]
<1>1. d \in Decisions
  BY DEF CancelDecision, DecisionsInv, AskFits
<1>2. CASE decision[d].status # "open"
  BY <1>2, QuietFits, OwnTurn DEF CancelDecision, Done
<1>3. CASE decision[d].status = "open"
  <2>1. row \in Row /\ row.execution = decision[d].execution
    BY <1>1 DEF DecisionsInv, DecisionTypes, Row, Statuses
  <2>2. decision[d].execution # "running"
    BY <1>1, <1>3 DEF DecisionsInv, RunningSettled
  <2>3. decision' = [decision EXCEPT ![d] = row]
    BY <1>3 DEF CancelDecision
  <2> QED BY <1>1, <2>1, <2>2, <2>3, QuietFits, RowWritten DEF CancelDecision, Done
<1> QED BY <1>2, <1>3

\* Every step of Decisions keeps its invariant.
LEMMA DecisionsSteps == DecisionsInv /\ [DecisionsNext]_decisionVars => DecisionsInv'
<1> SUFFICES ASSUME DecisionsInv, [DecisionsNext]_decisionVars
             PROVE  DecisionsInv'
  OBVIOUS
<1>1. ASSUME UNCHANGED <<decision, ask, effects>>
      PROVE  DecisionsInv'
  BY <1>1 DEF DecisionsInv, DecisionTypes, RunningSettled, OneOutcome, AskFits
<1>2. CASE UNCHANGED decisionVars
  BY <1>1, <1>2 DEF decisionVars
<1>3. ASSUME NEW d \in Decisions, PassDeadline(d)
      PROVE  DecisionsInv'
  BY <1>1, <1>3 DEF PassDeadline
<1>4. ASSUME NEW r \in Askers, Handle(r)
      PROVE  DecisionsInv'
  BY <1>4, Reads, InsertDecisionKeeps, ExpireDecisionKeeps, DecideKeeps, ClaimEffectKeeps,
     DismissKeeps, CancelDecisionKeeps DEF Handle
<1> QED BY <1>2, <1>3, <1>4, Reads DEF DecisionsNext

\* Whatever requests race for a decision, and whichever of them fail half-way,
\* the effects that are claimed are those of the option the decision shows.
THEOREM DecisionHasOneOutcome == DecisionsSpec => []OneOutcome
<1>1. DecisionsInv => OneOutcome
  BY DEF DecisionsInv
<1> QED BY <1>1, DecisionsInitially, DecisionsSteps, PTL DEF DecisionsSpec

(* The refinement of SettledChoice.  A row without a choice is the one the  *)
(* guarded UPDATEs look for (Unsettled); what a request has read as decided *)
(* is decided for good (ReadSettled), so the answer to a replay, given from *)
(* a row read earlier, is still true when it is sent.                       *)

\* The variables of SettledChoice.
Taken == [d \in Decisions |-> decision[d].chosen]
Told == {<<a.on, a.option>> : a \in {b \in answers : b.accepted}}
Acted == {<<e.of, e.option>> : e \in effects}

Unsettled ==
  \A d \in Decisions : decision[d].status \in {"open", "absent"} => decision[d].chosen = Nothing
Settled(rows, d) == rows[d].status \notin {"open", "absent"}
SettledFor(k, rows) ==
  /\ k.pc = "decide" /\ k.row.status = "decided" =>
       Settled(rows, k.on) /\ rows[k.on].chosen = k.row.chosen
  /\ k.pc = "claim" => Settled(rows, k.on)
ReadSettled == \A r \in Askers : SettledFor(ask[r], decision)
ChoiceInv == DecisionsInv /\ Unsettled /\ ReadSettled

\* Where the choice of a row goes: it is taken once, by a request that finds the
\* row open, and no row becomes open again.
RowsGoOn ==
  \A d \in Decisions :
    /\ Settled(decision, d) =>
         Settled(decision, d)' /\ decision'[d].chosen = decision[d].chosen
    /\ decision'[d].status \in {"open", "absent"} => decision'[d].chosen = Nothing

\* What one request reads or claims, when the other rows and requests go on.
LEMMA TurnKeepsChoice ==
  ASSUME ChoiceInv, DecisionsInv', RowsGoOn, NEW r \in Askers, NEW k \in AskRow, Turn(r, k),
         SettledFor(k, decision')
  PROVE  ChoiceInv'
<1>1. Unsettled'
  BY DEF RowsGoOn, Unsettled
<1>2. ASSUME NEW q \in Askers, q # r
      PROVE  SettledFor(ask[q], decision)'
  <2>1. ask'[q] = ask[q] /\ SettledFor(ask[q], decision) /\ AskFits(ask[q], decision)
    BY <1>2 DEF Turn, ChoiceInv, ReadSettled, DecisionsInv, DecisionTypes
  <2>2. ask[q].pc \in {"decide", "claim"} => ask[q].on \in Decisions
    BY <2>1 DEF AskFits
  <2> QED BY <2>1, <2>2 DEF SettledFor, RowsGoOn, Settled
<1>3. SettledFor(ask[r], decision)'
  BY DEF Turn, ChoiceInv, DecisionsInv, DecisionTypes
<1> QED BY <1>1, <1>2, <1>3 DEF ChoiceInv, ReadSettled

\* A request at rest, or at another point than these two, has read nothing yet.
LEMMA NothingRead ==
  ASSUME NEW k, k.pc \notin {"decide", "claim"}
  PROVE  SettledFor(k, decision')
BY DEF SettledFor

\* The steps that write no row keep what was read and what was taken.
LEMMA ReadsKeepChoice ==
  ASSUME ChoiceInv, DecisionsInv', NEW r \in Askers,
         \/ \E k \in Keys \cup {Nothing} :
              LookupKey(r, k) \/ \E d \in Decisions, o \in Options : LoadToDecide(r, d, o, k)
         \/ \E d \in Decisions : LoadToClose(r, d)
         \/ CountOpen(r) \/ LinkTargets(r) \/ AnswerSettled(r) \/ RefuseInput(r) \/ AskFails(r)
         \/ ClaimEffect(r)
  PROVE  ChoiceInv'
<1>1. UNCHANGED decision
  BY DEF LookupKey, LoadToDecide, LoadToClose, CountOpen, LinkTargets, AnswerSettled, RefuseInput,
         AskFails, ClaimEffect
<1>2. RowsGoOn
  BY <1>1 DEF ChoiceInv, Unsettled, RowsGoOn, Settled
<1>3. ASSUME NEW k \in AskRow, Turn(r, k), k.pc \notin {"decide", "claim"}
      PROVE  ChoiceInv'
  BY <1>2, <1>3, NothingRead, TurnKeepsChoice
<1>4. Quiet \in AskRow /\ Quiet.pc = "quiet"
  BY QuietFits DEF Quiet
<1>5. ask'[r] \in AskRow /\ ask[r] \in AskRow
  BY DEF ChoiceInv, DecisionsInv, DecisionTypes
<1>6. ASSUME NEW k, Turn(r, k)
      PROVE  ask'[r] = k
  BY <1>6 DEF Turn, ChoiceInv, DecisionsInv, DecisionTypes
<1>7. CASE \/ \E k \in Keys \cup {Nothing} : LookupKey(r, k)
           \/ \E d \in Decisions : LoadToClose(r, d)
           \/ CountOpen(r) \/ LinkTargets(r) \/ AnswerSettled(r) \/ RefuseInput(r) \/ AskFails(r)
  <2>1. CASE Done(r)
    BY <1>3, <1>4, <2>1 DEF Done
  <2>2. CASE CountOpen(r) /\ ~Done(r)
    <3>1. Turn(r, ask'[r]) /\ ask'[r].pc = "insert"
      BY <1>5, <1>6, <2>2 DEF CountOpen, AskRow
    <3> QED BY <1>3, <1>5, <3>1
  <2>3. ASSUME NEW k \in Keys \cup {Nothing}, LookupKey(r, k), ~Done(r)
        PROVE  ChoiceInv'
    <3>1. Turn(r, ask'[r]) /\ ask'[r].pc = "count"
      BY <1>6, <2>3 DEF LookupKey, Quiet
    <3> QED BY <1>3, <1>5, <3>1
  <2>4. ASSUME NEW d \in Decisions, LoadToClose(r, d), ~Done(r)
        PROVE  ChoiceInv'
    <3>1. Turn(r, ask'[r]) /\ ask'[r].pc \in {"dismiss", "cancel"}
      BY <1>6, <2>4 DEF LoadToClose, Quiet
    <3> QED BY <1>3, <1>5, <3>1
  <2> QED BY <1>7, <2>1, <2>2, <2>3, <2>4 DEF LinkTargets, AnswerSettled, RefuseInput, AskFails
<1>8. ASSUME NEW k \in Keys \cup {Nothing}, NEW d \in Decisions, NEW o \in Options,
             LoadToDecide(r, d, o, k)
      PROVE  ChoiceInv'
  <2>1. CASE Done(r)
    BY <1>3, <1>4, <2>1 DEF Done
  <2>2. CASE ~Done(r)
    <3>1. Turn(r, ask'[r]) /\ ask'[r].row = decision[d] /\ ask'[r].on = d /\ ask'[r].pc = "decide"
      BY <1>6, <1>8, <2>2 DEF LoadToDecide, Quiet
    <3>2. SettledFor(ask'[r], decision')
      BY <1>1, <3>1 DEF SettledFor, Settled
    <3> QED BY <1>2, <1>5, <3>1, <3>2, TurnKeepsChoice
  <2> QED BY <2>1, <2>2
<1>9. CASE ClaimEffect(r)
  <2>1. CASE Done(r)
    BY <1>3, <1>4, <2>1 DEF Done
  <2>2. CASE Turn(r, [ask[r] EXCEPT !.next = ask[r].next + 1])
    <3>1. Turn(r, ask'[r]) /\ ask'[r].on = ask[r].on /\ ask'[r].pc = "claim"
      BY <1>5, <1>6, <1>9, <2>2 DEF ClaimEffect, AskRow
    <3>2. SettledFor(ask[r], decision) /\ ask[r].pc = "claim"
      BY <1>9 DEF ClaimEffect, ChoiceInv, ReadSettled
    <3>3. SettledFor(ask'[r], decision')
      BY <1>1, <3>1, <3>2 DEF SettledFor, Settled
    <3> QED BY <1>2, <1>5, <3>1, <3>3, TurnKeepsChoice
  <2> QED BY <1>9, <2>1, <2>2 DEF ClaimEffect
<1> QED BY <1>7, <1>8, <1>9

\* The guarded UPDATEs of decide and dismiss: one open row gets a choice, or
\* nothing is written.
LEMMA RowTaken ==
  ASSUME DecisionsInv, NEW r \in Askers, Decide(r) \/ Dismiss(r)
  PROVE  \/ UNCHANGED decision /\ Done(r)
         \/ /\ decision[ask[r].on].status = "open" /\ UNCHANGED answers
            /\ Decide(r) => Turn(r, [ask[r] EXCEPT !.pc = "claim", !.next = 1])
            /\ Dismiss(r) => Done(r)
            /\ \E o \in Options \cup {Nothing} :
                 /\ Taken' = [Taken EXCEPT ![ask[r].on] = o]
                 /\ \A d \in Decisions :
                      IF d = ask[r].on THEN decision'[d].status = "decided" /\ decision'[d].chosen = o
                      ELSE decision'[d] = decision[d]
<1> DEFINE d == ask[r].on
<1>1. decision \in [Decisions -> Row] /\ d \in Decisions
      /\ (ask[r].pc = "decide" => ask[r].option \in Options)
  BY DEF DecisionsInv, DecisionTypes, AskFits, Decide, Dismiss
<1>2. ASSUME NEW row, NEW o \in Options \cup {Nothing}, decision' = [decision EXCEPT ![d] = row],
             row.status = "decided", row.chosen = o
      PROVE  /\ Taken' = [Taken EXCEPT ![d] = o]
             /\ \A e \in Decisions :
                  IF e = d THEN decision'[e].status = "decided" /\ decision'[e].chosen = o
                  ELSE decision'[e] = decision[e]
  BY <1>1, <1>2 DEF Taken
<1>3. CASE Decide(r)
  <2> DEFINE row == [status |-> "decided", execution |-> "running", chosen |-> ask[r].option,
                     key |-> IF decision[d].key = Nothing THEN ask[r].key ELSE decision[d].key]
  <2>1. \/ UNCHANGED decision /\ Done(r)
        \/ /\ decision[d].status = "open" /\ UNCHANGED answers
           /\ decision' = [decision EXCEPT ![d] = row]
           /\ Turn(r, [ask[r] EXCEPT !.pc = "claim", !.next = 1])
    BY <1>1, <1>3 DEF Decide
  <2>2. row.status = "decided" /\ row.chosen = ask[r].option
        /\ (ask[r].option \in Options) /\ ~Dismiss(r)
    BY <1>1, <1>3 DEF Decide, Dismiss
  <2> HIDE DEF row
  <2> QED BY <1>2, <2>1, <2>2
<1>4. CASE Dismiss(r) /\ decision[d].status = "open"
  <2>1. PICK o \in Options \cup {Nothing} :
          decision' = [decision EXCEPT ![d].status = "decided", ![d].chosen = o,
                                       ![d].execution = "skipped"]
    BY <1>4 DEF Dismiss
  <2> DEFINE row == [decision[d] EXCEPT !.status = "decided", !.chosen = o,
                                        !.execution = "skipped"]
  <2>2. decision' = [decision EXCEPT ![d] = row] /\ row.status = "decided" /\ row.chosen = o
    BY <1>1, <2>1 DEF Row
  <2>3. Done(r) /\ UNCHANGED answers /\ ~Decide(r)
    BY <1>4 DEF Dismiss, Decide
  <2> HIDE DEF row
  <2>4. /\ Taken' = [Taken EXCEPT ![d] = o]
        /\ \A e \in Decisions :
             IF e = d THEN decision'[e].status = "decided" /\ decision'[e].chosen = o
             ELSE decision'[e] = decision[e]
    BY <1>1, <2>2 DEF Taken
  <2> QED BY <1>4, <2>3, <2>4, Zenon
<1>5. CASE Dismiss(r) /\ decision[d].status # "open"
  BY <1>5 DEF Dismiss
<1> QED BY <1>3, <1>4, <1>5

\* The statements that write a row take its choice at most once, from an open row.
LEMMA WritesKeepChoice ==
  ASSUME ChoiceInv, DecisionsInv', NEW r \in Askers,
         InsertDecision(r) \/ ExpireDecision(r) \/ Decide(r) \/ Dismiss(r) \/ CancelDecision(r)
  PROVE  ChoiceInv' /\ RowsGoOn
<1>1. /\ decision \in [Decisions -> Row] /\ ask \in [Askers -> AskRow] /\ ask'[r] \in AskRow
      /\ ask[r].pc \in {"decide", "dismiss", "cancel"} => ask[r].on \in Decisions
  BY DEF ChoiceInv, DecisionsInv, DecisionTypes, AskFits
<1>2. RowsGoOn
  <2>1. CASE InsertDecision(r)
    <3>1. CASE UNCHANGED decision
      BY <3>1 DEF RowsGoOn, Settled, ChoiceInv, Unsettled
    <3>2. ASSUME NEW d \in Decisions, decision[d].status = "absent",
                 NEW row, row.status = "open", row.chosen = Nothing,
                 decision' = [decision EXCEPT ![d] = row]
          PROVE  RowsGoOn
      BY <1>1, <3>2 DEF RowsGoOn, Settled, ChoiceInv, Unsettled
    <3>3. ASSUME NEW k
          PROVE  /\ [NoDecision EXCEPT !.status = "open", !.key = k].status = "open"
                 /\ [NoDecision EXCEPT !.status = "open", !.key = k].chosen = Nothing
      BY DEF NoDecision
    <3> DEFINE row == [NoDecision EXCEPT !.status = "open", !.key = ask[r].key]
    <3>4. \/ UNCHANGED decision
          \/ \E d \in Decisions : /\ decision[d].status = "absent"
                                 /\ decision' = [decision EXCEPT ![d] = row]
      BY <2>1 DEF InsertDecision
    <3>5. row.status = "open" /\ row.chosen = Nothing
      BY <3>3
    <3> HIDE DEF row
    <3> QED BY <3>1, <3>2, <3>4, <3>5
  <2>2. CASE ExpireDecision(r)
    <3>1. ask[r].on \in Decisions /\ decision' = [decision EXCEPT ![ask[r].on].status = "expired"]
      BY <1>1, <2>2 DEF ExpireDecision
    <3> QED BY <1>1, <3>1 DEF RowsGoOn, Settled, ChoiceInv, Unsettled, Row
  <2>3. CASE Decide(r) \/ Dismiss(r)
    <3>1. CASE UNCHANGED decision
      BY <3>1 DEF RowsGoOn, Settled, ChoiceInv, Unsettled
    <3>2. CASE ~UNCHANGED decision
      <4>1. PICK o : \A d \in Decisions :
              IF d = ask[r].on THEN decision'[d].status = "decided" /\ decision'[d].chosen = o
              ELSE decision'[d] = decision[d]
        BY <2>3, <3>2, RowTaken DEF ChoiceInv
      <4>2. decision[ask[r].on].status = "open"
        BY <2>3, <3>2, RowTaken DEF ChoiceInv
      <4> QED BY <4>1, <4>2 DEF RowsGoOn, Settled, ChoiceInv, Unsettled
    <3> QED BY <3>1, <3>2
  <2>5. CASE CancelDecision(r)
    BY <1>1, <2>5 DEF CancelDecision, RowsGoOn, Settled, ChoiceInv, Unsettled, Row
  <2> QED BY <2>1, <2>2, <2>3, <2>5
<1>3. PICK k : Turn(r, k) /\ SettledFor(k, decision')
  <2>1. CASE Done(r)
    BY <2>1 DEF Done, Quiet, SettledFor
  <2>2. CASE Decide(r) /\ ~Done(r)
    <3> DEFINE k == [ask[r] EXCEPT !.pc = "claim", !.next = 1]
    <3>1. Turn(r, k) /\ decision'[ask[r].on].status = "decided"
      BY <1>1, <2>2, RowTaken DEF ChoiceInv, Decide
    <3>2. k.pc = "claim" /\ k.on = ask[r].on
      BY <1>1 DEF AskRow
    <3>3. SettledFor(k, decision')
      BY <3>1, <3>2 DEF SettledFor, Settled
    <3> QED BY <3>1, <3>3
  <2>3. CASE InsertDecision(r) /\ ~Done(r)
    <3>1. PICK d \in Decisions : Turn(r, [ask[r] EXCEPT !.pc = "link", !.on = d])
      BY <2>3 DEF InsertDecision
    <3>2. [ask[r] EXCEPT !.pc = "link", !.on = d].pc = "link"
      BY <1>1 DEF AskRow
    <3> QED BY <3>1, <3>2, NothingRead
  <2> QED BY <2>1, <2>2, <2>3 DEF ExpireDecision, Dismiss, CancelDecision
<1>4. k \in AskRow
  BY <1>1, <1>3 DEF Turn
<1> QED BY <1>2, <1>3, <1>4, TurnKeepsChoice

\* Every step keeps the invariant of the refinement.
LEMMA ChoiceSteps == ChoiceInv /\ [DecisionsNext]_decisionVars => ChoiceInv'
<1> SUFFICES ASSUME ChoiceInv, [DecisionsNext]_decisionVars
             PROVE  ChoiceInv'
  OBVIOUS
<1>1. DecisionsInv'
  BY DecisionsSteps DEF ChoiceInv
<1>2. CASE UNCHANGED <<decision, ask>>
  BY <1>1, <1>2 DEF ChoiceInv, Unsettled, ReadSettled, SettledFor, Settled
<1>3. ASSUME NEW r \in Askers, Handle(r)
      PROVE  ChoiceInv'
  BY <1>1, <1>3, ReadsKeepChoice, WritesKeepChoice DEF Handle
<1> QED BY <1>1, <1>2, <1>3, ReadsKeepChoice DEF DecisionsNext, PassDeadline, decisionVars

\* An answer adds to what clients were told, or is a refusal.
LEMMA AnswersTell ==
  ASSUME NEW r \in Askers, NEW accepted \in BOOLEAN, Answer(r, accepted)
  PROVE  /\ accepted => Told' = Told \cup {<<ask[r].on, ask[r].option>>}
         /\ ~accepted => Told' = Told
<1> DEFINE new == [on |-> ask[r].on, option |-> ask[r].option, key |-> ask[r].key,
                   accepted |-> accepted]
<1>1. answers' = answers \cup {new}
  BY DEF Answer
<1>2. new.on = ask[r].on /\ new.option = ask[r].option /\ new.accepted = accepted
  OBVIOUS
<1> HIDE DEF new
<1>3. {b \in answers' : b.accepted} = {b \in answers : b.accepted}
                                        \cup (IF accepted THEN {new} ELSE {})
  BY <1>1, <1>2
<1> QED BY <1>2, <1>3 DEF Told

\* The steps of SettledChoice in terms of these.
LEMMA StepsOfChoice ==
  ASSUME \/ UNCHANGED <<Taken, Told, Acted>>
         \/ \E d \in Decisions :
              \/ /\ Taken[d] # Nothing /\ Told' = Told \cup {<<d, Taken[d]>>}
                 /\ UNCHANGED <<Taken, Acted>>
              \/ /\ Taken[d] # Nothing /\ Acted' = Acted \cup {<<d, Taken[d]>>}
                 /\ UNCHANGED <<Taken, Told>>
              \/ \E o \in Options :
                   /\ Taken[d] = Nothing /\ Taken' = [Taken EXCEPT ![d] = o]
                   /\ UNCHANGED <<Told, Acted>>
  PROVE  [Choice!Next]_(Choice!choiceVars)
BY DEF Choice!Next, Choice!choiceVars, Choice!Tell, Choice!Act, Choice!Settle, Taken, Told, Acted

\* A request that wins the row settles the decision; a dismissal settles it on an
\* option without effects, if there is one.
LEMMA SettlingStep ==
  ASSUME ChoiceInv, NEW r \in Askers, Decide(r) \/ Dismiss(r)
  PROVE  [Choice!Next]_(Choice!choiceVars)
<1> DEFINE d == ask[r].on
<1>1. /\ decision \in [Decisions -> Row] /\ d \in Decisions
      /\ ask[r].pc = "decide" => ask[r].option \in Options
  BY DEF ChoiceInv, DecisionsInv, DecisionTypes, AskFits, Decide, Dismiss
<1>2. UNCHANGED effects /\ UNCHANGED Acted
  BY DEF Decide, Dismiss, Acted
<1>3. CASE UNCHANGED decision
  <2>1. UNCHANGED Taken
    BY <1>3 DEF Taken
  <2>2. UNCHANGED Told
    BY AnswersTell DEF Decide, Dismiss, Told
  <2> QED BY <1>2, <2>1, <2>2, StepsOfChoice
<1>4. CASE ~UNCHANGED decision
  <2>1. PICK o \in Options \cup {Nothing} : Taken' = [Taken EXCEPT ![d] = o]
    BY <1>4, RowTaken DEF ChoiceInv
  <2>2. decision[d].status = "open" /\ UNCHANGED answers
    BY <1>4, RowTaken DEF ChoiceInv
  <2>3. Taken[d] = Nothing /\ UNCHANGED Told
    BY <1>1, <2>2 DEF ChoiceInv, Unsettled, Taken, Told
  <2>4. CASE o = Nothing
    <3>1. UNCHANGED Taken
      BY <2>1, <2>3, <2>4 DEF Taken
    <3> QED BY <1>2, <2>3, <3>1, StepsOfChoice
  <2>5. CASE o \in Options
    BY <1>1, <1>2, <2>1, <2>3, <2>5, StepsOfChoice
  <2> QED BY <2>4, <2>5
<1> QED BY <1>3, <1>4

\* A replay is told the choice that it read, a request that has claimed its
\* effects the one it took the decision with; it claims them for that one.
LEMMA TellingStep ==
  ASSUME ChoiceInv, NEW r \in Askers, AnswerSettled(r) \/ ClaimEffect(r)
  PROVE  [Choice!Next]_(Choice!choiceVars)
<1> DEFINE d == ask[r].on
           pair == <<d, ask[r].option>>
<1>1. /\ d \in Decisions /\ ask[r].option \in Options /\ UNCHANGED Taken
      /\ Taken[d] = decision[d].chosen
  BY DEF ChoiceInv, DecisionsInv, AskFits, AnswerSettled, ClaimEffect, Taken
<1>2. CASE AnswerSettled(r)
  <2> DEFINE accepted == /\ ask[r].row.status = "decided"
                         /\ ask[r].row.chosen = ask[r].option
                         /\ ask[r].key \in {Nothing, ask[r].row.key}
  <2>1. accepted \in BOOLEAN /\ Answer(r, accepted) /\ UNCHANGED Acted
    BY <1>2 DEF AnswerSettled, Acted
  <2>2. accepted => Taken[d] = ask[r].option /\ Taken[d] # Nothing
    <3>1. ask[r].pc = "decide" /\ SettledFor(ask[r], decision)
      BY <1>2 DEF AnswerSettled, ChoiceInv, ReadSettled
    <3> QED BY <1>1, <3>1, DecisionsAssumption DEF SettledFor
  <2> HIDE DEF accepted
  <2>3. CASE accepted
    BY <1>1, <2>1, <2>2, <2>3, AnswersTell, StepsOfChoice
  <2>4. CASE ~accepted
    BY <1>1, <2>1, <2>4, AnswersTell, StepsOfChoice
  <2> QED BY <2>3, <2>4
<1>3. CASE ClaimEffect(r)
  <2>1. Taken[d] = ask[r].option /\ Taken[d] # Nothing
    BY <1>1, <1>3, DecisionsAssumption DEF ClaimEffect, ChoiceInv, DecisionsInv, AskFits
  <2>2. CASE Answer(r, TRUE) /\ UNCHANGED effects
    <3>1. UNCHANGED Acted
      BY <2>2 DEF Acted
    <3> QED BY <1>1, <2>1, <2>2, <3>1, AnswersTell, StepsOfChoice
  <2>3. CASE UNCHANGED <<answers, effects>>
    <3>1. UNCHANGED <<Told, Acted>>
      BY <2>3 DEF Told, Acted
    <3> QED BY <1>1, <3>1, StepsOfChoice
  <2>4. CASE UNCHANGED answers
             /\ effects' = effects \cup {[of |-> d, index |-> ask[r].next, option |-> ask[r].option]}
    <3>1. UNCHANGED Told
      BY <2>4 DEF Told
    <3>2. Acted' = Acted \cup {<<d, ask[r].option>>}
      <4> DEFINE claim == [of |-> d, index |-> ask[r].next, option |-> ask[r].option]
      <4>1. claim.of = d /\ claim.option = ask[r].option /\ effects' = effects \cup {claim}
        BY <2>4
      <4> HIDE DEF claim
      <4> QED BY <4>1 DEF Acted
    <3> QED BY <1>1, <2>1, <3>1, <3>2, StepsOfChoice
  <2> QED BY <1>3, <2>2, <2>3, <2>4 DEF ClaimEffect
<1> QED BY <1>2, <1>3

\* The other steps are stutters: a row is created, closed or expired without a
\* choice taken or changed, and a client is refused or told nothing.
LEMMA OtherSteps ==
  ASSUME ChoiceInv, NEW r \in Askers,
         \/ \E k \in Keys \cup {Nothing} :
              LookupKey(r, k) \/ \E d \in Decisions, o \in Options : LoadToDecide(r, d, o, k)
         \/ \E d \in Decisions : LoadToClose(r, d)
         \/ CountOpen(r) \/ LinkTargets(r) \/ RefuseInput(r) \/ AskFails(r)
         \/ InsertDecision(r) \/ ExpireDecision(r) \/ CancelDecision(r)
  PROVE  [Choice!Next]_(Choice!choiceVars)
<1>1. UNCHANGED effects
  BY DEF LookupKey, LoadToDecide, LoadToClose, CountOpen, LinkTargets, RefuseInput, AskFails,
         InsertDecision, ExpireDecision, CancelDecision
<1>2. UNCHANGED answers \/ Answer(r, FALSE)
  BY DEF LookupKey, LoadToDecide, LoadToClose, CountOpen, LinkTargets, RefuseInput, AskFails,
         InsertDecision, ExpireDecision, CancelDecision
<1>3. UNCHANGED Told
  BY <1>2, AnswersTell DEF Told
<1>4. /\ decision \in [Decisions -> Row]
      /\ ask[r].pc \in {"decide", "cancel"} => ask[r].on \in Decisions
  BY DEF ChoiceInv, DecisionsInv, DecisionTypes, AskFits
<1>5. UNCHANGED Taken
  <2>1. CASE UNCHANGED decision
    BY <2>1 DEF Taken
  <2>2. ASSUME NEW d \in Decisions, decision[d].status = "absent",
               decision' = [decision EXCEPT ![d] = [NoDecision EXCEPT !.status = "open",
                                                                     !.key = ask[r].key]]
        PROVE  UNCHANGED Taken
    BY <1>4, <2>2 DEF Taken, ChoiceInv, Unsettled, NoDecision
  <2>3. ASSUME NEW d \in Decisions, NEW s,
               decision' = [decision EXCEPT ![d].status = s]
        PROVE  UNCHANGED Taken
    BY <1>4, <2>3 DEF Taken, Row
  <2>4. CASE ExpireDecision(r)
    BY <1>4, <2>3, <2>4 DEF ExpireDecision
  <2>5. CASE CancelDecision(r)
    BY <1>4, <2>1, <2>3, <2>5 DEF CancelDecision
  <2>6. CASE InsertDecision(r)
    BY <2>1, <2>2, <2>6 DEF InsertDecision
  <2> QED BY <2>1, <2>4, <2>5, <2>6
          DEF LookupKey, LoadToDecide, LoadToClose, CountOpen, LinkTargets, RefuseInput, AskFails
<1> QED BY <1>1, <1>3, <1>5, StepsOfChoice DEF Acted

\* Decisions implements SettledChoice: of any number of requests to decide,
\* dismiss, cancel or expire a decision one settles it, for good; who is told that
\* a choice was accepted is told the one taken, and no effect of another choice is
\* claimed, before or after.
THEOREM DecisionsSettleOnce == DecisionsSpec => ChoiceSpec
<1>1. DecisionsInit => ChoiceInv
  BY DecisionsInitially
     DEF ChoiceInv, DecisionsInit, Unsettled, ReadSettled, SettledFor, NoDecision, Quiet
<1>2. DecisionsInit => Choice!Init
  BY DEF DecisionsInit, Choice!Init, NoDecision
<1>3. ChoiceInv /\ [DecisionsNext]_decisionVars => [Choice!Next]_(Choice!choiceVars)
  <2> SUFFICES ASSUME ChoiceInv, [DecisionsNext]_decisionVars
               PROVE  [Choice!Next]_(Choice!choiceVars)
    OBVIOUS
  <2>1. CASE UNCHANGED <<decision, effects, answers>>
    BY <2>1, StepsOfChoice DEF Taken, Told, Acted
  <2>2. CASE UNCHANGED decisionVars \/ \E d \in Decisions : PassDeadline(d)
    BY <2>1, <2>2 DEF decisionVars, PassDeadline
  <2>3. ASSUME NEW r \in Askers, Handle(r)
        PROVE  [Choice!Next]_(Choice!choiceVars)
    BY <2>3, SettlingStep, TellingStep, OtherSteps DEF Handle
  <2> QED BY <2>2, <2>3, OtherSteps DEF DecisionsNext
<1> QED BY <1>1, <1>2, <1>3, ChoiceSteps, PTL DEF DecisionsSpec, ChoiceSpec, Choice!Spec

-----------------------------------------------------------------------------
(* Summary slots.  What an execution of the job has still to finalize has  *)
(* ended (LeftEnded), whatever has become of the issue since.              *)

SlotTaskRow == [pc : {"resting", "probe", "insert", "upsert", "wake", "revise", "settle",
                      "finalize"},
                slot : Slots \cup {NoSlot}, draft : Drafts \cup {NoDraft}, left : SUBSET Drafts]

SlotTypes ==
  /\ slot \in [Slots -> [status : SlotStatuses, draft : Drafts \cup {NoDraft}]]
  /\ draftIssue \in [Drafts -> DraftStatuses]
  /\ slotTask \in [SlotTasks -> SlotTaskRow]
LeftEnded ==
  /\ \A g \in Drafts : draftIssue[g] \in Terminal => g \in ended
  /\ \A t \in SlotTasks : slotTask[t].left \subseteq ended
SlotsInv == SlotTypes /\ LeftEnded /\ FailedHasEnded

\* The invariant of SummarySlots holds of empty slots.
LEMMA SlotsInitially == SlotsInit => SlotsInv
BY DEF SlotsInit, SlotsInv, SlotTypes, LeftEnded, FailedHasEnded, SlotStatuses, DraftStatuses,
       SlotTaskRow, AtRestJob, Terminal

\* An action that changes the locals of one task, and a slot to a status that is
\* not "failed" if it changes one.
LEMMA SlotTurn ==
  ASSUME SlotsInv, NEW t \in SlotTasks, NEW k \in SlotTaskRow, k.left \subseteq ended,
         slotTask' = [slotTask EXCEPT ![t] = k],
         \/ UNCHANGED slot
         \/ \E s, row : /\ row \in [status : {"idle", "generating"}, draft : Drafts \cup {NoDraft}]
                        /\ slot' = [slot EXCEPT ![s] = row],
         UNCHANGED <<draftIssue, ended>>
  PROVE  SlotsInv'
BY DEF SlotsInv, SlotTypes, LeftEnded, FailedHasEnded, SlotStatuses

\* The statements of a request other than the INSERT of its draft keep the invariant.
LEMMA RequestsKeepSlots ==
  ASSUME SlotsInv, NEW t \in SlotTasks,
         \/ \E s \in Slots : Generate(t, s) \/ RequestRevision(t, s)
         \/ ProbeDraft(t) \/ RequestFails(t) \/ UpsertGenerating(t) \/ WakeWriter(t)
         \/ InsertRevision(t) \/ SettleIdle(t)
  PROVE  SlotsInv'
<1>1. slotTask[t] \in SlotTaskRow /\ slotTask[t].left \subseteq ended
  BY DEF SlotsInv, SlotTypes, LeftEnded
<1>2. AtRestJob \in SlotTaskRow /\ AtRestJob.left \subseteq ended
  BY DEF AtRestJob, SlotTaskRow
<1>3. ASSUME NEW s \in Slots, Generate(t, s) \/ RequestRevision(t, s)
      PROVE  SlotsInv'
  <2>1. /\ [AtRestJob EXCEPT !.pc = "insert", !.slot = s] \in SlotTaskRow
        /\ [AtRestJob EXCEPT !.pc = "insert", !.slot = s].left = {}
        /\ \A pc \in {"probe", "revise"} :
             /\ [AtRestJob EXCEPT !.pc = pc, !.slot = s, !.draft = slot[s].draft] \in SlotTaskRow
             /\ [AtRestJob EXCEPT !.pc = pc, !.slot = s, !.draft = slot[s].draft].left = {}
    BY DEF AtRestJob, SlotTaskRow, SlotsInv, SlotTypes
  <2> QED BY <1>2, <1>3, <2>1, SlotTurn DEF Generate, RequestRevision
<1>4. CASE RequestFails(t) \/ WakeWriter(t)
  BY <1>2, <1>4, SlotTurn DEF RequestFails, WakeWriter, Rest
<1>5. CASE InsertRevision(t)
  <2>1. [slotTask[t] EXCEPT !.pc = "settle"] \in SlotTaskRow
        /\ [slotTask[t] EXCEPT !.pc = "settle"].left \subseteq ended
    BY <1>1 DEF SlotTaskRow
  <2>2. slotTask' = [slotTask EXCEPT ![t] = [slotTask[t] EXCEPT !.pc = "settle"]]
    BY <1>5 DEF InsertRevision, Move
  <2> QED BY <1>5, <2>1, <2>2, SlotTurn DEF InsertRevision
<1>6. CASE UpsertGenerating(t)
  <2>1. [slotTask[t] EXCEPT !.pc = "wake"] \in SlotTaskRow
        /\ [slotTask[t] EXCEPT !.pc = "wake"].left \subseteq ended
    BY <1>1 DEF SlotTaskRow
  <2>2. slotTask' = [slotTask EXCEPT ![t] = [slotTask[t] EXCEPT !.pc = "wake"]]
    BY <1>6 DEF UpsertGenerating, Move
  <2>3. [status |-> "generating", draft |-> slotTask[t].draft]
          \in [status : {"idle", "generating"}, draft : Drafts \cup {NoDraft}]
    BY <1>1 DEF SlotTaskRow
  <2> QED BY <1>6, <2>1, <2>2, <2>3, SlotTurn DEF UpsertGenerating
<1>7. CASE SettleIdle(t)
  <2> DEFINE s == slotTask[t].slot
             row == [slot[s] EXCEPT !.status = "idle"]
  <2>1. CASE s \in Slots
    <3>1. row \in [status : {"idle", "generating"}, draft : Drafts \cup {NoDraft}]
      BY <2>1 DEF SlotsInv, SlotTypes
    <3>2. slot' = [slot EXCEPT ![s] = row]
      BY <1>7, <2>1 DEF SettleIdle, SlotsInv, SlotTypes
    <3> QED BY <1>2, <1>7, <3>1, <3>2, SlotTurn DEF SettleIdle, Rest
  <2>2. CASE s \notin Slots
    <3>1. UNCHANGED slot
      BY <1>7, <2>2 DEF SettleIdle, SlotsInv, SlotTypes
    <3> QED BY <1>2, <1>7, <3>1, SlotTurn DEF SettleIdle, Rest
  <2> QED BY <2>1, <2>2
<1>8. CASE ProbeDraft(t)
  <2>1. /\ [AtRestJob EXCEPT !.pc = "insert", !.slot = slotTask[t].slot] \in SlotTaskRow
        /\ [AtRestJob EXCEPT !.pc = "insert", !.slot = slotTask[t].slot].left = {}
    BY <1>1 DEF AtRestJob, SlotTaskRow
  <2> QED BY <1>2, <1>8, <2>1, SlotTurn DEF ProbeDraft, Rest
<1> QED BY <1>3, <1>4, <1>5, <1>6, <1>7, <1>8

\* A new draft issue has not ended and no slot waits for it yet.
LEMMA InsertDraftKeeps ==
  ASSUME SlotsInv, NEW t \in SlotTasks, InsertDraft(t)
  PROVE  SlotsInv'
<1>1. PICK g \in Drafts : /\ draftIssue' = [draftIssue EXCEPT ![g] = "open"]
                          /\ slotTask' = [slotTask EXCEPT ![t].pc = "upsert", ![t].draft = g]
  BY DEF InsertDraft
<1> DEFINE next == [slotTask[t] EXCEPT !.pc = "upsert", !.draft = g]
<1>2. next \in SlotTaskRow /\ next.left = slotTask[t].left
  BY DEF SlotsInv, SlotTypes, SlotTaskRow
<1>3. slotTask' = [slotTask EXCEPT ![t] = next]
  BY <1>1 DEF SlotsInv, SlotTypes
<1>4. UNCHANGED <<slot, ended>>
  BY DEF InsertDraft
<1>5. SlotTypes'
  BY <1>1, <1>2, <1>3, <1>4 DEF SlotsInv, SlotTypes, DraftStatuses
<1>6. LeftEnded'
  BY <1>1, <1>2, <1>3, <1>4 DEF SlotsInv, SlotTypes, LeftEnded, Terminal
<1> QED BY <1>4, <1>5, <1>6 DEF SlotsInv, FailedHasEnded

\* The scan of the finalizer and its guarded UPDATE keep the invariant.
LEMMA FinalizerKeeps ==
  ASSUME SlotsInv, NEW t \in SlotTasks, StartFinalizer(t) \/ FinalizeDraft(t)
  PROVE  SlotsInv'
<1>1. ASSUME NEW left \in SUBSET Drafts, left \subseteq ended, FinalizeNext(t, left)
      PROVE  \E k \in SlotTaskRow : /\ k.left \subseteq ended
                                    /\ slotTask' = [slotTask EXCEPT ![t] = k]
  <2>1. AtRestJob \in SlotTaskRow /\ AtRestJob.left = {}
        /\ [AtRestJob EXCEPT !.pc = "finalize", !.left = left] \in SlotTaskRow
        /\ [AtRestJob EXCEPT !.pc = "finalize", !.left = left].left = left
    BY DEF AtRestJob, SlotTaskRow
  <2> QED BY <1>1, <2>1 DEF FinalizeNext
<1>2. CASE StartFinalizer(t)
  <2> DEFINE left == {g \in Drafts : /\ draftIssue[g] \in Terminal
                                     /\ \E s \in Slots : /\ slot[s].draft = g
                                                         /\ slot[s].status = "generating"}
  <2>1. left \subseteq ended /\ FinalizeNext(t, left) /\ UNCHANGED <<slot, draftIssue, ended>>
    BY <1>2 DEF StartFinalizer, SlotsInv, LeftEnded
  <2> QED BY <1>1, <2>1, SlotTurn
<1>3. CASE FinalizeDraft(t)
  <2>1. PICK g \in slotTask[t].left :
          /\ slot' = [s \in Slots |->
                        IF slot[s].draft = g /\ slot[s].status = "generating"
                        THEN [slot[s] EXCEPT !.status = "failed"] ELSE slot[s]]
          /\ FinalizeNext(t, slotTask[t].left \ {g})
    BY <1>3 DEF FinalizeDraft
  <2>2. g \in ended /\ slotTask[t].left \ {g} \in SUBSET Drafts
        /\ slotTask[t].left \ {g} \subseteq ended
    BY DEF SlotsInv, SlotTypes, SlotTaskRow, LeftEnded
  <2>3. PICK k \in SlotTaskRow : k.left \subseteq ended /\ slotTask' = [slotTask EXCEPT ![t] = k]
    BY <1>1, <2>1, <2>2
  <2>4. UNCHANGED <<draftIssue, ended>>
    BY <1>3 DEF FinalizeDraft
  <2>5. SlotTypes' /\ LeftEnded'
    BY <2>1, <2>3, <2>4 DEF SlotsInv, SlotTypes, LeftEnded, SlotStatuses
  <2>6. FailedHasEnded'
    BY <2>1, <2>2, <2>4 DEF SlotsInv, SlotTypes, FailedHasEnded
  <2> QED BY <2>5, <2>6 DEF SlotsInv
<1> QED BY <1>2, <1>3

\* An issue that the API moves may end, and an end is remembered.
LEMMA MoveDraftKeeps ==
  ASSUME SlotsInv, NEW g \in Drafts, MoveDraft(g)
  PROVE  SlotsInv'
BY DEF MoveDraft, SlotsInv, SlotTypes, LeftEnded, FailedHasEnded, DraftStatuses

\* Every step of SummarySlots keeps its invariant.
LEMMA SlotsSteps == SlotsInv /\ [SlotsNext]_slotVars => SlotsInv'
<1>1. SlotsInv /\ UNCHANGED slotVars => SlotsInv'
  BY DEF slotVars, SlotsInv, SlotTypes, LeftEnded, FailedHasEnded
<1> QED BY <1>1, RequestsKeepSlots, InsertDraftKeeps, FinalizerKeeps, MoveDraftKeeps
        DEF SlotsNext, RequestStep

\* However late an execution of the finalizer is, it does not fail a generation
\* that has not ended.
THEOREM NoLiveGenerationFails == SlotsSpec => []FailedHasEnded
<1>1. SlotsInv => FailedHasEnded
  BY DEF SlotsInv
<1> QED BY <1>1, SlotsInitially, SlotsSteps, PTL DEF SlotsSpec

(* A generation belongs to one slot: the slot that waits for it, the one it *)
(* has written to, and the one that a request in flight names with it are   *)
(* the same (OneSlot), and no slot is named with a generation that is not   *)
(* made yet (NamedIsMade).                                                  *)

NamedFor(g, s) ==
  \/ slot[s].draft = g
  \/ g \in revisions[s]
  \/ \E t \in SlotTasks : slotTask[t].draft = g /\ slotTask[t].slot = s
NamedIsMade == \A g \in Drafts, s \in Slots : NamedFor(g, s) => draftIssue[g] # "absent"
OneSlot == \A g \in Drafts, s, u \in Slots : NamedFor(g, s) /\ NamedFor(g, u) => s = u
OwnersInv ==
  /\ SlotsInv /\ revisions \in [Slots -> SUBSET Drafts]
  /\ (\A t \in SlotTasks : slotTask[t].pc \in {"revise", "upsert"} => slotTask[t].draft \in Drafts)
  /\ NamedIsMade /\ OneSlot

\* A step after which a generation is named with no other slot than before.
NamesKept == \A g \in Drafts, s \in Slots : NamedFor(g, s)' => NamedFor(g, s)

\* Such a step keeps the owners, if the types hold and no issue is deleted.
LEMMA OwnersStay ==
  ASSUME OwnersInv, SlotsInv', NamesKept,
         revisions' \in [Slots -> SUBSET Drafts],
         \A t \in SlotTasks :
           slotTask'[t].pc \in {"revise", "upsert"} => slotTask'[t].draft \in Drafts,
         \A g \in Drafts : draftIssue[g] # "absent" => draftIssue'[g] # "absent"
  PROVE  OwnersInv'
<1>1. NamedIsMade'
  BY DEF OwnersInv, NamedIsMade, NamesKept
<1>2. OneSlot'
  BY DEF OwnersInv, OneSlot, NamesKept
<1> QED BY <1>1, <1>2 DEF OwnersInv

\* A step that changes one task, which then names its generation and slot only as
\* they were named before.
LEMMA TurnKeepsOwners ==
  ASSUME OwnersInv, SlotsInv', NEW t \in SlotTasks, NEW k \in SlotTaskRow,
         slotTask' = [slotTask EXCEPT ![t] = k],
         k.pc \in {"revise", "upsert"} => k.draft \in Drafts,
         k.draft \in Drafts /\ k.slot \in Slots => NamedFor(k.draft, k.slot),
         \A g \in Drafts, s \in Slots : slot'[s].draft = g => NamedFor(g, s),
         \A g \in Drafts, s \in Slots : g \in revisions'[s] => NamedFor(g, s),
         revisions' \in [Slots -> SUBSET Drafts],
         UNCHANGED draftIssue
  PROVE  OwnersInv'
<1>1. slotTask \in [SlotTasks -> SlotTaskRow]
  BY DEF OwnersInv, SlotsInv, SlotTypes
<1>2. \A u \in SlotTasks : slotTask'[u] = IF u = t THEN k ELSE slotTask[u]
  BY <1>1
<1>3. NamesKept
  BY <1>2 DEF NamesKept, NamedFor
<1> QED BY <1>2, <1>3, OwnersStay DEF OwnersInv

\* The statements of requests name a generation with the slot they were asked for.
LEMMA RequestsKeepOwners ==
  ASSUME OwnersInv, SlotsInv', NEW t \in SlotTasks,
         \/ \E s \in Slots : Generate(t, s) \/ RequestRevision(t, s)
         \/ ProbeDraft(t) \/ RequestFails(t) \/ UpsertGenerating(t) \/ WakeWriter(t)
         \/ InsertRevision(t) \/ SettleIdle(t)
  PROVE  OwnersInv'
<1>1. /\ slotTask \in [SlotTasks -> SlotTaskRow]
      /\ slot \in [Slots -> [status : SlotStatuses, draft : Drafts \cup {NoDraft}]]
      /\ revisions \in [Slots -> SUBSET Drafts]
      /\ slotTask[t].pc \in {"revise", "upsert"} => slotTask[t].draft \in Drafts
  BY DEF OwnersInv, SlotsInv, SlotTypes
<1>2. /\ \A g \in Drafts, s \in Slots : slot[s].draft = g \/ g \in revisions[s] => NamedFor(g, s)
      /\ slotTask[t].draft \in Drafts /\ slotTask[t].slot \in Slots =>
           NamedFor(slotTask[t].draft, slotTask[t].slot)
  BY DEF NamedFor
<1>3. AtRestJob \in SlotTaskRow /\ AtRestJob.pc = "resting" /\ AtRestJob.draft \notin Drafts
  BY SlotsAssumption DEF AtRestJob, SlotTaskRow
<1>4. ASSUME NEW s \in Slots, Generate(t, s)
      PROVE  OwnersInv'
  <2> DEFINE k == [AtRestJob EXCEPT !.pc = "insert", !.slot = s]
             p == [AtRestJob EXCEPT !.pc = "probe", !.slot = s, !.draft = slot[s].draft]
  <2>1. k \in SlotTaskRow /\ k.pc = "insert" /\ k.draft \notin Drafts
    BY SlotsAssumption DEF AtRestJob, SlotTaskRow
  <2>2. p \in SlotTaskRow /\ p.pc = "probe" /\ p.draft = slot[s].draft /\ p.slot = s
    BY <1>1 DEF AtRestJob, SlotTaskRow
  <2>3. UNCHANGED <<slot, revisions, draftIssue>>
    BY <1>4 DEF Generate
  <2>4. slotTask' = [slotTask EXCEPT ![t] = p] \/ slotTask' = [slotTask EXCEPT ![t] = k]
    BY <1>4 DEF Generate
  <2> HIDE DEF k, p
  <2>5. CASE slotTask' = [slotTask EXCEPT ![t] = k]
    BY <1>1, <1>2, <2>1, <2>3, <2>5, TurnKeepsOwners
  <2>6. CASE slotTask' = [slotTask EXCEPT ![t] = p]
    BY <1>1, <1>2, <2>2, <2>3, <2>6, TurnKeepsOwners
  <2> QED BY <2>4, <2>5, <2>6
<1>5. ASSUME NEW s \in Slots, RequestRevision(t, s)
      PROVE  OwnersInv'
  <2> DEFINE k == [AtRestJob EXCEPT !.pc = "revise", !.slot = s, !.draft = slot[s].draft]
  <2>1. k \in SlotTaskRow /\ k.draft = slot[s].draft /\ k.slot = s /\ k.draft \in Drafts
    BY <1>1, <1>5 DEF RequestRevision, AtRestJob, SlotTaskRow
  <2>2. UNCHANGED <<slot, revisions, draftIssue>> /\ slotTask' = [slotTask EXCEPT ![t] = k]
    BY <1>5 DEF RequestRevision
  <2> HIDE DEF k
  <2> QED BY <1>1, <1>2, <2>1, <2>2, TurnKeepsOwners
<1>6. CASE RequestFails(t) \/ WakeWriter(t)
  BY <1>1, <1>2, <1>3, <1>6, TurnKeepsOwners DEF RequestFails, WakeWriter, Rest
<1>7. CASE UpsertGenerating(t)
  <2> DEFINE k == [slotTask[t] EXCEPT !.pc = "wake"]
  <2>1. k \in SlotTaskRow /\ k.pc = "wake" /\ k.draft = slotTask[t].draft
        /\ k.slot = slotTask[t].slot
    BY <1>1 DEF SlotTaskRow
  <2>2. slotTask' = [slotTask EXCEPT ![t] = k] /\ UNCHANGED <<revisions, draftIssue>>
    BY <1>7 DEF UpsertGenerating, Move
  <2>3. \A g \in Drafts, s \in Slots : slot'[s].draft = g => NamedFor(g, s)
    BY <1>1, <1>2, <1>7 DEF UpsertGenerating
  <2> HIDE DEF k
  <2> QED BY <1>1, <1>2, <2>1, <2>2, <2>3, TurnKeepsOwners
<1>8. CASE InsertRevision(t)
  <2> DEFINE k == [slotTask[t] EXCEPT !.pc = "settle"]
  <2>1. k \in SlotTaskRow /\ k.pc = "settle" /\ k.draft = slotTask[t].draft
        /\ k.slot = slotTask[t].slot
    BY <1>1 DEF SlotTaskRow
  <2>2. slotTask' = [slotTask EXCEPT ![t] = k] /\ UNCHANGED <<slot, draftIssue>>
    BY <1>8 DEF InsertRevision, Move
  <2>3. revisions' \in [Slots -> SUBSET Drafts]
        /\ \A g \in Drafts, s \in Slots : g \in revisions'[s] => NamedFor(g, s)
    BY <1>1, <1>2, <1>8 DEF InsertRevision
  <2> HIDE DEF k
  <2> QED BY <1>1, <1>2, <2>1, <2>2, <2>3, TurnKeepsOwners
<1>9. CASE SettleIdle(t)
  <2>1. \A s \in Slots : slot'[s].draft = slot[s].draft
    BY <1>1, <1>9 DEF SettleIdle
  <2>2. slotTask' = [slotTask EXCEPT ![t] = AtRestJob] /\ UNCHANGED <<revisions, draftIssue>>
    BY <1>9 DEF SettleIdle, Rest
  <2>3. \A g \in Drafts, s \in Slots : slot'[s].draft = g => NamedFor(g, s)
    BY <1>2, <2>1
  <2> QED BY <1>1, <1>2, <1>3, <2>2, <2>3, TurnKeepsOwners
<1>10. CASE ProbeDraft(t)
  <2> DEFINE k == [AtRestJob EXCEPT !.pc = "insert", !.slot = slotTask[t].slot]
  <2>1. slotTask[t] \in SlotTaskRow
    BY <1>1
  <2>2. k \in SlotTaskRow /\ k.pc = "insert" /\ k.draft \notin Drafts
    BY <2>1, SlotsAssumption DEF AtRestJob, SlotTaskRow
  <2>3. UNCHANGED <<slot, revisions, draftIssue>>
    BY <1>10 DEF ProbeDraft
  <2>4. slotTask' = [slotTask EXCEPT ![t] = AtRestJob] \/ slotTask' = [slotTask EXCEPT ![t] = k]
    BY <1>10 DEF ProbeDraft, Rest
  <2> HIDE DEF k
  <2> QED BY <1>1, <1>2, <1>3, <2>2, <2>3, <2>4, TurnKeepsOwners
<1> QED BY <1>4, <1>5, <1>6, <1>7, <1>8, <1>9, <1>10

\* A new generation is named with the slot of its request and with no other: no
\* one named it before it was made.
LEMMA InsertDraftOwned ==
  ASSUME OwnersInv, SlotsInv', NEW t \in SlotTasks, InsertDraft(t)
  PROVE  OwnersInv'
<1>1. PICK g \in Drafts : /\ draftIssue[g] = "absent"
                          /\ draftIssue' = [draftIssue EXCEPT ![g] = "open"]
                          /\ slotTask' = [slotTask EXCEPT ![t].pc = "upsert", ![t].draft = g]
  BY DEF InsertDraft
<1>2. UNCHANGED <<slot, revisions>>
  BY DEF InsertDraft
<1>3. /\ slotTask \in [SlotTasks -> SlotTaskRow] /\ draftIssue \in [Drafts -> DraftStatuses]
      /\ revisions \in [Slots -> SUBSET Drafts]
  BY DEF OwnersInv, SlotsInv, SlotTypes
<1>4. /\ slotTask'[t].draft = g /\ slotTask'[t].slot = slotTask[t].slot
      /\ \A u \in SlotTasks : u # t => slotTask'[u] = slotTask[u]
  BY <1>1, <1>3 DEF SlotTaskRow
<1>5. \A s \in Slots : ~NamedFor(g, s)
  BY <1>1 DEF OwnersInv, NamedIsMade
<1>6. \A h \in Drafts, s \in Slots :
        NamedFor(h, s)' => (NamedFor(h, s) /\ h # g) \/ (h = g /\ s = slotTask[t].slot)
  BY <1>2, <1>4, <1>5 DEF NamedFor
<1>7. \A h \in Drafts : h # g => draftIssue'[h] = draftIssue[h]
  BY <1>1, <1>3
<1>8. draftIssue'[g] = "open"
  BY <1>1, <1>3
<1>9. NamedIsMade'
  BY <1>6, <1>7, <1>8 DEF OwnersInv, NamedIsMade
<1>10. OneSlot'
  BY <1>6 DEF OwnersInv, OneSlot
<1>11. \A u \in SlotTasks :
         slotTask'[u].pc \in {"revise", "upsert"} => slotTask'[u].draft \in Drafts
  BY <1>4 DEF OwnersInv
<1> QED BY <1>2, <1>3, <1>9, <1>10, <1>11 DEF OwnersInv

\* The finalizer and the issue API name no generation with a slot.
LEMMA OthersKeepOwners ==
  ASSUME OwnersInv, SlotsInv',
         \/ \E t \in SlotTasks : StartFinalizer(t) \/ FinalizeDraft(t)
         \/ \E g \in Drafts : MoveDraft(g)
         \/ UNCHANGED slotVars
  PROVE  OwnersInv'
<1>1. /\ slot \in [Slots -> [status : SlotStatuses, draft : Drafts \cup {NoDraft}]]
      /\ slotTask \in [SlotTasks -> SlotTaskRow] /\ draftIssue \in [Drafts -> DraftStatuses]
  BY DEF OwnersInv, SlotsInv, SlotTypes
<1>2. ASSUME NEW t \in SlotTasks, StartFinalizer(t) \/ FinalizeDraft(t)
      PROVE  OwnersInv'
  <2>1. PICK left : FinalizeNext(t, left)
    BY <1>2 DEF StartFinalizer, FinalizeDraft
  <2> DEFINE k == IF left = {} THEN AtRestJob ELSE [AtRestJob EXCEPT !.pc = "finalize", !.left = left]
  <2>2. k.pc \notin {"revise", "upsert"} /\ k.draft \notin Drafts
    BY SlotsAssumption DEF AtRestJob
  <2>3. slotTask' = [slotTask EXCEPT ![t] = k]
    BY <2>1 DEF FinalizeNext
  <2> HIDE DEF k
  <2>4. \A u \in SlotTasks : slotTask'[u] = IF u = t THEN k ELSE slotTask[u]
    BY <1>1, <2>3
  <2>5. (\A s \in Slots : slot'[s].draft = slot[s].draft) /\ UNCHANGED <<revisions, draftIssue>>
    BY <1>1, <1>2 DEF StartFinalizer, FinalizeDraft
  <2>6. NamesKept
    BY <2>2, <2>4, <2>5 DEF NamesKept, NamedFor
  <2> QED BY <2>2, <2>4, <2>5, <2>6, OwnersStay DEF OwnersInv
<1>3. ASSUME NEW g \in Drafts, MoveDraft(g)
      PROVE  OwnersInv'
  <2>1. UNCHANGED <<slot, revisions, slotTask>>
    BY <1>3 DEF MoveDraft
  <2>2. NamesKept
    BY <2>1 DEF NamesKept, NamedFor
  <2>3. \A h \in Drafts : draftIssue[h] # "absent" => draftIssue'[h] # "absent"
    BY <1>1, <1>3 DEF MoveDraft
  <2> QED BY <2>1, <2>2, <2>3, OwnersStay DEF OwnersInv
<1>4. CASE UNCHANGED slotVars
  <2>1. NamesKept
    BY <1>4 DEF slotVars, NamesKept, NamedFor
  <2> QED BY <1>4, <2>1, OwnersStay DEF slotVars, OwnersInv
<1> QED BY <1>2, <1>3, <1>4

\* A summary is written to one slot by its generation, whatever generations,
\* writes and executions of the finalizer overlap, for any number of slots.
THEOREM GenerationsWriteOneSlot == SlotsSpec => []WritesOneSlot
<1>1. SlotsInit => OwnersInv
  <2> SUFFICES ASSUME SlotsInit PROVE OwnersInv
    OBVIOUS
  <2>1. \A g \in Drafts, s \in Slots : ~NamedFor(g, s)
    BY SlotsAssumption DEF SlotsInit, NamedFor, AtRestJob
  <2> QED BY <2>1, SlotsInitially DEF SlotsInit, OwnersInv, NamedIsMade, OneSlot, AtRestJob
<1>2. OwnersInv /\ [SlotsNext]_slotVars => OwnersInv'
  <2> SUFFICES ASSUME OwnersInv, [SlotsNext]_slotVars PROVE OwnersInv'
    OBVIOUS
  <2>1. SlotsInv'
    BY SlotsSteps DEF OwnersInv
  <2> QED BY <2>1, RequestsKeepOwners, InsertDraftOwned, OthersKeepOwners DEF SlotsNext, RequestStep
<1>3. OwnersInv => WritesOneSlot
  <2> SUFFICES ASSUME OwnersInv, NEW s \in Slots, NEW u \in Slots, NEW g \in revisions[s],
                      g \in revisions[u] \/ slot[u].draft = g
               PROVE  u = s
    BY DEF WritesOneSlot
  <2>1. g \in Drafts
    BY DEF OwnersInv
  <2> QED BY <2>1 DEF OwnersInv, OneSlot, NamedFor
<1> QED BY <1>1, <1>2, <1>3, PTL DEF SlotsSpec

-----------------------------------------------------------------------------
(* Issue documents.  With unique numbers the number of a revision is its   *)
(* position (Numbered), so the newest revision is the last one.  A PUT     *)
(* that has passed its check holds the lock of the key, and what was       *)
(* appended since to its document is of restores and of runs (Current):    *)
(* another PUT of the document would hold the same key (LinksApart,        *)
(* OneHolder).                                                             *)

Revision == [number : Nat, base : Nat, blind : BOOLEAN]
WriterRow == [pc : {"rest", "begin", "check", "create", "number", "commit", "restore", "write"},
              key : DocKeys \cup {NoDoc}, doc : Documents \cup {NoDoc}, base : Nat, number : Nat]

DocumentTypes ==
  /\ linkOf \in [DocKeys -> Documents \cup {NoDoc}]
  /\ docs \in [Documents -> Seq(Revision)]
  /\ writer \in [Writers -> WriterRow]
Numbered == \A d \in Documents : \A i \in 1..Len(docs[d]) : docs[d][i].number = i
LinksApart ==
  \A k \in DocKeys : linkOf[k] # NoDoc =>
    docs[linkOf[k]] # <<>> /\ \A l \in DocKeys : linkOf[l] = linkOf[k] => l = k
OneHolder ==
  \A k \in DocKeys : \A v, w \in Writers : Holds(v, k) /\ Holds(w, k) => v = w
BlindSince(revs, base) == base # 0 => \A j \in base + 1 .. Len(revs) : revs[j].blind
Placed(m) ==
  /\ m.pc \in {"begin", "check", "create", "number", "commit"} => m.key \in DocKeys
  /\ m.pc \in {"number", "commit", "restore", "write"} => m.doc \in Documents
  /\ m.pc = "check" => linkOf[m.key] # NoDoc
  /\ m.pc \in {"number", "commit"} => linkOf[m.key] = m.doc
Current(m) ==
  /\ m.pc \in {"number", "commit"} => BlindSince(docs[m.doc], m.base)
  /\ m.pc \in {"commit", "write"} => m.number \in 1 .. Len(docs[m.doc]) + 1
DocumentsInv ==
  /\ DocumentTypes /\ Numbered /\ LinksApart /\ OneHolder /\ NoEditLost
  /\ \A w \in Writers : Placed(writer[w]) /\ Current(writer[w])

\* Numbered revisions are counted: the maximum is how many there are.
LEMMA NumbersArePositions ==
  ASSUME DocumentTypes, Numbered, NEW d \in Documents
  PROVE  /\ Numbers(d) = 1..Len(docs[d])
         /\ MaxNumber(d) = Len(docs[d])
<1> DEFINE n == Len(docs[d])
<1>1. n \in Nat /\ DOMAIN docs[d] = 1..n
  BY DEF DocumentTypes
<1>2. Numbers(d) = 1..n
  BY <1>1 DEF Numbers, Numbered
<1>3. n \in 1..n \cup {0} /\ \A y \in 1..n \cup {0} : n >= y
  BY <1>1
<1>4. \A x \in 1..n \cup {0} : (\A y \in 1..n \cup {0} : x >= y) => x = n
  BY <1>1
<1>5. Max(1..n \cup {0}) = n
  BY <1>3, <1>4 DEF Max
<1> QED BY <1>2, <1>5 DEF MaxNumber

\* The invariant of IssueDocuments holds of the documents the model starts from.
LEMMA DocumentsInitially == DocumentsInit => DocumentsInv
BY DocumentsAssumption
   DEF DocumentsInit, DocumentsInv, DocumentTypes, Numbered, LinksApart, OneHolder, NoEditLost,
       Placed, Current, Holds, AtRest, WriterRow

\* A request goes on without a write: the new locals hold no lock that another
\* request has.
LEMMA WriterTurn ==
  ASSUME DocumentsInv, NEW w \in Writers, NEW m \in WriterRow, Write(w, m),
         Placed(m), Current(m),
         m.pc \in {"check", "number", "commit"} =>
           Holds(w, m.key) \/ Unlocked(m.key),
         UNCHANGED <<linkOf, docs>>
  PROVE  DocumentsInv'
<1>1. writer' = [writer EXCEPT ![w] = m] /\ writer'[w] = m
      /\ \A v \in Writers : v # w => writer'[v] = writer[v]
  BY DEF Write, DocumentsInv, DocumentTypes
<1>2. DocumentTypes'
  BY <1>1 DEF DocumentsInv, DocumentTypes
<1>3. OneHolder'
  BY <1>1 DEF DocumentsInv, OneHolder, Holds, Unlocked
<1>4. ASSUME NEW v \in Writers
      PROVE  Placed(writer[v])' /\ Current(writer[v])'
  BY <1>1 DEF DocumentsInv, Placed, Current, BlindSince
<1> QED BY <1>2, <1>3, <1>4 DEF DocumentsInv, Numbered, LinksApart, NoEditLost

\* A writer at rest claims nothing about a document.
LEMMA RestIsPlaced ==
  AtRest \in WriterRow /\ Placed(AtRest) /\ Current(AtRest)
BY DEF AtRest, WriterRow, Placed, Current

\* Accepting a PUT, a restore or the summary of a run changes no document.
LEMMA RequestsAccepted ==
  ASSUME DocumentsInv, NEW w \in Writers, NEW k \in DocKeys,
         RequestPut(w, k) \/ RequestRestore(w, k) \/ RefreshSummary(w, k)
  PROVE  DocumentsInv'
<1>1. CASE RequestPut(w, k)
  <2>1. PICK base \in {0} \cup (IF linkOf[k] = NoDoc THEN {} ELSE DOMAIN docs[linkOf[k]]) :
          Write(w, [AtRest EXCEPT !.pc = "begin", !.key = k, !.base = base,
                                  !.doc = IF base = 0 THEN NoDoc ELSE linkOf[k]])
    BY <1>1 DEF RequestPut
  <2>2. base \in Nat /\ (IF base = 0 THEN NoDoc ELSE linkOf[k]) \in Documents \cup {NoDoc}
    <3>1. linkOf[k] \in Documents => DOMAIN docs[linkOf[k]] \subseteq Nat
      BY DEF DocumentsInv, DocumentTypes
    <3> QED BY <3>1 DEF DocumentsInv, DocumentTypes
  <2> DEFINE m == [AtRest EXCEPT !.pc = "begin", !.key = k, !.base = base,
                                 !.doc = IF base = 0 THEN NoDoc ELSE linkOf[k]]
  <2>3. m \in WriterRow /\ m.pc = "begin" /\ m.key = k
    BY <2>2 DEF AtRest, WriterRow
  <2>4. Placed(m) /\ Current(m)
    BY <2>3 DEF Placed, Current
  <2> QED BY <1>1, <2>1, <2>3, <2>4, WriterTurn DEF RequestPut
<1>2. CASE RequestRestore(w, k)
  <2> DEFINE m == [AtRest EXCEPT !.pc = "restore", !.key = k, !.doc = linkOf[k]]
  <2>1. linkOf[k] \in Documents
    BY <1>2 DEF RequestRestore, DocumentsInv, DocumentTypes
  <2>2. m \in WriterRow /\ m.pc = "restore" /\ m.doc = linkOf[k]
    BY <2>1 DEF AtRest, WriterRow
  <2>3. Placed(m) /\ Current(m)
    BY <2>1, <2>2 DEF Placed, Current
  <2> QED BY <1>2, <2>2, <2>3, WriterTurn DEF RequestRestore
<1>3. CASE RefreshSummary(w, k)
  <2> DEFINE pc == IF linkOf[k] = NoDoc THEN "create" ELSE "restore"
             m == [AtRest EXCEPT !.pc = pc, !.key = k, !.doc = linkOf[k]]
  <2>1. linkOf[k] \in Documents \cup {NoDoc} /\ (linkOf[k] # NoDoc => linkOf[k] \in Documents)
    BY DEF DocumentsInv, DocumentTypes
  <2>2. m \in WriterRow /\ m.pc = pc /\ m.key = k /\ m.doc = linkOf[k]
    BY <2>1 DEF AtRest, WriterRow
  <2>3. Placed(m) /\ Current(m) /\ m.pc \in {"create", "restore"}
    BY <2>1, <2>2 DEF Placed, Current
  <2>4. Write(w, m) /\ UNCHANGED <<linkOf, docs>>
    BY <1>3 DEF RefreshSummary
  <2> HIDE DEF m
  <2> QED BY <2>2, <2>3, <2>4, WriterTurn
<1> QED BY <1>1, <1>2, <1>3

\* The SELECT FOR UPDATE, the comparison with the base and a refusal keep the invariant.
LEMMA PutReads ==
  ASSUME DocumentsInv, NEW w \in Writers, LockKey(w) \/ CheckBase(w) \/ Refuse(w)
  PROVE  DocumentsInv'
<1> DEFINE k == writer[w].key
<1>1. writer[w] \in WriterRow /\ Placed(writer[w]) /\ Current(writer[w])
  BY DEF DocumentsInv, DocumentTypes
<1>2. CASE EndWrite(w) /\ UNCHANGED <<linkOf, docs>>
  BY <1>2, RestIsPlaced, WriterTurn DEF EndWrite, AtRest
<1>3. CASE LockKey(w) /\ ~EndWrite(w)
  <2>1. k \in DocKeys /\ Unlocked(k)
    BY <1>1, <1>3 DEF LockKey, Placed
  <2>2. ASSUME NEW pc \in {"check", "create"}, pc = "check" => linkOf[k] # NoDoc
        PROVE  LET m == [writer[w] EXCEPT !.pc = pc]
               IN m \in WriterRow /\ m.pc = pc /\ m.key = k /\ Placed(m) /\ Current(m)
    BY <1>1, <2>1, <2>2 DEF WriterRow, Placed, Current
  <2>3. PICK pc \in {"check", "create"} :
          /\ pc = "check" => linkOf[k] # NoDoc
          /\ Write(w, [writer[w] EXCEPT !.pc = pc])
    BY <1>3 DEF LockKey
  <2> QED BY <1>3, <2>1, <2>2, <2>3, WriterTurn DEF LockKey
<1>4. CASE CheckBase(w) /\ ~EndWrite(w)
  <2> DEFINE d == linkOf[k]
             m == [writer[w] EXCEPT !.pc = "number", !.doc = d]
  <2>1. k \in DocKeys /\ d \in Documents /\ Holds(w, k)
    BY <1>1, <1>4 DEF CheckBase, Placed, DocumentsInv, DocumentTypes, Holds
  <2>2. m \in WriterRow /\ m.pc = "number" /\ m.key = k /\ m.doc = d /\ m.base = writer[w].base
    BY <1>1, <2>1 DEF WriterRow
  <2>3. PICK newest \in Newest(d) :
          writer[w].base = 0 \/ <<writer[w].doc, writer[w].base>> = <<d, newest>>
    BY <1>4 DEF CheckBase
  <2>4. newest = Len(docs[d])
    BY <2>1, NumbersArePositions DEF Newest, DocumentsInv, Numbered, DocumentTypes
  <2>5. BlindSince(docs[d], writer[w].base)
    BY <2>1, <2>3, <2>4 DEF BlindSince, DocumentsInv, DocumentTypes
  <2>6. Placed(m) /\ Current(m)
    BY <2>1, <2>2, <2>5 DEF Placed, Current
  <2>7. Write(w, m) /\ UNCHANGED <<linkOf, docs>>
    BY <1>4 DEF CheckBase
  <2> QED BY <2>1, <2>2, <2>6, <2>7, WriterTurn
<1> QED BY <1>2, <1>3, <1>4 DEF LockKey, CheckBase, Refuse

\* A number taken from MAX + 1 is above every revision of that document, for now.
LEMMA Numbering ==
  ASSUME DocumentsInv, NEW w \in Writers, NumberRevision(w) \/ NumberRestore(w)
  PROVE  DocumentsInv'
<1> DEFINE d == writer[w].doc
<1>1. writer[w] \in WriterRow /\ Placed(writer[w]) /\ Current(writer[w])
  BY DEF DocumentsInv, DocumentTypes
<1>2. d \in Documents
  BY <1>1 DEF NumberRevision, NumberRestore, Placed
<1>3. MaxNumber(d) + 1 = Len(docs[d]) + 1 /\ Len(docs[d]) \in Nat
  BY <1>2, NumbersArePositions DEF DocumentsInv, DocumentTypes
<1>4. PICK pc \in {"commit", "write"} :
        /\ writer[w].pc = IF pc = "commit" THEN "number" ELSE "restore"
        /\ Write(w, [writer[w] EXCEPT !.pc = pc, !.number = MaxNumber(d) + 1])
        /\ UNCHANGED <<linkOf, docs>>
  BY DEF NumberRevision, NumberRestore
<1> DEFINE m == [writer[w] EXCEPT !.pc = pc, !.number = MaxNumber(d) + 1]
<1>5. m \in WriterRow /\ m.pc = pc /\ m.key = writer[w].key /\ m.doc = d
      /\ m.base = writer[w].base /\ m.number = Len(docs[d]) + 1
  <2>1. ASSUME NEW n \in Nat
        PROVE  LET k == [writer[w] EXCEPT !.pc = pc, !.number = n]
               IN  /\ k \in WriterRow /\ k.pc = pc /\ k.key = writer[w].key
                   /\ k.doc = d /\ k.base = writer[w].base /\ k.number = n
    BY <1>1 DEF WriterRow
  <2>2. MaxNumber(d) + 1 \in Nat
    BY <1>3
  <2> QED BY <1>3, <2>1, <2>2
<1>6. Placed(m) /\ Current(m)
  BY <1>1, <1>2, <1>3, <1>4, <1>5 DEF Placed, Current
<1>7. m.pc = "commit" => Holds(w, m.key)
  BY <1>4, <1>5 DEF Holds
<1> QED BY <1>4, <1>5, <1>6, <1>7, WriterTurn

\* What a commit does to the revisions of its document.
LEMMA RevisionAdded ==
  ASSUME DocumentsInv, UniqueNumbers, NEW d \in Documents, NEW base \in Nat,
         NEW blind \in BOOLEAN, NEW number \in 1 .. Len(docs[d]) + 1,
         BlindSince(docs[d], base), AddRevision(d, number, base, blind)
  PROVE  /\ docs' \in [Documents -> Seq(Revision)]
         /\ \A e \in Documents \ {d} : docs'[e] = docs[e]
         /\ \/ docs'[d] = docs[d]
            \/ /\ Len(docs'[d]) = Len(docs[d]) + 1
               /\ \A i \in 1..Len(docs[d]) : docs'[d][i] = docs[d][i]
               /\ docs'[d][Len(docs[d]) + 1].blind = blind
         /\ Numbered'
         /\ NoEditLost'
<1> DEFINE n == Len(docs[d])
           new == [number |-> number, base |-> base, blind |-> blind]
<1>1. docs[d] \in Seq(Revision) /\ n \in Nat /\ DOMAIN docs[d] = 1..n
      /\ docs \in [Documents -> Seq(Revision)]
  BY DEF DocumentsInv, DocumentTypes
<1>2. CASE number \in Numbers(d)
  BY <1>1, <1>2 DEF AddRevision, DocumentsInv, Numbered, NoEditLost
<1>3. CASE number \notin Numbers(d)
  <2>1. number = n + 1
    BY <1>1, <1>3, NumbersArePositions DEF DocumentsInv
  <2>2. docs' = [docs EXCEPT ![d] = Append(docs[d], new)]
    BY <1>3 DEF AddRevision
  <2>3. new \in Revision
    BY <1>1, <2>1 DEF Revision
  <2>4. /\ docs' \in [Documents -> Seq(Revision)]
        /\ docs'[d] = Append(docs[d], new)
        /\ \A e \in Documents \ {d} : docs'[e] = docs[e]
    BY <1>1, <2>2, <2>3
  <2>5. /\ Len(docs'[d]) = n + 1 /\ DOMAIN docs'[d] = 1 .. n + 1
        /\ \A i \in 1..n : docs'[d][i] = docs[d][i]
        /\ docs'[d][n + 1] = new
    BY <1>1, <2>3, <2>4
  <2>6. Numbered'
    <3>1. ASSUME NEW e \in Documents \ {d}, NEW i \in 1..Len(docs'[e])
          PROVE  docs'[e][i].number = i
      BY <2>4 DEF DocumentsInv, Numbered
    <3>2. ASSUME NEW i \in 1..Len(docs'[d])
          PROVE  docs'[d][i].number = i
      <4>1. CASE i \in 1..n
        BY <2>5, <4>1 DEF DocumentsInv, Numbered
      <4>2. CASE i = n + 1
        BY <2>1, <2>5, <4>2
      <4> QED BY <1>1, <2>5, <4>1, <4>2
    <3> QED BY <3>1, <3>2 DEF Numbered
  <2>7. NoEditLost'
    <3> SUFFICES ASSUME NEW e \in Documents, NEW i \in DOMAIN docs'[e], docs'[e][i].base # 0,
                        NEW j \in docs'[e][i].base + 1 .. i - 1
                 PROVE  docs'[e][j].blind
      BY DEF NoEditLost
    <3>1. CASE e # d
      BY <2>4, <3>1 DEF DocumentsInv, NoEditLost
    <3>2. CASE e = d /\ i \in 1..n
      <4>0. docs[d][i] \in Revision
        BY <1>1, <3>2
      <4>1. docs[d][i].base \in Nat
        BY <4>0 DEF Revision
      <4>2. j \in 1..n
        BY <1>1, <2>5, <3>2, <4>1
      <4> QED BY <1>1, <2>5, <3>2, <4>2 DEF DocumentsInv, NoEditLost
    <3>3. CASE e = d /\ i = n + 1
      <4>1. base # 0 /\ j \in base + 1 .. n /\ j \in 1..n
        BY <1>1, <2>5, <3>3
      <4> QED BY <1>1, <2>5, <3>3, <4>1 DEF BlindSince
    <3> QED BY <1>1, <2>5, <3>1, <3>2, <3>3
  <2> QED BY <2>4, <2>5, <2>6, <2>7
<1> QED BY <1>2, <1>3

\* A commit of a revision whose number nobody took meanwhile keeps the invariant.
LEMMA CommitKeeps ==
  ASSUME DocumentsInv, UniqueNumbers, NEW w \in Writers, CommitPut(w) \/ CommitRestore(w)
  PROVE  DocumentsInv'
<1> DEFINE m == writer[w]
           d == m.doc
           blind == m.pc = "write"
           base == IF blind THEN 0 ELSE m.base
<1>1. m \in WriterRow /\ Placed(m) /\ Current(m) /\ m.pc \in {"commit", "write"}
  BY DEF DocumentsInv, DocumentTypes, CommitPut, CommitRestore
<1>2. d \in Documents /\ m.number \in 1 .. Len(docs[d]) + 1 /\ base \in Nat
      /\ blind \in BOOLEAN /\ BlindSince(docs[d], base)
  BY <1>1 DEF Placed, Current, WriterRow, BlindSince
<1>3. AddRevision(d, m.number, base, blind) /\ Write(w, AtRest) /\ UNCHANGED linkOf
  BY DEF CommitPut, CommitRestore, EndWrite
<1>4. /\ docs' \in [Documents -> Seq(Revision)]
      /\ \A e \in Documents \ {d} : docs'[e] = docs[e]
      /\ \/ docs'[d] = docs[d]
         \/ /\ Len(docs'[d]) = Len(docs[d]) + 1
            /\ \A i \in 1..Len(docs[d]) : docs'[d][i] = docs[d][i]
            /\ docs'[d][Len(docs[d]) + 1].blind = blind
      /\ Numbered' /\ NoEditLost'
  BY <1>2, <1>3, RevisionAdded
<1>5. Len(docs[d]) \in Nat
  BY <1>2 DEF DocumentsInv, DocumentTypes
<1>6. writer' = [writer EXCEPT ![w] = AtRest] /\ writer'[w] = AtRest
      /\ \A v \in Writers : v # w => writer'[v] = writer[v]
  BY <1>3 DEF Write, DocumentsInv, DocumentTypes
<1>7. DocumentTypes'
  BY <1>3, <1>4, <1>6, RestIsPlaced DEF DocumentsInv, DocumentTypes
<1>8. OneHolder'
  BY <1>6 DEF DocumentsInv, OneHolder, Holds, AtRest
<1>9. LinksApart'
  <2>1. ASSUME NEW e \in Documents, docs[e] # <<>>
        PROVE  docs'[e] # <<>>
    BY <1>2, <1>4, <1>5, <2>1
  <2> QED BY <1>3, <2>1 DEF DocumentsInv, DocumentTypes, LinksApart
<1>10. ASSUME NEW v \in Writers
       PROVE  Placed(writer[v])' /\ Current(writer[v])'
  <2>1. CASE v = w
    BY <1>6, <2>1 DEF Placed, Current, AtRest
  <2>2. CASE v # w
    <3>1. writer'[v] = writer[v] /\ Placed(writer[v]) /\ Current(writer[v])
          /\ writer[v] \in WriterRow
      BY <1>6, <2>2 DEF DocumentsInv, DocumentTypes
    <3>2. Placed(writer[v])'
      BY <1>3, <3>1 DEF Placed
    <3>3. CASE writer[v].doc # d
      <4>1. writer[v].pc \in {"number", "commit", "write"} => docs'[writer[v].doc] = docs[writer[v].doc]
        BY <1>4, <3>1, <3>3 DEF Placed
      <4>2. Current(writer[v])'
        BY <3>1, <4>1 DEF Current, BlindSince
      <4> QED BY <3>2, <4>2
    <3>4. CASE writer[v].doc = d
      <4>1. ASSUME writer[v].pc \in {"number", "commit"}, ~blind
            PROVE  FALSE
        <5>1. writer[v].key \in DocKeys /\ m.key \in DocKeys
              /\ linkOf[m.key] = d /\ linkOf[writer[v].key] = d /\ d # NoDoc
          BY <1>1, <1>2, <3>1, <3>4, <4>1, DocumentsAssumption DEF Placed
        <5>2. writer[v].key = m.key
          BY <5>1 DEF DocumentsInv, LinksApart
        <5>3. Holds(v, m.key) /\ Holds(w, m.key)
          BY <1>1, <4>1, <5>2 DEF Holds
        <5> QED BY <2>2, <5>1, <5>3 DEF DocumentsInv, OneHolder
      <4>2. writer[v].pc \in {"number", "commit"} => BlindSince(docs'[d], writer[v].base)
        <5>1. SUFFICES ASSUME writer[v].pc \in {"number", "commit"}, writer[v].base # 0,
                              NEW j \in writer[v].base + 1 .. Len(docs'[d])
                       PROVE  docs'[d][j].blind
          BY <3>1 DEF BlindSince
        <5>2. BlindSince(docs[d], writer[v].base) /\ blind /\ writer[v].base \in Nat
          BY <3>1, <3>4, <4>1, <5>1 DEF Current, WriterRow
        <5>3. CASE j \in writer[v].base + 1 .. Len(docs[d])
          <6>1. j \in 1..Len(docs[d]) /\ docs[d][j].blind
            BY <1>5, <5>1, <5>2, <5>3 DEF BlindSince
          <6> QED BY <1>4, <6>1
        <5>4. CASE j = Len(docs[d]) + 1 /\ Len(docs'[d]) # Len(docs[d])
          BY <1>4, <5>2, <5>4
        <5> QED BY <1>4, <1>5, <5>1, <5>2, <5>3, <5>4
      <4>3. writer[v].pc \in {"commit", "write"} => writer[v].number \in 1 .. Len(docs'[d]) + 1
        BY <1>4, <1>5, <3>1, <3>4 DEF Current, WriterRow
      <4> QED BY <3>1, <3>2, <3>4, <4>2, <4>3 DEF Current
    <3> QED BY <3>3, <3>4
  <2> QED BY <2>1, <2>2
<1> QED BY <1>4, <1>7, <1>8, <1>9, <1>10 DEF DocumentsInv

\* A commit that creates the document of a key keeps the invariant.
LEMMA CommitCreateKeeps ==
  ASSUME DocumentsInv, UniqueNumbers, NEW w \in Writers, CommitCreate(w)
  PROVE  DocumentsInv'
<1> DEFINE k == writer[w].key
<1>1. k \in DocKeys /\ Write(w, AtRest)
  BY DEF CommitCreate, EndWrite, DocumentsInv, Placed
<1>2. CASE UNCHANGED <<linkOf, docs>>
  BY <1>1, <1>2, RestIsPlaced, WriterTurn DEF AtRest
<1>3. CASE linkOf[k] = NoDoc /\ ~UNCHANGED <<linkOf, docs>>
  <2>1. PICK d \in Documents : /\ docs[d] = <<>>
                               /\ linkOf' = [linkOf EXCEPT ![k] = d]
                               /\ AddRevision(d, 1, 0, FALSE)
    BY <1>3 DEF CommitCreate
  <2>2. Len(docs[d]) = 0 /\ BlindSince(docs[d], 0) /\ 1 \in 1 .. Len(docs[d]) + 1
    BY <2>1 DEF BlindSince
  <2>3. /\ docs' \in [Documents -> Seq(Revision)]
        /\ \A e \in Documents \ {d} : docs'[e] = docs[e]
        /\ docs'[d] = docs[d] \/ Len(docs'[d]) = 1
        /\ Numbered' /\ NoEditLost'
    <3>1. 0 \in Nat /\ FALSE \in BOOLEAN
      OBVIOUS
    <3>2. /\ docs' \in [Documents -> Seq(Revision)]
          /\ \A e \in Documents \ {d} : docs'[e] = docs[e]
          /\ docs'[d] = docs[d] \/ Len(docs'[d]) = Len(docs[d]) + 1
          /\ Numbered' /\ NoEditLost'
      BY <2>1, <2>2, <3>1, RevisionAdded
    <3> QED BY <2>2, <3>2
  <2>4. docs'[d] # docs[d] /\ docs'[d] # <<>>
    <3>1. Numbers(d) = {}
      BY <2>1 DEF Numbers
    <3> QED BY <2>1, <2>3, <3>1 DEF AddRevision, DocumentsInv, DocumentTypes
  <2>5. writer' = [writer EXCEPT ![w] = AtRest] /\ writer'[w] = AtRest
        /\ \A v \in Writers : v # w => writer'[v] = writer[v]
    BY <1>1 DEF Write, DocumentsInv, DocumentTypes
  <2>6. DocumentTypes'
    BY <1>1, <2>1, <2>3, <2>5, RestIsPlaced DEF DocumentsInv, DocumentTypes
  <2>7. OneHolder'
    BY <2>5 DEF DocumentsInv, OneHolder, Holds, AtRest
  <2>8. LinksApart'
    <3> SUFFICES ASSUME NEW l \in DocKeys, linkOf'[l] # NoDoc
                 PROVE  /\ docs'[linkOf'[l]] # <<>>
                        /\ \A j \in DocKeys : linkOf'[j] = linkOf'[l] => j = l
      BY DEF LinksApart
    <3>1. \A j \in DocKeys : linkOf[j] # d
      BY <2>1, DocumentsAssumption DEF DocumentsInv, LinksApart
    <3>2. linkOf'[k] = d /\ \A j \in DocKeys \ {k} : linkOf'[j] = linkOf[j]
      BY <1>1, <2>1 DEF DocumentsInv, DocumentTypes
    <3>3. CASE l = k
      BY <2>4, <3>1, <3>2, <3>3
    <3>4. CASE l # k
      <4>1. linkOf[l] \in Documents \ {d} /\ docs[linkOf[l]] # <<>>
        BY <3>1, <3>2, <3>4 DEF DocumentsInv, DocumentTypes, LinksApart
      <4> QED BY <2>3, <3>1, <3>2, <3>4, <4>1 DEF DocumentsInv, LinksApart
    <3> QED BY <3>3, <3>4
  <2>9. ASSUME NEW v \in Writers
        PROVE  Placed(writer[v])' /\ Current(writer[v])'
    <3>1. CASE v = w
      BY <2>5, <3>1 DEF Placed, Current, AtRest
    <3>2. CASE v # w
      <4>1. writer'[v] = writer[v] /\ Placed(writer[v]) /\ Current(writer[v])
            /\ writer[v] \in WriterRow
        BY <2>5, <3>2 DEF DocumentsInv, DocumentTypes
      <4>2. writer[v].pc \in {"check", "number", "commit"} =>
              writer[v].key # k /\ linkOf'[writer[v].key] = linkOf[writer[v].key]
        BY <1>1, <1>3, <2>1, <4>1, DocumentsAssumption DEF Placed, DocumentsInv, DocumentTypes
      <4>3. Placed(writer[v])'
        BY <4>1, <4>2 DEF Placed
      <4>4. writer[v].pc \in {"number", "commit"} => writer[v].doc # d
        BY <2>1, <4>1, DocumentsAssumption DEF Placed, DocumentsInv, LinksApart
      <4>5. Current(writer[v])'
        BY <2>2, <2>3, <4>1, <4>4 DEF Placed, Current, BlindSince, WriterRow
      <4> QED BY <4>3, <4>5
    <3> QED BY <3>1, <3>2
  <2> QED BY <2>3, <2>6, <2>7, <2>8, <2>9 DEF DocumentsInv
<1> QED BY <1>2, <1>3 DEF CommitCreate

\* A delete takes the link of a key away and keeps the invariant.
LEMMA DeleteDocumentKeeps ==
  ASSUME DocumentsInv, NEW w \in Writers, NEW k \in DocKeys, DeleteDocument(w, k)
  PROVE  DocumentsInv'
<1>1. linkOf' = [linkOf EXCEPT ![k] = NoDoc] /\ UNCHANGED <<docs, writer>> /\ Unlocked(k)
  BY DEF DeleteDocument
<1>2. DocumentTypes' /\ Numbered' /\ NoEditLost' /\ OneHolder'
  BY <1>1 DEF DocumentsInv, DocumentTypes, Numbered, NoEditLost, OneHolder, Holds
<1>3. LinksApart'
  BY <1>1 DEF DocumentsInv, DocumentTypes, LinksApart
<1>4. ASSUME NEW v \in Writers
      PROVE  Placed(writer[v])' /\ Current(writer[v])'
  BY <1>1 DEF DocumentsInv, DocumentTypes, Placed, Current, BlindSince, Unlocked, Holds
<1> QED BY <1>2, <1>3, <1>4 DEF DocumentsInv

\* Every step of IssueDocuments keeps its invariant if numbers are unique.
LEMMA DocumentsSteps ==
  ASSUME UniqueNumbers
  PROVE  DocumentsInv /\ [DocumentsNext]_docVars => DocumentsInv'
<1>1. DocumentsInv /\ UNCHANGED <<linkOf, docs, writer>> => DocumentsInv'
  BY DEF DocumentsInv, DocumentTypes, Numbered, LinksApart, OneHolder, NoEditLost, Placed, Current,
         BlindSince, Holds
<1>2. ASSUME NEW w \in Writers, NEW k \in DocKeys, LockDocument(w, k) \/ UnlockDocument(w, k)
      PROVE  UNCHANGED <<linkOf, docs, writer>>
  BY <1>2 DEF LockDocument, UnlockDocument
<1>3. DocumentsInv /\ DocumentsNext => DocumentsInv'
  BY <1>1, <1>2, RequestsAccepted, PutReads, Numbering, CommitKeeps, CommitCreateKeeps,
     DeleteDocumentKeeps DEF DocumentsNext, Put
<1> QED BY <1>1, <1>3 DEF docVars

\* Where the database refuses a revision number twice, of the PUTs that name
\* one revision as their base one is accepted, whatever other PUTs, restores,
\* summaries of runs and deletions do.
THEOREM EditsSurvive ==
  ASSUME UniqueNumbers
  PROVE  DocumentsSpec => []NoEditLost
<1>1. DocumentsInv => NoEditLost
  BY DEF DocumentsInv
<1> QED BY <1>1, DocumentsInitially, DocumentsSteps, PTL DEF DocumentsSpec

\* Where the database refuses a revision number twice, the numbers of a document
\* count its revisions in the order of their commits, without gap or repetition,
\* whatever PUTs, restores, summaries of runs, deletions and creations interleave.
THEOREM RevisionsAreNumbered ==
  ASSUME UniqueNumbers
  PROVE  DocumentsSpec => []RevisionsInOrder
<1>1. DocumentsInv => RevisionsInOrder
  BY DEF DocumentsInv, DocumentTypes, Numbered, RevisionsInOrder
<1> QED BY <1>1, DocumentsInitially, DocumentsSteps, PTL DEF DocumentsSpec
=============================================================================
