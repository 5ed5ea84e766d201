------------------------- MODULE StatusCards_proofs -------------------------
(***************************************************************************)
(* Theorems about StatusCards for every number of cards, generations,      *)
(* handlers and executions.                                                *)
(*                                                                         *)
(* A generation issue gets to a card in two statements: the INSERT of the  *)
(* issue and the UPDATE of the card.  Between them the issue belongs to    *)
(* the task that inserted it (ClaimsFresh): no card waits for it, no other *)
(* task has it, and it has delivered nothing.                              *)
(***************************************************************************)
EXTENDS StatusCardHistory, TLAPS

\* What the locals of a task name, where it has got to
OnCard(k) ==
  /\ k.pc \notin {"idle", "due", "stalled"} => k.card \in Cards
  /\ k.pc \in {"claim", "wake", "write_summary"} => k.gen \in Generations

Held(g) == \E c \in Cards : card[c].generation = g

OneHolder ==
  \A c, d \in Cards :
    card[c].generation # None /\ card[d].generation = card[c].generation => c = d
Made == \A g \in Generations : Held(g) \/ g \in delivered => genIssue[g] # "absent"
ClaimsFresh ==
  \A t \in Tasks : task[t].pc = "claim" =>
    LET g == task[t].gen
    IN /\ ~Held(g) /\ g \notin delivered /\ genIssue[g] # "absent"
       /\ \A u \in Tasks : task[u].pc = "claim" /\ task[u].gen = g => u = t
CardsInv ==
  TypeOK /\ (\A t \in Tasks : OnCard(task[t])) /\ OneHolder /\ Made /\ ClaimsFresh

-----------------------------------------------------------------------------
(* Steps that hand out no generation.                                      *)

\* Tasks go on, and none of them comes to a claim.
TasksGoOn ==
  /\ task' \in [Tasks -> TaskRow]
  /\ \A u \in Tasks :
       /\ OnCard(task'[u])
       /\ task'[u].pc = "claim" => task[u].pc = "claim" /\ task'[u].gen = task[u].gen
Counters ==
  /\ woken' \subseteq Generations
  /\ world' \in Nat /\ clock' \in Nat /\ received' \in Nat /\ dropped' \in Nat
\* The rows a step may leave: no card waits for a generation it did not wait for.
NothingBegun ==
  /\ card' \in [Cards -> Row]
  /\ \A c \in Cards : card'[c].generation \in {card[c].generation, None}

\* A step keeps the invariant if tasks go on from their own row, counters grow, no row
\* takes a generation and a summary is delivered only to a card that waits for it.
LEMMA Kept ==
  ASSUME CardsInv, TasksGoOn, Counters, NothingBegun,
         delivered' \subseteq Generations, \A g \in delivered' : g \in delivered \/ Held(g),
         UNCHANGED genIssue
  PROVE  CardsInv'
<1>1. TypeOK' /\ \A t \in Tasks : OnCard(task[t])'
  BY DEF CardsInv, TypeOK, TasksGoOn, Counters, NothingBegun, OnCard
<1>2. ASSUME NEW g \in Generations, Held(g)'
      PROVE  Held(g)
  BY <1>2, CardsAssumption DEF NothingBegun, Held
<1>3. OneHolder'
  BY DEF CardsInv, OneHolder, NothingBegun
<1>4. Made'
  BY <1>2 DEF CardsInv, Made
<1>5. ClaimsFresh'
  BY <1>2 DEF CardsInv, ClaimsFresh, TasksGoOn, OnCard
<1> QED BY <1>1, <1>3, <1>4, <1>5 DEF CardsInv

\* What the invariant says of one card, one issue and one task.
LEMMA Typed ==
  ASSUME CardsInv
  PROVE  /\ card \in [Cards -> Row] /\ task \in [Tasks -> TaskRow]
         /\ genIssue \in [Generations -> IssueStatuses]
         /\ \A t \in Tasks : task[t] \in TaskRow /\ OnCard(task[t])
         /\ \A c \in Cards : card[c] \in Row /\ CopyOf(c) \in Copy
         /\ NoRow \in Row /\ NoCopy \in Copy /\ Idle \in TaskRow /\ OnCard(Idle)
<1>1. NoCopy \in Copy
  BY DEF NoCopy, Copy, AllPolicies, Times, Never
<1>2. Idle \in TaskRow /\ OnCard(Idle)
  BY <1>1 DEF Idle, TaskRow, OnCard, Times, Never
<1>3. NoRow \in Row
  BY DEF NoRow, Row, AllPolicies, Times, Never
<1>4. ASSUME NEW c \in Cards
      PROVE  card[c] \in Row /\ CopyOf(c) \in Copy
  BY DEF CardsInv, TypeOK, CopyOf, Copy, Row
<1> QED BY <1>1, <1>2, <1>3, <1>4 DEF CardsInv, TypeOK

\* How the steps below change the locals of their task
LEMMA GoingOn ==
  ASSUME CardsInv, NEW t \in Tasks
  PROVE  /\ UNCHANGED task => TasksGoOn
         /\ \A k \in TaskRow : OnCard(k) /\ k.pc # "claim" /\ task' = [task EXCEPT ![t] = k]
              => TasksGoOn
         /\ Finish(t) => TasksGoOn
         /\ \A pc \in {"compile", "check", "insert", "evaluate", "wake"} :
              /\ task[t].card \in Cards /\ (pc = "wake" => task[t].gen \in Generations)
              /\ Goto(t, pc)
              => TasksGoOn
         /\ \A stalled \in SUBSET Generations : Continue(t, stalled) => TasksGoOn
<1>1. ASSUME NEW k \in TaskRow, OnCard(k), k.pc # "claim", task' = [task EXCEPT ![t] = k]
      PROVE  TasksGoOn
  BY <1>1, Typed DEF TasksGoOn
<1>2. CASE UNCHANGED task
  BY <1>2, Typed DEF TasksGoOn
<1>3. ASSUME Finish(t)
      PROVE  TasksGoOn
  <2> DEFINE k == [task[t] EXCEPT !.pc = "due", !.card = None, !.gen = None, !.row = NoCopy,
                                  !.seen = Never, !.at = 0]
  <2>1. k \in TaskRow /\ OnCard(k) /\ k.pc = "due"
    BY Typed, ZenonT(40) DEF TaskRow, OnCard, Times, Never
  <2>2. task' = [task EXCEPT ![t] = k] \/ task' = [task EXCEPT ![t] = Idle]
    BY <1>3, Typed DEF Finish
  <2> QED BY <1>1, <2>1, <2>2, Typed DEF Idle
<1>4. ASSUME NEW pc \in {"compile", "check", "insert", "evaluate", "wake"}, task[t].card \in Cards,
             pc = "wake" => task[t].gen \in Generations, Goto(t, pc)
      PROVE  TasksGoOn
  <2>1. LET k == [task[t] EXCEPT !.pc = pc]
        IN  k \in TaskRow /\ OnCard(k) /\ k.pc # "claim"
    BY <1>4, Typed DEF TaskRow, OnCard
  <2>2. task' = [task EXCEPT ![t] = [task[t] EXCEPT !.pc = pc]]
    BY <1>4, Typed DEF Goto
  <2> QED BY <1>1, <2>1, <2>2
<1>5. ASSUME NEW stalled \in SUBSET Generations, Continue(t, stalled)
      PROVE  TasksGoOn
  <2>1. LET k == [task[t] EXCEPT !.pc = "stalled", !.stalled = stalled]
        IN  k \in TaskRow /\ OnCard(k) /\ k.pc # "claim"
    BY Typed DEF TaskRow, OnCard
  <2>2. \/ task' = [task EXCEPT ![t] = Idle]
        \/ task' = [task EXCEPT ![t] = [task[t] EXCEPT !.pc = "stalled", !.stalled = stalled]]
    BY <1>5, Typed DEF Continue
  <2> QED BY <1>1, <2>1, <2>2, Typed DEF Idle
<1> QED BY <1>1, <1>2, <1>3, <1>4, <1>5

\* Steps that touch no counter, or accept one request, keep the counters typed.
LEMMA Counted ==
  ASSUME CardsInv
  PROVE  /\ UNCHANGED <<woken, world, clock, received, dropped>> => Counters
         /\ \A t \in Handlers : Receive(t) /\ UNCHANGED <<woken, world, clock, dropped>> => Counters
BY DEF CardsInv, TypeOK, Counters, Receive

\* A row that keeps its generation, or gives it up, begins none.
LEMMA RowKept ==
  ASSUME CardsInv
  PROVE  /\ UNCHANGED card => NothingBegun
         /\ \A c \in Cards, row \in Row :
              row.generation \in {card[c].generation, None} /\ card' = [card EXCEPT ![c] = row]
                => NothingBegun
BY Typed DEF NothingBegun

\* Accepting a patch, a generation or a write changes no card.
LEMMA RequestsKeep ==
  ASSUME CardsInv, NEW t \in Handlers, NEW c \in Cards,
         PatchCard(t, c) \/ RequestGeneration(t, c) \/ RequestWrite(t, c)
  PROVE  CardsInv'
<1>1. t \in Tasks
  BY DEF Tasks
<1>2. Counters
  BY Counted DEF PatchCard, RequestGeneration, RequestWrite
<1>3. clock \in Nat
  BY DEF CardsInv, TypeOK
<1>4. TasksGoOn
  <2>1. CASE PatchCard(t, c)
    <3>1. LET k == [Idle EXCEPT !.pc = "patch", !.op = "compile", !.card = c]
          IN  k \in TaskRow /\ OnCard(k) /\ k.pc # "claim"
      BY Typed DEF Idle, TaskRow, OnCard
    <3> QED BY <1>1, <2>1, <3>1, GoingOn DEF PatchCard
  <2>2. CASE RequestGeneration(t, c)
    <3>1. ASSUME NEW op \in {"compile", "refresh"}
          PROVE  LET k == [Idle EXCEPT !.pc = op, !.op = op, !.card = c]
                 IN  k \in TaskRow /\ OnCard(k) /\ k.pc # "claim"
      BY <1>3, Typed DEF Idle, TaskRow, OnCard
    <3> QED BY <1>1, <2>2, <3>1, GoingOn DEF RequestGeneration
  <2>3. CASE RequestWrite(t, c)
    <3>1. card[c].generation \in Generations /\ CopyOf(c) \in Copy
      BY <2>3, Typed DEF RequestWrite, Row
    <3>2. ASSUME NEW pc \in {"write_query", "write_summary"}
          PROVE  LET k == [Idle EXCEPT !.pc = pc, !.op = "write", !.card = c,
                                       !.gen = card[c].generation, !.row = CopyOf(c), !.at = clock]
                 IN  k \in TaskRow /\ OnCard(k) /\ k.pc # "claim"
      BY <1>3, <3>1, Typed DEF Idle, TaskRow, OnCard
    <3> QED BY <1>1, <2>3, <3>2, GoingOn DEF RequestWrite
  <2> QED BY <2>1, <2>2, <2>3
<1> QED BY <1>2, <1>4, Kept, RowKept, Typed
        DEF PatchCard, RequestGeneration, RequestWrite, CardsInv, TypeOK

\* A new card waits for no generation.
LEMMA CreateCardKeeps ==
  ASSUME CardsInv, NEW t \in Handlers, NEW c \in Cards, CreateCard(t, c)
  PROVE  CardsInv'
<1>1. t \in Tasks
  BY DEF Tasks
<1>2. PICK policy \in Policies, queries \in BOOLEAN :
        card' = [card EXCEPT ![c] = [NoRow EXCEPT !.state = "compiling", !.policy = policy,
                                                  !.queries = queries]]
  BY DEF CreateCard
<1>3. policy \in AllPolicies
  BY CardsAssumption DEF AllPolicies
<1>4. LET row == [NoRow EXCEPT !.state = "compiling", !.policy = policy, !.queries = queries]
      IN  row \in Row /\ row.generation = None
  BY <1>3, Typed DEF NoRow, Row, CardStates
<1>5. LET k == [Idle EXCEPT !.pc = "compile", !.op = "compile", !.card = c]
      IN  k \in TaskRow /\ OnCard(k) /\ k.pc # "claim"
  BY Typed DEF Idle, TaskRow, OnCard
<1>6. TasksGoOn /\ NothingBegun /\ Counters
  BY <1>1, <1>2, <1>4, <1>5, GoingOn, RowKept, Counted DEF CreateCard
<1> QED BY <1>6, Kept DEF CreateCard, CardsInv, TypeOK

\* A deleted card waits for no generation.
LEMMA DeleteCardKeeps ==
  ASSUME CardsInv, NEW t \in Handlers, NEW c \in Cards, DeleteCard(t, c)
  PROVE  CardsInv'
<1>1. t \in Tasks
  BY DEF Tasks
<1>2. LET row == [NoRow EXCEPT !.state = "deleted"]
      IN  row \in Row /\ row.generation = None
  BY Typed DEF NoRow, Row, CardStates
<1>3. TasksGoOn /\ NothingBegun /\ Counters
  BY <1>1, <1>2, GoingOn, RowKept, Counted DEF DeleteCard
<1> QED BY <1>3, Kept DEF DeleteCard, CardsInv, TypeOK

\* The UPDATE of a patch keeps the generation of the row or clears it.
LEMMA WritePatchKeeps ==
  ASSUME CardsInv, NEW t \in Tasks, WritePatch(t)
  PROVE  CardsInv'
<1> DEFINE c == task[t].card
<1>1. c \in Cards
  BY Typed DEF WritePatch, OnCard
<1>2. PICK archived, queries, newPrompt \in BOOLEAN, policy \in Policies :
        /\ card' = IF Exists(c) THEN [card EXCEPT ![c].archived = archived,
                                                  ![c].queries = queries, ![c].policy = policy]
                   ELSE card
        /\ IF newPrompt THEN Goto(t, "compile") ELSE Finish(t)
  BY DEF WritePatch
<1>3. policy \in AllPolicies
  BY CardsAssumption DEF AllPolicies
<1> DEFINE row == [card[c] EXCEPT !.archived = archived, !.queries = queries, !.policy = policy]
<1>4. row \in Row /\ row.generation = card[c].generation
  BY <1>1, <1>3, Typed DEF Row
<1>5. card' \in {card, [card EXCEPT ![c] = row]}
  BY <1>1, <1>2, Typed
<1>6. TasksGoOn /\ NothingBegun /\ Counters
  BY <1>1, <1>2, <1>4, <1>5, GoingOn, RowKept, Counted DEF WritePatch
<1> QED BY <1>6, Kept DEF WritePatch, CardsInv, TypeOK

\* The reads of a compile and of a refresh, and requests that end without a write
LEMMA ReadsKeep ==
  ASSUME CardsInv, NEW t \in Tasks,
         ReadForCompile(t) \/ CheckGeneration(t) \/ NoSummarizer(t) \/ ReadForRefresh(t)
         \/ ExecuteQueries(t) \/ WakeSummarizer(t)
  PROVE  CardsInv'
<1> DEFINE c == task[t].card
<1>1. Counters
  BY Typed DEF ReadForCompile, CheckGeneration, NoSummarizer, ReadForRefresh, ExecuteQueries,
               WakeSummarizer, Counters, CardsInv, TypeOK, OnCard
<1>2. TasksGoOn
  <2>1. CASE ReadForCompile(t) \/ CheckGeneration(t)
    <3>1. c \in Cards
      BY <2>1, Typed DEF ReadForCompile, CheckGeneration, OnCard
    <3>2. Finish(t) \/ \E pc \in {"check", "insert", "evaluate"} : Goto(t, pc)
      BY <2>1 DEF ReadForCompile, CheckGeneration
    <3> QED BY <3>1, <3>2, GoingOn
  <2>2. CASE NoSummarizer(t) \/ WakeSummarizer(t)
    BY <2>2, GoingOn DEF NoSummarizer, WakeSummarizer
  <2>3. CASE ReadForRefresh(t)
    <3> DEFINE k == [task[t] EXCEPT !.pc = "check", !.row = CopyOf(c)]
    <3>1. c \in Cards /\ CopyOf(c) \in Copy
      BY <2>3, Typed DEF ReadForRefresh, OnCard
    <3>2. k \in TaskRow /\ OnCard(k) /\ k.pc # "claim"
      BY <3>1, Typed DEF TaskRow, OnCard
    <3>3. task' = [task EXCEPT ![t] = k] \/ Finish(t)
      BY <2>3, Typed DEF ReadForRefresh
    <3> QED BY <3>2, <3>3, GoingOn
  <2>4. CASE ExecuteQueries(t)
    <3> DEFINE k == [task[t] EXCEPT !.pc = "decide", !.seen = world, !.at = clock]
    <3>1. c \in Cards /\ world \in Times /\ clock \in Nat
      BY <2>4, Typed DEF ExecuteQueries, OnCard, CardsInv, TypeOK, Times
    <3>2. k \in TaskRow /\ OnCard(k) /\ k.pc # "claim"
      BY <3>1, Typed DEF TaskRow, OnCard
    <3>3. task' = [task EXCEPT ![t] = k]
      BY <2>4, Typed DEF ExecuteQueries
    <3> QED BY <3>2, <3>3, GoingOn
  <2> QED BY <2>1, <2>2, <2>3, <2>4
<1>3. UNCHANGED <<card, genIssue, delivered>>
  BY DEF ReadForCompile, CheckGeneration, NoSummarizer, ReadForRefresh, ExecuteQueries,
         WakeSummarizer
<1> QED BY <1>1, <1>2, <1>3, Kept, RowKept DEF CardsInv, TypeOK

\* next_eval_at is NULL or a time.
LEMMA NextEvalTyped ==
  ASSUME NEW policy, NEW at \in Nat
  PROVE  NextEval(policy, at) \in Times
BY CardsAssumption DEF NextEval, Times, Never

\* The times a refresh computes from its copy of the row are numbers.
LEMMA ChangeTimesTyped ==
  ASSUME CardsInv, NEW t \in Tasks
  PROVE  ChangeTimes(t) \subseteq Nat /\ task[t].seen \in Times /\ task[t].at \in Nat
<1>1. task[t] \in TaskRow /\ task[t].row \in Copy
  BY Typed DEF TaskRow
<1> QED BY <1>1 DEF ChangeTimes, TaskRow, Copy, Times

\* A refresh that is not due, or postponed by the policy, takes no generation.
LEMMA DecisionsKeep ==
  ASSUME CardsInv, NEW t \in Tasks, RescheduleUnchanged(t) \/ Postpone(t)
  PROVE  CardsInv'
<1> DEFINE c == task[t].card
<1>1. c \in Cards /\ task[t].at \in Nat /\ task[t].seen \in Times
  BY Typed, ChangeTimesTyped DEF RescheduleUnchanged, Postpone, OnCard
<1>2. NothingBegun
  <2>1. CASE RescheduleUnchanged(t)
    <3> DEFINE at == NextEval(task[t].row.policy, task[t].at)
               row == [card[c] EXCEPT !.pending = FALSE, !.lastChange = Never, !.state = "active",
                                      !.fingerprint = task[t].seen, !.nextEval = at]
    <3>1. at \in Times
      BY <1>1, NextEvalTyped
    <3>2. row \in Row /\ row.generation = card[c].generation
      <4> HIDE DEF at
      <4> QED BY <1>1, <3>1, Typed DEF Row, CardStates, Times
    <3>3. card' \in {card, [card EXCEPT ![c] = row]}
      BY <1>1, <2>1, Typed DEF RescheduleUnchanged
    <3> QED BY <1>1, <3>2, <3>3, RowKept
  <2>2. CASE Postpone(t)
    <3>1. PICK since \in ChangeTimes(t), state \in {"active", "paused_hours", "paused_budget"},
               limited \in BOOLEAN :
            LET waitsFor == IF state = "active" /\ task[t].row.policy = "reactive" /\ ~limited
                            THEN since + Debounce ELSE NextEval(task[t].row.policy, task[t].at)
            IN card' = IF Exists(c)
                       THEN [card EXCEPT ![c].pending = TRUE, ![c].lastChange = since,
                                         ![c].state = state, ![c].fingerprint = task[t].seen,
                                         ![c].nextEval = waitsFor]
                       ELSE card
      BY <2>2, ZenonT(40) DEF Postpone
    <3> DEFINE waitsFor == IF state = "active" /\ task[t].row.policy = "reactive" /\ ~limited
                           THEN since + Debounce ELSE NextEval(task[t].row.policy, task[t].at)
               row == [card[c] EXCEPT !.pending = TRUE, !.lastChange = since, !.state = state,
                                      !.fingerprint = task[t].seen, !.nextEval = waitsFor]
    <3>2. since \in Nat /\ since \in Times
      BY ChangeTimesTyped DEF Times
    <3>3. waitsFor \in Times
      BY <1>1, <3>2, NextEvalTyped, CardsAssumption DEF Times
    <3>4. row \in Row /\ row.generation = card[c].generation
      <4> HIDE DEF waitsFor
      <4> QED BY <1>1, <3>2, <3>3, Typed DEF Row, CardStates
    <3>5. card' \in {card, [card EXCEPT ![c] = row]}
      BY <1>1, <3>1, Typed
    <3> QED BY <1>1, <3>4, <3>5, RowKept
  <2> QED BY <2>1, <2>2
<1>3. TasksGoOn /\ Counters /\ UNCHANGED <<genIssue, delivered>>
  BY GoingOn, Counted DEF RescheduleUnchanged, Postpone
<1> QED BY <1>2, <1>3, Kept DEF CardsInv, TypeOK

\* The write-back of a query keeps or clears the generation of the row.
LEMMA WriteQueryKeeps ==
  ASSUME CardsInv, NEW t \in Tasks, WriteQuery(t)
  PROVE  CardsInv'
<1> DEFINE c == task[t].card
           row(queries) == [card[c] EXCEPT !.queries = queries, !.state = "compiling"]
<1>1. c \in Cards
  BY Typed DEF WriteQuery, OnCard
<1>2. \A queries \in BOOLEAN :
        row(queries) \in Row /\ row(queries).generation = card[c].generation
  BY <1>1, Typed DEF Row, CardStates
<1>3. \E queries \in BOOLEAN : card' \in {card, [card EXCEPT ![c] = row(queries)]}
  BY <1>1, Typed DEF WriteQuery
<1>4. NothingBegun
  <2> HIDE DEF row
  <2> QED BY <1>1, <1>2, <1>3, RowKept
<1>5. TasksGoOn /\ Counters /\ UNCHANGED <<genIssue, delivered>>
  BY GoingOn, Counted DEF WriteQuery
<1> QED BY <1>4, <1>5, Kept DEF CardsInv, TypeOK

\* What is delivered is the generation that the card waits for.
LEMMA WriteSummaryKeeps ==
  ASSUME CardsInv, NEW t \in Tasks, WriteSummary(t)
  PROVE  CardsInv'
<1> DEFINE c == task[t].card
           g == task[t].gen
           at == NextEval(task[t].row.policy, task[t].at)
           row == [card[c] EXCEPT !.state = "active", !.generation = None, !.nextEval = at]
<1>1. c \in Cards /\ g \in Generations
  BY Typed DEF WriteSummary, OnCard
<1>2. at \in Times
  BY ChangeTimesTyped, NextEvalTyped
<1>3. row \in Row /\ row.generation = None
  <2> HIDE DEF at
  <2> QED BY <1>1, <1>2, Typed DEF Row, CardStates
<1>4. card' \in {card, [card EXCEPT ![c] = row]}
  BY <1>1, Typed DEF WriteSummary
<1>5. NothingBegun
  BY <1>1, <1>3, <1>4, RowKept
<1>6. delivered' \subseteq Generations /\ \A x \in delivered' : x \in delivered \/ Held(x)
  BY <1>1 DEF WriteSummary, CardsInv, TypeOK, Held
<1>7. TasksGoOn /\ Counters /\ UNCHANGED genIssue
  BY GoingOn, Counted DEF WriteSummary
<1> QED BY <1>5, <1>6, <1>7, Kept

\* The two SELECTs of the tick, and its claim of due cards, take no generation.
LEMMA ScanKeeps ==
  ASSUME CardsInv, NEW t \in Tasks, ClaimDue(t) \/ SelectStalled(t)
  PROVE  CardsInv'
<1>1. CASE ClaimDue(t)
  <2>1. PICK c \in task[t].due :
          IF IsDue(c, task[t].now)
          THEN /\ card' = [card EXCEPT ![c].nextEval = task[t].now + ClaimWindow]
               /\ task' = [task EXCEPT ![t].pc = "refresh", ![t].card = c, ![t].due = @ \ {c}]
          ELSE task' = [task EXCEPT ![t].due = @ \ {c}] /\ UNCHANGED card
    BY <1>1 DEF ClaimDue
  <2> DEFINE row == [card[c] EXCEPT !.nextEval = task[t].now + ClaimWindow]
             claimed == [task[t] EXCEPT !.pc = "refresh", !.card = c, !.due = @ \ {c}]
             skipped == [task[t] EXCEPT !.due = @ \ {c}]
  <2>2. c \in Cards /\ task[t].now + ClaimWindow \in Times
    BY Typed, CardsAssumption DEF TaskRow, Times
  <2>3. row \in Row /\ row.generation = card[c].generation
    BY <2>2, Typed DEF Row
  <2>4. claimed \in TaskRow /\ OnCard(claimed) /\ claimed.pc # "claim"
    BY <2>2, Typed DEF TaskRow, OnCard
  <2>5. skipped \in TaskRow /\ OnCard(skipped) /\ skipped.pc # "claim"
    BY <1>1, Typed DEF TaskRow, OnCard, ClaimDue
  <2>6. card' \in {card, [card EXCEPT ![c] = row]}
    BY <2>1, <2>2, Typed
  <2>7. task' = [task EXCEPT ![t] = claimed] \/ task' = [task EXCEPT ![t] = skipped]
    BY <2>1, Typed
  <2>8. TasksGoOn
    BY <2>4, <2>5, <2>7, GoingOn
  <2>9. NothingBegun
    BY <2>2, <2>3, <2>6, RowKept
  <2> QED BY <1>1, <2>8, <2>9, Counted, Kept DEF ClaimDue, CardsInv, TypeOK
<1>2. CASE SelectStalled(t)
  <2>1. TasksGoOn
    BY <1>2, GoingOn DEF SelectStalled
  <2> QED BY <1>2, <2>1, Counted, RowKept, Kept DEF SelectStalled, CardsInv, TypeOK
<1> QED BY <1>1, <1>2

\* The end of a stalled generation takes it from the card that still waits for it.
LEMMA FinalizeStalledKeeps ==
  ASSUME CardsInv, NEW t \in Tasks, FinalizeStalled(t)
  PROVE  CardsInv'
<1>1. PICK g \in task[t].stalled :
        /\ card' = [c \in Cards |->
                      IF card[c].generation = g
                      THEN [card[c] EXCEPT !.state = "error", !.generation = None,
                                           !.nextEval = Never]
                      ELSE card[c]]
        /\ Continue(t, task[t].stalled \ {g})
  BY DEF FinalizeStalled
<1>2. ASSUME NEW c \in Cards
      PROVE  LET row == [card[c] EXCEPT !.state = "error", !.generation = None, !.nextEval = Never]
             IN  row \in Row /\ row.generation = None
  BY Typed DEF Row, CardStates, Times, Never
<1>3. NothingBegun
  BY <1>1, <1>2, Typed DEF NothingBegun
<1>4. task[t].stalled \in SUBSET Generations
  BY Typed DEF TaskRow
<1>5. TasksGoOn
  BY <1>1, <1>4, GoingOn
<1> QED BY <1>3, <1>5, Counted, Kept DEF FinalizeStalled, CardsInv, TypeOK

\* The start of an execution, requests and executions that stop, and what the
\* rest of the system does
LEMMA RestKeeps ==
  ASSUME CardsInv,
         \/ \E t \in Executions : StartTick(t)
         \/ \E t \in Tasks : Drop(t)
         \/ \E g \in Generations : MoveIssue(g)
         \/ WatchedIssueChanges \/ TimePasses
  PROVE  CardsInv'
<1>1. CASE \E t \in Executions : StartTick(t)
  <2>1. PICK t \in Executions : StartTick(t)
    BY <1>1
  <2>2. LET k == [Idle EXCEPT !.pc = "due", !.op = "refresh", !.now = clock,
                              !.due = {c \in Cards : IsDue(c, clock)}]
        IN  k \in TaskRow /\ OnCard(k) /\ k.pc # "claim"
    BY Typed DEF Idle, TaskRow, OnCard, CardsInv, TypeOK
  <2>3. TasksGoOn
    BY <2>1, <2>2, GoingOn DEF StartTick, Tasks
  <2> QED BY <2>1, <2>3, Counted, RowKept, Kept DEF StartTick, CardsInv, TypeOK
<1>2. CASE \E t \in Tasks : Drop(t)
  <2>1. PICK t \in Tasks : Drop(t)
    BY <1>2
  <2>2. TasksGoOn
    <3>1. task' = [task EXCEPT ![t] = Idle] \/ Finish(t)
      BY <2>1 DEF Drop
    <3> QED BY <3>1, Typed, GoingOn DEF Idle
  <2>3. Counters
    BY <2>1 DEF Drop, CardsInv, TypeOK, Counters
  <2> QED BY <2>1, <2>2, <2>3, RowKept, Kept DEF Drop, CardsInv, TypeOK
<1>3. CASE \E g \in Generations : MoveIssue(g)
  <2>1. PICK g \in Generations, s \in IssueStatuses \ {"absent"} :
          /\ genIssue' = [genIssue EXCEPT ![g] = s]
          /\ UNCHANGED <<card, woken, delivered, world, clock, task, received, dropped>>
    BY <1>3 DEF MoveIssue
  <2>2. TypeOK' /\ \A t \in Tasks : OnCard(task[t])'
    BY <2>1 DEF CardsInv, TypeOK, OnCard
  <2>3. \A x \in Generations : (Held(x)' <=> Held(x)) /\ (genIssue[x] # "absent" => genIssue'[x] # "absent")
    BY <2>1, Typed DEF Held
  <2>4. OneHolder' /\ Made' /\ ClaimsFresh'
    BY <2>1, <2>3, Typed DEF CardsInv, OneHolder, Made, ClaimsFresh, OnCard
  <2> QED BY <2>2, <2>4 DEF CardsInv
<1>4. CASE WatchedIssueChanges \/ TimePasses
  <2>1. Counters
    BY <1>4 DEF WatchedIssueChanges, TimePasses, CardsInv, TypeOK, Counters
  <2>2. UNCHANGED <<card, genIssue, delivered, task>>
    BY <1>4 DEF WatchedIssueChanges, TimePasses
  <2>3. TasksGoOn
    BY <2>2, Typed DEF TasksGoOn
  <2> QED BY <2>1, <2>2, <2>3, RowKept, Kept DEF CardsInv, TypeOK
<1> QED BY <1>1, <1>2, <1>3, <1>4

-----------------------------------------------------------------------------
(* Steps that bring a generation to a card.                                *)

\* A new hidden issue is a generation that no card and no other task holds.
LEMMA InsertGenerationKeeps ==
  ASSUME CardsInv, NEW t \in Tasks, InsertGeneration(t)
  PROVE  CardsInv'
<1>1. PICK g \in Generations :
        /\ genIssue[g] = "absent"
        /\ genIssue' = [genIssue EXCEPT ![g] = "open"]
        /\ task' = [task EXCEPT ![t].pc = "claim", ![t].gen = g]
  BY DEF InsertGeneration
<1>2. UNCHANGED <<card, woken, delivered, world, clock, received, dropped>>
  BY DEF InsertGeneration
<1> DEFINE k == [task[t] EXCEPT !.pc = "claim", !.gen = g]
<1>3. task' = [task EXCEPT ![t] = k]
  BY <1>1, Typed
<1>4. k \in TaskRow /\ OnCard(k) /\ k.gen = g
  <2>1. task[t].pc \in {"insert", "decide"}
    BY DEF InsertGeneration, Enqueues
  <2>2. task[t].card \in Cards
    BY <2>1, Typed DEF OnCard
  <2> QED BY <2>2, Typed DEF TaskRow, OnCard
<1>5. task' \in [Tasks -> TaskRow] /\ genIssue' \in [Generations -> IssueStatuses]
  BY <1>1, <1>3, <1>4, Typed DEF IssueStatuses
<1>6. TypeOK' /\ \A u \in Tasks : OnCard(task'[u])
  BY <1>2, <1>3, <1>4, <1>5, Typed DEF CardsInv, TypeOK
<1>7. \A x \in Generations : genIssue[x] # "absent" => genIssue'[x] # "absent"
  BY <1>1, Typed
<1>8. OneHolder' /\ Made' /\ (\A x \in Generations : Held(x)' <=> Held(x))
  BY <1>2, <1>7 DEF CardsInv, OneHolder, Made, Held
<1>9. ~Held(g) /\ g \notin delivered
  BY <1>1 DEF CardsInv, Made
<1>10. \A u \in Tasks : task[u].pc = "claim" => task[u].gen \in Generations /\ task[u].gen # g
  BY <1>1, Typed DEF CardsInv, ClaimsFresh, OnCard
<1>11. ClaimsFresh'
  <2> DEFINE Fresh(u, x) ==
               /\ \A c \in Cards : card'[c].generation # x
               /\ x \notin delivered' /\ genIssue'[x] # "absent"
               /\ \A v \in Tasks : task'[v].pc = "claim" /\ task'[v].gen = x => v = u
  <2>1. ASSUME NEW u \in Tasks, task'[u].pc = "claim"
        PROVE  Fresh(u, task'[u].gen)
    <3>1. CASE u = t
      <4>1. task'[u].gen = g /\ genIssue'[g] = "open"
        BY <1>1, <1>3, <1>4, <3>1, Typed
      <4>2. \A v \in Tasks : task'[v].pc = "claim" /\ task'[v].gen = g => v = u
        BY <1>3, <1>10, <3>1, Typed
      <4> QED BY <1>2, <1>9, <4>1, <4>2 DEF Held
    <3>2. CASE u # t
      <4>1. task'[u] = task[u] /\ task[u].gen \in Generations /\ task[u].gen # g
        BY <1>3, <1>10, <2>1, <3>2, Typed
      <4>2. \A v \in Tasks : task'[v].pc = "claim" /\ task'[v].gen = task[u].gen => v = u
        BY <1>3, <1>4, <2>1, <4>1, Typed DEF CardsInv, ClaimsFresh
      <4>3. ~Held(task[u].gen) /\ task[u].gen \notin delivered /\ genIssue[task[u].gen] # "absent"
        BY <2>1, <4>1 DEF CardsInv, ClaimsFresh
      <4> QED BY <1>2, <1>7, <4>1, <4>2, <4>3 DEF Held
    <3> QED BY <3>1, <3>2
  <2> QED BY <2>1 DEF ClaimsFresh, Held
<1> QED BY <1>6, <1>8, <1>11 DEF CardsInv

\* The UPDATE of a claim: a fresh generation gets to the card of its task.
LEMMA ClaimKeeps ==
  ASSUME CardsInv, NEW t \in Tasks, task[t].pc = "claim", NEW c \in Cards, NEW row \in Row,
         row.generation = task[t].gen, card' \in {card, [card EXCEPT ![c] = row]},
         TasksGoOn, task'[t].pc # "claim", Counters, UNCHANGED <<genIssue, delivered>>
  PROVE  CardsInv'
<1> DEFINE g == task[t].gen
<1>1. card' \in [Cards -> Row]
  BY Typed
<1>2. TypeOK' /\ \A u \in Tasks : OnCard(task'[u])
  BY <1>1 DEF CardsInv, TypeOK, TasksGoOn, Counters
<1>3. g \in Generations /\ ~Held(g) /\ g \notin delivered /\ genIssue[g] # "absent"
  BY Typed DEF CardsInv, ClaimsFresh, OnCard
<1>4. \A d \in Cards : \/ card'[d].generation = card[d].generation
                       \/ d = c /\ card'[d].generation = g
  BY Typed
<1>5. OneHolder'
  BY <1>3, <1>4 DEF CardsInv, OneHolder, Held
<1>6. \A x \in Generations : Held(x)' => Held(x) \/ x = g
  BY <1>4 DEF Held
<1>7. Made'
  BY <1>3, <1>6 DEF CardsInv, Made
<1>8. ClaimsFresh'
  <2>1. ASSUME NEW u \in Tasks, task'[u].pc = "claim"
        PROVE  /\ task'[u].gen = task[u].gen /\ task[u].gen \in Generations
               /\ task[u].pc = "claim" /\ task[u].gen # g
    BY <2>1, Typed DEF TasksGoOn, CardsInv, ClaimsFresh, OnCard
  <2> QED BY <1>4, <2>1 DEF CardsInv, ClaimsFresh, Held
<1> QED BY <1>2, <1>5, <1>7, <1>8 DEF CardsInv

\* The UPDATE that makes a card wait for a generation takes the one its task inserted.
LEMMA ClaimsKeep ==
  ASSUME CardsInv, NEW t \in Tasks, ClaimCompile(t) \/ ClaimRefresh(t)
  PROVE  CardsInv'
<1> DEFINE c == task[t].card
           g == task[t].gen
<1>1. c \in Cards /\ g \in Generations /\ task[t].pc = "claim"
  BY Typed DEF ClaimCompile, ClaimRefresh, OnCard
<1>2. Goto(t, "wake") \/ Finish(t)
  BY DEF ClaimCompile, ClaimRefresh
<1>3. TasksGoOn
  BY <1>1, <1>2, GoingOn
<1>4. task'[t].pc # "claim"
  <2>1. CASE Goto(t, "wake")
    <3>1. task' = [task EXCEPT ![t] = [task[t] EXCEPT !.pc = "wake"]]
      BY <2>1, Typed DEF Goto
    <3>2. [task[t] EXCEPT !.pc = "wake"].pc = "wake"
      BY Typed DEF TaskRow
    <3> QED BY <3>1, <3>2, Typed
  <2>2. CASE Finish(t)
    <3> DEFINE k == [task[t] EXCEPT !.pc = "due", !.card = None, !.gen = None, !.row = NoCopy,
                                    !.seen = Never, !.at = 0]
    <3>1. k.pc = "due" /\ Idle.pc = "idle"
      BY Typed DEF TaskRow, Idle
    <3>2. task' = [task EXCEPT ![t] = k] \/ task' = [task EXCEPT ![t] = Idle]
      BY <2>2, Typed DEF Finish
    <3> QED BY <3>1, <3>2, Typed
  <2> QED BY <1>2, <2>1, <2>2
<1>5. \E row \in Row : row.generation = g /\ card' \in {card, [card EXCEPT ![c] = row]}
  <2>1. CASE ClaimCompile(t)
    <3> DEFINE row == [card[c] EXCEPT !.generation = g, !.state = "compiling"]
    <3>1. row \in Row /\ row.generation = g
      BY <1>1, Typed DEF Row, CardStates
    <3>2. card' \in {card, [card EXCEPT ![c] = row]}
      BY <1>1, <2>1, Typed DEF ClaimCompile
    <3> QED BY <3>1, <3>2
  <2>2. CASE ClaimRefresh(t)
    <3>1. PICK since \in ChangeTimes(t) :
            card' = IF Exists(c)
                    THEN [card EXCEPT ![c].generation = g, ![c].state = "active",
                                      ![c].pending = SeesChange(t), ![c].lastChange = since,
                                      ![c].fingerprint = task[t].seen,
                                      ![c].nextEval = NextEval(task[t].row.policy, task[t].at)]
                    ELSE card
      BY <2>2 DEF ClaimRefresh
    <3> DEFINE at == NextEval(task[t].row.policy, task[t].at)
               sees == SeesChange(t)
               row == [card[c] EXCEPT !.generation = g, !.state = "active", !.pending = sees,
                                      !.lastChange = since, !.fingerprint = task[t].seen,
                                      !.nextEval = at]
    <3>2. at \in Times /\ since \in Times /\ task[t].seen \in Times
      BY ChangeTimesTyped, NextEvalTyped DEF Times
    <3>3. sees \in BOOLEAN
      BY DEF SeesChange, Changed
    <3>4. row \in Row /\ row.generation = g
      <4> HIDE DEF at, sees
      <4> QED BY <1>1, <3>2, <3>3, Typed DEF Row, CardStates
    <3>5. card' \in {card, [card EXCEPT ![c] = row]}
      BY <1>1, <3>1, Typed
    <3> QED BY <3>4, <3>5
  <2> QED BY <2>1, <2>2
<1>6. Counters /\ UNCHANGED <<genIssue, delivered>>
  BY Counted DEF ClaimCompile, ClaimRefresh
<1> QED BY <1>1, <1>3, <1>4, <1>5, <1>6, ClaimKeeps

-----------------------------------------------------------------------------
\* The invariant holds of the cards the model starts from.
LEMMA CardsInitially ==
  ASSUME CardsInit
  PROVE  CardsInv
<1>1. NoCopy \in Copy /\ NoRow \in Row
  BY DEF NoCopy, Copy, NoRow, Row, AllPolicies, Times, Never
<1>2. Idle \in TaskRow /\ OnCard(Idle) /\ Idle.pc = "idle"
  BY <1>1 DEF Idle, TaskRow, OnCard, Times, Never
<1>3. TypeOK
  BY <1>1, <1>2 DEF CardsInit, TypeOK, IssueStatuses
<1>4. (\A t \in Tasks : OnCard(task[t])) /\ ClaimsFresh
  BY <1>2 DEF CardsInit, ClaimsFresh
<1>5. OneHolder /\ Made
  BY CardsAssumption DEF CardsInit, NoRow, OneHolder, Made, Held
<1> QED BY <1>3, <1>4, <1>5 DEF CardsInv

\* Every step of StatusCards keeps the invariant.
LEMMA CardsSteps == CardsInv /\ [CardsNext]_cardVars => CardsInv'
<1> SUFFICES ASSUME CardsInv, [CardsNext]_cardVars PROVE CardsInv'
  OBVIOUS
<1>1. CASE UNCHANGED cardVars
  <2>1. TasksGoOn
    BY <1>1, Typed DEF cardVars, TasksGoOn
  <2> QED BY <1>1, <2>1, Counted, RowKept, Kept DEF cardVars, CardsInv, TypeOK
<1>2. ASSUME NEW t \in Handlers, NEW c \in Cards,
             CreateCard(t, c) \/ PatchCard(t, c) \/ DeleteCard(t, c)
             \/ RequestGeneration(t, c) \/ RequestWrite(t, c)
      PROVE  CardsInv'
  BY <1>2, CreateCardKeeps, DeleteCardKeeps, RequestsKeep
<1>3. ASSUME NEW t \in Tasks, Step(t)
      PROVE  CardsInv'
  BY <1>3, ReadsKeep, InsertGenerationKeeps, ClaimsKeep, DecisionsKeep, WritePatchKeeps,
     WriteQueryKeeps, WriteSummaryKeeps, ScanKeeps, FinalizeStalledKeeps
     DEF Step, CompileStep, RefreshStep, WriteStep, TickStep
<1>4. CASE \/ \E t \in Executions : StartTick(t)
           \/ \E t \in Tasks : Drop(t)
           \/ \E g \in Generations : MoveIssue(g)
           \/ WatchedIssueChanges \/ TimePasses
  BY <1>4, RestKeeps
<1> QED BY <1>1, <1>2, <1>3, <1>4 DEF CardsNext

\* The rows of the cards, the generation issues and the locals of every request
\* and execution have the shape that the code gives them.
THEOREM CardsTyped == CardsSpec => []TypeOK
<1>1. CardsInit => CardsInv
  BY CardsInitially
<1>2. CardsInv => TypeOK
  BY DEF CardsInv
<1> QED BY <1>1, <1>2, CardsSteps, PTL DEF CardsSpec

-----------------------------------------------------------------------------
(* The cards implement GenerationSlot: under the refinement mapping holder  *)
(* <- [c \in Cards |-> card[c].generation], finished <- delivered, every    *)
(* step is a step of Slot or leaves both as they are.                       *)

\* The steps that a step of the cards may be, in terms of the rows
Holders(rows) == [c \in Cards |-> rows[c].generation]
SlotStep ==
  \/ Holders(card') = Holders(card) /\ delivered' = delivered
  \/ \E c \in Cards :
       \/ \E g \in Generations :
            /\ g \notin delivered /\ ~Held(g) /\ delivered' = delivered
            /\ Holders(card') = [Holders(card) EXCEPT ![c] = g]
       \/ /\ card[c].generation # None
          /\ delivered' = delivered \cup {card[c].generation}
          /\ Holders(card') = [Holders(card) EXCEPT ![c] = None]
       \/ /\ delivered' = delivered
          /\ Holders(card') = [Holders(card) EXCEPT ![c] = None]

\* A step of the tables in the words of SlotStep is a step of GenerationSlot or a stutter.
LEMMA SlotStepRefines == SlotStep => [Slot!Next]_(Slot!slotVars)
<1>1. ASSUME NEW c \in Cards, NEW g \in Generations, g \notin delivered, ~Held(g),
             delivered' = delivered, Holders(card') = [Holders(card) EXCEPT ![c] = g]
      PROVE  Slot!Begin(c, g)
  BY <1>1 DEF Slot!Begin, Holders, Held
<1>2. ASSUME NEW c \in Cards, card[c].generation # None,
             delivered' = delivered \cup {card[c].generation},
             Holders(card') = [Holders(card) EXCEPT ![c] = None]
      PROVE  Slot!Deliver(c)
  BY <1>2 DEF Slot!Deliver, Holders
<1>3. ASSUME NEW c \in Cards, delivered' = delivered,
             Holders(card') = [Holders(card) EXCEPT ![c] = None]
      PROVE  Slot!Release(c)
  BY <1>3 DEF Slot!Release, Holders
<1>4. ASSUME Holders(card') = Holders(card), delivered' = delivered
      PROVE  UNCHANGED Slot!slotVars
  BY <1>4 DEF Slot!slotVars, Holders
<1> QED BY <1>1, <1>2, <1>3, <1>4 DEF SlotStep, Slot!Next

\* A step that writes one row
LEMMA RowWritten ==
  ASSUME CardsInv, NEW c \in Cards, NEW row, card' \in {card, [card EXCEPT ![c] = row]}
  PROVE  \/ Holders(card') = Holders(card)
         \/ Holders(card') = [Holders(card) EXCEPT ![c] = row.generation]
BY Typed DEF Holders

\* A row that keeps its generation or gives it up is a stutter or a Release of its slot.
LEMMA RowReleased ==
  ASSUME CardsInv, NEW c \in Cards, NEW row \in Row, row.generation \in {card[c].generation, None},
         card' \in {card, [card EXCEPT ![c] = row]}, delivered' = delivered
  PROVE  SlotStep
<1>1. CASE Holders(card') = Holders(card)
  BY <1>1 DEF SlotStep
<1>2. CASE Holders(card') = [Holders(card) EXCEPT ![c] = row.generation]
  <2>1. CASE row.generation = None
    BY <1>2, <2>1 DEF SlotStep
  <2>2. CASE row.generation = card[c].generation
    BY <1>2, <2>2 DEF SlotStep, Holders
  <2> QED BY <2>1, <2>2
<1> QED BY <1>1, <1>2, RowWritten

\* Steps that touch neither generating_issue_id nor a delivery
LEMMA CardsUntouched ==
  ASSUME \/ \E t \in Tasks, c \in Cards :
              PatchCard(t, c) \/ RequestGeneration(t, c) \/ RequestWrite(t, c)
         \/ \E t \in Tasks :
              \/ ReadForCompile(t) \/ CheckGeneration(t) \/ ReadForRefresh(t) \/ ExecuteQueries(t)
              \/ NoSummarizer(t) \/ WakeSummarizer(t) \/ InsertGeneration(t) \/ SelectStalled(t) \/ StartTick(t)
              \/ Drop(t)
         \/ (\E g \in Generations : MoveIssue(g))
         \/ WatchedIssueChanges \/ TimePasses \/ UNCHANGED cardVars
  PROVE  SlotStep
<1>1. UNCHANGED <<card, delivered>>
  BY DEF PatchCard, RequestGeneration, RequestWrite, ReadForCompile, CheckGeneration,
         ReadForRefresh, ExecuteQueries, NoSummarizer, WakeSummarizer, InsertGeneration, SelectStalled,
         StartTick, Drop, MoveIssue, WatchedIssueChanges, TimePasses, cardVars
<1> QED BY <1>1 DEF SlotStep

\* Patches, queries, postponements and scans keep or release the slot of their card.
LEMMA HoldersKept ==
  ASSUME CardsInv, NEW t \in Tasks,
         WritePatch(t) \/ WriteQuery(t) \/ RescheduleUnchanged(t) \/ Postpone(t) \/ ClaimDue(t)
  PROVE  SlotStep
<1>1. delivered' = delivered
  BY DEF WritePatch, WriteQuery, RescheduleUnchanged, Postpone, ClaimDue
<1> SUFFICES Holders(card') = Holders(card)
  BY <1>1 DEF SlotStep
<1>2. CASE WritePatch(t)
  <2>1. PICK c, archived, queries, policy :
          card' \in {card, [card EXCEPT ![c].archived = archived, ![c].queries = queries,
                                        ![c].policy = policy]}
    BY <1>2 DEF WritePatch
  <2> QED BY <2>1, Typed DEF Holders, Row
<1>3. CASE WriteQuery(t)
  BY <1>3, Typed DEF WriteQuery, Holders, Row
<1>4. CASE RescheduleUnchanged(t)
  BY <1>4, Typed DEF RescheduleUnchanged, Holders, Row
<1>5. CASE Postpone(t)
  <2> DEFINE c == task[t].card
             waitsFor(since, state, limited) ==
               IF state = "active" /\ task[t].row.policy = "reactive" /\ ~limited
               THEN since + Debounce ELSE NextEval(task[t].row.policy, task[t].at)
  <2>1. PICK since \in ChangeTimes(t), state \in {"active", "paused_hours", "paused_budget"},
             limited \in BOOLEAN :
          card' = IF Exists(c)
                  THEN [card EXCEPT ![c].pending = TRUE, ![c].lastChange = since,
                                    ![c].state = state, ![c].fingerprint = task[t].seen,
                                    ![c].nextEval = waitsFor(since, state, limited)]
                  ELSE card
    BY <1>5, ZenonT(40) DEF Postpone
  <2> HIDE DEF waitsFor
  <2> QED BY <2>1, Typed DEF Holders, Row
<1>6. CASE ClaimDue(t)
  <2>1. PICK c, at : card' \in {card, [card EXCEPT ![c].nextEval = at]}
    BY <1>6 DEF ClaimDue
  <2> QED BY <2>1, Typed DEF Holders, Row
<1> QED BY <1>2, <1>3, <1>4, <1>5, <1>6

\* Creation and deletion of a card release its slot.
LEMMA HoldersReleased ==
  ASSUME CardsInv, NEW t \in Tasks, NEW c \in Cards, CreateCard(t, c) \/ DeleteCard(t, c)
  PROVE  SlotStep
<1>1. PICK row : row.generation = None /\ card' = [card EXCEPT ![c] = row]
  <2>1. CASE DeleteCard(t, c)
    <3>1. [NoRow EXCEPT !.state = "deleted"].generation = None
      BY DEF NoRow
    <3> QED BY <2>1, <3>1 DEF DeleteCard
  <2>2. CASE CreateCard(t, c)
    <3>1. \A policy, queries :
            [NoRow EXCEPT !.state = "compiling", !.policy = policy,
                          !.queries = queries].generation = None
      BY DEF NoRow
    <3> QED BY <2>2, <3>1 DEF CreateCard
  <2> QED BY <2>1, <2>2
<1>2. delivered' = delivered
  BY DEF CreateCard, DeleteCard
<1>3. Holders(card') \in {Holders(card), [Holders(card) EXCEPT ![c] = None]}
  BY <1>1, Typed DEF Holders
<1> QED BY <1>2, <1>3 DEF SlotStep

\* The UPDATE of PUT /summary is the only step that delivers.
LEMMA SummaryDelivered ==
  ASSUME CardsInv, NEW t \in Tasks, WriteSummary(t)
  PROVE  SlotStep
<1> DEFINE c == task[t].card
           g == task[t].gen
           hit == Exists(c) /\ card[c].generation = g
           at == NextEval(task[t].row.policy, task[t].at)
<1>1. c \in Cards /\ g \in Generations
  BY Typed DEF WriteSummary, OnCard
<1>2. CASE hit
  <2>1. Holders(card') = [Holders(card) EXCEPT ![c] = None]
    <3>1. card' = [card EXCEPT ![c].state = "active", ![c].generation = None, ![c].nextEval = at]
      BY <1>2 DEF WriteSummary
    <3> HIDE DEF at
    <3> QED BY <1>1, <3>1, Typed DEF Holders, Row
  <2>2. delivered' = delivered \cup {card[c].generation} /\ card[c].generation # None
    BY <1>1, <1>2, CardsAssumption DEF WriteSummary
  <2> QED BY <1>1, <2>1, <2>2 DEF SlotStep
<1>3. CASE ~hit
  <2>1. card' = card /\ delivered' = delivered
    BY <1>3 DEF WriteSummary
  <2> QED BY <2>1 DEF SlotStep
<1> QED BY <1>2, <1>3

\* A claim begins the generation that its task inserted.
LEMMA GenerationBegun ==
  ASSUME CardsInv, NEW t \in Tasks, ClaimCompile(t) \/ ClaimRefresh(t)
  PROVE  SlotStep
<1> DEFINE c == task[t].card
           g == task[t].gen
<1>1. c \in Cards /\ g \in Generations /\ task[t].pc = "claim"
  BY Typed DEF ClaimCompile, ClaimRefresh, OnCard
<1>2. g \notin delivered /\ ~Held(g)
  BY <1>1 DEF CardsInv, ClaimsFresh
<1>3. delivered' = delivered
  BY DEF ClaimCompile, ClaimRefresh
<1>4. Holders(card') \in {Holders(card), [Holders(card) EXCEPT ![c] = g]}
  <2>1. CASE ClaimCompile(t)
    BY <1>1, <2>1, Typed DEF ClaimCompile, Holders, Row
  <2>2. CASE ClaimRefresh(t)
    <3> DEFINE at == NextEval(task[t].row.policy, task[t].at)
               sees == SeesChange(t)
    <3>1. PICK since \in ChangeTimes(t) :
            card' = IF Exists(c)
                    THEN [card EXCEPT ![c].generation = g, ![c].state = "active",
                                      ![c].pending = sees, ![c].lastChange = since,
                                      ![c].fingerprint = task[t].seen, ![c].nextEval = at]
                    ELSE card
      BY <2>2 DEF ClaimRefresh
    <3> HIDE DEF at, sees
    <3> QED BY <1>1, <3>1, Typed DEF Holders, Row
  <2> QED BY <2>1, <2>2
<1> QED BY <1>1, <1>2, <1>3, <1>4 DEF SlotStep

\* One card at most waits for the generation that is finalized (OneHolder).
LEMMA StalledReleased ==
  ASSUME CardsInv, NEW t \in Tasks, FinalizeStalled(t)
  PROVE  SlotStep
<1>1. PICK g \in task[t].stalled :
        card' = [c \in Cards |->
                   IF card[c].generation = g
                   THEN [card[c] EXCEPT !.state = "error", !.generation = None,
                                        !.nextEval = Never]
                   ELSE card[c]]
  BY DEF FinalizeStalled
<1>2. g \in Generations /\ g # None /\ delivered' = delivered
  <2>1. task[t].stalled \subseteq Generations
    BY Typed DEF TaskRow
  <2> QED BY <2>1, CardsAssumption DEF FinalizeStalled
<1>3. \A c \in Cards :
        card'[c].generation = IF card[c].generation = g THEN None ELSE card[c].generation
  BY <1>1, Typed DEF Row
<1>4. CASE \E c \in Cards : card[c].generation = g
  <2>1. PICK c \in Cards : card[c].generation = g
    BY <1>4
  <2>2. \A d \in Cards : card[d].generation = g => d = c
    BY <1>2, <2>1 DEF CardsInv, OneHolder
  <2>3. Holders(card') = [Holders(card) EXCEPT ![c] = None]
    BY <1>3, <2>1, <2>2 DEF Holders
  <2> QED BY <1>2, <2>3 DEF SlotStep
<1>5. CASE ~\E c \in Cards : card[c].generation = g
  BY <1>2, <1>3, <1>5 DEF SlotStep, Holders
<1> QED BY <1>4, <1>5

\* A card waits for one generation at a time, a generation works for one card,
\* and its summary is accepted once, while the card waits for it, whatever
\* requests, write-backs and overlapping executions of the scheduler do.
THEOREM CardsImplementSlot == CardsSpec => CardSlotSpec
<1>1. CardsInit => Slot!Init
  BY DEF CardsInit, NoRow, Slot!Init
<1>2. CardsInv /\ [CardsNext]_cardVars => [Slot!Next]_(Slot!slotVars)
  <2> SUFFICES ASSUME CardsInv, [CardsNext]_cardVars PROVE [Slot!Next]_(Slot!slotVars)
    OBVIOUS
  <2>1. ASSUME NEW t \in Handlers, NEW c \in Cards,
               CreateCard(t, c) \/ PatchCard(t, c) \/ DeleteCard(t, c)
               \/ RequestGeneration(t, c) \/ RequestWrite(t, c)
        PROVE  SlotStep
    BY <2>1, CardsUntouched, HoldersReleased DEF Tasks
  <2>2. ASSUME NEW t \in Tasks, Step(t)
        PROVE  SlotStep
    BY <2>2, CardsUntouched, HoldersKept, GenerationBegun, SummaryDelivered, StalledReleased
       DEF Step, CompileStep, RefreshStep, WriteStep, TickStep
  <2>3. CASE \/ \E t \in Tasks : StartTick(t) \/ Drop(t)
             \/ \E g \in Generations : MoveIssue(g)
             \/ WatchedIssueChanges \/ TimePasses \/ UNCHANGED cardVars
    BY <2>3, CardsUntouched, SlotStepRefines
  <2> QED BY <2>1, <2>2, <2>3, SlotStepRefines DEF CardsNext, Tasks
<1> QED BY <1>1, <1>2, CardsInitially, CardsSteps, PTL DEF CardsSpec, CardSlotSpec, Slot!Spec

-----------------------------------------------------------------------------
(***************************************************************************)
(* Overlapping executions of the scheduler job.                            *)
(*                                                                         *)
(* An execution claims a card by moving next_eval_at to the end of its     *)
(* window, and works on it without a lock.  While it does, another one     *)
(* finds the card due only when that time has come, or when it was moved   *)
(* back and the card waits for no generation (Deferred is false); a time   *)
(* that somebody moves back is in the record.                              *)
(***************************************************************************)
Deferred(t, c) ==
  \/ card[c].nextEval = Never
  \/ card[c].nextEval >= task[t].now + ClaimWindow
  \/ card[c].generation # None

\* An execution has taken the time at some earlier moment.
NowPast == \A t \in Executions : task[t].now <= clock
ClaimsHold ==
  \A t \in Executions, c \in Cards : Evaluating(t, c) => t \in reopened \/ Deferred(t, c)
ScanInv == CardsInv /\ NowPast /\ ClaimsHold /\ ScanExclusive

\* No execution takes a card, and none comes to a later time than the clock's.
NoneTaken ==
  \A x \in Executions :
    \/ task'[x].card = task[x].card /\ task'[x].now = task[x].now
    \/ task'[x].card = None /\ task'[x].now \in {task[x].now, 0, clock}
\* What may become of next_eval_at at such a step
Rescheduled(c) ==
  \/ /\ card'[c].nextEval = card[c].nextEval
     /\ card[c].generation # None => card'[c].generation # None
  \/ card'[c].nextEval = Never
  \/ card'[c].generation # None
  \/ \E h \in Tasks : /\ WriteSummary(h) /\ task[h].card = c
                      /\ card[c].generation = task[h].gen
  \/ \E u \in Executions : task[u].card = c /\ task'[u].card # c /\ card'[c] # card[c]

\* Such a step keeps the invariant.
LEMMA ScanKept ==
  ASSUME ScanInv, CardsInv', RecordReopened, NoneTaken, \A c \in Cards : Rescheduled(c),
         clock' >= clock
  PROVE  ScanInv'
<1>1. clock \in Nat /\ clock' \in Nat /\ ClaimWindow \in Nat /\ None \notin Cards
      /\ Executions \subseteq Tasks
  BY CardsAssumption DEF ScanInv, CardsInv, TypeOK, Tasks
<1>2. \A x \in Executions : task[x].now \in Nat /\ task'[x].now \in Nat
  BY <1>1 DEF ScanInv, CardsInv, TypeOK, TaskRow
<1>3. NowPast'
  BY <1>1, <1>2 DEF ScanInv, NowPast, NoneTaken
<1>4. \A x \in Executions, c \in Cards : Evaluating(x, c)' =>
        /\ Evaluating(x, c) /\ task[x].card = c /\ task'[x].card = c
        /\ task'[x].now = task[x].now
        /\ x \in reopened => x \in reopened'
  BY <1>1 DEF NoneTaken, Evaluating, RecordReopened
<1>5. ClaimsHold'
  <2> SUFFICES ASSUME NEW x \in Executions, NEW c \in Cards, Evaluating(x, c)', x \notin reopened'
               PROVE  Deferred(x, c)'
    BY DEF ClaimsHold
  <2>1. Deferred(x, c)
    BY <1>4 DEF ScanInv, ClaimsHold
  <2>2. ~SummaryWritten(x) /\ ~AnotherEnds(x)
    BY <1>1, <1>4 DEF RecordReopened
  <2>3. ~\E h \in Tasks : WriteSummary(h) /\ task[h].card = c /\ card[c].generation = task[h].gen
    BY <1>4, <2>2 DEF SummaryWritten
  <2>4. ~\E u \in Executions : task[u].card = c /\ task'[u].card # c /\ card'[c] # card[c]
    <3> SUFFICES ASSUME NEW u \in Executions, task[u].card = c, task'[u].card # c,
                        card'[c] # card[c]
                 PROVE  FALSE
      OBVIOUS
    <3>1. u # x
      BY <1>4
    <3> QED BY <1>4, <2>2, <3>1 DEF AnotherEnds
  <2> QED BY <1>4, <2>1, <2>3, <2>4 DEF Rescheduled, Deferred
<1>6. ScanExclusive'
  <2> SUFFICES ASSUME NEW c \in Cards, NEW t \in Executions, NEW u \in Executions, t # u,
                      Evaluating(t, c)', Evaluating(u, c)'
               PROVE  \E x \in {t, u} : x \in reopened' \/ clock' >= task'[x].now + ClaimWindow
    BY DEF ScanExclusive
  <2>1. PICK x \in {t, u} : x \in reopened \/ clock >= task[x].now + ClaimWindow
    BY <1>4 DEF ScanInv, ScanExclusive
  <2> QED BY <1>1, <1>2, <1>4, <2>1
<1> QED BY <1>3, <1>5, <1>6 DEF ScanInv

-----------------------------------------------------------------------------
(* What each step does to the executions.                                  *)

LEMMA Moved ==
  ASSUME CardsInv, NEW t \in Tasks, NEW k, task' = [task EXCEPT ![t] = k],
         \/ k.card = task[t].card /\ k.now = task[t].now
         \/ k.card = None /\ k.now \in {task[t].now, 0, clock}
  PROVE  NoneTaken
BY Typed DEF NoneTaken, Tasks

\* An execution that ends with its card, or altogether, is at none.
LEMMA Ends ==
  ASSUME CardsInv, NEW t \in Tasks, Finish(t) \/ task' = [task EXCEPT ![t] = Idle]
  PROVE  NoneTaken /\ task'[t].card = None
<1> DEFINE k == [task[t] EXCEPT !.pc = "due", !.card = None, !.gen = None, !.row = NoCopy,
                                !.seen = Never, !.at = 0]
<1>1. k.card = None /\ k.now = task[t].now /\ Idle.card = None /\ Idle.now = 0
  BY Typed DEF TaskRow, Idle
<1>2. task' = [task EXCEPT ![t] = k] \/ task' = [task EXCEPT ![t] = Idle]
  BY Typed DEF Finish
<1> HIDE DEF k
<1>3. task'[t].card = None
  BY <1>1, <1>2, Typed
<1> QED BY <1>1, <1>2, <1>3, Moved

LEMMA GoesTo ==
  ASSUME CardsInv, NEW t \in Tasks, NEW pc, Goto(t, pc)
  PROVE  NoneTaken
<1> DEFINE k == [task[t] EXCEPT !.pc = pc]
<1>1. k.card = task[t].card /\ k.now = task[t].now /\ task' = [task EXCEPT ![t] = k]
  BY Typed DEF TaskRow, Goto
<1> HIDE DEF k
<1> QED BY <1>1, Moved

LEMMA Continues ==
  ASSUME CardsInv, NEW t \in Tasks, NEW stalled, Continue(t, stalled)
  PROVE  NoneTaken
<1> DEFINE k == [task[t] EXCEPT !.pc = "stalled", !.stalled = stalled]
<1>1. k.card = task[t].card /\ k.now = task[t].now
  BY Typed DEF TaskRow
<1>2. task' = [task EXCEPT ![t] = Idle] \/ task' = [task EXCEPT ![t] = k]
  BY Typed DEF Continue
<1> HIDE DEF k
<1> QED BY <1>1, <1>2, Moved, Ends

-----------------------------------------------------------------------------
(* What each step does to next_eval_at.                                    *)

LEMMA RowEdited ==
  ASSUME CardsInv
  PROVE  /\ UNCHANGED card => \A d \in Cards : Rescheduled(d)
         /\ \A c \in Cards : \A row :
              /\ card' \in {card, [card EXCEPT ![c] = row]}
              /\ \/ row.nextEval = card[c].nextEval /\ row.generation = card[c].generation
                 \/ row.nextEval = Never
                 \/ row.generation # None
              => \A d \in Cards : Rescheduled(d)
BY Typed DEF Rescheduled

\* The execution of a scheduled evaluation writes its card as it leaves it.
LEMMA RowLeft ==
  ASSUME CardsInv, NEW t \in Executions, NEW c \in Cards, NEW row, task[t].card = c,
         card' \in {card, [card EXCEPT ![c] = row]}, task'[t].card = None
  PROVE  \A d \in Cards : Rescheduled(d)
BY Typed, CardsAssumption DEF Rescheduled

\* Requests that arrive
LEMMA RequestsScan ==
  ASSUME CardsInv, NEW t \in Handlers, NEW c \in Cards,
         CreateCard(t, c) \/ PatchCard(t, c) \/ DeleteCard(t, c)
         \/ RequestGeneration(t, c) \/ RequestWrite(t, c)
  PROVE  NoneTaken /\ (\A d \in Cards : Rescheduled(d)) /\ clock' = clock
<1>1. NoneTaken
  <2>1. UNCHANGED task \/ \E k : task' = [task EXCEPT ![t] = k]
    BY DEF CreateCard, PatchCard, DeleteCard, RequestGeneration, RequestWrite
  <2> QED BY <2>1, Typed, CardsAssumption DEF NoneTaken, Tasks
<1>2. \A d \in Cards : Rescheduled(d)
  <2>1. CASE CreateCard(t, c)
    <3>1. \A policy, queries :
            [NoRow EXCEPT !.state = "compiling", !.policy = policy,
                          !.queries = queries].nextEval = Never
      BY DEF NoRow
    <3> QED BY <2>1, <3>1, RowEdited DEF CreateCard
  <2>2. CASE DeleteCard(t, c)
    <3>1. [NoRow EXCEPT !.state = "deleted"].nextEval = Never
      BY DEF NoRow
    <3> QED BY <2>2, <3>1, RowEdited DEF DeleteCard
  <2>3. CASE PatchCard(t, c) \/ RequestGeneration(t, c) \/ RequestWrite(t, c)
    BY <2>3, RowEdited DEF PatchCard, RequestGeneration, RequestWrite
  <2> QED BY <2>1, <2>2, <2>3
<1>3. clock' = clock
  BY DEF CreateCard, PatchCard, DeleteCard, RequestGeneration, RequestWrite
<1> QED BY <1>1, <1>2, <1>3

\* Steps that write no card
LEMMA ReadsScan ==
  ASSUME CardsInv, NEW t \in Tasks,
         \/ ReadForCompile(t) \/ CheckGeneration(t) \/ InsertGeneration(t) \/ NoSummarizer(t)
         \/ ReadForRefresh(t) \/ ExecuteQueries(t) \/ WakeSummarizer(t) \/ SelectStalled(t)
         \/ Drop(t)
  PROVE  NoneTaken /\ (\A d \in Cards : Rescheduled(d)) /\ clock' = clock
<1>1. UNCHANGED <<card, clock>>
  BY DEF ReadForCompile, CheckGeneration, InsertGeneration, NoSummarizer, ReadForRefresh,
         ExecuteQueries, WakeSummarizer, SelectStalled, Drop
<1>2. NoneTaken
  <2>1. CASE \/ Finish(t) \/ task' = [task EXCEPT ![t] = Idle] \/ (\E pc : Goto(t, pc))
             \/ \E stalled : Continue(t, stalled)
    BY <2>1, Ends, GoesTo, Continues
  <2>2. CASE InsertGeneration(t)
    <3>1. PICK g \in Generations : task' = [task EXCEPT ![t].pc = "claim", ![t].gen = g]
      BY <2>2 DEF InsertGeneration
    <3> DEFINE k == [task[t] EXCEPT !.pc = "claim", !.gen = g]
    <3>2. k.card = task[t].card /\ k.now = task[t].now /\ task' = [task EXCEPT ![t] = k]
      BY <3>1, Typed DEF TaskRow
    <3> HIDE DEF k
    <3> QED BY <3>2, Moved
  <2>3. CASE ReadForRefresh(t)
    <3> DEFINE k == [task[t] EXCEPT !.pc = "check", !.row = CopyOf(task[t].card)]
    <3>1. k.card = task[t].card /\ k.now = task[t].now
      BY Typed DEF TaskRow
    <3>2. task' = [task EXCEPT ![t] = k] \/ Finish(t)
      BY <2>3, Typed DEF ReadForRefresh
    <3> HIDE DEF k
    <3> QED BY <3>1, <3>2, Moved, Ends
  <2>4. CASE ExecuteQueries(t)
    <3> DEFINE k == [task[t] EXCEPT !.pc = "decide", !.seen = world, !.at = clock]
    <3>1. k.card = task[t].card /\ k.now = task[t].now /\ task' = [task EXCEPT ![t] = k]
      BY <2>4, Typed DEF TaskRow, ExecuteQueries
    <3> HIDE DEF k
    <3> QED BY <3>1, Moved
  <2> QED BY <2>1, <2>2, <2>3, <2>4
          DEF ReadForCompile, CheckGeneration, NoSummarizer, WakeSummarizer, SelectStalled, Drop
<1> QED BY <1>1, <1>2, RowEdited

\* The UPDATEs of requests that keep the schedule of the row
LEMMA RowEditsScan ==
  ASSUME CardsInv, NEW t \in Tasks, WritePatch(t) \/ WriteQuery(t)
  PROVE  NoneTaken /\ (\A d \in Cards : Rescheduled(d)) /\ clock' = clock
<1> DEFINE c == task[t].card
<1>1. c \in Cards
  BY Typed DEF WritePatch, WriteQuery, OnCard
<1>2. NoneTaken
  <2>1. Finish(t) \/ \E pc : Goto(t, pc)
    BY DEF WritePatch, WriteQuery
  <2> QED BY <2>1, Ends, GoesTo
<1>3. CASE WritePatch(t)
  <2> DEFINE row(archived, queries, policy) ==
               [card[c] EXCEPT !.archived = archived, !.queries = queries, !.policy = policy]
  <2>1. PICK archived, queries, policy :
          card' = IF Exists(c) THEN [card EXCEPT ![c].archived = archived, ![c].queries = queries,
                                                 ![c].policy = policy] ELSE card
    BY <1>3 DEF WritePatch
  <2>2. card' \in {card, [card EXCEPT ![c] = row(archived, queries, policy)]}
    BY <1>1, <2>1, Typed
  <2>3. /\ row(archived, queries, policy).nextEval = card[c].nextEval
        /\ row(archived, queries, policy).generation = card[c].generation
    BY <1>1, Typed DEF Row
  <2> HIDE DEF row
  <2> QED BY <1>1, <1>2, <1>3, <2>2, <2>3, RowEdited DEF WritePatch
<1>4. CASE WriteQuery(t)
  <2> DEFINE row(queries) == [card[c] EXCEPT !.queries = queries, !.state = "compiling"]
  <2>1. PICK queries : card' \in {card, [card EXCEPT ![c] = row(queries)]}
    BY <1>1, <1>4, Typed DEF WriteQuery
  <2>2. /\ row(queries).nextEval = card[c].nextEval
        /\ row(queries).generation = card[c].generation
    BY <1>1, Typed DEF Row
  <2> HIDE DEF row
  <2> QED BY <1>1, <1>2, <1>4, <2>1, <2>2, RowEdited DEF WriteQuery
<1> QED BY <1>3, <1>4

\* Decisions that enqueue nothing: only executions take them, and leave the card.
LEMMA DecisionsScan ==
  ASSUME CardsInv, NEW t \in Tasks, RescheduleUnchanged(t) \/ Postpone(t)
  PROVE  NoneTaken /\ (\A d \in Cards : Rescheduled(d)) /\ clock' = clock
<1> DEFINE c == task[t].card
           row(pending, since, state, at) ==
             [card[c] EXCEPT !.pending = pending, !.lastChange = since, !.state = state,
                             !.fingerprint = task[t].seen, !.nextEval = at]
<1>1. c \in Cards /\ t \in Executions /\ Finish(t) /\ clock' = clock
  BY Typed DEF RescheduleUnchanged, Postpone, OnCard, Manual, Tasks
<1>2. \E k : card' \in {card, [card EXCEPT ![c] = k]}
  <2>1. CASE RescheduleUnchanged(t)
    <3> DEFINE at == NextEval(task[t].row.policy, task[t].at)
    <3>1. card' \in {card, [card EXCEPT ![c] = row(FALSE, Never, "active", at)]}
      BY <1>1, <2>1, Typed DEF RescheduleUnchanged
    <3> QED BY <3>1
  <2>2. CASE Postpone(t)
    <3> DEFINE waitsFor(since, state, limited) ==
                 IF state = "active" /\ task[t].row.policy = "reactive" /\ ~limited
                 THEN since + Debounce ELSE NextEval(task[t].row.policy, task[t].at)
    <3>1. PICK since \in ChangeTimes(t), state \in {"active", "paused_hours", "paused_budget"},
               limited \in BOOLEAN :
            card' = IF Exists(c)
                    THEN [card EXCEPT ![c].pending = TRUE, ![c].lastChange = since,
                                      ![c].state = state, ![c].fingerprint = task[t].seen,
                                      ![c].nextEval = waitsFor(since, state, limited)]
                    ELSE card
      BY <2>2, ZenonT(40) DEF Postpone
    <3> HIDE DEF waitsFor
    <3>2. card' \in {card, [card EXCEPT ![c] = row(TRUE, since, state,
                                                   waitsFor(since, state, limited))]}
      BY <1>1, <3>1, Typed
    <3> QED BY <3>2
  <2> QED BY <2>1, <2>2
<1> QED BY <1>1, <1>2, Ends, RowLeft

\* A card that waits for a generation is not due.
LEMMA ClaimsScan ==
  ASSUME CardsInv, NEW t \in Tasks, ClaimCompile(t) \/ ClaimRefresh(t)
  PROVE  NoneTaken /\ (\A d \in Cards : Rescheduled(d)) /\ clock' = clock
<1> DEFINE c == task[t].card
<1>1. c \in Cards /\ task[t].gen # None
  BY Typed, CardsAssumption DEF ClaimCompile, ClaimRefresh, OnCard
<1>2. NoneTaken
  <2>1. Finish(t) \/ Goto(t, "wake")
    BY DEF ClaimCompile, ClaimRefresh
  <2> QED BY <2>1, Ends, GoesTo
<1>3. \E row : row.generation # None /\ card' \in {card, [card EXCEPT ![c] = row]}
  <2>1. CASE ClaimCompile(t)
    <3> DEFINE row == [card[c] EXCEPT !.generation = task[t].gen, !.state = "compiling"]
    <3>1. row.generation = task[t].gen
      BY <1>1, Typed DEF Row
    <3>2. card' \in {card, [card EXCEPT ![c] = row]}
      BY <1>1, <2>1, Typed DEF ClaimCompile
    <3> QED BY <1>1, <3>1, <3>2
  <2>2. CASE ClaimRefresh(t)
    <3> DEFINE at == NextEval(task[t].row.policy, task[t].at)
               sees == SeesChange(t)
               row(since) == [card[c] EXCEPT !.generation = task[t].gen, !.state = "active",
                                             !.pending = sees, !.lastChange = since,
                                             !.fingerprint = task[t].seen, !.nextEval = at]
    <3>1. PICK since :
            card' \in {card, [card EXCEPT ![c].generation = task[t].gen, ![c].state = "active",
                                          ![c].pending = sees, ![c].lastChange = since,
                                          ![c].fingerprint = task[t].seen, ![c].nextEval = at]}
      BY <2>2 DEF ClaimRefresh
    <3> HIDE DEF at, sees
    <3>2. row(since).generation = task[t].gen
      BY <1>1, Typed DEF Row
    <3>3. card' \in {card, [card EXCEPT ![c] = row(since)]}
      BY <1>1, <3>1, Typed
    <3> HIDE DEF row
    <3> QED BY <1>1, <3>2, <3>3
  <2> QED BY <2>1, <2>2
<1>4. clock' = clock
  BY DEF ClaimCompile, ClaimRefresh
<1> QED BY <1>1, <1>2, <1>3, <1>4, RowEdited

\* A summary that is accepted is in the record.
LEMMA WriteSummaryScan ==
  ASSUME CardsInv, NEW t \in Tasks, WriteSummary(t)
  PROVE  NoneTaken /\ (\A d \in Cards : Rescheduled(d)) /\ clock' = clock
<1> DEFINE c == task[t].card
<1>1. c \in Cards /\ Finish(t) /\ clock' = clock
  BY Typed DEF WriteSummary, OnCard
<1>2. ASSUME NEW d \in Cards
      PROVE  Rescheduled(d)
  <2>1. CASE d = c /\ card[c].generation = task[t].gen
    BY <2>1 DEF Rescheduled
  <2>2. CASE d # c \/ card[c].generation # task[t].gen
    <3>1. card'[d] = card[d]
      BY <1>1, <2>2, Typed DEF WriteSummary
    <3> QED BY <3>1 DEF Rescheduled
  <2> QED BY <2>1, <2>2
<1> QED BY <1>1, <1>2, Ends

\* A finalized card has no next evaluation.
LEMMA FinalizeStalledScan ==
  ASSUME CardsInv, NEW t \in Tasks, FinalizeStalled(t)
  PROVE  NoneTaken /\ (\A d \in Cards : Rescheduled(d)) /\ clock' = clock
<1>1. PICK g \in task[t].stalled :
        /\ card' = [c \in Cards |->
                      IF card[c].generation = g
                      THEN [card[c] EXCEPT !.state = "error", !.generation = None,
                                           !.nextEval = Never]
                      ELSE card[c]]
        /\ Continue(t, task[t].stalled \ {g})
  BY DEF FinalizeStalled
<1>2. ASSUME NEW d \in Cards
      PROVE  Rescheduled(d)
  <2>1. CASE card[d].generation = g
    <3>1. card'[d].nextEval = Never
      BY <1>1, <2>1, Typed DEF Row
    <3> QED BY <3>1 DEF Rescheduled
  <2>2. CASE card[d].generation # g
    BY <1>1, <2>2 DEF Rescheduled
  <2> QED BY <2>1, <2>2
<1> QED BY <1>1, <1>2, Continues DEF FinalizeStalled

\* An execution starts at no card, and the rest of the system moves none.
LEMMA RestScan ==
  ASSUME CardsInv, \/ \E t \in Executions : StartTick(t)
                   \/ \E g \in Generations : MoveIssue(g)
                   \/ WatchedIssueChanges \/ TimePasses \/ UNCHANGED cardVars
  PROVE  NoneTaken /\ (\A d \in Cards : Rescheduled(d)) /\ clock' >= clock
<1>1. UNCHANGED card
  BY DEF StartTick, MoveIssue, WatchedIssueChanges, TimePasses, cardVars
<1>2. clock' >= clock
  <2>1. clock' = clock \/ clock' = clock + 1
    BY DEF StartTick, MoveIssue, WatchedIssueChanges, TimePasses, cardVars
  <2> QED BY <2>1 DEF CardsInv, TypeOK
<1>3. NoneTaken
  <2>1. CASE UNCHANGED task
    BY <2>1, Typed DEF NoneTaken
  <2>2. ASSUME NEW t \in Executions, StartTick(t)
        PROVE  NoneTaken
    <3> DEFINE k == [Idle EXCEPT !.pc = "due", !.op = "refresh", !.now = clock,
                                 !.due = {c \in Cards : IsDue(c, clock)}]
    <3>1. k.card = None /\ k.now = clock /\ task' = [task EXCEPT ![t] = k]
      BY <2>2 DEF StartTick, Idle
    <3> HIDE DEF k
    <3> QED BY <3>1, Moved DEF Tasks
  <2> QED BY <2>1, <2>2 DEF MoveIssue, WatchedIssueChanges, TimePasses, cardVars
<1> QED BY <1>1, <1>2, <1>3, RowEdited

\* The claim: whoever is at the card has moved its time to the end of a window
\* that is over, or is in the record.
LEMMA ClaimDueScans ==
  ASSUME ScanInv, CardsInv', NEW t \in Tasks, ClaimDue(t), RecordReopened
  PROVE  ScanInv'
<1>1. PICK c \in task[t].due :
        IF IsDue(c, task[t].now)
        THEN /\ card' = [card EXCEPT ![c].nextEval = task[t].now + ClaimWindow]
             /\ task' = [task EXCEPT ![t].pc = "refresh", ![t].card = c, ![t].due = @ \ {c}]
        ELSE task' = [task EXCEPT ![t].due = @ \ {c}] /\ UNCHANGED card
  BY DEF ClaimDue
<1>2. CardsInv /\ clock' = clock
  BY DEF ScanInv, ClaimDue
<1>3. c \in Cards /\ clock \in Nat /\ ClaimWindow \in Nat /\ None \notin Cards
      /\ Executions \subseteq Tasks
  BY <1>2, Typed, CardsAssumption DEF TaskRow, CardsInv, TypeOK, Tasks
<1>4. CASE ~IsDue(c, task[t].now)
  <2> DEFINE k == [task[t] EXCEPT !.due = @ \ {c}]
  <2>1. k.card = task[t].card /\ k.now = task[t].now /\ task' = [task EXCEPT ![t] = k]
    BY <1>1, <1>2, <1>4, Typed DEF TaskRow
  <2>2. NoneTaken
    <3> HIDE DEF k
    <3> QED BY <1>2, <2>1, Moved
  <2>3. UNCHANGED card
    BY <1>1, <1>4
  <2> QED BY <1>2, <1>3, <2>2, <2>3, RowEdited, ScanKept
<1>5. CASE IsDue(c, task[t].now)
  <2> DEFINE k == [task[t] EXCEPT !.pc = "refresh", !.card = c, !.due = @ \ {c}]
             row == [card[c] EXCEPT !.nextEval = task[t].now + ClaimWindow]
  <2>1. /\ k.card = c /\ k.now = task[t].now /\ k.now \in Nat
        /\ \A u \in Tasks : task'[u] = IF u = t THEN k ELSE task[u]
    BY <1>1, <1>2, <1>5, Typed DEF TaskRow
  <2>2. /\ row.nextEval = task[t].now + ClaimWindow
        /\ \A d \in Cards : card'[d] = IF d = c THEN row ELSE card[d]
    BY <1>1, <1>2, <1>3, <1>5, Typed DEF Row
  <2>3. /\ card[c].nextEval # Never /\ card[c].nextEval <= task[t].now
        /\ card[c].generation = None /\ card[c].nextEval \in Times
    BY <1>2, <1>3, <1>5, Typed DEF IsDue, Row
  <2> HIDE DEF k, row
  <2>4. \A x \in Executions : task[x].now \in Nat /\ task[x].now <= clock
                              /\ task'[x].now = task[x].now
    BY <1>2, <1>3, <2>1, Typed DEF TaskRow, ScanInv, NowPast
  <2>5. NowPast'
    BY <1>2, <2>4 DEF NowPast
  <2>6. \A x \in Executions, d \in Cards : Evaluating(x, d)' /\ x # t =>
          /\ Evaluating(x, d)
          /\ x \in reopened => x \in reopened'
    BY <1>3, <2>1 DEF Evaluating, RecordReopened
  <2>7. ClaimsHold'
    <3> SUFFICES ASSUME NEW x \in Executions, NEW d \in Cards, Evaluating(x, d)', x \notin reopened'
                 PROVE  Deferred(x, d)'
      BY DEF ClaimsHold
    <3>1. CASE x = t
      <4>1. d = c
        BY <1>3, <2>1, <3>1 DEF Evaluating
      <4> QED BY <1>3, <2>2, <2>4, <3>1, <4>1 DEF Deferred
    <3>2. CASE x # t
      <4>1. Deferred(x, d)
        BY <2>6, <3>2 DEF ScanInv, ClaimsHold
      <4>2. CASE d # c
        BY <2>2, <2>4, <4>1, <4>2 DEF Deferred
      <4>3. CASE d = c
        <5>1. card[c].nextEval >= task[x].now + ClaimWindow
          BY <2>3, <4>1, <4>3 DEF Deferred
        <5>2. card'[c].nextEval >= task'[x].now + ClaimWindow
          BY <1>3, <2>1, <2>2, <2>3, <2>4, <5>1 DEF Times, Never
        <5> QED BY <4>3, <5>2 DEF Deferred
      <4> QED BY <4>2, <4>3
    <3> QED BY <3>1, <3>2
  <2>8. ASSUME NEW x \in Executions, x # t, Evaluating(x, c)', t \in Executions
        PROVE  x \in reopened' \/ clock' >= task'[x].now + ClaimWindow
    <3>1. CASE x \in reopened
      BY <1>3, <2>6, <2>8, <3>1
    <3>2. CASE x \notin reopened
      <4>1. Deferred(x, c)
        BY <1>3, <2>6, <2>8, <3>2 DEF ScanInv, ClaimsHold
      <4>2. card[c].nextEval >= task[x].now + ClaimWindow
        BY <2>3, <4>1 DEF Deferred
      <4> QED BY <1>2, <1>3, <2>1, <2>3, <2>4, <2>8, <4>2 DEF Times, Never
    <3> QED BY <3>1, <3>2
  <2>9. ScanExclusive'
    <3> SUFFICES ASSUME NEW d \in Cards, NEW x \in Executions, NEW y \in Executions, x # y,
                        Evaluating(x, d)', Evaluating(y, d)'
                 PROVE  \E z \in {x, y} : z \in reopened' \/ clock' >= task'[z].now + ClaimWindow
      BY DEF ScanExclusive
    <3>1. CASE x # t /\ y # t
      <4>1. PICK z \in {x, y} : z \in reopened \/ clock >= task[z].now + ClaimWindow
        BY <2>6, <3>1 DEF ScanInv, ScanExclusive
      <4> QED BY <1>2, <2>4, <2>6, <3>1, <4>1
    <3>2. CASE x = t \/ y = t
      <4>1. d = c
        BY <1>3, <2>1, <3>2 DEF Evaluating
      <4> QED BY <2>8, <3>2, <4>1
    <3> QED BY <3>1, <3>2
  <2> QED BY <2>5, <2>7, <2>9 DEF ScanInv
<1> QED BY <1>4, <1>5

\* Two executions of the job evaluate one card at a time only when the claim of
\* one of them had run out, or when a summary written back, or the end of
\* another evaluation, has rescheduled the card under it: whatever the refresh
\* policies, the requests and the failures.
THEOREM NoDoubleEvaluation == HistorySpec => []ScanExclusive
<1>1. HistoryInit => ScanInv
  <2> SUFFICES ASSUME HistoryInit PROVE ScanInv
    OBVIOUS
  <2>1. CardsInv
    BY CardsInitially DEF HistoryInit
  <2>2. \A t \in Tasks : task[t].card = None /\ task[t].now = 0
    BY DEF HistoryInit, CardsInit, Idle
  <2>3. \A t \in Executions, c \in Cards : ~Evaluating(t, c)
    BY <2>2, CardsAssumption DEF Evaluating, Tasks
  <2> QED BY <2>1, <2>2, <2>3
          DEF ScanInv, NowPast, ClaimsHold, ScanExclusive, HistoryInit, CardsInit, Tasks
<1>2. ScanInv /\ [HistoryNext]_<<cardVars, reopened>> => ScanInv'
  <2> SUFFICES ASSUME ScanInv, [HistoryNext]_<<cardVars, reopened>> PROVE ScanInv'
    OBVIOUS
  <2>1. CardsInv /\ CardsInv'
    BY CardsSteps DEF ScanInv, HistoryNext
  <2>2. CASE UNCHANGED <<cardVars, reopened>>
    BY <2>1, <2>2 DEF cardVars, ScanInv, NowPast, ClaimsHold, Deferred, ScanExclusive, Evaluating
  <2>3. CASE HistoryNext
    <3>1. RecordReopened /\ clock \in Nat
      BY <2>1, <2>3 DEF HistoryNext, CardsInv, TypeOK
    <3>2. ASSUME NEW t \in Handlers, NEW c \in Cards,
                 CreateCard(t, c) \/ PatchCard(t, c) \/ DeleteCard(t, c)
                 \/ RequestGeneration(t, c) \/ RequestWrite(t, c)
          PROVE  ScanInv'
      BY <2>1, <3>1, <3>2, RequestsScan, ScanKept
    <3>3. ASSUME NEW t \in Tasks, Step(t) \/ Drop(t)
          PROVE  ScanInv'
      <4>1. CASE ClaimDue(t)
        BY <2>1, <3>1, <4>1, ClaimDueScans
      <4>2. CASE ~ClaimDue(t)
        <5>1. NoneTaken /\ (\A d \in Cards : Rescheduled(d)) /\ clock' = clock
          BY <2>1, <3>3, <4>2, ReadsScan, RowEditsScan, DecisionsScan, ClaimsScan,
             WriteSummaryScan, FinalizeStalledScan
             DEF Step, CompileStep, RefreshStep, WriteStep, TickStep
        <5> QED BY <2>1, <3>1, <5>1, ScanKept
      <4> QED BY <4>1, <4>2
    <3>4. CASE \/ \E t \in Executions : StartTick(t)
               \/ \E g \in Generations : MoveIssue(g)
               \/ WatchedIssueChanges \/ TimePasses
      BY <2>1, <3>1, <3>4, RestScan, ScanKept
    <3> QED BY <2>3, <3>2, <3>3, <3>4 DEF HistoryNext, CardsNext
  <2> QED BY <2>2, <2>3
<1>3. ScanInv => ScanExclusive
  BY DEF ScanInv
<1> QED BY <1>1, <1>2, <1>3, PTL DEF HistorySpec

=============================================================================
