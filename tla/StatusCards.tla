---------------------------- MODULE StatusCards ----------------------------
(***************************************************************************)
(* Status cards: the rows of status_cards, the hidden issues that generate *)
(* their queries and summaries, the HTTP handlers that write both and the  *)
(* scheduler job that refreshes cards that are due.  One action is one SQL *)
(* statement (and the local computation around it); the handlers run in    *)
(* any order, and the scheduler starts an execution of its job every 30 s  *)
(* whether the previous one has ended or not.                              *)
(*                                                                         *)
(* What a card watches is reduced to a counter that grows with every       *)
(* change; a fingerprint is the value of the counter at an evaluation.     *)
(***************************************************************************)
EXTENDS Integers

CONSTANTS
  Cards,
  Generations,   \* hidden issues of origin status_card_generation
  Handlers,      \* requests in flight
  Executions,    \* executions of status_card_scheduler in flight
  Policies,      \* refresh policies of the cards, a subset of AllPolicies
  None,
  MaxRequests,   \* bound: requests received
  MaxDrops,      \* bound: handlers and executions that stop half-way
  MaxWorld,      \* bound: changes of the issues that a card watches
  MaxClock,      \* bound: time
  ClaimWindow,   \* the 5 minutes a scheduled evaluation is claimed for
  EvalDelay,     \* intervalMinutes
  Debounce       \* debounceSeconds

ASSUME CardsAssumption ==
  /\ None \notin Cards \cup Generations
  /\ Policies \subseteq {"default", "interval", "reactive", "manual"}
  /\ Handlers \cap Executions = {}
  /\ ClaimWindow \in Nat \ {0} /\ EvalDelay \in Nat /\ Debounce \in Nat

VARIABLES
  card,          \* rows of status_cards
  genIssue,      \* genIssue[g]: status of a generation issue
  woken,         \* the generation issues a wakeup was requested for
  delivered,     \* history: the generations whose summary was accepted
  world,         \* how often the watched issues have changed
  clock,
  task,          \* handlers and executions with their locals
  received,      \* requests received so far
  dropped

cardVars == <<card, genIssue, woken, delivered, world, clock, task, received, dropped>>

Never == -1                      \* a timestamp or fingerprint that is NULL
Times == {Never} \cup Nat
AllPolicies == {"default", "interval", "reactive", "manual"}
CardStates == {"compiling", "active", "error", "paused_hours", "paused_budget"}
\* of a generation issue: "open" is any status short of these, "ended" done or
\* cancelled
IssueStatuses == {"absent", "open", "blocked", "ended"}
\* STALLED_GENERATION_STATUSES
Stalled == {"ended", "blocked"}
Tasks == Handlers \cup Executions

Row == [state: CardStates \cup {"absent", "deleted"},
        generation: Generations \cup {None},
        queries: BOOLEAN,
        archived: BOOLEAN,
        policy: AllPolicies,
        fingerprint: Times,
        pending: BOOLEAN,
        lastChange: Times,
        nextEval: Times]

NoRow == [state |-> "absent", generation |-> None, queries |-> FALSE,
          archived |-> FALSE, policy |-> "default", fingerprint |-> Never,
          pending |-> FALSE, lastChange |-> Never, nextEval |-> Never]

\* What request_refresh keeps of the row it reads
Copy == [policy: AllPolicies, fingerprint: Times, pending: BOOLEAN, lastChange: Times]
NoCopy == [policy |-> "default", fingerprint |-> Never, pending |-> FALSE, lastChange |-> Never]
CopyOf(c) == [policy |-> card[c].policy, fingerprint |-> card[c].fingerprint,
              pending |-> card[c].pending, lastChange |-> card[c].lastChange]

Exists(c) == card[c].state \in CardStates

Idle == [pc |-> "idle", op |-> "none", card |-> None, gen |-> None, row |-> NoCopy,
         seen |-> Never, at |-> 0, now |-> 0, due |-> {}, stalled |-> {}]

CardsInit ==
  /\ card = [c \in Cards |-> NoRow]
  /\ genIssue = [g \in Generations |-> "absent"]
  /\ woken = {}
  /\ delivered = {}
  /\ world = 0
  /\ clock = 0
  /\ task = [t \in Tasks |-> Idle]
  /\ received = 0
  /\ dropped = 0

(***************************************************************************)
(* Helpers                                                                 *)
(***************************************************************************)
\* Mutant: the interval is taken off the time instead of added.
NextEvalBackwards(policy, t) ==
  CASE policy = "manual" -> Never
    [] policy = "reactive" -> t + Debounce
    [] OTHER -> t - EvalDelay

\* next_status_card_evaluation_at
NextEval(policy, t) ==
  CASE policy = "manual" -> Never
    [] policy = "reactive" -> t + Debounce
    [] OTHER -> t + EvalDelay

\* diff_status_card_fingerprint and filter_status_card_changes: a policy
\* without triggers, the default, lets no change through.
Changed(policy, before, after) == before # after /\ policy # "default"

\* active_generation_issue: the issue that a card waits for, unless it has
\* stopped.
ActiveGeneration(c) ==
  IF card[c].generation # None /\ genIssue[card[c].generation] \notin Stalled
  THEN card[c].generation ELSE None

Manual(t) == t \in Handlers
SeesChange(t) == Changed(task[t].row.policy, task[t].row.fingerprint, task[t].seen)

\* The hash of the changes may equal the pending one: they are then taken for
\* the same change, and the debounce runs from the first time it was seen.
ChangeTimes(t) ==
  {task[t].at} \cup
  (IF task[t].row.pending /\ task[t].row.lastChange # Never
   THEN {task[t].row.lastChange} ELSE {})

\* evaluate_status_card_policy: whether a change seen at time `since` waits;
\* `limited` when maxUpdatesPerHour is reached.  Outside its hours, or over its
\* token cap, a card pauses whatever its mode.
Waits(t, since, limited) ==
  \/ task[t].row.policy = "manual"
  \/ task[t].row.policy = "reactive" /\ (limited \/ since + Debounce > task[t].at)

\* A compile that found nothing under way, or a refresh whose policy says run
Enqueues(t) ==
  \/ task[t].pc = "insert"
  \/ /\ task[t].pc = "decide"
     /\ Manual(t) \/ (SeesChange(t) /\ \E since \in ChangeTimes(t) : ~Waits(t, since, FALSE))

Goto(t, pc) == task' = [task EXCEPT ![t].pc = pc]

\* A request answers, a scheduled evaluation goes on with the next due card.
Finish(t) ==
  task' = [task EXCEPT ![t] =
             IF t \in Executions
             THEN [@ EXCEPT !.pc = "due", !.card = None, !.gen = None, !.row = NoCopy,
                            !.seen = Never, !.at = 0]
             ELSE Idle]

Receive(t) ==
  /\ t \in Handlers
  /\ task[t].pc = "idle"
  /\ received < MaxRequests
  /\ received' = received + 1

(***************************************************************************)
(* Requests on cards                                                       *)
(***************************************************************************)
\* POST /companies/:id/status-cards: the row, then a compile
CreateCard(t, c) ==
  /\ Receive(t)
  /\ card[c].state = "absent"
  /\ \E policy \in Policies, queries \in BOOLEAN :
       card' = [card EXCEPT ![c] = [NoRow EXCEPT !.state = "compiling",
                                                 !.policy = policy, !.queries = queries]]
  /\ task' = [task EXCEPT ![t] = [Idle EXCEPT !.pc = "compile", !.op = "compile", !.card = c]]
  /\ UNCHANGED <<genIssue, woken, delivered, world, clock, dropped>>

\* PATCH: without "archived" in its body it writes back the archived_at that it
\* reads here, which may have changed: any value may be written below.
PatchCard(t, c) ==
  /\ Receive(t)
  /\ Exists(c)
  /\ task' = [task EXCEPT ![t] = [Idle EXCEPT !.pc = "patch", !.op = "compile", !.card = c]]
  /\ UNCHANGED <<card, genIssue, woken, delivered, world, clock, dropped>>

\* The update of a PATCH, which may bring queries of its own; a new prompt is
\* compiled, un-archiving a card with queries starts nothing.
WritePatch(t) ==
  /\ task[t].pc = "patch"
  /\ \E archived, queries, newPrompt \in BOOLEAN, policy \in Policies :
       /\ card' = IF Exists(task[t].card)
                  THEN [card EXCEPT ![task[t].card].archived = archived,
                                    ![task[t].card].queries = queries,
                                    ![task[t].card].policy = policy] ELSE card
       /\ IF newPrompt THEN Goto(t, "compile") ELSE Finish(t)
  /\ UNCHANGED <<genIssue, woken, delivered, world, clock, received, dropped>>

DeleteCard(t, c) ==
  /\ Receive(t)
  /\ Exists(c)
  /\ card' = [card EXCEPT ![c] = [NoRow EXCEPT !.state = "deleted"]]
  /\ UNCHANGED <<genIssue, woken, delivered, world, clock, task, dropped>>

\* POST /recompile and POST /refresh
RequestGeneration(t, c) ==
  /\ Receive(t)
  /\ Exists(c)
  /\ \E op \in {"compile", "refresh"} :
       task' = [task EXCEPT ![t] = [Idle EXCEPT !.pc = op, !.op = op, !.card = c]]
  /\ UNCHANGED <<card, genIssue, woken, delivered, world, clock, dropped>>

(***************************************************************************)
(* request_compile                                                         *)
(***************************************************************************)
ReadForCompile(t) ==
  /\ task[t].pc = "compile"
  /\ IF Exists(task[t].card) /\ ~card[task[t].card].archived
     THEN Goto(t, "check") ELSE Finish(t)
  /\ UNCHANGED <<card, genIssue, woken, delivered, world, clock, received, dropped>>

\* active_generation_issue, which both requests ask in a statement of its own
\* and which reads the row again
CheckGeneration(t) ==
  /\ task[t].pc = "check"
  /\ IF ActiveGeneration(task[t].card) # None THEN Finish(t)
     ELSE Goto(t, IF task[t].op = "compile" THEN "insert" ELSE "evaluate")
  /\ UNCHANGED <<card, genIssue, woken, delivered, world, clock, received, dropped>>

\* create_generation_issue
InsertGeneration(t) ==
  /\ Enqueues(t)
  /\ \E g \in Generations :
       /\ genIssue[g] = "absent"
       /\ genIssue' = [genIssue EXCEPT ![g] = "open"]
       /\ task' = [task EXCEPT ![t].pc = "claim", ![t].gen = g]
  /\ UNCHANGED <<card, woken, delivered, world, clock, received, dropped>>

\* resolve_summarizer_agent_id finds no agent.
NoSummarizer(t) ==
  /\ Enqueues(t)
  /\ Finish(t)
  /\ UNCHANGED <<card, genIssue, woken, delivered, world, clock, received, dropped>>

\* The last UPDATE of request_compile.  When it fails, or the UPDATE of the
\* issue's description before it, the issue stays without a card (Drop).
ClaimCompile(t) ==
  /\ task[t].pc = "claim" /\ task[t].op = "compile"
  /\ card' = IF Exists(task[t].card)
             THEN [card EXCEPT ![task[t].card].generation = task[t].gen,
                               ![task[t].card].state = "compiling"]
             ELSE card
  /\ Goto(t, "wake")
  /\ UNCHANGED <<genIssue, woken, delivered, world, clock, received, dropped>>

\* The routes wake the summarizer for the issue of their request.
WakeSummarizer(t) ==
  /\ task[t].pc = "wake"
  /\ woken' = woken \cup {task[t].gen}
  /\ Finish(t)
  /\ UNCHANGED <<card, genIssue, delivered, world, clock, received, dropped>>

(***************************************************************************)
(* request_refresh                                                         *)
(***************************************************************************)
ReadForRefresh(t) ==
  /\ task[t].pc = "refresh"
  /\ LET c == task[t].card IN
     IF Exists(c) /\ ~card[c].archived /\ card[c].queries
     THEN task' = [task EXCEPT ![t].pc = "check", ![t].row = CopyOf(c)]
     ELSE Finish(t)
  /\ UNCHANGED <<card, genIssue, woken, delivered, world, clock, received, dropped>>

\* execute_queries; the local `now` is taken just before
ExecuteQueries(t) ==
  /\ task[t].pc = "evaluate"
  /\ task' = [task EXCEPT ![t].pc = "decide", ![t].seen = world, ![t].at = clock]
  /\ UNCHANGED <<card, genIssue, woken, delivered, world, clock, received, dropped>>

\* No change and not manual: only the schedule moves on.
RescheduleUnchanged(t) ==
  /\ task[t].pc = "decide"
  /\ ~Manual(t) /\ ~SeesChange(t)
  /\ LET c == task[t].card IN
     card' = IF Exists(c)
             THEN [card EXCEPT ![c].pending = FALSE, ![c].lastChange = Never,
                               ![c].state = "active", ![c].fingerprint = task[t].seen,
                               ![c].nextEval = NextEval(task[t].row.policy, task[t].at)]
             ELSE card
  /\ Finish(t)
  /\ UNCHANGED <<genIssue, woken, delivered, world, clock, received, dropped>>

\* The policy says wait or pause: the change is noted as pending, and the
\* fingerprint moves on to what was just seen.
Postpone(t) ==
  /\ task[t].pc = "decide"
  /\ ~Manual(t) /\ SeesChange(t)
  /\ \E since \in ChangeTimes(t), state \in {"active", "paused_hours", "paused_budget"},
        limited \in BOOLEAN :
       /\ state = "active" => Waits(t, since, limited)
       /\ LET c == task[t].card
              row == task[t].row
              waitsFor == IF state = "active" /\ row.policy = "reactive" /\ ~limited
                          THEN since + Debounce ELSE NextEval(row.policy, task[t].at)
          IN card' = IF Exists(c)
                     THEN [card EXCEPT ![c].pending = TRUE, ![c].lastChange = since,
                                       ![c].state = state, ![c].fingerprint = task[t].seen,
                                       ![c].nextEval = waitsFor]
                     ELSE card
  /\ Finish(t)
  /\ UNCHANGED <<genIssue, woken, delivered, world, clock, received, dropped>>

\* The last UPDATE of request_refresh; a manual refresh may have no changes.
ClaimRefresh(t) ==
  /\ task[t].pc = "claim" /\ task[t].op = "refresh"
  /\ LET c == task[t].card IN
     \E since \in ChangeTimes(t) :
       card' = IF Exists(c)
               THEN [card EXCEPT ![c].generation = task[t].gen, ![c].state = "active",
                                 ![c].pending = SeesChange(t), ![c].lastChange = since,
                                 ![c].fingerprint = task[t].seen,
                                 ![c].nextEval = NextEval(task[t].row.policy, task[t].at)]
               ELSE card
  /\ IF Manual(t) THEN Goto(t, "wake") ELSE Finish(t)
  /\ UNCHANGED <<genIssue, woken, delivered, world, clock, received, dropped>>

(***************************************************************************)
(* Write-back by the summarizer                                            *)
(***************************************************************************)
\* PUT /query and PUT /summary: refused unless the request names the issue
\* that the card waits for
RequestWrite(t, c) ==
  /\ Receive(t)
  /\ Exists(c)
  /\ card[c].generation # None
  /\ \E pc \in {"write_query", "write_summary"} :
       task' = [task EXCEPT ![t] = [Idle EXCEPT !.pc = pc, !.op = "write", !.card = c,
                                                !.gen = card[c].generation, !.row = CopyOf(c),
                                                !.at = clock]]
  /\ UNCHANGED <<card, genIssue, woken, delivered, world, clock, dropped>>

\* The UPDATE of PUT /query does not look at generating_issue_id again.  The
\* array it brings may be empty.
WriteQuery(t) ==
  /\ task[t].pc = "write_query"
  /\ \E queries \in BOOLEAN :
       card' = IF Exists(task[t].card)
               THEN [card EXCEPT ![task[t].card].queries = queries,
                                 ![task[t].card].state = "compiling"]
               ELSE card
  /\ Finish(t)
  /\ UNCHANGED <<genIssue, woken, delivered, world, clock, received, dropped>>

\* Mutant: nor does that of PUT /summary.
WriteSummaryUnguarded(t) ==
  /\ task[t].pc = "write_summary"
  /\ LET c == task[t].card
     IN /\ card' = IF Exists(c)
                   THEN [card EXCEPT ![c].state = "active", ![c].generation = None,
                                     ![c].nextEval = NextEval(task[t].row.policy, task[t].at)]
                   ELSE card
        /\ delivered' = IF Exists(c) THEN delivered \cup {task[t].gen} ELSE delivered
  /\ Finish(t)
  /\ UNCHANGED <<genIssue, woken, world, clock, received, dropped>>

\* The UPDATE of PUT /summary does.
WriteSummary(t) ==
  /\ task[t].pc = "write_summary"
  /\ LET c == task[t].card
         g == task[t].gen
         hit == Exists(c) /\ card[c].generation = g
     IN /\ card' = IF hit
                   THEN [card EXCEPT ![c].state = "active", ![c].generation = None,
                                     ![c].nextEval = NextEval(task[t].row.policy, task[t].at)]
                   ELSE card
        /\ delivered' = IF hit THEN delivered \cup {g} ELSE delivered
  /\ Finish(t)
  /\ UNCHANGED <<genIssue, woken, world, clock, received, dropped>>

(***************************************************************************)
(* The scheduler job: tick_due_status_cards, finalize_stalled_generations  *)
(***************************************************************************)
IsDue(c, now) ==
  /\ Exists(c)
  /\ ~card[c].archived
  /\ card[c].generation = None
  /\ card[c].nextEval # Never
  /\ card[c].nextEval <= now

StartTick(t) ==
  /\ t \in Executions
  /\ task[t].pc = "idle"
  /\ task' = [task EXCEPT ![t] = [Idle EXCEPT !.pc = "due", !.op = "refresh", !.now = clock,
                                              !.due = {c \in Cards : IsDue(c, clock)}]]
  /\ UNCHANGED <<card, genIssue, woken, delivered, world, clock, received, dropped>>

\* Mutant: the claim does not look at the row again.
ClaimDueUnchecked(t) ==
  /\ task[t].pc = "due"
  /\ \E c \in task[t].due :
       /\ card' = IF Exists(c) THEN [card EXCEPT ![c].nextEval = task[t].now + ClaimWindow]
                  ELSE card
       /\ task' = [task EXCEPT ![t].pc = "refresh", ![t].card = c, ![t].due = @ \ {c}]
  /\ UNCHANGED <<genIssue, woken, delivered, world, clock, received, dropped>>

\* The claim of a due card, and the refresh of the one that was claimed
ClaimDue(t) ==
  /\ task[t].pc = "due"
  /\ \E c \in task[t].due :
       IF IsDue(c, task[t].now)
       THEN /\ card' = [card EXCEPT ![c].nextEval = task[t].now + ClaimWindow]
            /\ task' = [task EXCEPT ![t].pc = "refresh", ![t].card = c, ![t].due = @ \ {c}]
       ELSE /\ task' = [task EXCEPT ![t].due = @ \ {c}]
            /\ UNCHANGED card
  /\ UNCHANGED <<genIssue, woken, delivered, world, clock, received, dropped>>

\* What is left of the issues to finalize; with none left the execution ends.
Continue(t, stalled) ==
  task' = [task EXCEPT ![t] = IF stalled = {} THEN Idle
                              ELSE [@ EXCEPT !.pc = "stalled", !.stalled = stalled]]

\* Mutant: TERMINAL_ISSUE_STATUSES in place of STALLED_GENERATION_STATUSES
SelectEnded(t) ==
  /\ task[t].pc = "due"
  /\ task[t].due = {}
  /\ Continue(t, {g \in Generations : /\ genIssue[g] = "ended"
                                     /\ \E c \in Cards : card[c].generation = g})
  /\ UNCHANGED <<card, genIssue, woken, delivered, world, clock, received, dropped>>

SelectStalled(t) ==
  /\ task[t].pc = "due"
  /\ task[t].due = {}
  /\ Continue(t, {g \in Generations : /\ genIssue[g] \in Stalled
                                     /\ \E c \in Cards : card[c].generation = g})
  /\ UNCHANGED <<card, genIssue, woken, delivered, world, clock, received, dropped>>

FinalizeStalled(t) ==
  /\ task[t].pc = "stalled"
  /\ \E g \in task[t].stalled :
       /\ card' = [c \in Cards |->
                     IF card[c].generation = g
                     THEN [card[c] EXCEPT !.state = "error", !.generation = None,
                                          !.nextEval = Never]
                     ELSE card[c]]
       /\ Continue(t, task[t].stalled \ {g})
  /\ UNCHANGED <<genIssue, woken, delivered, world, clock, received, dropped>>

(***************************************************************************)
(* The rest of the system                                                  *)
(***************************************************************************)
\* Agents and the board move a generation issue as they like.
MoveIssue(g) ==
  /\ genIssue[g] # "absent"
  /\ \E s \in IssueStatuses \ {"absent", genIssue[g]} :
       genIssue' = [genIssue EXCEPT ![g] = s]
  /\ UNCHANGED <<card, woken, delivered, world, clock, task, received, dropped>>

WatchedIssueChanges ==
  /\ world < MaxWorld
  /\ world' = world + 1
  /\ UNCHANGED <<card, genIssue, woken, delivered, clock, task, received, dropped>>

TimePasses ==
  /\ clock < MaxClock
  /\ clock' = clock + 1
  /\ UNCHANGED <<card, genIssue, woken, delivered, world, task, received, dropped>>

\* A client hangs up, a statement fails or the server restarts.  An execution
\* whose refresh of a card fails goes on with the next one.
Drop(t) ==
  /\ task[t].pc # "idle"
  /\ dropped < MaxDrops
  /\ dropped' = dropped + 1
  /\ task' = [task EXCEPT ![t] = Idle] \/ (task[t].card # None /\ Finish(t))
  /\ UNCHANGED <<card, genIssue, woken, delivered, world, clock, received>>

CompileStep(t) == ReadForCompile(t) \/ CheckGeneration(t) \/ InsertGeneration(t)
                  \/ NoSummarizer(t) \/ ClaimCompile(t)
RefreshStep(t) ==
  \/ ReadForRefresh(t) \/ ExecuteQueries(t) \/ RescheduleUnchanged(t) \/ Postpone(t)
  \/ ClaimRefresh(t) \/ WakeSummarizer(t)
WriteStep(t) == WritePatch(t) \/ WriteQuery(t) \/ WriteSummary(t)
TickStep(t) == ClaimDue(t) \/ SelectStalled(t) \/ FinalizeStalled(t)
Step(t) == CompileStep(t) \/ RefreshStep(t) \/ WriteStep(t) \/ TickStep(t)

CardsNext ==
  \/ \E t \in Handlers, c \in Cards :
       CreateCard(t, c) \/ PatchCard(t, c) \/ DeleteCard(t, c)
       \/ RequestGeneration(t, c) \/ RequestWrite(t, c)
  \/ \E t \in Tasks : Step(t) \/ Drop(t)
  \/ \E t \in Executions : StartTick(t)
  \/ \E g \in Generations : MoveIssue(g)
  \/ WatchedIssueChanges
  \/ TimePasses

CardsSpec == CardsInit /\ [][CardsNext]_cardVars

\* The scheduler starts the job again and again, and the runtime goes on with
\* every execution.
CardsFairness == \A t \in Executions : WF_cardVars(StartTick(t)) /\ WF_cardVars(Step(t))
CardsFairSpec == CardsSpec /\ CardsFairness

(***************************************************************************)
(* Properties                                                              *)
(***************************************************************************)
TaskRow ==
  [pc: {"idle", "compile", "patch", "refresh", "check", "insert", "claim", "wake", "evaluate", "decide",
        "write_query", "write_summary", "due", "stalled"},
   op: {"none", "compile", "refresh", "write"},
   card: Cards \cup {None}, gen: Generations \cup {None}, row: Copy, seen: Times, at: Nat,
   now: Nat, due: SUBSET Cards, stalled: SUBSET Generations]
TypeOK ==
  /\ card \in [Cards -> Row]
  /\ genIssue \in [Generations -> IssueStatuses]
  /\ woken \subseteq Generations
  /\ delivered \subseteq Generations
  /\ world \in Nat /\ clock \in Nat
  /\ task \in [Tasks -> TaskRow]
  /\ received \in Nat /\ dropped \in Nat

\* A card waits for one generation at a time, a generation works for one card,
\* and its summary is accepted once, while the card waits for it: whatever
\* requests, write-backs and overlapping executions of the job do.
Slot == INSTANCE GenerationSlot WITH
          Records <- Cards, Tasks <- Generations, NoTask <- None,
          holder <- [c \in Cards |-> card[c].generation],
          finished <- delivered
CardSlotSpec == Slot!Spec

\* A card does not wait for ever for a generation that has stopped: the job
\* takes it away, whether the card is archived, due or scheduled at all.
CardReleased ==
  \A c \in Cards, g \in Generations :
    (card[c].generation = g /\ genIssue[g] \in Stalled)
      ~> (card[c].generation # g \/ genIssue[g] \notin Stalled)
=============================================================================
