----------------------------- MODULE Decisions -----------------------------
(***************************************************************************)
(* Decisions that agents ask of the board: creation with an idempotency    *)
(* key and a cap on open decisions, decide, dismiss, cancel, expiry, and   *)
(* the claims of the chosen option's effects.  A request reads the row it  *)
(* is about first and writes it in a later statement; requests interleave. *)
(* An option is abstracted to the number of its effects.                   *)
(***************************************************************************)
EXTENDS Integers, FiniteSets

CONSTANTS
  Decisions,
  Options,
  EffectCount,      \* EffectCount[o]: how many effects option o has
  Keys,             \* idempotency keys
  Askers,           \* requests in flight
  Nothing,          \* no key, no option, no decision
  OpenCap,          \* OPEN_DECISION_CAP
  MaxAsks,          \* bound: requests received
  MaxFailures       \* bound: requests that fail half-way

ASSUME DecisionsAssumption ==
  /\ Nothing \notin Decisions \cup Options \cup Keys
  /\ EffectCount \in [Options -> Nat]

VARIABLES
  decision,         \* rows of decisions
  overdue,          \* the decisions whose expires_at has passed
  linked,           \* the decisions with their decision_target_issues
  effects,          \* rows of decision_effect_executions, all "claimed"
  ask,              \* requests with their locals
  asks,             \* requests received so far
  failures,
  answers           \* history: the answers to requests to decide

decisionVars == <<decision, overdue, linked, effects, ask, asks, failures, answers>>

Statuses == {"open", "decided", "expired", "cancelled"}
ExecutionsOf == {"none", "running", "skipped"}
NoDecision == [status |-> "absent", execution |-> "none", chosen |-> Nothing, key |-> Nothing]

\* The read of a request: the row and the comparison of expires_at with now
Quiet == [pc |-> "quiet", on |-> Nothing, option |-> Nothing, key |-> Nothing, late |-> FALSE,
          row |-> NoDecision, next |-> 0]

DecisionsInit ==
  /\ decision = [d \in Decisions |-> NoDecision]
  /\ overdue = {}
  /\ linked = {}
  /\ effects = {}
  /\ ask = [r \in Askers |-> Quiet]
  /\ asks = 0
  /\ failures = 0
  /\ answers = {}

Ask(r) ==
  /\ ask[r].pc = "quiet"
  /\ asks < MaxAsks
  /\ asks' = asks + 1

Turn(r, state) == ask' = [ask EXCEPT ![r] = state]
Done(r) == Turn(r, Quiet)

\* What a client is told when it asks for option o of d with a key of its own
Answer(r, accepted) ==
  answers' = answers \cup {[on |-> ask[r].on, option |-> ask[r].option,
                            key |-> ask[r].key, accepted |-> accepted]}

(***************************************************************************)
(* POST /companies/:id/decisions: insert_decision                          *)
(***************************************************************************)
\* The replay of a key answers with the row that has it.
LookupKey(r, k) ==
  /\ Ask(r)
  /\ IF k # Nothing /\ \E d \in Decisions : decision[d].key = k
     THEN Done(r)
     ELSE Turn(r, [Quiet EXCEPT !.pc = "count", !.key = k])
  /\ UNCHANGED <<decision, overdue, linked, effects, failures, answers>>

CountOpen(r) ==
  /\ ask[r].pc = "count"
  /\ IF Cardinality({d \in Decisions : decision[d].status = "open"}) >= OpenCap
     THEN Done(r)
     ELSE Turn(r, [ask[r] EXCEPT !.pc = "insert"])
  /\ UNCHANGED <<decision, overdue, linked, effects, asks, failures, answers>>

\* A key is unique in a company: the second INSERT of a key fails.
InsertDecision(r) ==
  /\ ask[r].pc = "insert"
  /\ IF ask[r].key # Nothing /\ \E d \in Decisions : decision[d].key = ask[r].key
     THEN Done(r) /\ UNCHANGED decision
     ELSE \E d \in Decisions :
            /\ decision[d].status = "absent"
            /\ decision' = [decision EXCEPT ![d] = [NoDecision EXCEPT !.status = "open",
                                                                     !.key = ask[r].key]]
            /\ Turn(r, [ask[r] EXCEPT !.pc = "link", !.on = d])
  /\ UNCHANGED <<overdue, linked, effects, asks, failures, answers>>

LinkTargets(r) ==
  /\ ask[r].pc = "link"
  /\ linked' = linked \cup {ask[r].on}
  /\ Done(r)
  /\ UNCHANGED <<decision, overdue, effects, asks, failures, answers>>

(***************************************************************************)
(* POST /decisions/:id/decide                                              *)
(***************************************************************************)
\* A row whose signature does not match its spec is refused at once.
LoadToDecide(r, d, o, k) ==
  /\ Ask(r)
  /\ decision[d].status # "absent"
  /\ \/ Turn(r, [Quiet EXCEPT !.pc = "decide", !.on = d, !.option = o, !.key = k,
                                !.late = d \in overdue, !.row = decision[d]])
     \/ Done(r)
  /\ UNCHANGED <<decision, overdue, linked, effects, failures, answers>>

\* Mutant: any choice is answered with the outcome of the decision.
AnswerSettledLoose(r) ==
  /\ ask[r].pc = "decide"
  /\ ask[r].row.status # "open"
  /\ Answer(r, /\ ask[r].row.status = "decided"
               /\ ask[r].key \in {Nothing, ask[r].row.key})
  /\ Done(r)
  /\ UNCHANGED <<decision, overdue, linked, effects, asks, failures>>

\* A decision that is not open: the same choice again is answered with the
\* outcome if the keys match, anything else is a conflict.
AnswerSettled(r) ==
  /\ ask[r].pc = "decide"
  /\ ask[r].row.status # "open"
  /\ Answer(r, /\ ask[r].row.status = "decided"
               /\ ask[r].row.chosen = ask[r].option
               /\ ask[r].key \in {Nothing, ask[r].row.key})
  /\ Done(r)
  /\ UNCHANGED <<decision, overdue, linked, effects, asks, failures>>

\* The UPDATE to expired has no condition on the status.
ExpireDecision(r) ==
  /\ ask[r].pc = "decide"
  /\ ask[r].row.status = "open" /\ ask[r].late
  /\ decision' = [decision EXCEPT ![ask[r].on].status = "expired"]
  /\ Answer(r, FALSE)
  /\ Done(r)
  /\ UNCHANGED <<overdue, linked, effects, asks, failures>>

\* An option that the row has not, or an input that is missing or too long
RefuseInput(r) ==
  /\ ask[r].pc = "decide"
  /\ ask[r].row.status = "open" /\ ~ask[r].late
  /\ Answer(r, FALSE)
  /\ Done(r)
  /\ UNCHANGED <<decision, overdue, linked, effects, asks, failures>>

\* The key of the request is kept only by a row that has none; the UPDATE fails
\* if another row has it.
KeyTaken(d, k) == k # Nothing /\ decision[d].key = Nothing /\ \E e \in Decisions : decision[e].key = k

Decide(r) ==
  /\ ask[r].pc = "decide"
  /\ ask[r].row.status = "open" /\ ~ask[r].late
  /\ LET d == ask[r].on
     IN IF decision[d].status = "open" /\ ~KeyTaken(d, ask[r].key)
        THEN /\ decision' = [decision EXCEPT
                  ![d] = [status |-> "decided", execution |-> "running",
                          chosen |-> ask[r].option,
                          key |-> IF @.key = Nothing THEN ask[r].key ELSE @.key]]
             /\ Turn(r, [ask[r] EXCEPT !.pc = "claim", !.next = 1])
             /\ UNCHANGED answers
        ELSE /\ Answer(r, FALSE)
             /\ Done(r)
             /\ UNCHANGED decision
  /\ UNCHANGED <<overdue, linked, effects, asks, failures>>

\* Mutant: the last effect is left out.
ClaimEffectShort(r) ==
  /\ ask[r].pc = "claim"
  /\ IF ask[r].next >= EffectCount[ask[r].option]
     THEN Answer(r, TRUE) /\ Done(r) /\ UNCHANGED effects
     ELSE /\ effects' = effects \cup {[of |-> ask[r].on, index |-> ask[r].next,
                                       option |-> ask[r].option]}
          /\ Turn(r, [ask[r] EXCEPT !.next = @ + 1])
          /\ UNCHANGED answers
  /\ UNCHANGED <<decision, overdue, linked, asks, failures>>

\* claim_effects: one INSERT per effect, none where the row exists
ClaimEffect(r) ==
  /\ ask[r].pc = "claim"
  /\ IF ask[r].next > EffectCount[ask[r].option]
     THEN Answer(r, TRUE) /\ Done(r) /\ UNCHANGED effects
     ELSE LET d == ask[r].on
              i == ask[r].next
          IN /\ effects' = IF \E e \in effects : e.of = d /\ e.index = i THEN effects
                           ELSE effects \cup {[of |-> d, index |-> i, option |-> ask[r].option]}
             /\ Turn(r, [ask[r] EXCEPT !.next = i + 1])
             /\ UNCHANGED answers
  /\ UNCHANGED <<decision, overdue, linked, asks, failures>>

(***************************************************************************)
(* POST /decisions/:id/dismiss and /cancel                                 *)
(***************************************************************************)
\* Both load the row and go on only if it is open.
LoadToClose(r, d) ==
  /\ Ask(r)
  /\ decision[d].status # "absent"
  /\ \E pc \in {"dismiss", "cancel"} :
       IF decision[d].status = "open"
       THEN Turn(r, [Quiet EXCEPT !.pc = pc, !.on = d])
       ELSE Done(r)
  /\ UNCHANGED <<decision, overdue, linked, effects, failures, answers>>

\* Mutant: the update does not ask for an open row.
DismissSettled(r) ==
  /\ ask[r].pc = "dismiss"
  /\ decision' = [decision EXCEPT ![ask[r].on].status = "decided",
                                  ![ask[r].on].chosen = Nothing,
                                  ![ask[r].on].execution = "skipped"]
  /\ Done(r)
  /\ UNCHANGED <<overdue, linked, effects, asks, failures, answers>>

\* The first option without effects is chosen, or none of them.
Dismiss(r) ==
  /\ ask[r].pc = "dismiss"
  /\ LET d == ask[r].on
         quiet == {o \in Options : EffectCount[o] = 0}
     IN \E chosen \in IF quiet = {} THEN {Nothing} ELSE quiet :
          decision' = IF decision[d].status = "open"
                      THEN [decision EXCEPT ![d].status = "decided", ![d].chosen = chosen,
                                            ![d].execution = "skipped"]
                      ELSE decision
  /\ Done(r)
  /\ UNCHANGED <<overdue, linked, effects, asks, failures, answers>>

CancelDecision(r) ==
  /\ ask[r].pc = "cancel"
  /\ decision' = IF decision[ask[r].on].status = "open"
                 THEN [decision EXCEPT ![ask[r].on].status = "cancelled"] ELSE decision
  /\ Done(r)
  /\ UNCHANGED <<overdue, linked, effects, asks, failures, answers>>

(***************************************************************************)
(* Time and failures                                                       *)
(***************************************************************************)
PassDeadline(d) ==
  /\ decision[d].status # "absent"
  /\ d \notin overdue
  /\ overdue' = overdue \cup {d}
  /\ UNCHANGED <<decision, linked, effects, ask, asks, failures, answers>>

\* The client hangs up, a statement fails or the server restarts.
AskFails(r) ==
  /\ ask[r].pc # "quiet"
  /\ failures < MaxFailures
  /\ failures' = failures + 1
  /\ Done(r)
  /\ UNCHANGED <<decision, overdue, linked, effects, asks, answers>>

Handle(r) ==
  \/ CountOpen(r) \/ InsertDecision(r) \/ LinkTargets(r) \/ AnswerSettled(r)
  \/ ExpireDecision(r) \/ RefuseInput(r) \/ Decide(r) \/ ClaimEffect(r)
  \/ Dismiss(r) \/ CancelDecision(r)

DecisionsNext ==
  \/ \E r \in Askers :
       \/ \E k \in Keys \cup {Nothing} :
            LookupKey(r, k) \/ \E d \in Decisions, o \in Options : LoadToDecide(r, d, o, k)
       \/ \E d \in Decisions : LoadToClose(r, d)
       \/ Handle(r)
       \/ AskFails(r)
  \/ \E d \in Decisions : PassDeadline(d)

DecisionsSpec == DecisionsInit /\ [][DecisionsNext]_decisionVars
\* The server goes on with every request it has accepted.
DecisionsFairness == \A r \in Askers : WF_decisionVars(Handle(r))
DecisionsFairSpec == DecisionsSpec /\ DecisionsFairness

(***************************************************************************)
(* Properties                                                              *)
(***************************************************************************)
\* Of all the requests that race for a decision one has its effects claimed:
\* the claims are those of the option that the row shows as chosen, and a
\* decision that was dismissed or cancelled has none.
OneOutcome ==
  \A e \in effects :
    /\ decision[e.of].chosen = e.option
    /\ decision[e.of].execution = "running"
    /\ decision[e.of].status # "cancelled"

\* A decision is settled once, whoever decides, dismisses, cancels or expires it
\* meanwhile and whichever of these requests fail: a client is told that its
\* choice was accepted, and effects are claimed, only for the choice taken, which
\* is never changed or taken back.
Choice == INSTANCE SettledChoice WITH
            Questions <- Decisions, Choices <- Options, NoChoice <- Nothing,
            taken <- [d \in Decisions |-> decision[d].chosen],
            told <- {<<a.on, a.option>> : a \in {b \in answers : b.accepted}},
            done <- {<<e.of, e.option>> : e \in effects}
ChoiceSpec == Choice!Spec

\* Without failures, every effect of what was decided is claimed in the end.
EffectsClaimed ==
  \A d \in Decisions :
    decision[d].execution = "running"
      ~> (decision[d].chosen # Nothing
            => Cardinality({e \in effects : e.of = d}) = EffectCount[decision[d].chosen])
=============================================================================
