----------------------------- MODULE MCServices -----------------------------
(***************************************************************************)
(* The smaller services for TLC.  They share no state, so a behaviour runs *)
(* one of them: `part` names it, and the others rest in their initial      *)
(* states.  A run therefore covers the sum of their state spaces.          *)
(***************************************************************************)
EXTENDS StatusCardHistory, SummarySlots, Decisions, IssueDocuments, PluginWorkers,
        RoutineTriggers, TaskWatchdog, TLC

VARIABLE part

CONSTANTS
  FirstDue,      \* when a compiled card falls due
  FirstSeen,     \* its fingerprint
  Refreshing,    \* handlers that have executed its queries for a manual refresh
  c1, g1, g2, h1, h2, e1, e2, s1, s2, x1, x2, q1, q2, f1, d1, o1, o2, o3, k1, r1, r2,
  j1, j2, w1, w2, v1, v2, p1, p2, u1, u2, u3, t1, t2, n1, n2, i0, i1, b1, b2, a1, a2

CardsSymmetry == Permutations(Generations) \cup Permutations(Handlers)
OneSkipOneTwo == (o1 :> 2) @@ (o2 :> 0) @@ (o3 :> 1)

cardHistory == <<cardVars, reopened>>
allVars == <<part, cardHistory, slotVars, decisionVars, docVars, workerVars, triggerVars,
             watchdogVars>>

Parts == {"cards", "slots", "decisions", "documents", "workers", "triggers", "watchdog"}

\* A compiled card, with or without a manual refresh of it in flight
Compiled == {[NoRow EXCEPT !.state = "active", !.queries = TRUE, !.policy = policy,
                           !.nextEval = FirstDue, !.fingerprint = FirstSeen] : policy \in Policies}
CompiledCards ==
  /\ card \in [Cards -> Compiled]
  /\ genIssue = [g \in Generations |-> "absent"]
  /\ woken = {} /\ delivered = {}
  /\ world = 0 /\ clock = 0
  /\ \E c \in Cards :
       task = [t \in Tasks |->
                 IF t \in Refreshing
                 THEN [Idle EXCEPT !.pc = "decide", !.op = "refresh", !.card = c,
                                   !.row = CopyOf(c), !.seen = world]
                 ELSE Idle]
  /\ received = 0
  /\ dropped = 0

ServicesInit ==
  /\ part \in Parts
  /\ CardsInit \/ (part = "cards" /\ CompiledCards)
  /\ reopened = {}
  /\ TriggersInit
  /\ part # "triggers" => \A t \in Triggers : trigger[t].policy = "all"
  /\ SlotsInit /\ DecisionsInit /\ DocumentsInit /\ WorkersInit /\ WatchdogInit

RunCards ==
  /\ part = "cards"
  /\ CardsNext /\ RecordReopened
  /\ UNCHANGED <<part, slotVars, decisionVars, docVars, workerVars, triggerVars, watchdogVars>>

RunSlots ==
  /\ part = "slots"
  /\ SlotsNext
  /\ UNCHANGED <<part, cardHistory, decisionVars, docVars, workerVars, triggerVars, watchdogVars>>

RunDecisions ==
  /\ part = "decisions"
  /\ DecisionsNext
  /\ UNCHANGED <<part, cardHistory, slotVars, docVars, workerVars, triggerVars, watchdogVars>>

RunDocuments ==
  /\ part = "documents"
  /\ DocumentsNext
  /\ UNCHANGED <<part, cardHistory, slotVars, decisionVars, workerVars, triggerVars, watchdogVars>>

RunWorkers ==
  /\ part = "workers"
  /\ WorkersNext
  /\ UNCHANGED <<part, cardHistory, slotVars, decisionVars, docVars, triggerVars, watchdogVars>>

RunTriggers ==
  /\ part = "triggers"
  /\ TriggersNext
  /\ UNCHANGED <<part, cardHistory, slotVars, decisionVars, docVars, workerVars, watchdogVars>>

RunWatchdog ==
  /\ part = "watchdog"
  /\ WatchdogNext
  /\ UNCHANGED <<part, cardHistory, slotVars, decisionVars, docVars, workerVars, triggerVars>>

ServicesNext ==
  RunCards \/ RunSlots \/ RunDecisions \/ RunDocuments \/ RunWorkers \/ RunTriggers
  \/ RunWatchdog

ServicesSpec == ServicesInit /\ [][ServicesNext]_allVars

\* The fairness of each module, for the part that runs
ServicesFairness ==
  /\ \A t \in Executions :
       /\ WF_cardVars(part = "cards" /\ StartTick(t))
       /\ WF_cardVars(part = "cards" /\ Step(t))
  /\ \A t \in Finalizers :
       /\ WF_slotVars(part = "slots" /\ StartFinalizer(t))
       /\ WF_slotVars(part = "slots" /\ FinalizeDraft(t))
  /\ \A r \in Askers : WF_decisionVars(part = "decisions" /\ Handle(r))
  /\ \A s \in Scans : WF_triggerVars(part = "triggers" /\ Execute(s))
ServicesFairSpec == ServicesSpec /\ ServicesFairness
=============================================================================
