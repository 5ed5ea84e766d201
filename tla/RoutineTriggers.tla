-------------------------- MODULE RoutineTriggers --------------------------
(***************************************************************************)
(* routine_cron_trigger: the job that claims the due schedule triggers of  *)
(* routines and dispatches their runs.  The scheduler starts an execution  *)
(* at every tick of its own, whether the last one has ended or not.  A     *)
(* cron expression in its time zone fires at the multiples of CronStep, or *)
(* does not parse (broken).  That an edit may change the spacing of the    *)
(* ticks is left out: next_run_at is not moved by an edit.                 *)
(***************************************************************************)
EXTENDS Integers, FiniteSetsExt

CONSTANTS
  Triggers,
  Broken,           \* the triggers that start with a broken expression
  Scans,            \* executions of the job in flight
  NoTrigger,
  CronStep,
  MaxCatchUp,       \* MAX_CATCH_UP_RUNS
  MaxTime,          \* bound: time
  MaxEdits,         \* bound: changes of triggers and projects
  MaxCrashes        \* bound: executions that stop half-way

ASSUME TriggersAssumption ==
  /\ Broken \subseteq Triggers /\ NoTrigger \notin Triggers
  /\ IsFiniteSet(Scans)
  /\ CronStep \in Nat \ {0} /\ MaxCatchUp \in Nat \ {0}

VARIABLES
  trigger,          \* rows of routine_triggers, with their routine and project
  time,
  scan,             \* executions with their locals
  dispatched,       \* dispatched[t]: calls of dispatch_routine_run for t
  skipRows,         \* skipRows[t]: runs recorded as skipped for t
  lost,             \* history: lost[t]: claimed runs of executions that stopped
  everPaused,       \* history: triggers whose project was paused
  edits, crashes

triggerVars == <<trigger, time, scan, dispatched, skipRows, lost, everPaused, edits, crashes>>

\* catch_up_policy: all is enqueue_missed_with_cap
CatchUpPolicies == {"all", "skip"}
Waiting == [pc |-> "waiting", now |-> 0, todo |-> {}, on |-> NoTrigger, runs |-> 0]

TriggersInit ==
  /\ \E policy \in [Triggers -> CatchUpPolicies] :
       trigger = [t \in Triggers |-> [next |-> CronStep, enabled |-> TRUE,
                                      policy |-> policy[t], paused |-> FALSE,
                                      broken |-> t \in Broken]]
  /\ time = 0
  /\ scan = [s \in Scans |-> Waiting]
  /\ dispatched = [t \in Triggers |-> 0]
  /\ skipRows = [t \in Triggers |-> 0]
  /\ lost = [t \in Triggers |-> 0]
  /\ everPaused = {}
  /\ edits = 0 /\ crashes = 0

(***************************************************************************)
(* Helpers                                                                 *)
(***************************************************************************)
\* next_cron_tick_in_timezone
NextTick(after) == (after \div CronStep + 1) * CronStep

Due(t, now) == trigger[t].enabled /\ trigger[t].next <= now

\* What the query returns of a trigger
RowOf(t) == [id |-> t, next |-> trigger[t].next, policy |-> trigger[t].policy,
             paused |-> trigger[t].paused, broken |-> trigger[t].broken]

\* ORDER BY next_run_at
Earliest(rows) == {r \in rows : \A q \in rows : r.next <= q.next}

\* The ticks to catch up with, at most MaxCatchUp: how many there are, and the
\* tick after the last of them.
CatchesUp(row) == row.policy = "all" /\ ~row.paused
MissedTicks(row, now) == Min({(now - row.next) \div CronStep + 1, MaxCatchUp})
RunCount(row, now) == IF CatchesUp(row) THEN MissedTicks(row, now) ELSE 1
ClaimedNext(row, now) ==
  IF CatchesUp(row) THEN row.next + MissedTicks(row, now) * CronStep ELSE NextTick(now)

ScanGoes(s, state) == scan' = [scan EXCEPT ![s] = state]

(***************************************************************************)
(* execute                                                                 *)
(***************************************************************************)
\* Mutant: the query leaves out the triggers of paused projects.
QueryUnpaused(s) ==
  /\ scan[s].pc = "waiting"
  /\ LET rows == {RowOf(t) : t \in {u \in Triggers : Due(u, time) /\ ~trigger[u].paused}}
     IN rows # {} /\ ScanGoes(s, [Waiting EXCEPT !.pc = "claim", !.now = time, !.todo = rows])
  /\ UNCHANGED <<trigger, time, dispatched, skipRows, lost, everPaused, edits, crashes>>

QueryDue(s) ==
  /\ scan[s].pc = "waiting"
  /\ LET rows == {RowOf(t) : t \in {u \in Triggers : Due(u, time)}}
     IN rows # {} /\ ScanGoes(s, [Waiting EXCEPT !.pc = "claim", !.now = time, !.todo = rows])
  /\ UNCHANGED <<trigger, time, dispatched, skipRows, lost, everPaused, edits, crashes>>

\* What is left of the rows; with none left the execution ends.
NextRow(s) == IF scan[s].todo = {} THEN Waiting
              ELSE [scan[s] EXCEPT !.pc = "claim", !.on = NoTrigger, !.runs = 0]

\* Mutant: the claim is an update on the id alone.
ClaimUnchecked(s) ==
  /\ scan[s].pc = "claim"
  /\ \E row \in Earliest(scan[s].todo) :
       /\ ~row.broken
       /\ trigger' = [trigger EXCEPT ![row.id].next = ClaimedNext(row, scan[s].now)]
       /\ ScanGoes(s, [scan[s] EXCEPT !.pc = IF row.paused THEN "skip" ELSE "dispatch",
                                     !.todo = @ \ {row}, !.on = row.id,
                                     !.runs = RunCount(row, scan[s].now)])
  /\ UNCHANGED <<time, dispatched, skipRows, lost, everPaused, edits, crashes>>

\* The claim is an update on the next_run_at that was read.  An expression that
\* was read and does not parse ends the whole execution.
ClaimTrigger(s) ==
  /\ scan[s].pc = "claim"
  /\ \E row \in Earliest(scan[s].todo) :
       LET t == row.id
           now == scan[s].now
           rest == [scan[s] EXCEPT !.todo = @ \ {row}]
       IN IF row.broken
          THEN ScanGoes(s, Waiting) /\ UNCHANGED trigger
          ELSE IF trigger[t].enabled /\ trigger[t].next = row.next
          THEN /\ trigger' = [trigger EXCEPT ![t].next = ClaimedNext(row, now)]
               /\ ScanGoes(s, [rest EXCEPT !.pc = IF row.paused THEN "skip" ELSE "dispatch",
                                         !.on = t, !.runs = RunCount(row, now)])
          ELSE /\ ScanGoes(s, IF rest.todo = {} THEN Waiting ELSE rest)
               /\ UNCHANGED trigger
  /\ UNCHANGED <<time, dispatched, skipRows, lost, everPaused, edits, crashes>>

\* A paused project: one skipped run is recorded for the claim.
RecordSkipped(s) ==
  /\ scan[s].pc = "skip"
  /\ skipRows' = [skipRows EXCEPT ![scan[s].on] = @ + 1]
  /\ ScanGoes(s, NextRow(s))
  /\ UNCHANGED <<trigger, time, dispatched, lost, everPaused, edits, crashes>>

\* A dispatch that fails is logged, and the loop goes on.
DispatchRun(s) ==
  /\ scan[s].pc = "dispatch"
  /\ dispatched' = [dispatched EXCEPT ![scan[s].on] = @ + 1]
  /\ ScanGoes(s, IF scan[s].runs > 1 THEN [scan[s] EXCEPT !.runs = @ - 1] ELSE NextRow(s))
  /\ UNCHANGED <<trigger, time, skipRows, lost, everPaused, edits, crashes>>

(***************************************************************************)
(* The rest of the system                                                  *)
(***************************************************************************)
\* PATCH of a trigger (enabled; expression and time zone), pause and resume of its
\* project.  A trigger that is deleted is one that is disabled for good: no row
\* matches the query or the claim, and a run of it that is claimed is dispatched.
EditTrigger(t) ==
  /\ edits < MaxEdits
  /\ edits' = edits + 1
  /\ \/ trigger' = [trigger EXCEPT ![t].enabled = ~@] /\ UNCHANGED everPaused
     \/ trigger' = [trigger EXCEPT ![t].broken = ~@] /\ UNCHANGED everPaused
     \/ /\ trigger' = [trigger EXCEPT ![t].paused = ~@]
        /\ everPaused' = everPaused \cup {t}
  /\ UNCHANGED <<time, scan, dispatched, skipRows, lost, crashes>>

Tick ==
  /\ time < MaxTime
  /\ time' = time + 1
  /\ UNCHANGED <<trigger, scan, dispatched, skipRows, lost, everPaused, edits, crashes>>

\* The server stops, or a claim fails: the runs of the claim are lost.
SchedulerStops(s) ==
  /\ scan[s].pc # "waiting"
  /\ crashes < MaxCrashes
  /\ crashes' = crashes + 1
  /\ lost' = IF scan[s].pc = "dispatch"
              THEN [lost EXCEPT ![scan[s].on] = @ + scan[s].runs] ELSE lost
  /\ ScanGoes(s, Waiting)
  /\ UNCHANGED <<trigger, time, dispatched, skipRows, everPaused, edits>>

Execute(s) == QueryDue(s) \/ ClaimTrigger(s) \/ RecordSkipped(s) \/ DispatchRun(s)

TriggersNext ==
  \/ \E s \in Scans : Execute(s) \/ SchedulerStops(s)
  \/ \E t \in Triggers : EditTrigger(t)
  \/ Tick

TriggersSpec == TriggersInit /\ [][TriggersNext]_triggerVars
\* The scheduler starts the job again and again.
TriggersFairness == \A s \in Scans : WF_triggerVars(Execute(s))

(***************************************************************************)
(* Properties                                                              *)
(***************************************************************************)
\* The runs that executions have claimed and not dispatched yet
ToDispatch(t) ==
  {r \in Scans \X (1..MaxCatchUp) :
     scan[r[1]].on = t /\ scan[r[1]].pc = "dispatch" /\ r[2] <= scan[r[1]].runs}
Runs(t) == dispatched[t] + lost[t] + Cardinality(ToDispatch(t))
\* The ticks of a trigger that have been claimed
Ticks(t) == trigger[t].next \div CronStep - 1

\* Executions that overlap do not dispatch a tick twice, and a trigger that
\* catches up gets one run for every tick that was missed, also where the cap
\* splits them over several executions.
TicksRunOnce ==
  \A t \in Triggers :
    /\ Runs(t) + skipRows[t] <= Ticks(t)
    /\ trigger[t].policy = "all" /\ t \notin everPaused => Runs(t) = Ticks(t)

\* A trigger that stays due is claimed in the end, unless it is broken or
\* a broken one is due no later: that one ends every execution before its turn.
HeldUp(t) ==
  \E b \in Triggers : trigger[b].broken /\ trigger[b].enabled /\ trigger[b].next <= trigger[t].next
DueClaimed ==
  \A t \in Triggers :
    [](Due(t, time) /\ ~HeldUp(t) => <>(~Due(t, time) \/ HeldUp(t)))
=============================================================================
