----------------------- MODULE HeartbeatOwners_proofs -----------------------
(***************************************************************************)
(* Who owns a task, and who owns an entry of the map of child handles, for *)
(* every number of agents, issues, runs, callers and crashes, and with     *)
(* statements and adapters that fail.                                      *)
(*                                                                         *)
(* A task is spawned by the wakeup that inserted its run or by the queue   *)
(* step that won the UPDATE from queued.  SpawnInv says why neither can    *)
(* happen twice: a run belongs to one wakeup until its task is spawned,    *)
(* and a run that was claimed is no longer queued.                         *)
(***************************************************************************)
EXTENDS HeartbeatService_proofs

\* Where a wakeup has inserted its run and not yet spawned the task.
Wakes == {"wk_request", "wk_lock", "wk_agent"}

OneWaker ==
  \A c, d \in Callers :
    caller[c].pc \in Wakes /\ caller[d].pc \in Wakes /\ caller[c].run = caller[d].run => c = d
NotYetWoken ==
  \A c \in Callers : caller[c].pc \in Wakes => exec[<<caller[c].run, "woken">>].pc = "none"
ClaimedOnce ==
  \A r \in Runs : exec[<<r, "claimed">>].pc # "none" => run[r].status # "queued"
SpawnInv == OneWaker /\ NotYetWoken /\ ClaimedOnce

-----------------------------------------------------------------------------
\* The next program counter of a caller that steps, by a name for its value.
LEMMA GotoAt ==
  ASSUME caller \in [Callers -> Caller], NEW c \in Callers, NEW l, Goto(c, l)
  PROVE  /\ caller'[c].pc = l /\ caller'[c].run = caller[c].run
         /\ caller'[c].issue = caller[c].issue
BY DEF Goto, Caller

\* A caller that is done has no wakeup.
LEMMA IdleNotWakes == Idle.pc \notin Wakes /\ AfterWakeup.pc \notin Wakes
BY DEF Idle, AfterWakeup, Begin, Wakes

\* A step of a caller leaves the other callers alone, and only the steps of a
\* wakeup leave it between its insert and its spawn.
LEMMA CallerWakes ==
  ASSUME IInv, NEW c \in Callers,
         Boot(c) \/ Request(c) \/ CallerStep(c) \/ NextFails(c) \/ CallerFails(c)
  PROVE  /\ \A d \in Callers : d # c => caller'[d] = caller[d]
         /\ \/ caller'[c].pc \notin Wakes
            \/ /\ caller[c].pc \in Wakes /\ UNCHANGED exec
               /\ caller'[c].run = caller[c].run /\ caller'[c].issue = caller[c].issue
            \/ WakeupInsertRun(c) /\ caller'[c].run \in Runs \ Rows /\ UNCHANGED exec
<1> USE DEF IInv
<1>1. caller \in [Callers -> Caller] /\ caller[c] \in Caller
  BY DEF CallersOK
<1>2. CASE WakeupLookup(c) \/ WakeupSpawn(c)
  BY <1>1, <1>2, GotoAt, IdleNotWakes DEF WakeupLookup, WakeupSpawn, Goto, Wakes
<1>3. CASE WakeupInsertRun(c)
  BY <1>1, <1>3, IdleNotWakes DEF WakeupInsertRun, Caller, Rows, Wakes
<1>4. CASE WakeupInsertRequest(c) \/ WakeupLockIssue(c)
  BY <1>1, <1>4, GotoAt DEF WakeupInsertRequest, WakeupLockIssue, At, Goto, Wakes
<1>5. CASE BootNext(c) \/ EditIssue(c) \/ Boot(c)
  BY <1>1, <1>5, GotoAt, IdleNotWakes DEF BootNext, EditIssue, Boot, Goto, BeginWakeup, Begin, Wakes
<1>6. CASE CancelLookup(c) \/ CancelTake(c)
  BY <1>1, <1>6, GotoAt DEF CancelLookup, CancelTake, Goto, Caller, Wakes
<1>7. CASE CancelSignal(c) \/ CancelGrace(c) \/ CancelStatus(c) \/ CancelLock(c)
  BY <1>1, <1>7, GotoAt DEF CancelSignal, CancelGrace, CancelStatus, CancelLock, Goto, Wakes
<1>8. CASE CancelRevoke(c) \/ CancelWakeups(c) \/ NextDone(c) \/ NextFails(c)
  BY <1>1, <1>8, GotoAt DEF CancelRevoke, CancelWakeups, NextDone, NextFails, Goto, Wakes
<1>9. CASE NextSlots(c) \/ NextPlan(c)
  BY <1>1, <1>9, GotoAt DEF NextSlots, NextPlan, Goto, Caller, Wakes
<1>10. CASE NextClaim(c)
  BY <1>1, <1>10 DEF NextClaim, At, Caller, Wakes
<1>11. CASE CancelTarget(c) \/ StatusWrite(c) \/ CallerFails(c)
  BY <1>1, <1>11, IdleNotWakes DEF CancelTarget, StatusWrite, CallerFails
<1>12. CASE StuckMark(c)
  BY <1>1, <1>12, IdleNotWakes DEF StuckMark, At, Caller, Wakes
<1>13. CASE Request(c)
  <2>1. ASSUME NEW i \in Issues, RequestWakeup(c, i)
        PROVE  caller'[c].pc = "wk_lookup" /\ \A d \in Callers : d # c => caller'[d] = caller[d]
    BY <1>1, <2>1 DEF RequestWakeup, BeginWakeup, Begin
  <2>2. ASSUME NEW i \in Issues, NEW a \in Agents, NEW s \in EditStatuses, RequestEdit(c, i, a, s)
        PROVE  /\ caller'[c].pc \in {"ed_wake", "ed_quiet"}
               /\ \A d \in Callers : d # c => caller'[d] = caller[d]
    BY <1>1, <2>2 DEF RequestEdit, Begin
  <2>3. ASSUME NEW r \in Runs, RequestCancel(c, r)
        PROVE  caller'[c].pc = "cx_lookup" /\ \A d \in Callers : d # c => caller'[d] = caller[d]
    BY <1>1, <2>3 DEF RequestCancel, Begin
  <2>4. ASSUME NEW a \in Agents, NEW s \in StatusRequests, RequestStatus(c, a, s)
        PROVE  caller'[c].pc = "st_write" /\ \A d \in Callers : d # c => caller'[d] = caller[d]
    BY <1>1, <2>4 DEF RequestStatus, Begin
  <2>5. ASSUME NEW S \in SUBSET Runs, StuckScan(c, S)
        PROVE  caller'[c].pc = "sd_mark" /\ \A d \in Callers : d # c => caller'[d] = caller[d]
    BY <1>1, <2>5 DEF StuckScan, Begin
  <2> QED BY <1>13, <2>1, <2>2, <2>3, <2>4, <2>5 DEF Request, Wakes
<1> QED BY <1>2, <1>3, <1>4, <1>5, <1>6, <1>7, <1>8, <1>9, <1>10, <1>11, <1>12, <1>13 DEF CallerStep

\* A step of a task leaves the other tasks alone and does not start its own.
LEMMA ExecStepOwn ==
  ASSUME IInv, NEW e \in Execs, ExecStep(e)
  PROVE  /\ \A f \in Execs : f # e => exec'[f] = exec[f]
         /\ exec[e].pc # "none" /\ exec'[e].pc \notin {"none", "start"}
<1> USE DEF IInv, ExecAt, ExecGoto, Returns
<1>1. exec \in [Execs -> Exec]
  BY DEF ExecsOK
<1>2. CASE ExecStart(e) \/ ApiReturns(e) \/ SpawnChild(e)
  BY <1>1, <1>2 DEF ExecStart, ApiReturns, SpawnChild, Exec
<1>3. CASE MarkRunning(e) \/ RegisterChild(e) \/ AttachChild(e)
  BY <1>1, <1>3 DEF MarkRunning, RegisterChild, AttachChild, Exec
<1>4. CASE WaitChild(e) \/ WaitTimesOut(e) \/ FinishRun(e)
  BY <1>1, <1>4 DEF WaitChild, WaitTimesOut, FinishRun, Exec
<1>5. CASE FinishIssue(e) \/ FinishWakeups(e) \/ FinishSessions(e)
  BY <1>1, <1>5 DEF FinishIssue, FinishWakeups, FinishSessions, Exec
<1>6. CASE FinishAgent(e) \/ FinishChild(e)
  BY <1>1, <1>6 DEF FinishAgent, FinishChild, Exec
<1> QED BY <1>2, <1>3, <1>4, <1>5, <1>6 DEF ExecStep

\* A task appears by the spawn of its wakeup or of the claim of its run.
LEMMA TasksAppear ==
  ASSUME IInv, Next, NEW e \in Execs, exec'[e].pc # exec[e].pc,
         exec[e].pc = "none" \/ exec'[e].pc = "start"
  PROVE  \/ \E c \in Callers : WakeupSpawn(c) /\ e = <<caller[c].run, "woken">>
         \/ e[2] = "claimed" /\ run[e[1]].status = "queued" /\ run'[e[1]].status = "running"
<1> USE DEF IInv
<1>1. exec \in [Execs -> Exec] /\ run \in [Runs -> Run]
  BY DEF ExecsOK, RunsOK
<1>2. ASSUME NEW c \in Callers, WakeupSpawn(c)
      PROVE  e = <<caller[c].run, "woken">>
  BY <1>1, <1>2 DEF WakeupSpawn, Spawn
<1>3. ASSUME NEW c \in Callers, NextClaim(c)
      PROVE  e[2] = "claimed" /\ run[e[1]].status = "queued" /\ run'[e[1]].status = "running"
  <2>1. PICK x \in caller[c].queue :
          /\ run[x[3]].status = "queued"
          /\ SetRunStatus(x[3], "running")
          /\ Spawn(x[3], "claimed")
    BY <1>3 DEF NextClaim
  <2>2. x[3] \in Runs
    BY DEF CallersOK, Caller, QueueEntry
  <2>3. e = <<x[3], "claimed">>
    BY <1>1, <2>1 DEF Spawn
  <2>4. run'[x[3]].status = "running"
    BY <1>1, <2>1, <2>2 DEF SetRunStatus, Run
  <2> QED BY <2>1, <2>3, <2>4
<1>4. ASSUME NEW f \in Execs, ExecStep(f)
      PROVE  FALSE
  BY <1>4, ExecStepOwn
<1>5. CASE Crash
  BY <1>1, <1>5 DEF Crash, ExecAt, Exec
<1> QED BY <1>2, <1>3, <1>4, <1>5, ExecWriters
\* A run that has started is not queued again.
LEMMA NeverQueuedAgain ==
  ASSUME IInv, Next, NEW r \in Rows, run[r].status # "queued"
  PROVE  run'[r].status # "queued"
<1>1. run \in [Runs -> Run]
  BY DEF IInv, RunsOK
<1> QED BY <1>1, StepLives DEF Lifecycle!Next, Lifecycle!Submit, Lifecycle!Start, Lifecycle!End,
                               Lifecycle!Rewrite, Lifecycle!Ended, Rows, Exists, Run, Runs,
                               Lifecycle!Runs

\* Before anything runs, no wakeup is in flight.
LEMMA InitSpawnInv == Init => SpawnInv
BY DEF Init, SpawnInv, OneWaker, NotYetWoken, ClaimedOnce, Idle, Begin, Wakes, Execs, Origins

\* Every step keeps SpawnInv.
LEMMA NextSpawnInv ==
  ASSUME IInv, SpawnInv, Next
  PROVE  SpawnInv'
<1> USE DEF IInv, SpawnInv
<1>1. \A c \in Callers : caller[c].pc \in Wakes => caller[c].run \in Rows /\ caller[c].run \in Runs
  BY DEF CallersOK, Locals, HasRun, Wakes, Rows
<1>2. \A e \in Execs : e[1] \notin Rows => exec[e].pc = "none"
  BY DEF ExecsOK
<1>3. OneWaker' /\ NotYetWoken'
  <2>1. CASE UNCHANGED caller
    <3>1. OneWaker'
      BY <2>1 DEF OneWaker
    <3>2. ASSUME NEW c \in Callers, caller[c].pc \in Wakes, exec'[<<caller[c].run, "woken">>].pc # "none"
          PROVE  FALSE
      <4> DEFINE e == <<caller[c].run, "woken">>
      <4>1. e \in Execs /\ exec[e].pc = "none"
        BY <1>1, <3>2 DEF NotYetWoken, Execs, Origins
      <4>2. PICK d \in Callers : WakeupSpawn(d) /\ e = <<caller[d].run, "woken">>
        BY <3>2, <4>1, TasksAppear
      <4>3. caller[d].pc = "wk_agent" /\ caller'[d].pc # "wk_agent"
        BY <4>2, IdleNotWakes DEF WakeupSpawn, At, Wakes, CallersOK
      <4> QED BY <2>1, <4>3
    <3> QED BY <2>1, <3>1, <3>2 DEF NotYetWoken
  <2>2. ASSUME NEW c \in Callers,
               Boot(c) \/ Request(c) \/ CallerStep(c) \/ NextFails(c) \/ CallerFails(c)
        PROVE  OneWaker' /\ NotYetWoken'
    <3>1. \A d \in Callers : d # c => caller'[d] = caller[d]
      BY <2>2, CallerWakes
    <3>2. CASE caller'[c].pc \notin Wakes
      <4>1. OneWaker'
        BY <3>1, <3>2 DEF OneWaker
      <4>2. ASSUME NEW d \in Callers, d # c, caller[d].pc \in Wakes,
                   exec'[<<caller[d].run, "woken">>].pc # "none"
            PROVE  FALSE
        <5> DEFINE e == <<caller[d].run, "woken">>
        <5>1. e \in Execs /\ exec[e].pc = "none"
          BY <1>1, <4>2 DEF NotYetWoken, Execs, Origins
        <5>2. PICK b \in Callers : WakeupSpawn(b) /\ e = <<caller[b].run, "woken">>
          BY <4>2, <5>1, TasksAppear
        <5>3. caller[b].pc = "wk_agent" /\ caller'[b].pc # "wk_agent" /\ caller[b].run = caller[d].run
          BY <5>2, IdleNotWakes DEF WakeupSpawn, At, Wakes, CallersOK
        <5>4. b = d
          BY <4>2, <5>3 DEF OneWaker, Wakes
        <5> QED BY <3>1, <4>2, <5>3, <5>4
      <4> QED BY <3>1, <3>2, <4>1, <4>2 DEF NotYetWoken
    <3>3. CASE caller[c].pc \in Wakes /\ caller'[c].run = caller[c].run /\ UNCHANGED exec
      BY <3>1, <3>3 DEF OneWaker, NotYetWoken
    <3>4. CASE caller'[c].run \in Runs \ Rows /\ UNCHANGED exec
      <4>1. exec[<<caller'[c].run, "woken">>].pc = "none"
        BY <1>2, <3>4 DEF Execs, Origins
      <4> QED BY <1>1, <3>1, <3>4, <4>1 DEF OneWaker, NotYetWoken
    <3> QED BY <2>2, <3>2, <3>3, <3>4, CallerWakes
  <2>3. CASE Crash
    BY <2>3, IdleNotWakes DEF Crash, OneWaker, NotYetWoken
  <2> QED BY <2>1, <2>2, <2>3, CallerWriters
<1>4. ClaimedOnce'
  <2> SUFFICES ASSUME NEW r \in Runs, exec'[<<r, "claimed">>].pc # "none"
               PROVE  run'[r].status # "queued"
    BY DEF ClaimedOnce
  <2> DEFINE e == <<r, "claimed">>
  <2>1. e \in Execs
    BY DEF Execs, Origins
  <2>2. CASE exec[e].pc = "none"
    BY <2>1, <2>2, TasksAppear
  <2>3. CASE exec[e].pc # "none"
    <3>1. r \in Rows /\ run[r].status # "queued"
      BY <2>1, <2>3 DEF ExecsOK, ClaimedOnce
    <3> QED BY <3>1, NeverQueuedAgain
  <2> QED BY <2>2, <2>3
<1> QED BY <1>3, <1>4

\* In every reachable state a run belongs to one wakeup until its task is
\* spawned, and a claimed run is no longer queued.
THEOREM SpawnInvariance == Spec => []SpawnInv
<1>1. IInv /\ SpawnInv /\ [Next]_vars => SpawnInv'
  <2> SUFFICES ASSUME IInv, SpawnInv, [Next]_vars
               PROVE  SpawnInv'
    OBVIOUS
  <2>1. CASE UNCHANGED vars
    BY <2>1 DEF vars, SpawnInv, OneWaker, NotYetWoken, ClaimedOnce
  <2> QED BY <2>1, NextSpawnInv
<1> QED BY <1>1, InitSpawnInv, Invariance, PTL DEF Spec

\* No task is spawned where there is one: neither two queue steps nor a wakeup
\* and another wakeup start the same task twice.
THEOREM TasksSpawnedOnce == Spec => SpawnedOnce
<1>1. IInv /\ SpawnInv /\ [Next]_vars =>
        [\A e \in Execs : exec[e].pc # "none" /\ exec'[e].pc = "start" => exec[e].pc = "start"]_vars
  <2> SUFFICES ASSUME IInv, SpawnInv, Next, NEW e \in Execs, exec[e].pc # "none",
                      exec'[e].pc = "start", exec[e].pc # "start"
               PROVE  FALSE
    OBVIOUS
  <2>1. CASE \E c \in Callers : WakeupSpawn(c) /\ e = <<caller[c].run, "woken">>
    BY <2>1 DEF WakeupSpawn, At, SpawnInv, NotYetWoken, Wakes
  <2>2. CASE e[2] = "claimed" /\ run[e[1]].status = "queued"
    <3>1. e[1] \in Runs /\ e = <<e[1], "claimed">>
      BY <2>2 DEF Execs
    <3> QED BY <2>2, <3>1 DEF SpawnInv, ClaimedOnce
  <2> QED BY <2>1, <2>2, TasksAppear
<1> QED BY <1>1, Invariance, SpawnInvariance, PTL DEF Spec, SpawnedOnce
-----------------------------------------------------------------------------
(* The map of child handles.                                               *)

\* Where a task is between the insert of its handle and the remove.
Registered == {"attach", "wait", "fin_run", "fin_issue", "fin_wakeups", "fin_sessions",
               "fin_agent", "fin_child"}

\* A registered task stays registered until its last step.
LEMMA StaysRegistered ==
  ASSUME IInv, NEW e \in Execs, ExecStep(e), ~FinishChild(e), exec[e].pc \in Registered
  PROVE  exec'[e].pc \in Registered /\ UNCHANGED children
<1> USE DEF IInv, ExecAt, ExecGoto, Returns, Registered
<1>1. exec \in [Execs -> Exec]
  BY DEF ExecsOK
<1>2. ~(ExecStart(e) \/ ApiReturns(e) \/ SpawnChild(e) \/ MarkRunning(e) \/ RegisterChild(e))
  BY DEF ExecStart, ApiReturns, SpawnChild, MarkRunning, RegisterChild
<1>3. CASE AttachChild(e) \/ WaitChild(e) \/ WaitTimesOut(e)
  BY <1>1, <1>3 DEF AttachChild, WaitChild, WaitTimesOut, Exec
<1>4. CASE FinishRun(e) \/ FinishIssue(e) \/ FinishWakeups(e)
  BY <1>1, <1>4 DEF FinishRun, FinishIssue, FinishWakeups, Exec
<1>5. CASE FinishSessions(e) \/ FinishAgent(e)
  BY <1>1, <1>5 DEF FinishSessions, FinishAgent, Exec
<1> QED BY <1>2, <1>3, <1>4, <1>5 DEF ExecStep

\* The map is written by cancels, by RegisterChild and FinishChild, and lost in
\* a crash.
LEMMA HandleWriters ==
  ASSUME Next
  PROVE  \/ UNCHANGED children
         \/ \E c \in Callers : CancelTake(c) /\ UNCHANGED exec
         \/ \E e \in Execs : RegisterChild(e) \/ FinishChild(e)
         \/ Crash
<1>1. ASSUME NEW c \in Callers, Request(c) \/ Boot(c) \/ NextFails(c) \/ CallerFails(c)
      PROVE  UNCHANGED children
  BY <1>1 DEF Request, RequestWakeup, RequestEdit, RequestCancel, RequestStatus, StuckScan,
              Boot, NextFails, CallerFails
<1>2. ASSUME NEW c \in Callers, CallerStep(c), ~CancelTake(c)
      PROVE  UNCHANGED children
  BY <1>2 DEF CallerStep, WakeupLookup, WakeupInsertRun, WakeupInsertRequest, WakeupLockIssue,
              WakeupSpawn, BootNext, EditIssue, CancelLookup, CancelSignal, CancelGrace,
              CancelStatus, CancelLock, CancelRevoke, CancelWakeups, NextSlots, NextPlan, NextClaim,
              NextDone, CancelTarget, StatusWrite, StuckMark
<1>3. ASSUME NEW e \in Execs, ExecStep(e) \/ ProcessExits(e)
      PROVE  UNCHANGED children \/ RegisterChild(e) \/ FinishChild(e)
  BY <1>3 DEF ExecStep, ExecStart, ApiReturns, SpawnChild, MarkRunning, AttachChild, WaitChild,
              WaitTimesOut, FinishRun, FinishIssue, FinishWakeups, FinishSessions, FinishAgent,
              ProcessExits
<1>4. \A c \in Callers : CancelTake(c) => UNCHANGED exec
  BY DEF CancelTake
<1> QED BY <1>1, <1>2, <1>3, <1>4 DEF Next

\* Every step keeps the handles with their owners.
LEMMA NextHandles ==
  ASSUME IInv, SpawnInv, HandleHasOwner, Next
  PROVE  HandleHasOwner'
<1> USE DEF IInv, HandleHasOwner
<1>1. /\ children \in [Runs -> Origins \cup {NoChild}]
      /\ exec \in [Execs -> Exec]
      /\ NoChild \notin Origins
  BY DEF TablesOK, ExecsOK, NoChild, Origins
<1>2. \A r \in Runs, o \in Origins : <<r, o>> \in Execs
  BY DEF Execs
<1>3. ASSUME NEW e \in Execs, RegisterChild(e)
      PROVE  HandleHasOwner'
  <2>1. /\ e[1] \in Runs /\ e[2] \in Origins /\ e = <<e[1], e[2]>>
        /\ children' = [children EXCEPT ![e[1]] = e[2]]
        /\ exec'[e].pc = "attach" /\ \A f \in Execs : f # e => exec'[f] = exec[f]
    BY <1>1, <1>3 DEF RegisterChild, RunOf, ExecGoto, Execs, Exec
  <2> QED BY <1>1, <1>2, <2>1
<1>4. ASSUME NEW e \in Execs, FinishChild(e)
      PROVE  HandleHasOwner'
  <2>1. /\ e[1] \in Runs
        /\ children' = [children EXCEPT ![e[1]] = NoChild]
        /\ \A f \in Execs : f # e => exec'[f] = exec[f]
        /\ \A r \in Runs, o \in Origins : r # e[1] => <<r, o>> # e
    BY <1>1, <1>4 DEF FinishChild, RunOf, ExecGoto, Execs
  <2> QED BY <1>1, <1>2, <2>1
<1>5. ASSUME NEW c \in Callers, CancelTake(c), UNCHANGED exec
      PROVE  HandleHasOwner'
  <2>1. \A r \in Runs : children'[r] # NoChild => children'[r] = children[r]
    BY <1>1, <1>5 DEF CancelTake
  <2> QED BY <1>5, <2>1
<1>6. CASE Crash
  BY <1>6 DEF Crash
<1>7. CASE UNCHANGED children
  <2> SUFFICES ASSUME NEW r \in Runs, children[r] # NoChild
               PROVE  exec'[<<r, children[r]>>].pc \in Registered
    BY <1>7 DEF Registered
  <2> DEFINE e == <<r, children[r]>>
  <2>1. e \in Execs /\ exec[e].pc \in Registered
    BY <1>1, <1>2 DEF Registered
  <2>2. CASE exec'[e].pc = exec[e].pc
    BY <2>1, <2>2
  <2>3. ASSUME NEW f \in Execs, ExecStep(f)
        PROVE  exec'[e].pc \in Registered
    <3>1. CASE f # e
      BY <2>1, <2>3, <3>1, ExecStepOwn
    <3>2. CASE f = e /\ ~FinishChild(e)
      BY <2>1, <2>3, <3>2, StaysRegistered
    <3>3. CASE FinishChild(e)
      <4>1. children'[r] = NoChild
        BY <1>1, <3>3 DEF FinishChild, RunOf
      <4> QED BY <1>7, <4>1
    <3> QED BY <3>1, <3>2, <3>3
  <2>4. CASE Crash
    BY <1>7, <2>4 DEF Crash
  <2>5. ASSUME NEW c \in Callers, WakeupSpawn(c)
        PROVE  exec'[e].pc = exec[e].pc
    <3>1. exec[<<caller[c].run, "woken">>].pc = "none"
      BY <2>5 DEF WakeupSpawn, At, SpawnInv, NotYetWoken, Wakes
    <3> QED BY <1>1, <2>1, <2>5, <3>1 DEF WakeupSpawn, Spawn, Registered
  <2>6. ASSUME NEW c \in Callers, NextClaim(c)
        PROVE  exec'[e].pc = exec[e].pc
    <3> SUFFICES ASSUME NEW x \in caller[c].queue, run[x[3]].status = "queued", Spawn(x[3], "claimed")
                 PROVE  exec'[e].pc = exec[e].pc
      BY <2>6 DEF NextClaim
    <3>1. exec[<<x[3], "claimed">>].pc = "none"
      BY DEF SpawnInv, ClaimedOnce, CallersOK, Caller, QueueEntry
    <3> QED BY <1>1, <2>1, <3>1 DEF Spawn, Registered
  <2> QED BY <2>2, <2>3, <2>4, <2>5, <2>6, ExecWriters
<1> QED BY <1>3, <1>4, <1>5, <1>6, <1>7, HandleWriters

\* The map of child handles does not leak: an entry belongs to a task that is
\* still to remove it, across cancels, crashes, failures and two tasks of a run.
THEOREM HandlesHaveOwners == Spec => []HandleHasOwner
<1>1. Init => HandleHasOwner
  BY DEF Init, HandleHasOwner
<1>2. IInv /\ SpawnInv /\ HandleHasOwner /\ [Next]_vars => HandleHasOwner'
  <2>1. HandleHasOwner /\ UNCHANGED vars => HandleHasOwner'
    BY DEF vars, HandleHasOwner
  <2> QED BY <2>1, NextHandles
<1> QED BY <1>1, <1>2, Invariance, SpawnInvariance, PTL DEF Spec

=============================================================================
