------------------------ MODULE HeartbeatLocks_proofs ------------------------
(***************************************************************************)
(* Who releases what a run acquires: the execution lock of its issue and   *)
(* its tool gateway session.  The execution lock names one run, its        *)
(* release is a statement of the run's own task or of a cancel of the run, *)
(* and nothing releases the lock of another run.  That a lock or a session *)
(* is not leaked needs statements that succeed and a server that stays up. *)
(* That two active runs of an agent for an issue come of wakeups that      *)
(* overlap is proved over the recorded behaviours of HeartbeatHistory.     *)
(***************************************************************************)
EXTENDS HeartbeatOwners_proofs, HeartbeatHistory

\* A wakeup locks the issue of the run it has inserted.
WakerFits ==
  \A c \in Callers : caller[c].pc \in Wakes => run[caller[c].run].issue = caller[c].issue

-----------------------------------------------------------------------------
(* What a step does to one run, one task and one issue.                    *)

\* The agent and the issue of a row never change.
LEMMA RowsKeepTheirIssue ==
  ASSUME IInv, Next, NEW r \in Rows
  PROVE  run'[r].agent = run[r].agent /\ run'[r].issue = run[r].issue
<1>1. run \in [Runs -> Run] /\ r \in Runs /\ run[r].status # "absent"
  BY DEF IInv, RunsOK, Rows, Exists
<1>2. ASSUME NEW q \in Runs, run[q].status = "absent", NEW v, run' = [run EXCEPT ![q] = v]
      PROVE  run'[r] = run[r]
  BY <1>1, <1>2
<1>3. ASSUME NEW q \in Runs, NEW s, run' = [run EXCEPT ![q].status = s]
      PROVE  run'[r].agent = run[r].agent /\ run'[r].issue = run[r].issue
  BY <1>1, <1>3 DEF Run
<1>4. Lifecycle!Runs = Runs
  BY DEF Lifecycle!Runs, Runs
<1> QED BY <1>2, <1>3, <1>4, StepLives DEF Lifecycle!Next, Lifecycle!Submit, Lifecycle!Start,
                                           Lifecycle!End, Lifecycle!Rewrite

\* A run becomes active only when a wakeup inserts it.
LEMMA RunsAppear ==
  ASSUME IInv, Next, NEW r \in Runs, ~Active(r), run'[r].status \in ActiveStatuses
  PROVE  \E c \in Callers :
           /\ WakeupInsertRun(c) /\ r \notin Rows
           /\ run' = [run EXCEPT ![r] = [status |-> "queued", agent |-> caller[c].agent,
                                         issue |-> caller[c].issue]]
<1> USE DEF IInv, RunsOK, Active, ActiveStatuses
<1>1. ASSUME NEW c \in Callers, WakeupInsertRun(c)
      PROVE  /\ r \notin Rows
             /\ run' = [run EXCEPT ![r] = [status |-> "queued", agent |-> caller[c].agent,
                                           issue |-> caller[c].issue]]
  BY <1>1 DEF WakeupInsertRun, Rows, Run
<1>2. ASSUME NEW c \in Callers, CancelStatus(c) \/ CancelTarget(c) \/ StuckMark(c)
      PROVE  FALSE
  BY <1>2 DEF CancelStatus, CancelTarget, StuckMark, SetRunStatus, Run
<1>3. ASSUME NEW c \in Callers, NextClaim(c)
      PROVE  FALSE
  BY <1>3 DEF NextClaim, SetRunStatus, Run
<1>4. ASSUME NEW e \in Execs, MarkRunning(e) \/ FinishRun(e)
      PROVE  FALSE
  BY <1>4 DEF MarkRunning, FinishRun, SetRunStatus, Run, ExecsOK, ExecAt
<1> QED BY <1>1, <1>2, <1>3, <1>4, RunWriters

\* issues is written by the edit, by the lock of a wakeup, and by the two
\* statements that release a lock.
LEMMA IssueWriters ==
  ASSUME Next
  PROVE  \/ UNCHANGED issue
         \/ \E c \in Callers : EditIssue(c) \/ WakeupLockIssue(c) \/ CancelLock(c)
         \/ \E e \in Execs : FinishIssue(e)
<1>1. ASSUME NEW c \in Callers, Request(c) \/ Boot(c) \/ NextFails(c) \/ CallerFails(c)
      PROVE  UNCHANGED issue
  BY <1>1 DEF Request, RequestWakeup, RequestEdit, RequestCancel, RequestStatus, StuckScan,
              Boot, NextFails, CallerFails
<1>2. ASSUME NEW c \in Callers, CallerStep(c)
      PROVE  UNCHANGED issue \/ EditIssue(c) \/ WakeupLockIssue(c) \/ CancelLock(c)
  BY <1>2 DEF CallerStep, WakeupLookup, WakeupInsertRun, WakeupInsertRequest, WakeupSpawn,
              BootNext, CancelLookup, CancelTake, CancelSignal, CancelGrace, CancelStatus,
              CancelRevoke, CancelWakeups, NextSlots, NextPlan, NextClaim, NextDone,
              CancelTarget, StatusWrite, StuckMark
<1>3. ASSUME NEW e \in Execs, ExecStep(e) \/ ProcessExits(e)
      PROVE  UNCHANGED issue \/ FinishIssue(e)
  BY <1>3 DEF ExecStep, ExecStart, ApiReturns, SpawnChild, MarkRunning, RegisterChild, AttachChild,
              WaitChild, WaitTimesOut, FinishRun, FinishWakeups, FinishSessions, FinishAgent,
              FinishChild, ProcessExits
<1>4. Crash => UNCHANGED issue
  BY DEF Crash
<1> QED BY <1>1, <1>2, <1>3, <1>4 DEF Next

\* What a step does to the lock of one issue: it stays, a wakeup takes it for
\* its run, a cancel of the run that holds it releases it and keeps the status,
\* or the run's own task releases it.
LEMMA LockSteps ==
  ASSUME IInv, Next, NEW i \in Issues
  PROVE  \/ issue'[i].lock = issue[i].lock
         \/ \E c \in Callers : /\ WakeupLockIssue(c) /\ caller[c].issue = i
                               /\ issue'[i].lock = caller[c].run
         \/ /\ issue'[i].lock = NoRun /\ issue'[i].status = issue[i].status
            /\ \E c \in Callers : At(c, "cx_lock") /\ caller[c].run = issue[i].lock
         \/ /\ issue'[i].lock = NoRun
            /\ \E e \in Execs : FinishIssue(e) /\ e[1] = issue[i].lock
<1> USE DEF IInv, TablesOK
<1>1. issue \in [Issues -> Issue]
  OBVIOUS
<1>2. ASSUME NEW c \in Callers, EditIssue(c)
      PROVE  issue'[i].lock = issue[i].lock
  BY <1>1, <1>2 DEF EditIssue, Issue
<1>3. ASSUME NEW c \in Callers, WakeupLockIssue(c)
      PROVE  \/ issue'[i].lock = issue[i].lock
             \/ caller[c].issue = i /\ issue'[i].lock = caller[c].run
  BY <1>1, <1>3 DEF WakeupLockIssue, Issue
<1>4. ASSUME NEW c \in Callers, CancelLock(c)
      PROVE  \/ issue'[i].lock = issue[i].lock
             \/ /\ issue'[i].lock = NoRun /\ issue'[i].status = issue[i].status
                /\ At(c, "cx_lock") /\ caller[c].run = issue[i].lock
  BY <1>1, <1>4 DEF CancelLock, ClearLock, Issue
<1>5. ASSUME NEW e \in Execs, FinishIssue(e)
      PROVE  \/ issue'[i].lock = issue[i].lock
             \/ issue'[i].lock = NoRun /\ e[1] = issue[i].lock
  BY <1>1, <1>5 DEF FinishIssue, ClearLock, Issue, RunOf
<1> QED BY <1>2, <1>3, <1>4, <1>5, IssueWriters

\* A spawn starts a task where there was none, and one of its run's origin.
LEMMA SpawnsAreNew ==
  ASSUME IInv, SpawnInv, Next, NEW e \in Execs, exec[e].pc # "none"
  PROVE  \/ exec'[e] = exec[e]
         \/ ExecStep(e)
         \/ Crash
<1> USE DEF IInv
<1>1. exec \in [Execs -> Exec]
  BY DEF ExecsOK
<1>2. ASSUME NEW c \in Callers, WakeupSpawn(c)
      PROVE  exec'[e] = exec[e]
  <2>1. e # <<caller[c].run, "woken">>
    BY <1>2 DEF WakeupSpawn, At, SpawnInv, NotYetWoken, Wakes
  <2> QED BY <1>1, <1>2, <2>1 DEF WakeupSpawn, Spawn
<1>3. ASSUME NEW c \in Callers, NextClaim(c)
      PROVE  exec'[e] = exec[e]
  <2>1. ASSUME NEW x \in caller[c].queue, run[x[3]].status = "queued", Spawn(x[3], "claimed")
        PROVE  exec'[e] = exec[e]
    <3>1. x[3] \in Runs
      BY DEF CallersOK, Caller, QueueEntry
    <3>2. e # <<x[3], "claimed">>
      BY <2>1, <3>1 DEF SpawnInv, ClaimedOnce
    <3> QED BY <1>1, <2>1, <3>2 DEF Spawn
  <2> QED BY <1>3, <2>1 DEF NextClaim
<1>4. ASSUME NEW f \in Execs, ExecStep(f), f # e
      PROVE  exec'[e] = exec[e]
  BY <1>4, ExecStepOwn
<1> QED BY <1>2, <1>3, <1>4, ExecWriters
-----------------------------------------------------------------------------
(* No run releases the lock of another run.                                *)

\* The end of a run, or its cancel, changes no issue that another run locks,
\* whatever fails and however often the server restarts.
THEOREM LocksAreRespected == Spec => ForeignRunsKeepOut
<1>1. IInv /\ [Next]_vars =>
        [\A i \in Issues : issue[i].lock # NoRun /\ issue'[i].lock = NoRun =>
           \/ issue'[i].status = issue[i].status /\ \E c \in Callers :
                At(c, "cx_lock") /\ caller[c].run = issue[i].lock
           \/ \E o \in Origins : ExecAt(<<issue[i].lock, o>>, "fin_issue")]_vars
  <2> SUFFICES ASSUME IInv, Next, NEW i \in Issues, issue[i].lock # NoRun, issue'[i].lock = NoRun
               PROVE  \/ issue'[i].status = issue[i].status /\ \E c \in Callers :
                           At(c, "cx_lock") /\ caller[c].run = issue[i].lock
                      \/ \E o \in Origins : ExecAt(<<issue[i].lock, o>>, "fin_issue")
    OBVIOUS
  <2>1. ASSUME NEW c \in Callers, WakeupLockIssue(c), issue'[i].lock = caller[c].run
        PROVE  FALSE
    <3>1. caller[c].run \in Runs
      BY <2>1 DEF WakeupLockIssue, At, IInv, CallersOK, Locals, HasRun, Rows
    <3> QED BY <2>1, <3>1, ConstantsAssumption DEF Runs, NoRun
  <2>2. ASSUME NEW e \in Execs, FinishIssue(e), e[1] = issue[i].lock
        PROVE  \E o \in Origins : ExecAt(<<issue[i].lock, o>>, "fin_issue")
    <3>1. e[2] \in Origins /\ e = <<e[1], e[2]>>
      BY DEF Execs
    <3> QED BY <2>2, <3>1 DEF FinishIssue
  <2> QED BY <2>1, <2>2, LockSteps
<1> QED BY <1>1, Invariance, PTL DEF Spec, ForeignRunsKeepOut

-----------------------------------------------------------------------------
(* Every lock has a run that releases it.                                  *)

\* A wakeup keeps the run it has inserted for its issue.
LEMMA NextWakerFits ==
  ASSUME IInv, WakerFits, Next
  PROVE  WakerFits'
<1> USE DEF IInv
<1>1. \A c \in Callers : caller[c].pc \in Wakes => caller[c].run \in Rows /\ caller[c].run \in Runs
  BY DEF CallersOK, Locals, HasRun, Wakes, Rows
<1>2. ASSUME NEW c \in Callers, caller'[c] = caller[c], caller'[c].pc \in Wakes
      PROVE  run'[caller'[c].run].issue = caller'[c].issue
  BY <1>1, <1>2, RowsKeepTheirIssue DEF WakerFits
<1>3. ASSUME NEW c \in Callers, WakeupInsertRun(c), caller'[c].pc \in Wakes
      PROVE  run'[caller'[c].run].issue = caller'[c].issue
  <2>1. PICK r \in Runs :
          /\ run' = [run EXCEPT ![r] = [status |-> "queued", agent |-> caller[c].agent,
                                        issue |-> caller[c].issue]]
          /\ caller' = [caller EXCEPT ![c].pc = "wk_request", ![c].run = r]
    BY <1>3, IdleNotWakes DEF WakeupInsertRun, CallersOK
  <2> QED BY <2>1 DEF CallersOK, Caller, RunsOK
<1>4. ASSUME NEW c \in Callers, caller[c].pc \in Wakes,
             caller'[c].run = caller[c].run, caller'[c].issue = caller[c].issue
      PROVE  run'[caller'[c].run].issue = caller'[c].issue
  BY <1>1, <1>4, RowsKeepTheirIssue DEF WakerFits
<1>5. ASSUME NEW c \in Callers,
             Boot(c) \/ Request(c) \/ CallerStep(c) \/ NextFails(c) \/ CallerFails(c)
      PROVE  WakerFits'
  <2> SUFFICES ASSUME NEW d \in Callers, caller'[d].pc \in Wakes
               PROVE  run'[caller'[d].run].issue = caller'[d].issue
    BY DEF WakerFits
  <2>1. CASE d # c
    BY <1>2, <1>5, <2>1, CallerWakes
  <2>2. CASE d = c
    BY <1>3, <1>4, <1>5, <2>2, CallerWakes
  <2> QED BY <2>1, <2>2
<1>6. CASE Crash
  BY <1>6, IdleNotWakes DEF Crash, WakerFits
<1> QED BY <1>2, <1>5, <1>6, CallerWriters DEF WakerFits

\* In every reachable state a wakeup locks the issue of the run it inserted.
LEMMA WakerFitsAlways == Spec => []WakerFits
<1>1. Init => WakerFits
  BY IdleNotWakes DEF Init, WakerFits
<1>2. IInv /\ WakerFits /\ [Next]_vars => WakerFits'
  BY NextWakerFits DEF vars, WakerFits
<1> QED BY <1>1, <1>2, Invariance, PTL DEF Spec

\* While the server is down no request and no job is in flight.
DownIsIdle == server = "down" => \A c \in Callers : At(c, "idle")

\* The server goes down in a crash only, and starts nothing before it boots.
LEMMA DownIsIdleAlways == Spec => []DownIsIdle
<1>1. Init => DownIsIdle
  BY DEF Init, DownIsIdle, At, Idle, Begin
<1>2. ASSUME IInv, DownIsIdle, [Next]_vars
      PROVE  DownIsIdle'
  <2>1. CASE Crash
    BY <2>1 DEF Crash, DownIsIdle, At, Idle, Begin
  <2>2. CASE UNCHANGED vars
    BY <1>2, <2>2 DEF vars, DownIsIdle, At
  <2>3. ASSUME NEW c \in Callers,
               Boot(c) \/ Request(c) \/ CallerStep(c) \/ NextFails(c) \/ CallerFails(c)
        PROVE  server' # "down"
    <3>1. CASE Boot(c)
      BY <3>1 DEF Boot
    <3>2. CASE Request(c)
      BY <3>2 DEF Request, RequestWakeup, RequestEdit, RequestCancel, RequestStatus, StuckScan,
                  RequestArrives
    <3>3. CASE CallerStep(c)
      <4>1. ~At(c, "idle")
        BY <3>3 DEF At, CallerStep, WakeupLookup, WakeupInsertRun, WakeupInsertRequest,
                    WakeupLockIssue, WakeupSpawn, BootNext, EditIssue, CancelLookup, CancelTake,
                    CancelSignal, CancelGrace, CancelStatus, CancelLock, CancelRevoke,
                    CancelWakeups, NextSlots, NextPlan, NextClaim, NextDone, CancelTarget,
                    StatusWrite, StuckMark
      <4>2. server # "down"
        BY <1>2, <4>1 DEF DownIsIdle
      <4> QED BY <3>3, <4>2 DEF CallerStep, WakeupLookup, WakeupInsertRun, WakeupInsertRequest,
                    WakeupLockIssue, WakeupSpawn, BootNext, EditIssue, CancelLookup, CancelTake,
                    CancelSignal, CancelGrace, CancelStatus, CancelLock, CancelRevoke,
                    CancelWakeups, NextSlots, NextPlan, NextClaim, NextDone, CancelTarget,
                    StatusWrite, StuckMark
    <3>4. CASE NextFails(c) \/ CallerFails(c)
      BY <1>2, <3>4 DEF NextFails, CallerFails, DownIsIdle, At
    <3> QED BY <2>3, <3>1, <3>2, <3>3, <3>4
  <2>4. ASSUME NEW e \in Execs, ExecStep(e) \/ ProcessExits(e)
        PROVE  UNCHANGED <<caller, server>>
    BY <2>4 DEF ExecStep, ExecStart, ApiReturns, SpawnChild, MarkRunning, RegisterChild,
                AttachChild, WaitChild, WaitTimesOut, FinishRun, FinishIssue, FinishWakeups,
                FinishSessions, FinishAgent, FinishChild, ProcessExits
  <2> QED BY <1>2, <2>1, <2>2, <2>3, <2>4 DEF Next, DownIsIdle, At
<1> QED BY <1>1, <1>2, Invariance, PTL DEF Spec

\* A caller at the last step of a wakeup stays there until it spawns the task.
LEMMA WakerSpawns ==
  ASSUME IInv, DownIsIdle, Next, ~DbMayFail, ~Crash, NEW c \in Callers, At(c, "wk_agent")
  PROVE  \/ caller'[c] = caller[c]
         \/ exec'[<<caller[c].run, "woken">>].pc = "start"
<1> USE DEF IInv, At
<1>1. caller[c].run \in Runs /\ exec \in [Execs -> Exec] /\ caller \in [Callers -> Caller]
  BY DEF CallersOK, ExecsOK, Locals, HasRun, Rows
<1>2. CASE WakeupSpawn(c)
  BY <1>1, <1>2 DEF WakeupSpawn, Spawn, Execs, Origins
<1>3. ~Boot(c)
  BY DEF Boot, DownIsIdle
<1>4. ~CallerFails(c) /\ ~NextFails(c)
  BY DEF CallerFails, NextFails
<1>5. ~Request(c)
  BY DEF Request, RequestWakeup, RequestEdit, RequestCancel, RequestStatus, StuckScan,
         RequestArrives, Starts
<1>6. CallerStep(c) => WakeupSpawn(c)
  BY DEF CallerStep, WakeupLookup, WakeupInsertRun, WakeupInsertRequest, WakeupLockIssue,
         BootNext, EditIssue, CancelLookup, CancelTake, CancelSignal, CancelGrace, CancelStatus,
         CancelLock, CancelRevoke, CancelWakeups, NextSlots, NextPlan, NextClaim, NextDone,
         CancelTarget, StatusWrite, StuckMark
<1>7. ASSUME NEW d \in Callers, d # c,
             Boot(d) \/ Request(d) \/ CallerStep(d) \/ NextFails(d) \/ CallerFails(d)
      PROVE  caller'[c] = caller[c]
  BY <1>7, CallerWakes
<1> QED BY <1>2, <1>3, <1>4, <1>5, <1>6, <1>7, CallerWriters

\* The task that a wakeup spawned holds its run's lock until it has passed the
\* statement that releases it.
LEMMA TaskReleases ==
  ASSUME IInv, NEW e \in Execs, ExecStep(e), ~DbMayFail, exec[e].pc \in HoldsLock
  PROVE  \/ exec'[e].pc \in HoldsLock
         \/ run[e[1]].issue \in Issues => issue'[run[e[1]].issue].lock # e[1]
<1> USE DEF IInv, ExecAt, ExecGoto, Returns, HoldsLock
<1>1. exec \in [Execs -> Exec] /\ issue \in [Issues -> Issue]
  BY DEF ExecsOK, TablesOK
<1>2. CASE ExecStart(e) \/ ApiReturns(e) \/ SpawnChild(e)
  BY <1>1, <1>2 DEF ExecStart, ApiReturns, SpawnChild, Exec
<1>3. CASE MarkRunning(e) \/ RegisterChild(e) \/ AttachChild(e)
  BY <1>1, <1>3 DEF MarkRunning, RegisterChild, AttachChild, Exec
<1>4. CASE WaitChild(e) \/ WaitTimesOut(e) \/ FinishRun(e)
  BY <1>1, <1>4 DEF WaitChild, WaitTimesOut, FinishRun, Exec
<1>5. CASE FinishIssue(e)
  <2>1. e[1] # NoRun
    BY ConstantsAssumption DEF Execs, Runs, NoRun
  <2>2. ASSUME NEW s, ClearLock(e[1], run[e[1]].issue, s), run[e[1]].issue \in Issues
        PROVE  issue'[run[e[1]].issue].lock # e[1]
    BY <1>1, <2>1, <2>2 DEF ClearLock, Issue
  <2> QED BY <1>5, <2>2 DEF FinishIssue, RunOf, IssueOf
<1>6. ~(FinishWakeups(e) \/ FinishSessions(e) \/ FinishAgent(e) \/ FinishChild(e))
  BY DEF FinishWakeups, FinishSessions, FinishAgent, FinishChild
<1> QED BY <1>2, <1>3, <1>4, <1>5, <1>6 DEF ExecStep

\* Every step keeps each lock with a run that releases it.
LEMMA NextLocks ==
  ASSUME IInv, SpawnInv, WakerFits, DownIsIdle, LockHasReleaser, Next, ~DbMayFail, ~Crash
  PROVE  LockHasReleaser'
<1> USE DEF IInv
<1>1. exec \in [Execs -> Exec] /\ issue \in [Issues -> Issue]
  BY DEF ExecsOK, TablesOK
<1> SUFFICES ASSUME NEW i \in Issues, NEW r, r = issue'[i].lock, r # NoRun
             PROVE  /\ run'[r].issue = i
                    /\ \/ \E c \in Callers : caller'[c].pc = "wk_agent" /\ caller'[c].run = r
                       \/ exec'[<<r, "woken">>].pc \in HoldsLock
  BY DEF LockHasReleaser, At
<1>2. CASE r = issue[i].lock
  <2> DEFINE e == <<r, "woken">>
  <2>1. /\ r \in Runs /\ e \in Execs /\ run[r].issue = i
        /\ \/ \E c \in Callers : At(c, "wk_agent") /\ caller[c].run = r
           \/ exec[e].pc \in HoldsLock
    BY <1>1, <1>2 DEF Issue, LockHasReleaser, Execs, Origins
  <2>2. r \in Rows
    BY <2>1 DEF ExecsOK, CallersOK, Locals, HasRun, At, HoldsLock
  <2>3. run'[r].issue = i
    BY <2>1, <2>2, RowsKeepTheirIssue
  <2>4. ASSUME NEW c \in Callers, At(c, "wk_agent"), caller[c].run = r
        PROVE  \/ caller'[c].pc = "wk_agent" /\ caller'[c].run = r
               \/ exec'[e].pc \in HoldsLock
    BY <2>4, WakerSpawns DEF At, HoldsLock
  <2>5. ASSUME exec[e].pc \in HoldsLock
        PROVE  exec'[e].pc \in HoldsLock
    <3>1. CASE exec'[e] = exec[e]
      BY <2>5, <3>1
    <3>2. CASE ExecStep(e)
      BY <1>2, <2>1, <2>5, <3>2, TaskReleases
    <3> QED BY <2>1, <2>5, <3>1, <3>2, SpawnsAreNew DEF HoldsLock
  <2> QED BY <2>1, <2>3, <2>4, <2>5
<1>3. ASSUME NEW c \in Callers, WakeupLockIssue(c), caller[c].issue = i, r = caller[c].run
      PROVE  /\ run'[r].issue = i
             /\ caller'[c].pc = "wk_agent" /\ caller'[c].run = r
  <2>1. caller[c].pc \in Wakes
    BY <1>3 DEF WakeupLockIssue, At, Wakes
  <2>2. caller'[c].pc = "wk_agent" /\ caller'[c].run = caller[c].run /\ UNCHANGED run
    BY <1>3, GotoAt DEF WakeupLockIssue, CallersOK
  <2> QED BY <1>3, <2>1, <2>2 DEF WakerFits
<1> QED BY <1>2, <1>3, LockSteps

\* The server stays up.
LEMMA NoCrash == ASSUME IInv, MaxCrashes = 0 PROVE ~Crash
BY DEF IInv, ServerOK, Crash

\* When statements succeed and the server stays up, no execution lock is
\* leaked: the run that an issue's lock names has still to release it.
THEOREM LocksHaveReleasers ==
  ASSUME ~DbMayFail, MaxCrashes = 0
  PROVE  Spec => []LockHasReleaser
<1>1. Init => LockHasReleaser
  BY DEF Init, LockHasReleaser
<1>2. ASSUME IInv, SpawnInv, WakerFits, DownIsIdle, LockHasReleaser, [Next]_vars
      PROVE  LockHasReleaser'
  BY <1>2, NextLocks, NoCrash DEF vars, LockHasReleaser, At
<1> QED BY <1>1, <1>2, Invariance, SpawnInvariance, WakerFitsAlways, DownIsIdleAlways, PTL DEF Spec

-----------------------------------------------------------------------------
(* Every open session has a task that revokes it.                          *)

\* Where a task is between the insert of its session and the revocation.
HoldsSession == {"spawn", "mark", "register", "attach", "wait", "fin_run", "fin_issue",
                 "fin_wakeups", "fin_sessions"}

\* A session opens at the start of a task of its run.
LEMMA SessionsOpen ==
  ASSUME IInv, Next, NEW r \in Runs, session'[r], ~session[r]
  PROVE  \E e \in Execs : e[1] = r /\ exec'[e].pc = "spawn"
<1> USE DEF IInv
<1>1. exec \in [Execs -> Exec] /\ session \in [Runs -> BOOLEAN]
  BY DEF ExecsOK, TablesOK
<1>2. ASSUME NEW c \in Callers, Request(c) \/ Boot(c) \/ NextFails(c) \/ CallerFails(c)
      PROVE  UNCHANGED session
  BY <1>2 DEF Request, RequestWakeup, RequestEdit, RequestCancel, RequestStatus, StuckScan,
              Boot, NextFails, CallerFails
<1>3. ASSUME NEW c \in Callers, CallerStep(c)
      PROVE  UNCHANGED session \/ CancelRevoke(c)
  BY <1>3 DEF CallerStep, WakeupLookup, WakeupInsertRun, WakeupInsertRequest, WakeupLockIssue,
              WakeupSpawn, BootNext, EditIssue, CancelLookup, CancelTake, CancelSignal, CancelGrace,
              CancelStatus, CancelLock, CancelWakeups, NextSlots, NextPlan, NextClaim, NextDone,
              CancelTarget, StatusWrite, StuckMark
<1>4. ASSUME NEW e \in Execs, ExecStep(e) \/ ProcessExits(e)
      PROVE  UNCHANGED session \/ ExecStart(e) \/ FinishSessions(e)
  BY <1>4 DEF ExecStep, ApiReturns, SpawnChild, MarkRunning, RegisterChild, AttachChild,
              WaitChild, WaitTimesOut, FinishRun, FinishIssue, FinishWakeups, FinishAgent,
              FinishChild, ProcessExits
<1>5. ASSUME NEW e \in Execs, ExecStart(e)
      PROVE  e[1] = r /\ exec'[e].pc = "spawn"
  BY <1>1, <1>5 DEF ExecStart, ExecGoto, RunOf, Exec
<1>6. ASSUME NEW c \in Callers, CancelRevoke(c)
      PROVE  FALSE
  BY <1>1, <1>6 DEF CancelRevoke, RevokeSessions
<1>7. ASSUME NEW e \in Execs, FinishSessions(e)
      PROVE  FALSE
  BY <1>1, <1>7 DEF FinishSessions, RevokeSessions
<1>8. Crash => UNCHANGED session
  BY DEF Crash
<1> QED BY <1>2, <1>3, <1>4, <1>5, <1>6, <1>7, <1>8 DEF Next

\* A task that may hold a session holds it until it revokes it.
LEMMA TaskRevokes ==
  ASSUME IInv, NEW e \in Execs, ExecStep(e), ~DbMayFail, exec[e].pc \in HoldsSession
  PROVE  exec'[e].pc \in HoldsSession \/ ~session'[e[1]]
<1> USE DEF IInv, ExecAt, ExecGoto, Returns, HoldsSession
<1>1. exec \in [Execs -> Exec] /\ session \in [Runs -> BOOLEAN] /\ e[1] \in Runs
  BY DEF ExecsOK, TablesOK, Execs
<1>2. ~(ExecStart(e) \/ ApiReturns(e) \/ FinishAgent(e) \/ FinishChild(e))
  BY DEF ExecStart, ApiReturns, FinishAgent, FinishChild
<1>3. CASE SpawnChild(e) \/ MarkRunning(e) \/ RegisterChild(e) \/ AttachChild(e)
  BY <1>1, <1>3 DEF SpawnChild, MarkRunning, RegisterChild, AttachChild, Exec
<1>4. CASE WaitChild(e) \/ WaitTimesOut(e) \/ FinishRun(e)
  BY <1>1, <1>4 DEF WaitChild, WaitTimesOut, FinishRun, Exec
<1>5. CASE FinishIssue(e) \/ FinishWakeups(e)
  BY <1>1, <1>5 DEF FinishIssue, FinishWakeups, Exec
<1>6. CASE FinishSessions(e)
  BY <1>1, <1>6 DEF FinishSessions, RevokeSessions, RunOf
<1> QED BY <1>2, <1>3, <1>4, <1>5, <1>6 DEF ExecStep

\* Every step keeps each open session with a task that revokes it.
LEMMA NextSessions ==
  ASSUME IInv, SpawnInv, SessionHasOwner, Next, ~DbMayFail, ~Crash
  PROVE  SessionHasOwner'
<1> SUFFICES ASSUME NEW r \in Runs, session'[r]
             PROVE  \E o \in Origins : exec'[<<r, o>>].pc \in HoldsSession
  BY DEF SessionHasOwner, HoldsSession
<1>1. CASE session[r]
  <2>1. PICK o \in Origins : exec[<<r, o>>].pc \in HoldsSession
    BY <1>1 DEF SessionHasOwner, HoldsSession
  <2> DEFINE e == <<r, o>>
  <2>2. e \in Execs /\ exec[e].pc # "none"
    BY <2>1 DEF Execs, HoldsSession
  <2>3. exec'[e].pc \in HoldsSession
    BY <2>1, <2>2, SpawnsAreNew, TaskRevokes
  <2> QED BY <2>3
<1>2. CASE ~session[r]
  <2>1. PICK e \in Execs : e[1] = r /\ exec'[e].pc = "spawn"
    BY <1>2, SessionsOpen
  <2>2. e[2] \in Origins /\ e = <<r, e[2]>>
    BY <2>1 DEF Execs
  <2> QED BY <2>1, <2>2 DEF HoldsSession
<1> QED BY <1>1, <1>2

\* When statements succeed and the server stays up, no tool gateway session
\* outlives the tasks of its run, however cancels and second tasks interleave.
THEOREM SessionsHaveOwners ==
  ASSUME ~DbMayFail, MaxCrashes = 0
  PROVE  Spec => []SessionHasOwner
<1>1. Init => SessionHasOwner
  BY DEF Init, SessionHasOwner
<1>2. ASSUME IInv, SpawnInv, SessionHasOwner, [Next]_vars
      PROVE  SessionHasOwner'
  BY <1>2, NextSessions, NoCrash DEF vars, SessionHasOwner
<1> QED BY <1>1, <1>2, Invariance, SpawnInvariance, PTL DEF Spec

-----------------------------------------------------------------------------
(* Two active runs for an agent and an issue.                              *)

\* The records name runs that exist.
RecordsFit ==
  /\ \A c \in Callers : known[c] \subseteq Rows
  /\ \A r \in Runs : knew[r] \subseteq Rows

\* Of the runs that existed at its lookup, a wakeup that is to insert a run
\* knows none that is active.
LookupHolds ==
  \A c \in Callers : At(c, "wk_insert") =>
    ActiveRunsOf(caller[c].agent, caller[c].issue) \cap known[c] = {}

\* The inductive invariant.
TwinsInv == RecordsFit /\ LookupHolds /\ TwinsOverlapped

\* A caller gets to the insert by its lookup.
LEMMA InsertAfterLookup ==
  ASSUME IInv, NEW c \in Callers,
         Boot(c) \/ Request(c) \/ CallerStep(c) \/ NextFails(c) \/ CallerFails(c),
         caller'[c].pc = "wk_insert"
  PROVE  /\ ActiveRunsOf(caller[c].agent, caller[c].issue) = {} /\ UNCHANGED run
         /\ caller'[c] = [caller[c] EXCEPT !.pc = "wk_insert"]
<1> USE DEF IInv
<1>1. caller \in [Callers -> Caller] /\ caller[c] \in Caller
  BY DEF CallersOK
<1>2. Idle.pc # "wk_insert" /\ AfterWakeup.pc # "wk_insert"
  BY DEF Idle, AfterWakeup, Begin
<1>3. WakeupLookup(c) \/ ~CallerStep(c)
  <2>1. CASE WakeupInsertRun(c) \/ WakeupInsertRequest(c) \/ WakeupLockIssue(c) \/ WakeupSpawn(c)
    BY <1>1, <1>2, <2>1 DEF WakeupInsertRun, WakeupInsertRequest, WakeupLockIssue, WakeupSpawn,
                            Goto, Caller
  <2>2. CASE BootNext(c) \/ EditIssue(c)
    BY <1>1, <1>2, <2>2 DEF BootNext, EditIssue, BeginWakeup, Begin, Goto, Caller
  <2>3. CASE CancelLookup(c) \/ CancelTake(c) \/ CancelSignal(c) \/ CancelGrace(c)
    BY <1>1, <2>3 DEF CancelLookup, CancelTake, CancelSignal, CancelGrace, Goto, Caller
  <2>4. CASE CancelStatus(c) \/ CancelLock(c) \/ CancelRevoke(c) \/ CancelWakeups(c)
    BY <1>1, <2>4 DEF CancelStatus, CancelLock, CancelRevoke, CancelWakeups, Goto, Caller
  <2>5. CASE NextSlots(c) \/ NextPlan(c) \/ NextDone(c)
    BY <1>1, <2>5 DEF NextSlots, NextPlan, NextDone, Goto, Caller
  <2>6. CASE NextClaim(c)
    BY <1>1, <2>6 DEF NextClaim, At, Caller
  <2>7. CASE CancelTarget(c) \/ StatusWrite(c)
    BY <1>1, <1>2, <2>7 DEF CancelTarget, StatusWrite
  <2>8. CASE StuckMark(c)
    BY <1>1, <1>2, <2>8 DEF StuckMark, At, Caller
  <2> QED BY <2>1, <2>2, <2>3, <2>4, <2>5, <2>6, <2>7, <2>8 DEF CallerStep
<1>4. ~(Boot(c) \/ NextFails(c) \/ CallerFails(c))
  BY <1>1, <1>2 DEF Boot, NextFails, CallerFails, Goto, Caller
<1>5. ~Request(c)
  <2>1. \A l, a, i : Begin(l, a, i).pc = l
    BY DEF Begin
  <2>2. ~\E i \in Issues : RequestWakeup(c, i)
    BY <1>1, <2>1 DEF RequestWakeup, BeginWakeup
  <2>3. ~\E i \in Issues, a \in Agents, s \in EditStatuses : RequestEdit(c, i, a, s)
    <3> SUFFICES ASSUME NEW i \in Issues, NEW a \in Agents, NEW s \in EditStatuses,
                        RequestEdit(c, i, a, s)
                 PROVE  FALSE
      OBVIOUS
    <3>1. \E l \in {"ed_wake", "ed_quiet"} :
            caller' = [caller EXCEPT ![c] = [Begin(l, a, i) EXCEPT !.want = s]]
      BY DEF RequestEdit
    <3> QED BY <1>1, <3>1 DEF Begin
  <2>4. ~\E r \in Runs : RequestCancel(c, r)
    BY <1>1 DEF RequestCancel, Begin
  <2>5. ~\E a \in Agents, s \in StatusRequests : RequestStatus(c, a, s)
    BY <1>1, ZenonT(40) DEF RequestStatus, Begin
  <2>6. ~\E S \in SUBSET Runs : StuckScan(c, S)
    BY <1>1 DEF StuckScan, Begin
  <2> QED BY <2>2, <2>3, <2>4, <2>5, <2>6 DEF Request
<1>6. CASE WakeupLookup(c)
  BY <1>1, <1>2, <1>6 DEF WakeupLookup, Goto
<1> QED BY <1>3, <1>4, <1>5, <1>6

\* An insert adds one run, for the agent and issue of its wakeup.
LEMMA InsertFits ==
  ASSUME IInv, NEW q \in Runs, NEW c \in Callers, Inserts(c, q)
  PROVE  /\ q \notin Rows /\ At(c, "wk_insert")
         /\ run'[q].agent = caller[c].agent /\ run'[q].issue = caller[c].issue
<1>1. run \in [Runs -> Run] /\ caller \in [Callers -> Caller]
  BY DEF IInv, RunsOK, CallersOK
<1>2. PICK r \in Runs :
        /\ run' = [run EXCEPT ![r] = [status |-> "queued", agent |-> caller[c].agent,
                                      issue |-> caller[c].issue]]
        /\ caller' = [caller EXCEPT ![c].pc = "wk_request", ![c].run = r]
  BY DEF Inserts, WakeupInsertRun
<1>3. caller'[c].run = r
  BY <1>1, <1>2 DEF Caller
<1>4. r = q
  BY <1>3 DEF Inserts
<1> QED BY <1>1, <1>2, <1>4 DEF Inserts, WakeupInsertRun, Rows

\* A run that becomes active is recorded with what its wakeup knew.
LEMMA AppearsRecorded ==
  ASSUME IInv, Next, NEW q \in Runs, ~Active(q), run'[q].status \in ActiveStatuses
  PROVE  /\ \E c \in Callers : Inserts(c, q)
         /\ \A r \in Runs : r # q => run'[r] = run[r]
<1>1. run \in [Runs -> Run] /\ caller \in [Callers -> Caller]
  BY DEF IInv, RunsOK, CallersOK
<1>2. PICK c \in Callers :
        /\ WakeupInsertRun(c) /\ q \notin Rows
        /\ run' = [run EXCEPT ![q] = [status |-> "queued", agent |-> caller[c].agent,
                                      issue |-> caller[c].issue]]
  BY RunsAppear
<1>3. ~Exists(q) /\ run'[q].status = "queued"
  BY <1>1, <1>2 DEF Rows
<1>4. PICK r \in Runs :
        /\ run' = [run EXCEPT ![r] = [status |-> "queued", agent |-> caller[c].agent,
                                      issue |-> caller[c].issue]]
        /\ caller' = [caller EXCEPT ![c].pc = "wk_request", ![c].run = r]
  BY <1>2, <1>3 DEF WakeupInsertRun
<1>5. r = q
  BY <1>1, <1>3, <1>4 DEF Exists
<1>6. caller'[c].run = q
  BY <1>1, <1>4, <1>5 DEF Caller
<1> QED BY <1>1, <1>2, <1>3, <1>6 DEF Inserts

\* Every step keeps the records on runs that exist.
LEMMA NextRecordsFit ==
  ASSUME IInv, RecordsFit, Next, Record
  PROVE  RecordsFit'
<1>1. Rows \subseteq Rows'
  BY RunsStep DEF RowsStay
<1>2. ASSUME NEW c \in Callers
      PROVE  known'[c] \subseteq Rows
  BY DEF Record, RecordsFit, Rows
<1>3. ASSUME NEW r \in Runs
      PROVE  knew'[r] \subseteq Rows
  BY DEF Record, RecordsFit
<1> QED BY <1>1, <1>2, <1>3 DEF RecordsFit

\* A caller is at its insert after a step by its lookup, or was before.
LEMMA InsertComes ==
  ASSUME IInv, Next, NEW c \in Callers, caller'[c].pc = "wk_insert"
  PROVE  \/ caller'[c] = caller[c] /\ ~WakeupInsertRun(c)
         \/ \A r \in Runs : run'[r].status \in ActiveStatuses =>
              ~(run'[r].agent = caller'[c].agent /\ run'[r].issue = caller'[c].issue)
<1>1. caller \in [Callers -> Caller] /\ caller[c] \in Caller
  BY DEF IInv, CallersOK
<1>2. CASE Boot(c) \/ Request(c) \/ CallerStep(c) \/ NextFails(c) \/ CallerFails(c)
  <2>1. /\ ActiveRunsOf(caller[c].agent, caller[c].issue) = {} /\ UNCHANGED run
        /\ caller'[c] = [caller[c] EXCEPT !.pc = "wk_insert"]
    BY <1>2, InsertAfterLookup
  <2>2. caller'[c].agent = caller[c].agent /\ caller'[c].issue = caller[c].issue
    BY <1>1, <2>1 DEF Caller
  <2> QED BY <2>1, <2>2 DEF ActiveRunsOf, Active, IsFor
<1>3. ASSUME caller'[c] = caller[c]
      PROVE  ~WakeupInsertRun(c)
  BY <1>1, <1>3 DEF WakeupInsertRun, At, AfterWakeup, Idle, Begin, Caller
<1>4. CASE Crash
  BY <1>4 DEF Crash, Idle, Begin
<1>5. ASSUME NEW d \in Callers, d # c,
             Boot(d) \/ Request(d) \/ CallerStep(d) \/ NextFails(d) \/ CallerFails(d)
      PROVE  caller'[c] = caller[c]
  BY <1>5, CallerWakes
<1> QED BY <1>2, <1>3, <1>4, <1>5, CallerWriters

\* Every step keeps what a lookup found.
LEMMA NextLookupHolds ==
  ASSUME IInv, RecordsFit, LookupHolds, Next, Record
  PROVE  LookupHolds'
<1> SUFFICES ASSUME NEW c \in Callers, caller'[c].pc = "wk_insert",
                    NEW r \in Runs, r \in known'[c], run'[r].status \in ActiveStatuses,
                    run'[r].agent = caller'[c].agent, run'[r].issue = caller'[c].issue
             PROVE  FALSE
  BY DEF LookupHolds, At, ActiveRunsOf, Active, IsFor
<1>1. caller'[c] = caller[c]
  BY InsertComes
<1>2. r \in known[c] /\ At(c, "wk_insert")
  BY <1>1 DEF Record, At
<1>3. r \in Rows
  BY <1>2 DEF RecordsFit
<1>4. Active(r)
  BY <1>3, RunsAppear
<1>5. run'[r].agent = run[r].agent /\ run'[r].issue = run[r].issue
  BY <1>3, RowsKeepTheirIssue
<1> QED BY <1>1, <1>2, <1>4, <1>5 DEF LookupHolds, ActiveRunsOf, IsFor

\* A run that a step adds, and the runs that were active before.
LEMMA NewRunsOverlap ==
  ASSUME IInv, RecordsFit, LookupHolds, Next, Record,
         NEW r \in Runs, NEW q \in Runs, r # q, ~Active(q),
         run'[r].status \in ActiveStatuses, run'[q].status \in ActiveStatuses,
         run'[r].agent = run'[q].agent, run'[r].issue = run'[q].issue
  PROVE  r \notin knew'[q] /\ q \notin knew'[r]
<1>1. (\E c \in Callers : Inserts(c, q)) /\ run'[r] = run[r]
  BY AppearsRecorded
<1>2. Active(r) /\ r \in Rows
  BY <1>1, ActiveIsRow DEF Active
<1>3. \A c \in Callers : ~Inserts(c, r)
  BY <1>2, InsertFits
<1>4. q \notin Rows
  BY <1>1, InsertFits
<1>5. q \notin knew'[r]
  BY <1>3, <1>4 DEF Record, RecordsFit
<1>6. ASSUME NEW d \in Callers, Inserts(d, q)
      PROVE  r \notin known[d]
  <2>1. /\ At(d, "wk_insert")
        /\ run'[q].agent = caller[d].agent /\ run'[q].issue = caller[d].issue
    BY <1>6, InsertFits
  <2>2. r \in ActiveRunsOf(caller[d].agent, caller[d].issue)
    BY <1>1, <1>2, <2>1 DEF ActiveRunsOf, IsFor
  <2> QED BY <2>1, <2>2 DEF LookupHolds
<1>7. knew'[q] = UNION {known[c] : c \in {d \in Callers : Inserts(d, q)}}
  BY <1>1 DEF Record
<1> QED BY <1>5, <1>6, <1>7

\* Every step keeps the twins apart in time.
LEMMA NextTwins ==
  ASSUME IInv, TwinsInv, Next, Record
  PROVE  TwinsInv'
<1> USE DEF TwinsInv
<1>1. RecordsFit' /\ LookupHolds'
  BY NextRecordsFit, NextLookupHolds
<1>2. TwinsOverlapped'
  <2> SUFFICES ASSUME NEW r \in Runs, NEW q \in Runs, r # q,
                      run'[r].status \in ActiveStatuses, run'[q].status \in ActiveStatuses,
                      run'[r].agent = run'[q].agent, run'[r].issue = run'[q].issue
               PROVE  r \notin knew'[q] /\ q \notin knew'[r]
    BY DEF TwinsOverlapped, Active, IsFor
  <2>1. CASE Active(r) /\ Active(q)
    <3>1. r \in Rows /\ q \in Rows
      BY <2>1, ActiveIsRow
    <3>2. IsFor(q, run[r].agent, run[r].issue)
      BY <3>1, RowsKeepTheirIssue DEF IsFor
    <3>3. \A c \in Callers : ~Inserts(c, r) /\ ~Inserts(c, q)
      BY <3>1, InsertFits
    <3>4. knew'[r] = knew[r] /\ knew'[q] = knew[q]
      BY <3>3 DEF Record
    <3> QED BY <2>1, <3>2, <3>4 DEF TwinsOverlapped
  <2>2. CASE ~Active(q)
    BY <2>2, NewRunsOverlap
  <2>3. CASE ~Active(r)
    BY <2>3, NewRunsOverlap
  <2> QED BY <2>1, <2>2, <2>3
<1> QED BY <1>1, <1>2

\* The recorded behaviours are behaviours of the service.
LEMMA HistoryImplements == HistorySpec => Spec
<1>1. HistoryInit => Init
  BY DEF HistoryInit
<1>2. [HistoryNext]_<<vars, history>> => [Next]_vars
  BY DEF HistoryNext
<1> QED BY <1>1, <1>2, PTL DEF HistorySpec, Spec

\* However many wakeups race, with statements that fail and across restarts, an
\* agent has two active runs for one issue only when neither existed at the
\* lookup of the other's wakeup.
THEOREM TwinsRace == HistorySpec => []TwinsOverlapped
<1>1. HistoryInit => TwinsInv
  BY DEF HistoryInit, Init, TwinsInv, RecordsFit, LookupHolds, TwinsOverlapped, Active,
         ActiveStatuses, At, Idle, Begin
<1>2. ASSUME IInv, TwinsInv, [HistoryNext]_<<vars, history>>
      PROVE  TwinsInv'
  <2>1. CASE HistoryNext
    BY <1>2, <2>1, NextTwins DEF HistoryNext
  <2>2. CASE UNCHANGED <<vars, history>>
    BY <1>2, <2>2 DEF vars, history, TwinsInv, RecordsFit, Rows, Exists, LookupHolds,
                      TwinsOverlapped, At, ActiveRunsOf, Active, IsFor
  <2> QED BY <1>2, <2>1, <2>2
<1>3. TwinsInv => TwinsOverlapped
  BY DEF TwinsInv
<1> QED BY <1>1, <1>2, <1>3, HistoryImplements, Invariance, PTL DEF HistorySpec

=============================================================================
