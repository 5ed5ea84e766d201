----------------------- MODULE HeartbeatService_proofs -----------------------
(***************************************************************************)
(* Theorems about HeartbeatService for every number of agents, issues,     *)
(* runs, callers, requests and crashes.                                    *)
(*                                                                         *)
(* TypeOK is not inductive: that a status written back is the status of an *)
(* issue, or that a task has a row to finish, depends on where the caller  *)
(* or the task is.  IInv adds what each program counter implies about the  *)
(* locals.  It is preserved table by table: the first lemmas say which     *)
(* actions write a table, the others take these one by one.                *)
(***************************************************************************)
EXTENDS HeartbeatService, FiniteSetTheorems, TLAPS

\* The rows of heartbeat_runs.
Rows == {r \in Runs : Exists(r)}
\* Rows are never deleted.
RowsStay == Rows \subseteq Rows'

\* A row of heartbeat_runs is inserted with an agent and an issue.
RunsOK ==
  /\ run \in [Runs -> Run]
  /\ \A r \in Rows : run[r].agent \in Agents /\ run[r].issue \in Issues

\* A task executes a row, and finishes it with the result of run_command.
ExecsOK ==
  /\ exec \in [Execs -> Exec]
  /\ \A e \in Execs :
       /\ exec[e].pc # "none" => e[1] \in Rows
       /\ exec[e].pc = "fin_run" => exec[e].outcome \in {"succeeded", "failed"}

\* The locals that are assigned at each program counter.
HasAgent == CallerPcs \ {"idle", "boot_next", "sd_mark"}
HasIssue == HasAgent \ {"st_write"}
HasRun == {"wk_request", "wk_lock", "wk_agent", "cx_take", "cx_signal", "cx_grace",
           "cx_status", "cx_lock", "cx_revoke"}
HasOrigin == {"cx_signal", "cx_grace"}
HasTarget == {"cx_lookup", "cx_take", "cx_signal", "cx_grace", "cx_status", "cx_lock",
              "cx_revoke", "cx_wakeups", "nx_slots", "nx_plan", "nx_claim", "cx_target"}

\* The locals k are assigned, with rows as the rows of heartbeat_runs.
Locals(k, rows) ==
  /\ k.pc \in HasAgent => k.agent \in Agents
  /\ k.pc \in HasIssue => k.issue \in Issues
  /\ k.pc \in HasRun => k.run \in rows
  /\ k.pc \in HasOrigin => k.origin \in Origins
  /\ k.pc \in HasTarget => k.target \in rows
  /\ k.pc \in {"ed_wake", "ed_quiet"} => k.want \in IssueStatuses
  /\ k.pc = "st_write" => k.want \in AgentStatuses
  /\ k.pc = "sd_mark" => k.batch \subseteq rows

CallersOK ==
  /\ caller \in [Callers -> Caller]
  /\ \A c \in Callers : Locals(caller[c], Rows)

\* The other tables and the memory of the server.
TablesOK ==
  /\ issue \in [Issues -> Issue]
  /\ agent \in [Agents -> AgentStatuses]
  /\ wakeup \in [Runs -> {"none", "dispatched", "completed", "cancelled"}]
  /\ session \in [Runs -> BOOLEAN]
  /\ process \in [Execs -> {"none", "alive", "piped", "exited"}]
  /\ children \in [Runs -> Origins \cup {NoChild}]
ServerOK ==
  /\ registry \in Callers \cup {Free}
  /\ server \in {"down", "booting", "serving"}
  /\ bootQueue \in SUBSET (Agents \X Issues)
  /\ requests \in 0..MaxRequests
  /\ crashes \in 0..MaxCrashes

IInv == RunsOK /\ ExecsOK /\ CallersOK /\ TablesOK /\ ServerOK

\* IInv is the type invariant and more.
LEMMA IInvTypeOK == IInv => TypeOK
BY DEF IInv, RunsOK, ExecsOK, CallersOK, TablesOK, ServerOK, TypeOK

-----------------------------------------------------------------------------
(* Which actions write which table.                                        *)

\* heartbeat_runs is written by seven actions.
LEMMA RunWriters ==
  ASSUME Next
  PROVE  \/ UNCHANGED run
         \/ \E c \in Callers : \/ WakeupInsertRun(c) \/ CancelStatus(c) \/ CancelTarget(c)
                               \/ NextClaim(c) \/ StuckMark(c)
         \/ \E e \in Execs : MarkRunning(e) \/ FinishRun(e)
<1>1. ASSUME NEW c \in Callers, Request(c) \/ Boot(c) \/ NextFails(c) \/ CallerFails(c)
      PROVE  UNCHANGED run
  BY <1>1 DEF Request, RequestWakeup, RequestEdit, RequestCancel, RequestStatus, StuckScan,
              Boot, NextFails, CallerFails
<1>2. ASSUME NEW c \in Callers, CallerStep(c)
      PROVE  \/ UNCHANGED run
             \/ WakeupInsertRun(c) \/ CancelStatus(c) \/ CancelTarget(c) \/ NextClaim(c) \/ StuckMark(c)
  BY <1>2 DEF CallerStep, WakeupLookup, WakeupInsertRequest, WakeupLockIssue, WakeupSpawn,
              BootNext, EditIssue, CancelLookup, CancelTake, CancelSignal, CancelGrace,
              CancelLock, CancelRevoke, CancelWakeups, NextSlots, NextPlan, NextDone, StatusWrite
<1>3. ASSUME NEW e \in Execs, ExecStep(e) \/ ProcessExits(e)
      PROVE  UNCHANGED run \/ MarkRunning(e) \/ FinishRun(e)
  BY <1>3 DEF ExecStep, ExecStart, ApiReturns, SpawnChild, RegisterChild, AttachChild, WaitChild,
              WaitTimesOut, FinishIssue, FinishWakeups, FinishSessions, FinishAgent, FinishChild,
              ProcessExits
<1>4. Crash => UNCHANGED run
  BY DEF Crash
<1> QED BY <1>1, <1>2, <1>3, <1>4 DEF Next

\* The tasks change at the spawns and by their own steps.
LEMMA ExecWriters ==
  ASSUME Next
  PROVE  \/ UNCHANGED exec
         \/ \E c \in Callers : WakeupSpawn(c) \/ NextClaim(c)
         \/ \E e \in Execs : ExecStep(e)
         \/ Crash
<1>1. ASSUME NEW c \in Callers, Request(c) \/ Boot(c) \/ NextFails(c) \/ CallerFails(c)
      PROVE  UNCHANGED exec
  BY <1>1 DEF Request, RequestWakeup, RequestEdit, RequestCancel, RequestStatus, StuckScan,
              Boot, NextFails, CallerFails
<1>2. ASSUME NEW c \in Callers, CallerStep(c)
      PROVE  UNCHANGED exec \/ WakeupSpawn(c) \/ NextClaim(c)
  BY <1>2 DEF CallerStep, WakeupLookup, WakeupInsertRun, WakeupInsertRequest, WakeupLockIssue,
              BootNext, EditIssue, CancelLookup, CancelTake, CancelSignal, CancelGrace,
              CancelStatus, CancelLock, CancelRevoke, CancelWakeups, NextSlots, NextPlan, NextDone,
              CancelTarget, StatusWrite, StuckMark
<1>3. ASSUME NEW e \in Execs, ProcessExits(e)
      PROVE  UNCHANGED exec
  BY <1>3 DEF ProcessExits
<1> QED BY <1>1, <1>2, <1>3 DEF Next

\* Tasks, children and crashes leave the locals of the callers alone, or clear
\* them all.
LEMMA CallerWriters ==
  ASSUME Next
  PROVE  \/ UNCHANGED caller
         \/ \E c \in Callers : \/ Boot(c) \/ Request(c) \/ CallerStep(c)
                               \/ NextFails(c) \/ CallerFails(c)
         \/ Crash
<1>1. ASSUME NEW e \in Execs, ExecStep(e) \/ ProcessExits(e)
      PROVE  UNCHANGED caller
  BY <1>1 DEF ExecStep, ExecStart, ApiReturns, SpawnChild, MarkRunning, RegisterChild, AttachChild,
              WaitChild, WaitTimesOut, FinishRun, FinishIssue, FinishWakeups, FinishSessions,
              FinishAgent, FinishChild, ProcessExits
<1> QED BY <1>1 DEF Next

-----------------------------------------------------------------------------
(* heartbeat_runs.                                                         *)

\* An UPDATE of the status of a row keeps the rows and their agents and issues.
LEMMA SetRunStatusKeeps ==
  ASSUME RunsOK, NEW r \in Rows, NEW s \in RunStatuses \ {"absent"}, SetRunStatus(r, s)
  PROVE  RunsOK' /\ RowsStay
BY DEF RunsOK, SetRunStatus, Exists, Run, RowsStay, Rows

\* An active run is a row.
LEMMA ActiveIsRow == \A r \in Runs : Active(r) => r \in Rows
BY DEF Active, ActiveStatuses, Rows, Exists

\* Every step keeps the rows of heartbeat_runs in order.
LEMMA RunsStep ==
  ASSUME IInv, Next
  PROVE  RunsOK' /\ RowsStay
<1> USE DEF IInv
<1>1. CASE UNCHANGED run
  BY <1>1 DEF RunsOK, RowsStay, Rows, Exists
<1>2. ASSUME NEW c \in Callers, WakeupInsertRun(c)
      PROVE  RunsOK' /\ RowsStay
  <2>1. caller[c].agent \in Agents /\ caller[c].issue \in Issues
    BY <1>2 DEF WakeupInsertRun, At, CallersOK, Locals, HasAgent, HasIssue, CallerPcs
  <2> QED BY <1>2, <2>1 DEF WakeupInsertRun, RunsOK, RowsStay, Rows, Exists, Run, RunStatuses
<1>3. ASSUME NEW c \in Callers, CancelStatus(c)
      PROVE  RunsOK' /\ RowsStay
  <2>1. caller[c].run \in Rows
    BY <1>3 DEF CancelStatus, At, CallersOK, Locals, HasRun
  <2> QED BY <1>3, <2>1, SetRunStatusKeeps DEF CancelStatus, RunStatuses
<1>4. ASSUME NEW c \in Callers, CancelTarget(c)
      PROVE  RunsOK' /\ RowsStay
  <2>1. caller[c].target \in Rows
    BY <1>4 DEF CancelTarget, At, CallersOK, Locals, HasTarget
  <2> QED BY <1>1, <1>4, <2>1, SetRunStatusKeeps DEF CancelTarget, RunStatuses
<1>5. ASSUME NEW c \in Callers, NextClaim(c)
      PROVE  RunsOK' /\ RowsStay
  <2>1. \A x \in caller[c].queue : x[3] \in Runs
    BY DEF CallersOK, Caller, QueueEntry
  <2>2. \A x \in caller[c].queue : run[x[3]].status = "queued" => x[3] \in Rows
    BY <2>1 DEF Rows, Exists
  <2> QED BY <1>1, <1>5, <2>2, SetRunStatusKeeps DEF NextClaim, RunStatuses
<1>6. ASSUME NEW c \in Callers, StuckMark(c)
      PROVE  RunsOK' /\ RowsStay
  <2>1. caller[c].batch \subseteq Rows
    BY <1>6 DEF StuckMark, At, CallersOK, Locals
  <2> QED BY <1>6, <2>1, SetRunStatusKeeps DEF StuckMark, RunStatuses
<1>7. ASSUME NEW e \in Execs, MarkRunning(e) \/ FinishRun(e)
      PROVE  RunsOK' /\ RowsStay
  <2>1. e[1] \in Rows
    BY <1>7 DEF MarkRunning, FinishRun, ExecAt, ExecsOK
  <2>2. CASE MarkRunning(e)
    BY <1>1, <2>1, <2>2, SetRunStatusKeeps DEF MarkRunning, RunOf, RunStatuses
  <2>3. CASE FinishRun(e)
    <3>1. exec[e].outcome \in {"succeeded", "failed"}
      BY <2>3 DEF FinishRun, ExecAt, ExecsOK
    <3> QED BY <1>1, <2>1, <2>3, <3>1, SetRunStatusKeeps DEF FinishRun, RunOf, RunStatuses
  <2> QED BY <1>7, <2>2, <2>3
<1> QED BY <1>1, <1>2, <1>3, <1>4, <1>5, <1>6, <1>7, RunWriters

-----------------------------------------------------------------------------
(* The execute_run tasks.                                                  *)

\* A task that does not change keeps its row.
LEMMA ExecsKept ==
  ASSUME ExecsOK, RowsStay, UNCHANGED exec
  PROVE  ExecsOK'
BY DEF ExecsOK, RowsStay

\* So does a task that goes on.
LEMMA ExecGotoKeeps ==
  ASSUME ExecsOK, RowsStay, NEW e \in Execs, exec[e].pc # "none",
         NEW l \in ExecPcs \ {"fin_run"}, ExecGoto(e, l)
  PROVE  ExecsOK'
BY DEF ExecsOK, RowsStay, Exec, ExecGoto

\* run_command returns succeeded or failed.
LEMMA ReturnsKeeps ==
  ASSUME ExecsOK, RowsStay, NEW e \in Execs, exec[e].pc # "none",
         NEW o \in {"succeeded", "failed"}, Returns(e, o)
  PROVE  ExecsOK'
BY DEF ExecsOK, RowsStay, Exec, ExecPcs, Returns

\* Tasks are spawned for rows.
LEMMA SpawnKeeps ==
  ASSUME ExecsOK, RowsStay, NEW r \in Rows, NEW o \in Origins, Spawn(r, o)
  PROVE  ExecsOK'
BY DEF ExecsOK, RowsStay, Rows, Exec, ExecPcs, Spawn, Execs

\* A step of a task keeps the tasks in order.
LEMMA ExecStepKeeps ==
  ASSUME ExecsOK, RowsStay, NEW e \in Execs, ExecStep(e)
  PROVE  ExecsOK'
<1> USE ExecGotoKeeps, ReturnsKeeps DEF ExecAt, ExecPcs
<1>1. CASE ExecStart(e)
  BY <1>1 DEF ExecStart
<1>2. CASE ApiReturns(e)
  BY <1>2 DEF ApiReturns
<1>3. CASE SpawnChild(e)
  BY <1>3 DEF SpawnChild
<1>4. CASE MarkRunning(e)
  BY <1>4 DEF MarkRunning
<1>5. CASE RegisterChild(e)
  BY <1>5 DEF RegisterChild
<1>6. CASE AttachChild(e)
  BY <1>6 DEF AttachChild
<1>7. CASE WaitChild(e) \/ WaitTimesOut(e)
  BY <1>7 DEF WaitChild, WaitTimesOut
<1>8. CASE FinishRun(e) \/ FinishIssue(e) \/ FinishWakeups(e) \/ FinishSessions(e)
  BY <1>8 DEF FinishRun, FinishIssue, FinishWakeups, FinishSessions
<1>9. CASE FinishAgent(e) \/ FinishChild(e)
  BY <1>9 DEF FinishAgent, FinishChild
<1> QED BY <1>1, <1>2, <1>3, <1>4, <1>5, <1>6, <1>7, <1>8, <1>9 DEF ExecStep

\* Every step keeps the tasks in order.
LEMMA ExecsStep ==
  ASSUME IInv, Next, RowsStay
  PROVE  ExecsOK'
<1> USE DEF IInv
<1>1. CASE UNCHANGED exec
  BY <1>1, ExecsKept
<1>2. ASSUME NEW c \in Callers, WakeupSpawn(c)
      PROVE  ExecsOK'
  <2>1. caller[c].run \in Rows
    BY <1>2 DEF WakeupSpawn, At, CallersOK, Locals, HasRun
  <2> QED BY <1>2, <2>1, SpawnKeeps DEF WakeupSpawn, Origins
<1>3. ASSUME NEW c \in Callers, NextClaim(c)
      PROVE  ExecsOK'
  <2>1. \A x \in caller[c].queue : x[3] \in Runs
    BY DEF CallersOK, Caller, QueueEntry
  <2>2. \A x \in caller[c].queue : run[x[3]].status = "queued" => x[3] \in Rows
    BY <2>1 DEF Rows, Exists
  <2> QED BY <1>1, <1>3, <2>2, SpawnKeeps DEF NextClaim, Origins
<1>4. ASSUME NEW e \in Execs, ExecStep(e)
      PROVE  ExecsOK'
  BY <1>4, ExecStepKeeps
<1>5. CASE Crash
  <2>1. exec' = [e \in Execs |-> IF exec[e].pc = "none" THEN exec[e]
                                 ELSE [exec[e] EXCEPT !.pc = "done"]]
    BY <1>5 DEF Crash, ExecAt
  <2>2. ASSUME NEW e \in Execs
        PROVE  /\ exec'[e] \in Exec
               /\ exec'[e].pc # "none" => exec[e].pc # "none"
               /\ exec'[e].pc = "fin_run" => FALSE
    BY <2>1, <2>2 DEF ExecsOK, Exec, ExecPcs
  <2> QED BY <2>1, <2>2 DEF ExecsOK, RowsStay
<1> QED BY <1>1, <1>2, <1>3, <1>4, <1>5, ExecWriters

-----------------------------------------------------------------------------
(* The requests and jobs.                                                  *)

\* The locals of a caller stay assigned while the rows stay.
LEMMA LocalsStay ==
  ASSUME CallersOK, RowsStay, NEW c \in Callers
  PROVE  caller[c] \in Caller /\ Locals(caller[c], Rows) /\ Locals(caller[c], Rows')
BY DEF CallersOK, Locals, RowsStay

\* Callers that do not change stay in order.
LEMMA CallersKept ==
  ASSUME CallersOK, RowsStay, UNCHANGED caller
  PROVE  CallersOK'
BY LocalsStay DEF CallersOK

\* So they do when one of them gets new locals that are assigned.
LEMMA LocalsKept ==
  ASSUME CallersOK, RowsStay, NEW c \in Callers, NEW k \in Caller,
         caller' = [caller EXCEPT ![c] = k], Locals(k, Rows')
  PROVE  CallersOK'
BY LocalsStay DEF CallersOK

\* The locals of an operation that begins are typed.
LEMMA BeginType ==
  ASSUME NEW l \in CallerPcs, NEW a \in Agents \cup {NoAgent}, NEW i \in Issues \cup {NoIssue}
  PROVE  Begin(l, a, i) \in Caller
BY DEF Begin, Caller, AgentStatuses

\* A caller that is done, or goes back to the boot sweep, has no locals.
LEMMA IdleLocals ==
  ASSUME NEW rows
  PROVE  /\ Idle \in Caller /\ Locals(Idle, rows)
         /\ AfterWakeup \in Caller /\ Locals(AfterWakeup, rows)
<1>1. Idle \in Caller /\ Begin("boot_next", NoAgent, NoIssue) \in Caller
  BY BeginType DEF Idle, CallerPcs
<1>2. Locals(Idle, rows) /\ Locals(Begin("boot_next", NoAgent, NoIssue), rows)
  BY DEF Locals, Idle, Begin, HasAgent, HasIssue, HasRun, HasOrigin, HasTarget
<1> QED BY <1>1, <1>2 DEF AfterWakeup

\* A wakeup begins with an agent and an issue.
LEMMA BeginWakeupKeeps ==
  ASSUME CallersOK, RowsStay, NEW c \in Callers, NEW a \in Agents, NEW i \in Issues,
         BeginWakeup(c, a, i)
  PROVE  CallersOK'
<1>1. Begin("wk_lookup", a, i) \in Caller
  BY BeginType DEF CallerPcs
<1>2. Locals(Begin("wk_lookup", a, i), Rows')
  BY DEF Locals, Begin, HasAgent, HasIssue, HasRun, HasOrigin, HasTarget
<1> QED BY <1>1, <1>2, LocalsKept DEF BeginWakeup

\* Program counter m needs no local that l does not have.
Leads(l, m) ==
  /\ m \in CallerPcs \ {"ed_wake", "ed_quiet", "st_write", "sd_mark"}
  /\ m \in HasAgent => l \in HasAgent
  /\ m \in HasIssue => l \in HasIssue
  /\ m \in HasRun => l \in HasRun
  /\ m \in HasOrigin => l \in HasOrigin
  /\ m \in HasTarget => l \in HasTarget

\* A caller that goes on without assigning a local stays in order.
LEMMA GotoKeeps ==
  ASSUME CallersOK, RowsStay, NEW c \in Callers, NEW m, Goto(c, m), Leads(caller[c].pc, m)
  PROVE  CallersOK'
<1> DEFINE k == [caller[c] EXCEPT !.pc = m]
<1>1. k \in Caller
  BY LocalsStay DEF Caller, Leads
<1>2. Locals(k, Rows')
  BY <1>1, LocalsStay DEF Locals, Leads, Caller
<1> QED BY <1>1, <1>2, LocalsKept DEF Goto

\* The steps of wakeup, of the boot sweep and of the edit.
LEMMA WakeupKeeps ==
  ASSUME IInv, RowsStay, NEW c \in Callers,
         \/ WakeupLookup(c) \/ WakeupInsertRun(c) \/ WakeupInsertRequest(c)
         \/ WakeupLockIssue(c) \/ WakeupSpawn(c) \/ BootNext(c) \/ EditIssue(c)
  PROVE  CallersOK'
<1> USE DEF IInv, At
<1>1. CASE WakeupLookup(c)
  BY <1>1, GotoKeeps, IdleLocals, LocalsKept
     DEF WakeupLookup, Leads, CallerPcs, HasAgent, HasIssue, HasRun, HasOrigin, HasTarget
<1>2. CASE WakeupInsertRun(c)
  <2>1. CASE caller' = [caller EXCEPT ![c] = AfterWakeup]
    BY <2>1, IdleLocals, LocalsKept
  <2>2. ASSUME NEW r \in Runs, run'[r].status = "queued",
               caller' = [caller EXCEPT ![c].pc = "wk_request", ![c].run = r]
        PROVE  CallersOK'
    <3> DEFINE k == [caller[c] EXCEPT !.pc = "wk_request", !.run = r]
    <3>1. caller[c] \in Caller /\ caller[c].agent \in Agents /\ caller[c].issue \in Issues
      BY <1>2, LocalsStay DEF WakeupInsertRun, Locals, HasAgent, HasIssue, CallerPcs
    <3>2. k \in Caller /\ k.pc = "wk_request" /\ k.run = r
          /\ k.agent = caller[c].agent /\ k.issue = caller[c].issue
      BY <3>1 DEF Caller, CallerPcs
    <3>3. r \in Rows'
      BY <2>2 DEF Rows, Exists
    <3>4. Locals(k, Rows')
      BY <3>1, <3>2, <3>3 DEF Locals, HasOrigin, HasTarget
    <3> QED BY <2>2, <3>2, <3>4, LocalsKept
  <2> QED BY <1>2, <2>1, <2>2 DEF WakeupInsertRun, RunsOK
<1>3. CASE WakeupInsertRequest(c)
  BY <1>3, GotoKeeps
     DEF WakeupInsertRequest, Leads, CallerPcs, HasAgent, HasIssue, HasRun, HasOrigin, HasTarget
<1>4. CASE WakeupLockIssue(c)
  BY <1>4, GotoKeeps
     DEF WakeupLockIssue, Leads, CallerPcs, HasAgent, HasIssue, HasRun, HasOrigin, HasTarget
<1>5. CASE WakeupSpawn(c)
  BY <1>5, IdleLocals, LocalsKept DEF WakeupSpawn
<1>6. CASE BootNext(c)
  <2>1. \A p \in bootQueue : p[1] \in Agents /\ p[2] \in Issues
    BY DEF ServerOK
  <2> QED BY <1>6, <2>1, GotoKeeps, BeginWakeupKeeps
             DEF BootNext, Leads, CallerPcs, HasAgent, HasIssue, HasRun, HasOrigin, HasTarget
<1>7. CASE EditIssue(c)
  <2>1. caller[c].agent \in Agents /\ caller[c].issue \in Issues
    BY <1>7, LocalsStay DEF EditIssue, Locals, HasAgent, HasIssue, CallerPcs
  <2> QED BY <1>7, <2>1, BeginWakeupKeeps, IdleLocals, LocalsKept DEF EditIssue
<1> QED BY <1>1, <1>2, <1>3, <1>4, <1>5, <1>6, <1>7

\* The steps of cancel_run before its queue step.
LEMMA CancelKeeps ==
  ASSUME IInv, RowsStay, NEW c \in Callers,
         \/ CancelLookup(c) \/ CancelTake(c) \/ CancelSignal(c) \/ CancelGrace(c)
         \/ CancelStatus(c) \/ CancelLock(c) \/ CancelRevoke(c) \/ CancelWakeups(c)
  PROVE  CallersOK'
<1> USE DEF IInv, At
<1>1. caller[c] \in Caller /\ Locals(caller[c], Rows) /\ Locals(caller[c], Rows')
  BY LocalsStay
<1>2. CASE CancelLookup(c)
  <2>1. CASE Goto(c, "cx_wakeups")
    BY <1>2, <2>1, GotoKeeps
       DEF CancelLookup, Leads, CallerPcs, HasAgent, HasIssue, HasRun, HasOrigin, HasTarget
  <2>2. ASSUME NEW r \in ActiveRunsOf(caller[c].agent, caller[c].issue),
               caller' = [caller EXCEPT ![c].pc = "cx_take", ![c].run = r]
        PROVE  CallersOK'
    <3> DEFINE k == [caller[c] EXCEPT !.pc = "cx_take", !.run = r]
    <3>1. r \in Runs /\ r \in Rows'
      BY ActiveIsRow DEF ActiveRunsOf, RowsStay
    <3>2. /\ caller[c].agent \in Agents /\ caller[c].issue \in Issues
          /\ caller[c].target \in Rows'
      BY <1>1, <1>2 DEF CancelLookup, Locals, HasAgent, HasIssue, HasTarget, CallerPcs
    <3>3. k \in Caller /\ k.pc = "cx_take" /\ k.run = r /\ k.target = caller[c].target
          /\ k.agent = caller[c].agent /\ k.issue = caller[c].issue
      BY <1>1, <3>1, ZenonT(40) DEF Caller, CallerPcs
    <3>4. Locals(k, Rows')
      BY <3>1, <3>2, <3>3 DEF Locals, HasOrigin
    <3> QED BY <2>2, <3>3, <3>4, LocalsKept
  <2> QED BY <1>2, <2>1, <2>2 DEF CancelLookup
<1>3. CASE CancelTake(c)
  <2>1. CASE Goto(c, "cx_status")
    BY <1>3, <2>1, GotoKeeps
       DEF CancelTake, Leads, CallerPcs, HasAgent, HasIssue, HasRun, HasOrigin, HasTarget
  <2>2. CASE /\ children[caller[c].run] # NoChild
             /\ caller' = [caller EXCEPT ![c].pc = "cx_signal", ![c].origin = children[caller[c].run]]
    <3> DEFINE o == children[caller[c].run]
               k == [caller[c] EXCEPT !.pc = "cx_signal", !.origin = o]
    <3>1. /\ caller[c].agent \in Agents /\ caller[c].issue \in Issues
          /\ caller[c].target \in Rows' /\ caller[c].run \in Rows' /\ caller[c].run \in Rows
      BY <1>1, <1>3 DEF CancelTake, Locals, HasAgent, HasIssue, HasRun, HasTarget, CallerPcs
    <3>2. o \in Origins
      BY <2>2, <3>1 DEF TablesOK, Rows
    <3>3. k \in Caller /\ k.pc = "cx_signal" /\ k.run = caller[c].run /\ k.target = caller[c].target
          /\ k.agent = caller[c].agent /\ k.issue = caller[c].issue /\ k.origin = o
      BY <1>1, <3>2, ZenonT(40) DEF Caller, CallerPcs
    <3>4. Locals(k, Rows')
      BY <3>1, <3>2, <3>3 DEF Locals
    <3> QED BY <2>2, <3>3, <3>4, LocalsKept
  <2> QED BY <1>3, <2>1, <2>2 DEF CancelTake
<1>4. CASE CancelSignal(c) \/ CancelGrace(c)
  BY <1>4, GotoKeeps DEF CancelSignal, CancelGrace, Leads, CallerPcs, HasAgent, HasIssue,
                         HasRun, HasOrigin, HasTarget
<1>5. CASE CancelStatus(c) \/ CancelLock(c)
  BY <1>5, GotoKeeps DEF CancelStatus, CancelLock, Leads, CallerPcs, HasAgent, HasIssue,
                         HasRun, HasOrigin, HasTarget
<1>6. CASE CancelRevoke(c) \/ CancelWakeups(c)
  BY <1>6, GotoKeeps DEF CancelRevoke, CancelWakeups, Leads, CallerPcs, HasAgent, HasIssue,
                         HasRun, HasOrigin, HasTarget
<1> QED BY <1>2, <1>3, <1>4, <1>5, <1>6

\* The number of runs in a state is a natural number.
LEMMA RunsInCardinality ==
  ASSUME NEW a, NEW S
  PROVE  Cardinality(RunsIn(a, S)) \in Nat
<1>1. IsFiniteSet(Runs)
  BY FS_Interval, ConstantsAssumption DEF Runs
<1>2. RunsIn(a, S) \subseteq Runs
  BY DEF RunsIn
<1> QED BY <1>1, <1>2, FS_Subset, FS_CardinalityType

\* The plan of the queue step is a set of sort keys with their runs.
LEMMA ReadyQueueType ==
  ASSUME RunsOK, NEW a \in Agents
  PROVE  ReadyQueue(a) \subseteq QueueEntry
<1> SUFFICES ASSUME NEW r \in Runs, run[r].status = "queued"
             PROVE  <<Rank(run[r].issue), Priority[run[r].issue], r>> \in QueueEntry
  BY DEF ReadyQueue, RunsIn
<1>1. run[r].issue \in Issues
  BY DEF RunsOK, Rows, Exists
<1>2. Priority[run[r].issue] \in Nat
  BY <1>1, ConstantsAssumption
<1> QED BY <1>2 DEF Rank, QueueEntry

\* The steps of start_next_queued_run_for_agent.
LEMMA QueueKeeps ==
  ASSUME IInv, RowsStay, NEW c \in Callers,
         NextSlots(c) \/ NextPlan(c) \/ NextClaim(c) \/ NextDone(c) \/ NextFails(c)
  PROVE  CallersOK'
<1> USE DEF IInv, At
<1>1. caller[c].pc \in {"nx_slots", "nx_plan", "nx_claim"}
  BY DEF NextSlots, NextPlan, NextClaim, NextDone, NextFails
<1>2. CASE Goto(c, "cx_target")
  BY <1>1, <1>2, GotoKeeps DEF Leads, CallerPcs, HasAgent, HasIssue, HasRun, HasOrigin, HasTarget
<1>3. /\ caller[c] \in Caller
      /\ caller[c].agent \in Agents /\ caller[c].issue \in Issues /\ caller[c].target \in Rows'
  BY <1>1, LocalsStay DEF Locals, HasAgent, HasIssue, HasTarget, CallerPcs
\* New slots and a new queue are the only locals that these steps assign.
<1>4. ASSUME NEW m \in {"nx_plan", "nx_claim"}, NEW n \in 0..50, NEW Q \in SUBSET QueueEntry,
             caller' = [caller EXCEPT ![c] = [caller[c] EXCEPT !.pc = m, !.slots = n, !.queue = Q]]
      PROVE  CallersOK'
  <2> DEFINE k == [caller[c] EXCEPT !.pc = m, !.slots = n, !.queue = Q]
  <2>1. /\ k \in Caller /\ k.pc = m /\ k.target = caller[c].target
        /\ k.agent = caller[c].agent /\ k.issue = caller[c].issue
    BY <1>3, ZenonT(40) DEF Caller, CallerPcs
  <2>2. Locals(k, Rows')
    BY <1>3, <2>1 DEF Locals, HasRun, HasOrigin
  <2> QED BY <1>4, <2>1, <2>2, LocalsKept
<1>5. CASE NextSlots(c)
  <2> DEFINE used == Cardinality(RunsIn(caller[c].agent, ActiveStatuses))
             n == MaxConcurrentRuns[caller[c].agent] - used
  <2>1. CASE used < MaxConcurrentRuns[caller[c].agent]
             /\ caller' = [caller EXCEPT ![c].pc = "nx_plan", ![c].slots = n]
    <3>1. n \in 0..50
      BY <1>3, <2>1, RunsInCardinality, ConstantsAssumption
    <3>2. caller' = [caller EXCEPT ![c] = [caller[c] EXCEPT !.pc = "nx_plan", !.slots = n,
                                                            !.queue = caller[c].queue]]
      BY <1>3, <2>1 DEF CallersOK, Caller
    <3> QED BY <1>3, <1>4, <3>1, <3>2 DEF Caller
  <2> QED BY <1>2, <1>5, <2>1 DEF NextSlots
<1>6. CASE NextPlan(c)
  <2> DEFINE Q == ReadyQueue(caller[c].agent)
  <2>1. CASE caller' = [caller EXCEPT ![c].pc = "nx_claim", ![c].queue = Q]
    <3>1. Q \in SUBSET QueueEntry
      BY <1>3, ReadyQueueType
    <3>2. caller' = [caller EXCEPT ![c] = [caller[c] EXCEPT !.pc = "nx_claim",
                                                            !.slots = caller[c].slots, !.queue = Q]]
      BY <1>3, <2>1 DEF CallersOK, Caller
    <3> QED BY <1>3, <1>4, <3>1, <3>2 DEF Caller
  <2> QED BY <1>2, <1>6, <2>1 DEF NextPlan
<1>7. CASE NextClaim(c)
  <2>1. PICK x \in caller[c].queue :
          \/ caller' = [caller EXCEPT ![c].queue = @ \ {x}, ![c].slots = @ - 1]
          \/ caller' = [caller EXCEPT ![c].queue = @ \ {x}]
    BY <1>7 DEF NextClaim
  <2>2. /\ caller[c].slots \in 0..50 /\ caller[c].slots - 1 \in 0..50
        /\ caller[c].queue \ {x} \in SUBSET QueueEntry /\ caller[c].pc = "nx_claim"
    BY <1>3, <1>7 DEF NextClaim, Caller
  <2>3. \E n \in {caller[c].slots, caller[c].slots - 1} :
          caller' = [caller EXCEPT ![c] = [caller[c] EXCEPT !.pc = "nx_claim", !.slots = n,
                                                            !.queue = caller[c].queue \ {x}]]
    BY <1>3, <2>1, <2>2, ZenonT(40) DEF CallersOK, Caller
  <2> QED BY <1>4, <2>2, <2>3
<1> QED BY <1>2, <1>5, <1>6, <1>7 DEF NextDone, NextFails

\* The last steps of the requests and jobs, and the ways in which they end.
LEMMA EndKeeps ==
  ASSUME IInv, RowsStay, NEW c \in Callers,
         CancelTarget(c) \/ StatusWrite(c) \/ StuckMark(c) \/ CallerFails(c) \/ Boot(c)
  PROVE  CallersOK'
<1> USE DEF IInv
<1>1. CASE CancelTarget(c) \/ StatusWrite(c) \/ CallerFails(c)
  BY <1>1, IdleLocals, LocalsKept DEF CancelTarget, StatusWrite, CallerFails
<1>2. CASE StuckMark(c)
  <2>1. CASE caller' = [caller EXCEPT ![c] = Idle]
    BY <2>1, IdleLocals, LocalsKept
  <2>2. ASSUME NEW r \in Runs, caller' = [caller EXCEPT ![c] = [caller[c] EXCEPT !.batch = @ \ {r}]]
        PROVE  CallersOK'
    <3> DEFINE k == [caller[c] EXCEPT !.batch = @ \ {r}]
    <3>1. caller[c] \in Caller /\ caller[c].pc = "sd_mark" /\ caller[c].batch \subseteq Rows'
      BY <1>2, LocalsStay DEF StuckMark, At, Locals
    <3>2. k \in Caller /\ k.pc = "sd_mark" /\ k.batch \subseteq Rows'
      BY <3>1 DEF Caller
    <3>3. Locals(k, Rows')
      BY <3>2 DEF Locals, HasAgent, HasIssue, HasRun, HasOrigin, HasTarget
    <3> QED BY <2>2, <3>2, <3>3, LocalsKept
  <2>3. PICK r \in caller[c].batch :
          \/ caller' = [caller EXCEPT ![c] = Idle]
          \/ caller' = [caller EXCEPT ![c] = [caller[c] EXCEPT !.batch = @ \ {r}]]
    BY <1>2 DEF StuckMark, CallersOK
  <2>4. r \in Runs
    BY LocalsStay DEF Caller
  <2> QED BY <2>1, <2>2, <2>3, <2>4
<1>3. CASE Boot(c)
  BY <1>3, GotoKeeps DEF Boot, Leads, CallerPcs, HasAgent, HasIssue, HasRun, HasOrigin, HasTarget
<1> QED BY <1>1, <1>2, <1>3

\* The first step of a request or job.
LEMMA RequestKeeps ==
  ASSUME IInv, RowsStay, NEW c \in Callers, Request(c)
  PROVE  CallersOK'
<1> USE DEF IInv
<1>1. ASSUME NEW i \in Issues, RequestWakeup(c, i)
      PROVE  CallersOK'
  <2>1. issue[i].assignee \in Agents
    BY <1>1 DEF RequestWakeup, TablesOK, Issue
  <2> QED BY <1>1, <2>1, BeginWakeupKeeps DEF RequestWakeup
<1>2. ASSUME NEW i \in Issues, NEW a \in Agents, NEW s \in EditStatuses, RequestEdit(c, i, a, s)
      PROVE  CallersOK'
  <2>1. PICK l \in {"ed_wake", "ed_quiet"} :
          caller' = [caller EXCEPT ![c] = [Begin(l, a, i) EXCEPT !.want = s]]
    BY <1>2 DEF RequestEdit
  <2> DEFINE k == [Begin(l, a, i) EXCEPT !.want = s]
  <2>2. s \in IssueStatuses
    BY ConstantsAssumption
  <2>3. k \in Caller /\ k.pc = l /\ k.agent = a /\ k.issue = i /\ k.want = s
    BY <2>2, BeginType DEF Begin, Caller, CallerPcs
  <2>4. Locals(k, Rows')
    BY <2>2, <2>3 DEF Locals, HasRun, HasOrigin, HasTarget
  <2> QED BY <2>1, <2>3, <2>4, LocalsKept
<1>3. ASSUME NEW r \in Runs, RequestCancel(c, r)
      PROVE  CallersOK'
  <2> DEFINE k == [Begin("cx_lookup", run[r].agent, run[r].issue) EXCEPT !.target = r]
  <2>1. r \in Rows /\ r \in Rows' /\ run[r].agent \in Agents /\ run[r].issue \in Issues
    BY <1>3 DEF RequestCancel, RunsOK, Rows, RowsStay
  <2>2. k \in Caller /\ k.pc = "cx_lookup" /\ k.agent = run[r].agent
        /\ k.issue = run[r].issue /\ k.target = r
    BY <2>1, BeginType DEF Begin, Caller, CallerPcs
  <2>3. Locals(k, Rows')
    BY <2>1, <2>2 DEF Locals, HasRun, HasOrigin
  <2> QED BY <1>3, <2>2, <2>3, LocalsKept DEF RequestCancel
<1>4. ASSUME NEW a \in Agents, NEW s \in StatusRequests, RequestStatus(c, a, s)
      PROVE  CallersOK'
  <2> DEFINE k == [Begin("st_write", a, NoIssue) EXCEPT !.want = s]
  <2>1. s \in AgentStatuses
    BY ConstantsAssumption
  <2>2. k \in Caller /\ k.pc = "st_write" /\ k.agent = a /\ k.want = s
    BY <2>1, BeginType DEF Begin, Caller, CallerPcs
  <2>3. Locals(k, Rows')
    BY <2>1, <2>2 DEF Locals, HasIssue, HasRun, HasOrigin, HasTarget
  <2> QED BY <1>4, <2>2, <2>3, LocalsKept DEF RequestStatus
<1>5. ASSUME NEW S \in SUBSET Runs, StuckScan(c, S)
      PROVE  CallersOK'
  <2> DEFINE k == [Begin("sd_mark", NoAgent, NoIssue) EXCEPT !.batch = S]
  <2>1. S \subseteq Rows'
    BY <1>5 DEF StuckScan, Rows, Exists, RowsStay
  <2>2. k \in Caller /\ k.pc = "sd_mark" /\ k.batch = S
    BY BeginType DEF Begin, Caller, CallerPcs
  <2>3. Locals(k, Rows')
    BY <2>1, <2>2 DEF Locals, HasAgent, HasIssue, HasRun, HasOrigin, HasTarget
  <2> QED BY <1>5, <2>2, <2>3, LocalsKept DEF StuckScan
<1> QED BY <1>1, <1>2, <1>3, <1>4, <1>5 DEF Request

\* Every step keeps the callers in order.
LEMMA CallersStep ==
  ASSUME IInv, Next, RowsStay
  PROVE  CallersOK'
<1>1. CASE UNCHANGED caller
  BY <1>1, CallersKept DEF IInv
<1>2. ASSUME NEW c \in Callers,
             Boot(c) \/ Request(c) \/ CallerStep(c) \/ NextFails(c) \/ CallerFails(c)
      PROVE  CallersOK'
  BY <1>2, WakeupKeeps, CancelKeeps, QueueKeeps, EndKeeps, RequestKeeps DEF CallerStep
<1>3. CASE Crash
  BY <1>3, IdleLocals DEF Crash, CallersOK
<1> QED BY <1>1, <1>2, <1>3, CallerWriters

-----------------------------------------------------------------------------
(* The other tables and the memory of the server.                          *)

\* The statements that release a lock keep the issues typed.
LEMMA ClearLockType ==
  ASSUME issue \in [Issues -> Issue], NEW r, NEW i, NEW s \in IssueStatuses, ClearLock(r, i, s)
  PROVE  issue' \in [Issues -> Issue]
BY DEF ClearLock, Issue

\* The steps of the callers keep the tables typed.
LEMMA CallerTables ==
  ASSUME IInv, NEW c \in Callers,
         Boot(c) \/ Request(c) \/ CallerStep(c) \/ NextFails(c) \/ CallerFails(c)
  PROVE  TablesOK'
<1> USE DEF IInv, TablesOK, At
<1>1. caller[c] \in Caller /\ Locals(caller[c], Rows)
  BY DEF CallersOK
<1>2. UNCHANGED <<issue, agent, wakeup, session, process, children>> => TablesOK'
  OBVIOUS
<1>3. CASE WakeupInsertRequest(c) \/ CancelWakeups(c)
  BY <1>3 DEF WakeupInsertRequest, CancelWakeups, CloseWakeups
<1>4. CASE WakeupLockIssue(c)
  <2>1. caller[c].agent \in Agents /\ caller[c].issue \in Issues /\ caller[c].run \in Runs
    BY <1>1, <1>4 DEF WakeupLockIssue, Locals, HasAgent, HasIssue, HasRun, CallerPcs, Rows
  <2> DEFINE s == IF issue[caller[c].issue].status \in {"todo", "backlog"} THEN "in_progress"
                  ELSE issue[caller[c].issue].status
  <2>2. s \in IssueStatuses
    BY <2>1 DEF Issue, IssueStatuses
  <2>3. [status |-> s, assignee |-> caller[c].agent, lock |-> caller[c].run] \in Issue
    BY <2>1, <2>2 DEF Issue
  <2>4. \/ UNCHANGED issue
        \/ issue' = [issue EXCEPT ![caller[c].issue] =
                       [status |-> s, assignee |-> caller[c].agent, lock |-> caller[c].run]]
    BY <1>4 DEF WakeupLockIssue
  <2> QED BY <1>4, <2>3, <2>4 DEF WakeupLockIssue
<1>5. CASE WakeupSpawn(c)
  BY <1>5 DEF WakeupSpawn, AgentStatuses
<1>6. CASE EditIssue(c)
  <2>1. caller[c].agent \in Agents /\ caller[c].issue \in Issues /\ caller[c].want \in IssueStatuses
    BY <1>1, <1>6 DEF EditIssue, Locals, HasAgent, HasIssue, CallerPcs
  <2>2. issue' \in [Issues -> Issue]
    BY <1>6, <2>1 DEF EditIssue, Issue
  <2> QED BY <1>6, <2>2 DEF EditIssue
<1>7. CASE CancelTake(c)
  BY <1>7 DEF CancelTake
<1>8. CASE CancelGrace(c) \/ CancelRevoke(c)
  BY <1>8 DEF CancelGrace, Exits, CancelRevoke, RevokeSessions
<1>9. CASE CancelLock(c)
  <2>1. caller[c].issue \in Issues
    BY <1>1, <1>9 DEF CancelLock, Locals, HasAgent, HasIssue, CallerPcs
  <2>2. issue[caller[c].issue].status \in IssueStatuses
    BY <2>1 DEF Issue
  <2> QED BY <1>9, <2>2, ClearLockType DEF CancelLock
<1>10. CASE StatusWrite(c)
  <2>1. caller[c].want \in AgentStatuses
    BY <1>1, <1>10 DEF StatusWrite, Locals
  <2> QED BY <1>10, <2>1 DEF StatusWrite
<1>11. CASE Request(c) \/ Boot(c) \/ NextFails(c) \/ CallerFails(c)
  BY <1>2, <1>11 DEF Request, RequestWakeup, RequestEdit, RequestCancel, RequestStatus, StuckScan,
                     Boot, NextFails, CallerFails
<1>12. CASE \/ WakeupLookup(c) \/ WakeupInsertRun(c) \/ BootNext(c) \/ CancelLookup(c)
            \/ CancelSignal(c) \/ CancelStatus(c) \/ CancelTarget(c) \/ StuckMark(c)
            \/ NextSlots(c) \/ NextPlan(c) \/ NextClaim(c) \/ NextDone(c)
  BY <1>2, <1>12 DEF WakeupLookup, WakeupInsertRun, BootNext, CancelLookup, CancelSignal,
                     CancelStatus, CancelTarget, StuckMark, NextSlots, NextPlan, NextClaim, NextDone
<1> QED BY <1>3, <1>4, <1>5, <1>6, <1>7, <1>8, <1>9, <1>10, <1>11, <1>12 DEF CallerStep

\* The steps of the tasks keep the tables typed.
LEMMA ExecTables ==
  ASSUME IInv, NEW e \in Execs, ExecStep(e) \/ ProcessExits(e)
  PROVE  TablesOK'
<1> USE DEF IInv, TablesOK
<1>1. e[1] \in Runs /\ e[2] \in Origins
  BY DEF Execs
<1>2. CASE ExecStart(e) \/ FinishSessions(e)
  BY <1>2 DEF ExecStart, FinishSessions, RevokeSessions
<1>3. CASE SpawnChild(e) \/ WaitTimesOut(e) \/ ProcessExits(e)
  BY <1>3 DEF SpawnChild, WaitTimesOut, ProcessExits, Exits
<1>4. CASE RegisterChild(e) \/ FinishChild(e)
  BY <1>1, <1>4 DEF RegisterChild, FinishChild
<1>5. CASE FinishIssue(e)
  <2>1. (IF exec[e].outcome = "succeeded" THEN "done" ELSE "todo") \in IssueStatuses
    BY DEF IssueStatuses
  <2>2. issue' \in [Issues -> Issue]
    BY <1>5, <2>1, ClearLockType DEF FinishIssue
  <2> QED BY <1>5, <2>2 DEF FinishIssue
<1>6. CASE FinishWakeups(e)
  BY <1>6 DEF FinishWakeups, CloseWakeups
<1>7. CASE FinishAgent(e)
  BY <1>7 DEF FinishAgent, AgentStatuses
<1>8. CASE ApiReturns(e) \/ MarkRunning(e) \/ AttachChild(e) \/ WaitChild(e) \/ FinishRun(e)
  BY <1>8 DEF ApiReturns, MarkRunning, AttachChild, WaitChild, FinishRun
<1> QED BY <1>2, <1>3, <1>4, <1>5, <1>6, <1>7, <1>8 DEF ExecStep

\* Every step keeps the tables typed.
LEMMA TablesStep ==
  ASSUME IInv, Next
  PROVE  TablesOK'
<1>1. CASE Crash
  BY <1>1 DEF Crash, IInv, TablesOK
<1> QED BY <1>1, CallerTables, ExecTables DEF Next

\* Every step keeps the mutex, the boot queue and the counters in order.
LEMMA ServerStep ==
  ASSUME IInv, Next
  PROVE  ServerOK'
<1> USE DEF IInv, ServerOK
<1>1. UNCHANGED <<registry, server, bootQueue, requests, crashes>> => ServerOK'
  OBVIOUS
<1>2. ASSUME NEW c \in Callers, Request(c)
      PROVE  ServerOK'
  <2>1. Starts(c) /\ UNCHANGED <<registry, server, bootQueue, crashes>>
    BY <1>2 DEF Request, RequestWakeup, RequestEdit, RequestCancel, RequestStatus, StuckScan,
                RequestArrives
  <2> QED BY <2>1, ConstantsAssumption DEF Starts
<1>3. ASSUME NEW c \in Callers, Boot(c)
      PROVE  ServerOK'
  <2>1. {<<issue[i].assignee, i>> : i \in PendingIssues} \subseteq Agents \X Issues
    BY DEF PendingIssues, TablesOK, Issue
  <2> QED BY <1>3, <2>1 DEF Boot
<1>4. ASSUME NEW c \in Callers, BootNext(c) \/ CancelTake(c) \/ CancelSignal(c) \/ CancelGrace(c)
      PROVE  ServerOK'
  BY <1>4 DEF BootNext, CancelTake, CancelSignal, CancelGrace
<1>5. ASSUME NEW c \in Callers, NextFails(c) \/ CallerFails(c)
      PROVE  ServerOK'
  BY <1>5 DEF NextFails, CallerFails
<1>6. ASSUME NEW c \in Callers, CallerStep(c),
             ~(BootNext(c) \/ CancelTake(c) \/ CancelSignal(c) \/ CancelGrace(c))
      PROVE  ServerOK'
  BY <1>1, <1>6
     DEF CallerStep, WakeupLookup, WakeupInsertRun, WakeupInsertRequest, WakeupLockIssue,
         WakeupSpawn, EditIssue, CancelLookup, CancelStatus, CancelLock, CancelRevoke,
         CancelWakeups, NextSlots, NextPlan, NextClaim, NextDone, CancelTarget, StatusWrite, StuckMark
<1>7. ASSUME NEW e \in Execs, ExecStep(e) \/ ProcessExits(e)
      PROVE  ServerOK'
  BY <1>1, <1>7
     DEF ExecStep, ExecStart, ApiReturns, SpawnChild, MarkRunning, RegisterChild, AttachChild,
         WaitChild, WaitTimesOut, FinishRun, FinishIssue, FinishWakeups, FinishSessions,
         FinishAgent, FinishChild, ProcessExits
<1>8. CASE Crash
  BY <1>8, ConstantsAssumption DEF Crash
<1> QED BY <1>2, <1>3, <1>4, <1>5, <1>6, <1>7, <1>8 DEF Next

-----------------------------------------------------------------------------
(* The invariant.                                                          *)

\* The first start of the server is in order.
LEMMA InitIInv == Init => IInv
<1> SUFFICES ASSUME Init
             PROVE  IInv
  OBVIOUS
<1>1. RunsOK
  BY DEF Init, RunsOK, Run, RunStatuses, Rows, Exists
<1>2. ExecsOK
  BY DEF Init, ExecsOK, Exec, ExecPcs
<1>3. CallersOK
  BY IdleLocals DEF Init, CallersOK
<1>4. TablesOK
  BY ConstantsAssumption DEF Init, TablesOK, Issue, AgentStatuses
<1>5. ServerOK
  BY ConstantsAssumption DEF Init, ServerOK
<1> QED BY <1>1, <1>2, <1>3, <1>4, <1>5 DEF IInv

\* Every step keeps IInv.
LEMMA NextIInv == IInv /\ [Next]_vars => IInv'
<1> SUFFICES ASSUME IInv, [Next]_vars
             PROVE  IInv'
  OBVIOUS
<1>1. CASE Next
  BY <1>1, RunsStep, ExecsStep, CallersStep, TablesStep, ServerStep DEF IInv
<1>2. CASE UNCHANGED vars
  BY <1>2 DEF vars, IInv, RunsOK, ExecsOK, CallersOK, TablesOK, ServerOK, Rows, Exists
<1> QED BY <1>1, <1>2

\* In every reachable state the program counters of all callers and tasks have
\* the locals, the rows and the outcomes that their code goes on to use.
THEOREM Invariance == Spec => []IInv
BY InitIInv, NextIInv, PTL DEF Spec

\* Type correctness: every table and task stays in the states its code knows.
THEOREM TypeCorrectness == Spec => []TypeOK
BY Invariance, IInvTypeOK, PTL

-----------------------------------------------------------------------------
(* The writers of heartbeat_runs keep the promise of RunLifecycle.         *)

\* A guarded UPDATE of an active run, or an unguarded one to cancelled or
\* timed_out, is a step of a run's life.
LEMMA SetRunStatusLives ==
  ASSUME NEW r \in Rows, NEW s, SetRunStatus(r, s), run \in [Runs -> Run],
         \/ s = "running" /\ run[r].status = "queued"
         \/ s \in {"succeeded", "failed"} /\ Active(r)
         \/ s \in {"cancelled", "timed_out"}
  PROVE  Lifecycle!Next
<1>1. r \in Lifecycle!Runs /\ run[r].status \in RunStatuses \ {"absent"}
  BY DEF Lifecycle!Runs, Runs, Rows, Exists, Run
<1>2. Lifecycle!Start(r) \/ Lifecycle!End(r) \/ Lifecycle!Rewrite(r)
  BY <1>1 DEF SetRunStatus, Active, ActiveStatuses, RunStatuses, Lifecycle!Start, Lifecycle!End,
              Lifecycle!Rewrite, Lifecycle!Active, Lifecycle!Ended
<1> QED BY <1>1, <1>2 DEF Lifecycle!Next

\* Every step is a step of one run's life, or leaves all runs alone.
LEMMA StepLives ==
  ASSUME IInv, Next
  PROVE  Lifecycle!Next \/ UNCHANGED run
<1> USE DEF IInv, RunsOK
<1>1. ASSUME NEW c \in Callers, WakeupInsertRun(c)
      PROVE  Lifecycle!Next \/ UNCHANGED run
  <2>1. caller[c].agent \in Agents /\ caller[c].issue \in Issues
    BY <1>1 DEF WakeupInsertRun, At, CallersOK, Locals, HasAgent, HasIssue, CallerPcs
  <2>2. ASSUME NEW r \in Runs, ~Exists(r), \A q \in Runs : q < r => Exists(q),
               run' = [run EXCEPT ![r] = [status |-> "queued", agent |-> caller[c].agent,
                                          issue |-> caller[c].issue]]
        PROVE  Lifecycle!Next
    <3>1. Lifecycle!Submit(r)
      BY <2>1, <2>2 DEF Lifecycle!Submit, Lifecycle!Runs, Runs, Exists
    <3> QED BY <3>1 DEF Lifecycle!Next, Lifecycle!Runs, Runs
  <2> QED BY <1>1, <2>2 DEF WakeupInsertRun
<1>2. ASSUME NEW c \in Callers, CancelStatus(c)
      PROVE  Lifecycle!Next
  <2>1. caller[c].run \in Rows
    BY <1>2 DEF CancelStatus, At, CallersOK, Locals, HasRun
  <2> QED BY <1>2, <2>1, SetRunStatusLives DEF CancelStatus
<1>3. ASSUME NEW c \in Callers, CancelTarget(c)
      PROVE  Lifecycle!Next \/ UNCHANGED run
  <2>1. caller[c].target \in Rows
    BY <1>3 DEF CancelTarget, At, CallersOK, Locals, HasTarget
  <2> QED BY <1>3, <2>1, SetRunStatusLives DEF CancelTarget
<1>4. ASSUME NEW c \in Callers, NextClaim(c)
      PROVE  Lifecycle!Next \/ UNCHANGED run
  <2>1. \A x \in caller[c].queue : run[x[3]].status = "queued" => x[3] \in Rows
    BY DEF CallersOK, Caller, QueueEntry, Rows, Exists
  <2> QED BY <1>4, <2>1, SetRunStatusLives DEF NextClaim
<1>5. ASSUME NEW c \in Callers, StuckMark(c)
      PROVE  Lifecycle!Next
  <2>1. caller[c].batch \subseteq Rows
    BY <1>5 DEF StuckMark, At, CallersOK, Locals
  <2> QED BY <1>5, <2>1, SetRunStatusLives DEF StuckMark
<1>6. ASSUME NEW e \in Execs, MarkRunning(e)
      PROVE  Lifecycle!Next \/ UNCHANGED run
  <2>1. e[1] \in Rows
    BY <1>6 DEF MarkRunning, ExecAt, ExecsOK
  <2> QED BY <1>6, <2>1, SetRunStatusLives DEF MarkRunning, RunOf
<1>7. ASSUME NEW e \in Execs, FinishRun(e)
      PROVE  Lifecycle!Next \/ UNCHANGED run
  <2>1. e[1] \in Rows /\ exec[e].outcome \in {"succeeded", "failed"}
    BY <1>7 DEF FinishRun, ExecAt, ExecsOK
  <2> QED BY <1>7, <2>1, SetRunStatusLives DEF FinishRun, RunOf
<1> QED BY <1>1, <1>2, <1>3, <1>4, <1>5, <1>6, <1>7, RunWriters

\* HeartbeatService implements RunLifecycle: whatever tasks, cancels, the stuck
\* run detector, failures and crashes do, a run starts at most once and does
\* not come back to life.
THEOREM RunsLive == Spec => RunLifecycleSpec
<1>1. Init => Lifecycle!Init
  BY DEF Init, Lifecycle!Init, Runs, Lifecycle!Runs
<1>2. IInv /\ [Next]_vars => [Lifecycle!Next]_run
  BY StepLives DEF vars
<1> QED BY <1>1, <1>2, Invariance, PTL DEF Spec, RunLifecycleSpec, Lifecycle!Spec

=============================================================================
