------------------------- MODULE HeartbeatService -------------------------
(***************************************************************************)
(* The run coordinator of crates/services/src/heartbeat_service.rs and the *)
(* other writers of the tables it works on: the runs API, the issue API,   *)
(* the agent API and the stuck run detector of the job scheduler.          *)
(*                                                                         *)
(* The coordinator keeps its state in PostgreSQL and in one in-memory map  *)
(* of child processes.  None of its operations runs in a transaction, so   *)
(* an operation is a sequence of actions, one per SQL statement, mutex     *)
(* acquisition or process system call, and every other task may run in     *)
(* between.                                                                *)
(*   caller[c]  a request handler or background job and its local          *)
(*              variables: wakeup, cancel_run (with the queue step that    *)
(*              ends it), set_status, the stuck run scan, the boot sweep   *)
(*   exec[e]    a spawned execute_run task; e = <<run, origin>> where the  *)
(*              origin says which of the two call sites spawned it         *)
(***************************************************************************)
EXTENDS Integers, FiniteSets

CONSTANTS
  Agents, Issues, Callers,
  NoAgent, NoIssue,     \* "no row": the SQL NULL
  MaxRuns,              \* bound: rows ever inserted into heartbeat_runs
  MaxRequests,          \* bound: requests and background jobs that start
  MaxCrashes,           \* bound: server restarts
  MaxConcurrentRuns,    \* adapter_config.maxConcurrentRuns of each agent
  Priority,             \* issues.priority, smaller is more urgent
  Blocks,               \* issue_relations of type 'blocks': <<blocker, blocked>>
  ApiAgents,            \* agents whose config has an apiKey: no child process
  TimeoutAgents,        \* agents whose config has a timeoutSec
  InitStatuses,         \* issue statuses to start from
  Kinds,                \* kinds of request and job that occur
  EditStatuses,         \* issue statuses users set
  StatusRequests,       \* agent statuses the API is asked for
  PriorityIsInteger,    \* issues.priority decodes as Option<i32>
  AdapterMayFail,       \* run_command may return Err before it waits for a child
  DbMayFail             \* a statement may fail, a request may be dropped

Runs == 1..MaxRuns
NoRun == 0

Origins == {"woken", "claimed"}
Execs == Runs \X Origins
NoChild == "none"

\* "blocked" also stands for in_review: neither runnable nor closed.
IssueStatuses == {"backlog", "todo", "in_progress", "blocked", "done", "cancelled"}
AgentStatuses == {"idle", "running", "paused", "pending_approval", "terminated"}

ASSUME ConstantsAssumption ==
  /\ NoAgent \notin Agents
  /\ NoIssue \notin Issues
  /\ MaxRuns \in Nat
  /\ MaxRequests \in Nat
  /\ MaxCrashes \in Nat
  /\ MaxConcurrentRuns \in [Agents -> 1..50]
  /\ Priority \in [Issues -> Nat]
  /\ Blocks \subseteq Issues \X Issues
  /\ InitStatuses \subseteq IssueStatuses
  /\ EditStatuses \subseteq IssueStatuses
  /\ StatusRequests \subseteq AgentStatuses
  /\ Kinds \subseteq {"wakeup", "edit", "cancel", "status", "stuck"}
  /\ PriorityIsInteger \in BOOLEAN
  /\ AdapterMayFail \in BOOLEAN
  /\ DbMayFail \in BOOLEAN

VARIABLES
  run,        \* heartbeat_runs: status and the agent and issue of each run
  issue,      \* issues: status, assignee_agent_id, execution_run_id
  agent,      \* agents.status
  wakeup,     \* agent_wakeup_requests.status of the request of each run
  session,    \* whether a tool_gateway_session of the run is not revoked
  exec,       \* the execute_run tasks: program counter and outcome
  process,    \* the adapter's child processes and their pipes
  children,   \* DefaultHeartbeatService.children: run -> child handle
  registry,   \* the task that holds the mutex of children
  caller,     \* the requests and jobs in flight
  server,     \* whether the server is down, booting or serving
  bootQueue,  \* rows reconcile_pending_issues has still to wake
  requests,   \* number of requests and jobs so far
  crashes     \* number of crashes so far

vars == <<run, issue, agent, wakeup, session, exec, process, children,
          registry, caller, server, bootQueue, requests, crashes>>

-----------------------------------------------------------------------------
RunStatuses ==
  {"absent", "queued", "running", "succeeded", "failed", "cancelled", "timed_out"}
ActiveStatuses == {"queued", "running"}
Terminal == {"succeeded", "failed", "cancelled", "timed_out"}

Run == [status : RunStatuses, agent : Agents \cup {NoAgent},
        issue : Issues \cup {NoIssue}]
Issue == [status : IssueStatuses, assignee : Agents \cup {NoAgent},
          lock : Runs \cup {NoRun}]

ExecPcs == {"none", "start", "api", "spawn", "mark", "register", "attach",
            "wait", "fin_run", "fin_issue", "fin_wakeups", "fin_sessions",
            "fin_agent", "fin_child", "done"}
Exec == [pc : ExecPcs, outcome : {"none", "succeeded", "failed"}]

CallerPcs == {"idle", "wk_lookup", "wk_insert", "wk_request", "wk_lock",
              "wk_agent", "cx_lookup", "cx_take", "cx_signal", "cx_grace",
              "cx_status", "cx_lock", "cx_revoke", "cx_wakeups", "nx_slots",
              "nx_plan", "nx_claim", "cx_target", "ed_wake", "ed_quiet",
              "st_write", "sd_mark", "boot_next"}
\* An entry of sorted_runs: the sort key and the run.
QueueEntry == (0..1) \X Nat \X Runs
Caller == [pc : CallerPcs, agent : Agents \cup {NoAgent},
           issue : Issues \cup {NoIssue}, run : Runs \cup {NoRun},
           origin : Origins \cup {NoChild}, target : Runs \cup {NoRun},
           slots : 0..50, queue : SUBSET QueueEntry, batch : SUBSET Runs,
           want : AgentStatuses \cup IssueStatuses]

\* The locals of an operation that begins at l for an agent and an issue.
Begin(l, a, i) ==
  [pc |-> l, agent |-> a, issue |-> i, run |-> NoRun, origin |-> NoChild,
   target |-> NoRun, slots |-> 0, queue |-> {}, batch |-> {}, want |-> "idle"]
Idle == Begin("idle", NoAgent, NoIssue)

Free == "free"

Init ==
  /\ run = [r \in Runs |-> [status |-> "absent", agent |-> NoAgent, issue |-> NoIssue]]
  /\ issue \in [Issues -> {[status |-> s, assignee |-> a, lock |-> NoRun] :
                             s \in InitStatuses, a \in Agents}]
  /\ agent = [a \in Agents |-> "idle"]
  /\ wakeup = [r \in Runs |-> "none"]
  /\ session = [r \in Runs |-> FALSE]
  /\ exec = [e \in Execs |-> [pc |-> "none", outcome |-> "none"]]
  /\ process = [e \in Execs |-> "none"]
  /\ children = [r \in Runs |-> NoChild]
  /\ registry = Free
  /\ caller = [c \in Callers |-> Idle]
  /\ server = "down"
  /\ bootQueue = {}
  /\ requests = 0
  /\ crashes = 0

-----------------------------------------------------------------------------
(* Helpers: the WHERE clauses of the statements, and program counters.     *)

Exists(r) == run[r].status # "absent"
Active(r) == run[r].status \in ActiveStatuses
IsFor(r, a, i) == run[r].agent = a /\ run[r].issue = i
ActiveRunsOf(a, i) == {r \in Runs : Active(r) /\ IsFor(r, a, i)}
RunsIn(a, S) == {r \in Runs : run[r].agent = a /\ run[r].status \in S}

\* ORDER BY created_at DESC LIMIT 1: runs are numbered in creation order.
IsLatest(r, S) == r \in S /\ \A q \in S : q <= r

At(c, l) == caller[c].pc = l
Goto(c, l) == caller' = [caller EXCEPT ![c].pc = l]
ExecAt(e, l) == exec[e].pc = l
ExecGoto(e, l) == exec' = [exec EXCEPT ![e].pc = l]
\* run_command returns Err or Ok: execute_run goes on with the outcome.
Returns(e, outcome) == exec' = [exec EXCEPT ![e] = [pc |-> "fin_run", outcome |-> outcome]]

\* tokio::spawn(execute_run(..))
Spawn(r, origin) ==
  exec' = [exec EXCEPT ![<<r, origin>>] = [pc |-> "start", outcome |-> "none"]]

SetRunStatus(r, s) == run' = [run EXCEPT ![r].status = s]
ClearLockOfAnyRun(r, i, s) ==
  issue' = [issue EXCEPT ![i].status = s, ![i].lock = NoRun]

\* UPDATE issues .. WHERE execution_run_id = run
ClearLock(r, i, s) ==
  issue' = IF issue[i].lock = r
           THEN [issue EXCEPT ![i].status = s, ![i].lock = NoRun]
           ELSE issue
\* UPDATE agent_wakeup_requests .. WHERE agent_id, issueId and an open status
CloseWakeups(a, i, s) ==
  wakeup' = [r \in Runs |-> IF IsFor(r, a, i) /\ wakeup[r] = "dispatched"
                            THEN s ELSE wakeup[r]]
RevokeSessions(r) == session' = [session EXCEPT ![r] = FALSE]

-----------------------------------------------------------------------------
(* wakeup, and what calls it.                                              *)

Starts(c) ==
  /\ At(c, "idle")
  /\ requests < MaxRequests
  /\ requests' = requests + 1
RequestArrives(c) == server = "serving" /\ Starts(c)

BeginWakeup(c, a, i) ==
  caller' = [caller EXCEPT ![c] = Begin("wk_lookup", a, i)]

\* Agents are woken for an issue they were read to be assigned to.
RequestWakeup(c, i) ==
  /\ RequestArrives(c)
  /\ issue[i].assignee # NoAgent
  /\ issue[i].status \in {"todo", "in_progress"}
  /\ BeginWakeup(c, issue[i].assignee, i)
  /\ UNCHANGED <<run, issue, agent, wakeup, session, exec, process, children,
                 registry, server, bootQueue, crashes>>

\* LegacyIssueService::update: read the row, write it, and wake the assignee
\* when the row read and the row written differ so that it became runnable.
RequestEdit(c, i, a, s) ==
  LET old == issue[i]
      shouldWake == \/ old.assignee # a
                    \/ old.status = "backlog" /\ s # "backlog"
                    \/ old.status # "todo" /\ s = "todo"
      wakes == shouldWake /\ s \in {"todo", "in_progress"}
  IN /\ RequestArrives(c)
     /\ caller' = [caller EXCEPT ![c] =
                     [Begin(IF wakes THEN "ed_wake" ELSE "ed_quiet", a, i)
                        EXCEPT !.want = s]]
     /\ UNCHANGED <<run, issue, agent, wakeup, session, exec, process, children,
                    registry, server, bootQueue, crashes>>

EditIssue(c) ==
  /\ At(c, "ed_wake") \/ At(c, "ed_quiet")
  /\ issue' = [issue EXCEPT ![caller[c].issue].status = caller[c].want,
                            ![caller[c].issue].assignee = caller[c].agent]
  /\ IF At(c, "ed_wake") THEN BeginWakeup(c, caller[c].agent, caller[c].issue)
                         ELSE caller' = [caller EXCEPT ![c] = Idle]
  /\ UNCHANGED <<run, agent, wakeup, session, exec, process, children,
                 registry, server, bootQueue, requests, crashes>>

\* A wakeup of the boot sweep goes back to the sweep's loop.
AfterWakeup == IF server = "booting" THEN Begin("boot_next", NoAgent, NoIssue) ELSE Idle

WakeupLookupRunningOnly(c) ==
  /\ At(c, "wk_lookup")
  /\ IF \E r \in ActiveRunsOf(caller[c].agent, caller[c].issue) : run[r].status = "running"
     THEN caller' = [caller EXCEPT ![c] = AfterWakeup]
     ELSE Goto(c, "wk_insert")
  /\ UNCHANGED <<run, issue, agent, wakeup, session, exec, process, children,
                 registry, server, bootQueue, requests, crashes>>

\* Runs of other agents for the issue are not looked at.
WakeupLookup(c) ==
  /\ At(c, "wk_lookup")
  /\ IF ActiveRunsOf(caller[c].agent, caller[c].issue) # {}
     THEN caller' = [caller EXCEPT ![c] = AfterWakeup]
     ELSE Goto(c, "wk_insert")
  /\ UNCHANGED <<run, issue, agent, wakeup, session, exec, process, children,
                 registry, server, bootQueue, requests, crashes>>

\* At the bound on runs the wakeup ends here.
WakeupInsertRun(c) ==
  /\ At(c, "wk_insert")
  /\ \/ \E r \in Runs :
          /\ ~Exists(r) /\ \A q \in Runs : q < r => Exists(q)
          /\ run' = [run EXCEPT ![r] = [status |-> "queued", agent |-> caller[c].agent,
                                        issue |-> caller[c].issue]]
          /\ caller' = [caller EXCEPT ![c].pc = "wk_request", ![c].run = r]
     \/ /\ \A r \in Runs : Exists(r)
        /\ caller' = [caller EXCEPT ![c] = AfterWakeup]
        /\ UNCHANGED run
  /\ UNCHANGED <<issue, agent, wakeup, session, exec, process, children,
                 registry, server, bootQueue, requests, crashes>>

WakeupInsertRequest(c) ==
  /\ At(c, "wk_request")
  /\ wakeup' = [wakeup EXCEPT ![caller[c].run] = "dispatched"]
  /\ Goto(c, "wk_lock")
  /\ UNCHANGED <<run, issue, agent, session, exec, process, children,
                 registry, server, bootQueue, requests, crashes>>

\* Takes the lock whether or not another run of the issue holds it.
WakeupLockIssue(c) ==
  LET i == caller[c].issue
      a == caller[c].agent
      started == IF issue[i].status \in {"todo", "backlog"} THEN "in_progress"
                 ELSE issue[i].status
  IN /\ At(c, "wk_lock")
     /\ issue' = IF /\ issue[i].assignee \in {NoAgent, a}
                    /\ issue[i].status \notin {"done", "cancelled"}
                 THEN [issue EXCEPT ![i] = [status |-> started, assignee |-> a,
                                            lock |-> caller[c].run]]
                 ELSE issue
     /\ Goto(c, "wk_agent")
     /\ UNCHANGED <<run, agent, wakeup, session, exec, process, children,
                    registry, server, bootQueue, requests, crashes>>

\* UPDATE agents has no guard on the agent's status.
WakeupSpawn(c) ==
  /\ At(c, "wk_agent")
  /\ agent' = [agent EXCEPT ![caller[c].agent] = "running"]
  /\ Spawn(caller[c].run, "woken")
  /\ caller' = [caller EXCEPT ![c] = AfterWakeup]
  /\ UNCHANGED <<run, issue, wakeup, session, process, children, registry,
                 server, bootQueue, requests, crashes>>

-----------------------------------------------------------------------------
(* Boot: reconcile_pending_issues wakes the assigned todo issues one after *)
(* the other before the server listens.                                    *)

PendingIssues ==
  {i \in Issues :
     /\ issue[i].status = "todo"
     /\ issue[i].assignee # NoAgent
     /\ ActiveRunsOf(issue[i].assignee, i) = {}
     /\ ~\E r \in Runs : IsFor(r, issue[i].assignee, i) /\ wakeup[r] = "dispatched"}

Boot(c) ==
  /\ server = "down"
  /\ server' = "booting"
  /\ bootQueue' = {<<issue[i].assignee, i>> : i \in PendingIssues}
  /\ Goto(c, "boot_next")
  /\ UNCHANGED <<run, issue, agent, wakeup, session, exec, process, children,
                 registry, requests, crashes>>

BootNext(c) ==
  /\ At(c, "boot_next")
  /\ \/ /\ bootQueue = {}
        /\ server' = "serving"
        /\ Goto(c, "idle")
        /\ UNCHANGED bootQueue
     \/ \E p \in bootQueue :
          /\ bootQueue' = bootQueue \ {p}
          /\ BeginWakeup(c, p[1], p[2])
          /\ UNCHANGED server
  /\ UNCHANGED <<run, issue, agent, wakeup, session, exec, process, children,
                 registry, requests, crashes>>

\* The server goes down: every task and the map are gone, the rows are not.
\* Children are not killed with it.
Crash ==
  /\ server # "down" /\ crashes < MaxCrashes
  /\ crashes' = crashes + 1
  /\ server' = "down"
  /\ exec' = [e \in Execs |-> IF ExecAt(e, "none") THEN exec[e]
                              ELSE [exec[e] EXCEPT !.pc = "done"]]
  /\ children' = [r \in Runs |-> NoChild]
  /\ registry' = Free
  /\ caller' = [c \in Callers |-> Idle]
  /\ bootQueue' = {}
  /\ UNCHANGED <<run, issue, agent, wakeup, session, process, requests>>

-----------------------------------------------------------------------------
(* execute_run: run_command first, then the statements that finish the run. *)

RunOf(e) == e[1]
AgentOf(e) == run[e[1]].agent
IssueOf(e) == run[e[1]].issue

\* run_command up to the spawn: the config's apiKey picks the branch; errors
\* (no model, no workspace, the agent's row gone) return before a child exists.
ExecStart(e) ==
  /\ ExecAt(e, "start")
  /\ \/ /\ AgentOf(e) \in ApiAgents
        /\ ExecGoto(e, "api")
        /\ UNCHANGED session
     \/ /\ AgentOf(e) \notin ApiAgents
        /\ ExecGoto(e, "spawn")
        /\ \/ session' = [session EXCEPT ![RunOf(e)] = TRUE]
           \/ DbMayFail /\ UNCHANGED session
     \/ /\ AdapterMayFail /\ Returns(e, "failed")
        /\ UNCHANGED session
  /\ UNCHANGED <<run, issue, agent, wakeup, process, children, registry,
                 caller, server, bootQueue, requests, crashes>>

ApiReturns(e) ==
  /\ ExecAt(e, "api")
  /\ \E o \in {"succeeded", "failed"} : Returns(e, o)
  /\ UNCHANGED <<run, issue, agent, wakeup, session, process, children,
                 registry, caller, server, bootQueue, requests, crashes>>

\* The child is spawned whatever the run's status is by now.
SpawnChild(e) ==
  /\ ExecAt(e, "spawn")
  /\ \/ /\ process' = [process EXCEPT ![e] = "alive"]
        /\ ExecGoto(e, "mark")
     \/ /\ AdapterMayFail /\ Returns(e, "failed")
        /\ UNCHANGED process
  /\ UNCHANGED <<run, issue, agent, wakeup, session, children, registry,
                 caller, server, bootQueue, requests, crashes>>

MarkRunningUnguarded(e) ==
  /\ ExecAt(e, "mark")
  /\ SetRunStatus(RunOf(e), "running")
  /\ ExecGoto(e, "register")
  /\ UNCHANGED <<issue, agent, wakeup, session, process, children, registry,
                 caller, server, bootQueue, requests, crashes>>

\* UPDATE .. WHERE status = 'queued'; the number of rows is not looked at.
MarkRunning(e) ==
  /\ ExecAt(e, "mark")
  /\ \/ /\ IF run[RunOf(e)].status = "queued"
           THEN SetRunStatus(RunOf(e), "running")
           ELSE UNCHANGED run
        /\ ExecGoto(e, "register")
     \/ /\ DbMayFail
        /\ Returns(e, "failed")
        /\ UNCHANGED run
  /\ UNCHANGED <<issue, agent, wakeup, session, process, children, registry,
                 caller, server, bootQueue, requests, crashes>>

RegisterChild(e) ==
  /\ ExecAt(e, "register")
  /\ registry = Free
  /\ children' = [children EXCEPT ![RunOf(e)] = e[2]]
  /\ ExecGoto(e, "attach")
  /\ UNCHANGED <<run, issue, agent, wakeup, session, process, registry,
                 caller, server, bootQueue, requests, crashes>>

\* The child's mutex is locked from here until run_command returns.
AttachChild(e) ==
  /\ ExecAt(e, "attach")
  /\ ExecGoto(e, "wait") \/ (AdapterMayFail /\ Returns(e, "failed"))
  /\ UNCHANGED <<run, issue, agent, wakeup, session, process, children,
                 registry, caller, server, bootQueue, requests, crashes>>

\* The child exits; what it has started may hold its pipes open ("piped").
Exits(e) ==
  \E p \in {"piped", "exited"} :
    /\ process[e] \in {"alive", p}
    /\ process' = [process EXCEPT ![e] = p]

WaitChildUnregisters(e) ==
  /\ ExecAt(e, "wait") /\ process[e] = "exited"
  /\ registry = Free
  /\ children' = [children EXCEPT ![RunOf(e)] = NoChild]
  /\ \E o \in {"succeeded", "failed"} : Returns(e, o)
  /\ UNCHANGED <<run, issue, agent, wakeup, session, process, registry,
                 caller, server, bootQueue, requests, crashes>>

\* join!(stdout, stderr, wait): the task goes on when the child has exited and
\* nobody holds its pipes any more.  A failed read, the exit code and the events
\* in the output decide; a child that handles SIGTERM may still report success.
WaitChild(e) ==
  /\ ExecAt(e, "wait") /\ process[e] = "exited"
  /\ \E o \in {"succeeded", "failed"} : Returns(e, o)
  /\ UNCHANGED <<run, issue, agent, wakeup, session, process, children,
                 registry, caller, server, bootQueue, requests, crashes>>

WaitTimesOut(e) ==
  /\ ExecAt(e, "wait")
  /\ AgentOf(e) \in TimeoutAgents
  /\ process[e] # "exited"
  /\ Exits(e)
  /\ Returns(e, "failed")
  /\ UNCHANGED <<run, issue, agent, wakeup, session, children, registry,
                 caller, server, bootQueue, requests, crashes>>

\* The adapter CLI ends by itself, or on a signal it handles; and what it has
\* left behind lets go of its pipes.
ProcessExits(e) ==
  /\ \/ process[e] = "alive" /\ Exits(e)
     \/ process[e] = "piped" /\ process' = [process EXCEPT ![e] = "exited"]
  /\ UNCHANGED <<run, issue, agent, wakeup, session, exec, children, registry,
                 caller, server, bootQueue, requests, crashes>>

FinishRunWhenRunning(e) ==
  /\ ExecAt(e, "fin_run")
  /\ IF run[RunOf(e)].status = "running" THEN SetRunStatus(RunOf(e), exec[e].outcome)
                                         ELSE UNCHANGED run
  /\ ExecGoto(e, "fin_issue")
  /\ UNCHANGED <<issue, agent, wakeup, session, process, children, registry,
                 caller, server, bootQueue, requests, crashes>>

FinishRun(e) ==
  /\ ExecAt(e, "fin_run")
  /\ \/ IF Active(RunOf(e)) THEN SetRunStatus(RunOf(e), exec[e].outcome)
                            ELSE UNCHANGED run
     \/ DbMayFail /\ UNCHANGED run
  /\ ExecGoto(e, "fin_issue")
  /\ UNCHANGED <<issue, agent, wakeup, session, process, children, registry,
                 caller, server, bootQueue, requests, crashes>>

FinishIssueOnSuccess(e) ==
  /\ ExecAt(e, "fin_issue")
  /\ IF exec[e].outcome = "succeeded" THEN ClearLock(RunOf(e), IssueOf(e), "done")
                                      ELSE UNCHANGED issue
  /\ ExecGoto(e, "fin_wakeups")
  /\ UNCHANGED <<run, agent, wakeup, session, process, children, registry,
                 caller, server, bootQueue, requests, crashes>>

FinishIssue(e) ==
  /\ ExecAt(e, "fin_issue")
  /\ \/ ClearLock(RunOf(e), IssueOf(e),
                  IF exec[e].outcome = "succeeded" THEN "done" ELSE "todo")
     \/ DbMayFail /\ UNCHANGED issue
  /\ ExecGoto(e, "fin_wakeups")
  /\ UNCHANGED <<run, agent, wakeup, session, process, children, registry,
                 caller, server, bootQueue, requests, crashes>>

FinishWakeups(e) ==
  /\ ExecAt(e, "fin_wakeups")
  /\ \/ CloseWakeups(AgentOf(e), IssueOf(e), "completed")
     \/ DbMayFail /\ UNCHANGED wakeup
  /\ ExecGoto(e, "fin_sessions")
  /\ UNCHANGED <<run, issue, agent, session, process, children, registry,
                 caller, server, bootQueue, requests, crashes>>

FinishSessionsUnlessCancelled(e) ==
  /\ ExecAt(e, "fin_sessions")
  /\ IF run[RunOf(e)].status = "cancelled" THEN UNCHANGED session
                                           ELSE RevokeSessions(RunOf(e))
  /\ ExecGoto(e, "fin_agent")
  /\ UNCHANGED <<run, issue, agent, wakeup, process, children, registry,
                 caller, server, bootQueue, requests, crashes>>

FinishSessions(e) ==
  /\ ExecAt(e, "fin_sessions")
  /\ \/ RevokeSessions(RunOf(e))
     \/ DbMayFail /\ UNCHANGED session
  /\ ExecGoto(e, "fin_agent")
  /\ UNCHANGED <<run, issue, agent, wakeup, process, children, registry,
                 caller, server, bootQueue, requests, crashes>>

FinishAgent(e) ==
  /\ ExecAt(e, "fin_agent")
  /\ \/ agent' = [agent EXCEPT ![AgentOf(e)] = IF @ = "running" THEN "idle" ELSE @]
     \/ DbMayFail /\ UNCHANGED agent
  /\ ExecGoto(e, "fin_child")
  /\ UNCHANGED <<run, issue, wakeup, session, process, children, registry,
                 caller, server, bootQueue, requests, crashes>>

FinishChildUnlessCancelled(e) ==
  /\ ExecAt(e, "fin_child")
  /\ registry = Free
  /\ IF run[RunOf(e)].status = "cancelled" THEN UNCHANGED children
     ELSE children' = [children EXCEPT ![RunOf(e)] = NoChild]
  /\ ExecGoto(e, "done")
  /\ UNCHANGED <<run, issue, agent, wakeup, session, process, registry,
                 caller, server, bootQueue, requests, crashes>>

FinishChild(e) ==
  /\ ExecAt(e, "fin_child")
  /\ registry = Free
  /\ children' = [children EXCEPT ![RunOf(e)] = NoChild]
  /\ ExecGoto(e, "done")
  /\ UNCHANGED <<run, issue, agent, wakeup, session, process, registry,
                 caller, server, bootQueue, requests, crashes>>

-----------------------------------------------------------------------------
(* POST /heartbeat-runs/:id/cancel: cancel_run on the run's agent and      *)
(* issue, then a guarded UPDATE of the run itself.                         *)

RequestCancel(c, r) ==
  /\ RequestArrives(c)
  /\ Exists(r)
  /\ caller' = [caller EXCEPT ![c] =
                  [Begin("cx_lookup", run[r].agent, run[r].issue) EXCEPT !.target = r]]
  /\ UNCHANGED <<run, issue, agent, wakeup, session, exec, process, children,
                 registry, server, bootQueue, crashes>>

\* cancel_run finds the run again: the latest active one of the pair.
CancelLookup(c) ==
  LET active == ActiveRunsOf(caller[c].agent, caller[c].issue)
  IN /\ At(c, "cx_lookup")
     /\ \/ active = {} /\ Goto(c, "cx_wakeups")
        \/ \E r \in active :
             /\ IsLatest(r, active)
             /\ caller' = [caller EXCEPT ![c].pc = "cx_take", ![c].run = r]
     /\ UNCHANGED <<run, issue, agent, wakeup, session, exec, process, children,
                    registry, server, bootQueue, requests, crashes>>

\* if let Some(child) = self.children.lock().await.remove(..): the guard of
\* the map lives until the end of the if-let body.
CancelTake(c) ==
  LET r == caller[c].run
  IN /\ At(c, "cx_take")
     /\ registry = Free
     /\ IF children[r] = NoChild
        THEN /\ Goto(c, "cx_status")
             /\ UNCHANGED <<children, registry>>
        ELSE /\ caller' = [caller EXCEPT ![c].pc = "cx_signal", ![c].origin = children[r]]
             /\ children' = [children EXCEPT ![r] = NoChild]
             /\ registry' = c
     /\ UNCHANGED <<run, issue, agent, wakeup, session, exec, process, server,
                    bootQueue, requests, crashes>>

\* terminate_process_gracefully locks the child to read its pid, which the
\* task in run_command holds for as long as it waits for the child.
CancelSignal(c) ==
  LET e == <<caller[c].run, caller[c].origin>>
  IN /\ At(c, "cx_signal")
     /\ ~ExecAt(e, "wait")
     /\ IF process[e] = "alive"
        THEN /\ Goto(c, "cx_grace")
             /\ UNCHANGED registry
        ELSE /\ Goto(c, "cx_status")
             /\ registry' = Free
     /\ UNCHANGED <<run, issue, agent, wakeup, session, exec, process, children,
                    server, bootQueue, requests, crashes>>

\* Exited within the grace period, or SIGKILL.
CancelGrace(c) ==
  LET e == <<caller[c].run, caller[c].origin>>
  IN /\ At(c, "cx_grace")
     /\ Exits(e)
     /\ registry' = Free
     /\ Goto(c, "cx_status")
     /\ UNCHANGED <<run, issue, agent, wakeup, session, exec, children, server,
                    bootQueue, requests, crashes>>

\* UPDATE heartbeat_runs .. WHERE id: no guard on the status.
CancelStatus(c) ==
  /\ At(c, "cx_status")
  /\ SetRunStatus(caller[c].run, "cancelled")
  /\ Goto(c, "cx_lock")
  /\ UNCHANGED <<issue, agent, wakeup, session, exec, process, children,
                 registry, server, bootQueue, requests, crashes>>

CancelLock(c) ==
  /\ At(c, "cx_lock")
  /\ ClearLock(caller[c].run, caller[c].issue, issue[caller[c].issue].status)
  /\ Goto(c, "cx_revoke")
  /\ UNCHANGED <<run, agent, wakeup, session, exec, process, children,
                 registry, server, bootQueue, requests, crashes>>

CancelRevoke(c) ==
  /\ At(c, "cx_revoke")
  /\ \/ RevokeSessions(caller[c].run)
     \/ DbMayFail /\ UNCHANGED session
  /\ Goto(c, "cx_wakeups")
  /\ UNCHANGED <<run, issue, agent, wakeup, exec, process, children, registry,
                 server, bootQueue, requests, crashes>>

CancelWakeups(c) ==
  /\ At(c, "cx_wakeups")
  /\ CloseWakeups(caller[c].agent, caller[c].issue, "cancelled")
  /\ Goto(c, "nx_slots")
  /\ UNCHANGED <<run, issue, agent, session, exec, process, children, registry,
                 server, bootQueue, requests, crashes>>

CancelTarget(c) ==
  LET r == caller[c].target
  IN /\ At(c, "cx_target")
     /\ IF Active(r) THEN SetRunStatus(r, "cancelled") ELSE UNCHANGED run
     /\ caller' = [caller EXCEPT ![c] = Idle]
     /\ UNCHANGED <<issue, agent, wakeup, session, exec, process, children,
                    registry, server, bootQueue, requests, crashes>>

-----------------------------------------------------------------------------
(* start_next_queued_run_for_agent; its errors are logged by cancel_run.   *)

NextSlotsUnchecked(c) ==
  LET a == caller[c].agent
  IN /\ At(c, "nx_slots")
     /\ IF agent[a] \notin {"paused", "terminated"}
        THEN caller' = [caller EXCEPT ![c].pc = "nx_plan", ![c].slots =
                          MaxConcurrentRuns[a] - Cardinality(RunsIn(a, ActiveStatuses))]
        ELSE Goto(c, "cx_target")
     /\ UNCHANGED <<run, issue, agent, wakeup, session, exec, process, children,
                    registry, server, bootQueue, requests, crashes>>

\* Queued runs take slots as well as running ones.
NextSlots(c) ==
  LET a == caller[c].agent
      used == Cardinality(RunsIn(a, ActiveStatuses))
  IN /\ At(c, "nx_slots")
     /\ IF agent[a] \notin {"paused", "terminated"} /\ used < MaxConcurrentRuns[a]
        THEN caller' = [caller EXCEPT ![c].pc = "nx_plan",
                                      ![c].slots = MaxConcurrentRuns[a] - used]
        ELSE Goto(c, "cx_target")
     /\ UNCHANGED <<run, issue, agent, wakeup, session, exec, process, children,
                    registry, server, bootQueue, requests, crashes>>

Ready(i) == \A p \in Blocks : p[2] = i => issue[p[1]].status = "done"
Rank(i) == IF issue[i].status = "in_progress" THEN 0 ELSE 1
\* Runs that are not ready sort last and are skipped; they do not enter.
ReadyQueue(a) ==
  {<<Rank(run[r].issue), Priority[run[r].issue], r>> :
     r \in {q \in RunsIn(a, {"queued"}) : Ready(run[q].issue)}}
Precedes(x, y) ==
  \/ x[1] < y[1]
  \/ x[1] = y[1] /\ x[2] < y[2]
  \/ x[1] = y[1] /\ x[2] = y[2] /\ x[3] < y[3]

\* The row decodes priority as Option<i32>: with a text column the whole
\* query is an error as soon as one queued run has an issue.
NextPlan(c) ==
  LET a == caller[c].agent
  IN /\ At(c, "nx_plan")
     /\ IF RunsIn(a, {"queued"}) # {} /\ PriorityIsInteger
        THEN caller' = [caller EXCEPT ![c].pc = "nx_claim", ![c].queue = ReadyQueue(a)]
        ELSE Goto(c, "cx_target")
     /\ UNCHANGED <<run, issue, agent, wakeup, session, exec, process, children,
                    registry, server, bootQueue, requests, crashes>>

NextClaimUnguarded(c) ==
  /\ At(c, "nx_claim") /\ caller[c].slots > 0
  /\ \E x \in caller[c].queue :
       /\ \A y \in caller[c].queue \ {x} : Precedes(x, y)
       /\ SetRunStatus(x[3], "running")
       /\ Spawn(x[3], "claimed")
       /\ caller' = [caller EXCEPT ![c].queue = @ \ {x}, ![c].slots = @ - 1]
  /\ UNCHANGED <<issue, agent, wakeup, session, process, children, registry,
                 server, bootQueue, requests, crashes>>

\* UPDATE .. WHERE id AND status = 'queued'; the row count says who won,
\* and a failed statement skips the run.
NextClaim(c) ==
  /\ At(c, "nx_claim") /\ caller[c].slots > 0
  /\ \E x \in caller[c].queue :
       /\ \A y \in caller[c].queue \ {x} : Precedes(x, y)
       /\ \/ /\ run[x[3]].status = "queued"
             /\ SetRunStatus(x[3], "running")
             /\ Spawn(x[3], "claimed")
             /\ caller' = [caller EXCEPT ![c].queue = @ \ {x}, ![c].slots = @ - 1]
          \/ /\ run[x[3]].status # "queued" \/ DbMayFail
             /\ caller' = [caller EXCEPT ![c].queue = @ \ {x}]
             /\ UNCHANGED <<run, exec>>
  /\ UNCHANGED <<issue, agent, wakeup, session, process, children, registry,
                 server, bootQueue, requests, crashes>>

NextDone(c) ==
  /\ At(c, "nx_claim")
  /\ caller[c].queue = {} \/ caller[c].slots = 0
  /\ Goto(c, "cx_target")
  /\ UNCHANGED <<run, issue, agent, wakeup, session, exec, process, children,
                 registry, server, bootQueue, requests, crashes>>

\* A query before the claims fails: cancel_run logs the error and returns.
NextFails(c) ==
  /\ DbMayFail
  /\ At(c, "nx_slots") \/ At(c, "nx_plan")
  /\ Goto(c, "cx_target")
  /\ UNCHANGED <<run, issue, agent, wakeup, session, exec, process, children,
                 registry, server, bootQueue, requests, crashes>>

-----------------------------------------------------------------------------
(* The other writers of these tables.                                      *)

\* AgentService::set_status and terminate: read the row, refuse a terminated
\* agent, and write the whole row back.
RequestStatus(c, a, s) ==
  /\ RequestArrives(c)
  /\ agent[a] # "terminated"
  /\ caller' = [caller EXCEPT ![c] = [Begin("st_write", a, NoIssue) EXCEPT !.want = s]]
  /\ UNCHANGED <<run, issue, agent, wakeup, session, exec, process, children,
                 registry, server, bootQueue, crashes>>

StatusWrite(c) ==
  /\ At(c, "st_write")
  /\ agent' = [agent EXCEPT ![caller[c].agent] = caller[c].want]
  /\ caller' = [caller EXCEPT ![c] = Idle]
  /\ UNCHANGED <<run, issue, wakeup, session, exec, process, children,
                 registry, server, bootQueue, requests, crashes>>

\* StuckRunDetector: which running runs are older than 30 minutes is left open.
\* The job scheduler starts before the boot sweep.
StuckScan(c, S) ==
  /\ server # "down" /\ Starts(c)
  /\ S # {} /\ \A r \in S : run[r].status = "running"
  /\ caller' = [caller EXCEPT ![c] = [Begin("sd_mark", NoAgent, NoIssue) EXCEPT !.batch = S]]
  /\ UNCHANGED <<run, issue, agent, wakeup, session, exec, process, children,
                 registry, server, bootQueue, crashes>>

\* One unguarded UPDATE per row of the scan.
StuckMark(c) ==
  /\ At(c, "sd_mark")
  /\ \E r \in caller[c].batch :
       /\ SetRunStatus(r, "timed_out")
       /\ \/ caller[c].batch = {r} /\ caller' = [caller EXCEPT ![c] = Idle]
          \/ caller[c].batch # {r} /\ caller' = [caller EXCEPT ![c].batch = @ \ {r}]
  /\ UNCHANGED <<issue, agent, wakeup, session, exec, process, children,
                 registry, server, bootQueue, requests, crashes>>

\* The caller belongs to the boot sweep.
Boots(c) == server = "booting" /\ ~At(c, "sd_mark")

\* A statement returns an error, or the client hangs up and the request is
\* dropped at an await: the rest of the operation does not happen.  The boot
\* sweep gives up on the first error.
CallerFails(c) ==
  /\ DbMayFail
  /\ ~At(c, "idle") /\ ~At(c, "boot_next")
  /\ caller' = [caller EXCEPT ![c] = Idle]
  /\ registry' = IF registry = c THEN Free ELSE registry
  /\ server' = IF Boots(c) THEN "serving" ELSE server
  /\ bootQueue' = IF Boots(c) THEN {} ELSE bootQueue
  /\ UNCHANGED <<run, issue, agent, wakeup, session, exec, process, children,
                 requests, crashes>>

-----------------------------------------------------------------------------
Request(c) ==
  \/ "wakeup" \in Kinds /\ \E i \in Issues : RequestWakeup(c, i)
  \/ "edit" \in Kinds /\ \E i \in Issues, a \in Agents, s \in EditStatuses : RequestEdit(c, i, a, s)
  \/ "cancel" \in Kinds /\ \E r \in Runs : RequestCancel(c, r)
  \/ "status" \in Kinds /\ \E a \in Agents, s \in StatusRequests : RequestStatus(c, a, s)
  \/ "stuck" \in Kinds /\ \E S \in SUBSET Runs : StuckScan(c, S)

CallerStep(c) ==
  \/ WakeupLookup(c) \/ WakeupInsertRun(c) \/ WakeupInsertRequest(c)
  \/ WakeupLockIssue(c) \/ WakeupSpawn(c) \/ BootNext(c)
  \/ EditIssue(c)
  \/ CancelLookup(c) \/ CancelTake(c) \/ CancelSignal(c) \/ CancelGrace(c)
  \/ CancelStatus(c) \/ CancelLock(c) \/ CancelRevoke(c) \/ CancelWakeups(c)
  \/ NextSlots(c) \/ NextPlan(c) \/ NextClaim(c) \/ NextDone(c)
  \/ CancelTarget(c) \/ StatusWrite(c) \/ StuckMark(c)

ExecStep(e) ==
  \/ ExecStart(e) \/ ApiReturns(e) \/ SpawnChild(e) \/ MarkRunning(e)
  \/ RegisterChild(e) \/ AttachChild(e) \/ WaitChild(e) \/ WaitTimesOut(e)
  \/ FinishRun(e) \/ FinishIssue(e) \/ FinishWakeups(e) \/ FinishSessions(e)
  \/ FinishAgent(e) \/ FinishChild(e)

Next ==
  \/ \E c \in Callers : \/ Boot(c) \/ Request(c) \/ CallerStep(c)
                        \/ NextFails(c) \/ CallerFails(c)
  \/ \E e \in Execs : ExecStep(e) \/ ProcessExits(e)
  \/ Crash

Spec == Init /\ [][Next]_vars

\* The runtime polls every task that can go on, and tokio's Mutex is granted
\* in the order it was asked for; nothing obliges a client to send a request.
Fairness ==
  /\ \A c \in Callers : WF_vars(Boot(c)) /\ WF_vars(CallerStep(c)) /\ SF_vars(CancelTake(c))
  /\ \A e \in Execs : WF_vars(ExecStep(e)) /\ SF_vars(RegisterChild(e)) /\ SF_vars(FinishChild(e))

\* Adapter processes may run forever ..
HungSpec == Spec /\ Fairness
\* .. or all exit.
FairSpec == HungSpec /\ \A e \in Execs : WF_vars(ProcessExits(e))

-----------------------------------------------------------------------------
(* Properties.                                                             *)

\* Every table and task stays in the states its code knows.
TypeOK ==
  /\ run \in [Runs -> Run]
  /\ issue \in [Issues -> Issue]
  /\ agent \in [Agents -> AgentStatuses]
  /\ wakeup \in [Runs -> {"none", "dispatched", "completed", "cancelled"}]
  /\ session \in [Runs -> BOOLEAN]
  /\ exec \in [Execs -> Exec]
  /\ process \in [Execs -> {"none", "alive", "piped", "exited"}]
  /\ children \in [Runs -> Origins \cup {NoChild}]
  /\ registry \in Callers \cup {Free}
  /\ caller \in [Callers -> Caller]
  /\ server \in {"down", "booting", "serving"}
  /\ bootQueue \in SUBSET (Agents \X Issues)
  /\ requests \in 0..MaxRequests
  /\ crashes \in 0..MaxCrashes

\* The writers of heartbeat_runs together keep the promise of RunLifecycle:
\* no run that has ended comes back to life, and a run starts at most once.
Lifecycle ==
  INSTANCE RunLifecycle WITH MaxRuns <- MaxRuns, Agents <- Agents, Issues <- Issues,
                             NoAgent <- NoAgent, NoIssue <- NoIssue, run <- run
RunLifecycleSpec == Lifecycle!Spec

HoldsLock == {"start", "api", "spawn", "mark", "register", "attach", "wait",
              "fin_run", "fin_issue"}

\* An issue's execution lock is never leaked: while it names a run, the wakeup
\* that took it is about to spawn the run's task, or that task has yet to run
\* the statement that releases it.  Cancels, other runs of the issue and a
\* second task of the same run do not break this.
LockHasReleaser ==
  \A i \in Issues : issue[i].lock # NoRun =>
    LET r == issue[i].lock
    IN /\ run[r].issue = i
       /\ \/ \E c \in Callers : At(c, "wk_agent") /\ caller[c].run = r
          \/ exec[<<r, "woken">>].pc \in HoldsLock

\* A tool gateway session outlives no execution: while one is open, a task of
\* its run has still to pass the statement that revokes it.
SessionHasOwner ==
  \A r \in Runs : session[r] =>
    \E o \in Origins : exec[<<r, o>>].pc \in
      {"spawn", "mark", "register", "attach", "wait", "fin_run", "fin_issue",
       "fin_wakeups", "fin_sessions"}

\* The map of child handles does not leak: an entry belongs to a task that is
\* still to remove it, also when two tasks of one run replace each other's.
HandleHasOwner ==
  \A r \in Runs : children[r] # NoChild =>
    exec[<<r, children[r]>>].pc \in
      {"attach", "wait", "fin_run", "fin_issue", "fin_wakeups", "fin_sessions",
       "fin_agent", "fin_child"}

\* A task is spawned where there is none: two queue steps cannot both claim a
\* run, and a wakeup does not spawn the task of another wakeup's run again.
SpawnedOnce ==
  [][\A e \in Execs : exec[e].pc # "none" /\ exec'[e].pc = "start" => exec[e].pc = "start"]_vars

\* The end of a run changes no issue that another run has locked: an issue
\* becomes done or goes back to todo with the lock only through the task of
\* the run that held it.
ForeignRunsKeepOut ==
  [][\A i \in Issues : issue[i].lock # NoRun /\ issue'[i].lock = NoRun =>
       \/ issue'[i].status = issue[i].status /\ \E c \in Callers :
            At(c, "cx_lock") /\ caller[c].run = issue[i].lock
       \/ \E o \in Origins : ExecAt(<<issue[i].lock, o>>, "fin_issue")]_vars

\* With adapters that exit and statements that succeed, every lock is released.
LockReleased ==
  \A i \in Issues : \A r \in Runs : issue[i].lock = r ~> issue[i].lock # r

\* Then every request comes to its end as well: no cycle of mutexes.
CallersReturn == \A c \in Callers : ~At(c, "idle") ~> At(c, "idle")

\* Then every run ends, whether it got as far as running or not.
RunsEnd == \A r \in Runs : Active(r) ~> run[r].status \in Terminal

====
