# Formal model of the parrot-agent control plane

TLA+ modules, TLC configurations and TLAPS proofs kept beside parrot-agent, a
Rust server that hires AI agents for a company, assigns issues to them and runs
their adapter CLIs. The specifications are written from the code under
`src/crates`; the comments and guides of the repository appear only as claims
that are checked against it.

## 1. The system and its parts

The server (`crates/server`) is one process: an axum HTTP API (`crates/api`),
services (`crates/services`) over repositories (`crates/repositories`) and
PostgreSQL, and a job scheduler that starts background jobs every 30 s. Almost
all state is in the database; operations are sequences of single statements
without transactions, so requests, jobs and run tasks interleave at every
statement.

| Component | State | Operations | Interacts with | Hard behaviour | What makes it correct |
|---|---|---|---|---|---|
| Heartbeat run coordinator (`heartbeat_service.rs`) | `heartbeat_runs`, `agent_wakeup_requests`, `tool_gateway_sessions`, the execution lock in `issues`, the in-memory map of child processes | wakeup, execute_run, cancel_run, the queue step, the boot sweep | issue API, runs API, agent API, stuck run detector, adapter CLIs | interleaving of statements, two tasks of one run, mutex held across waits, crash between statements, hung children | a run starts once and ends for good, locks, sessions and child handles are released by somebody, only wakeups that overlap start two runs for one issue |
| Stuck run detector (`job_scheduler.rs`) | none | scan, mark timed out | the coordinator's tables | scan and mark are apart and unguarded | ended runs do not come back to life |
| Issue API (`issue_service_complete.rs`) | `issues` | create, update, delete, checkout, release, wake on assignment | the coordinator | stale read decides on the wakeup | an edit does not leak a lock |
| Agent management (`agent_service.rs`) | `agents` | hire, update, set_status, edits of other columns, terminate | the coordinator, budgets, approvals | whole-row write of a stale read; a walk up the reporting line, one row at a time | managers of the same company; a reporting cycle or a revived agent only from a handler that was overtaken |
| Job scheduler (`job_scheduler.rs`) | registered jobs | start | all jobs | executions of one job overlap; `schedule()` is not looked at | jobs tolerate overlap |
| Routine cron trigger (`job_scheduler.rs`, `routine_execution_service.rs`) | `routine_triggers.next_run_at`, `routine_runs` | scan, claim, dispatch, catch up | routine API | compare-and-set between overlapping scans, crash between claim and dispatch | every tick is dispatched once, a due trigger gets its turn |
| Status cards (`status_card_worker.rs`, `routes/status_cards.rs`) | `status_cards`, hidden generation issues | create, patch, delete, compile, refresh, write-backs of a query and a summary, the tick | job scheduler, coordinator (wakeup of the summarizer) | a chain of issue, claim and wakeup; overlapping ticks; write-backs for generations that are gone | one generation at a time, one summary from it, no card waits for ever |
| Summary slots (`summary_slot_worker.rs`, `routes/summary_slots.rs`) | `summary_slots`, hidden generation issues, revisions | generate, write, finalize | the same | a late finalizer against a new generation | a slot fails only for the generation it waits for |
| Decisions (`routes/decisions.rs`) | `decisions`, effect claims | create with key and cap, decide, dismiss, cancel, expire | agents and users that answer | read open, write later; effects claimed one by one | one outcome, with its own effects |
| Issue documents (`routes/issues.rs`) | documents, revisions, links by key | put against a base, restore, delete, lock | users and agents | one writer in a transaction with a row lock, one without | no edit that names its base is lost |
| Plugin workers (`plugin_worker_manager.rs`) | the map of handles; status, child and pending requests of a handle | start, call, stop, restart, stop_all | plugin processes | state lock given up around every request | a handle does not lose its process |
| Task watchdog (`task_watchdog.rs`) | `issue_watchdogs`, review issues | evaluate, classify, open or reopen a review | runs, wakeups, issues of a subtree | separate queries without a snapshot, a crash between two inserts | a live subtree is not taken as stopped, a reviewed stop has its review |
| Budgets (`cost_service.rs`) | spend, pause reason | record, pause, resume | agents | pause racing set_status | not modelled: nothing evaluates a budget |
| Approvals (`approval_service.rs`, `approval_execution.rs`) | `approvals` | file, review, resubmit, execute | agents | double resolution, stale write, failing side effect | a decision stands and an approval hires once, except for reviews that overlap |
| Issue checkout, leases, adapter installation, tool gateway, thread interactions, tree holds, case documents, event bus, sagas, auth, access, pipelines, secrets, HTTP | see section 6 | | | | |

`PROJECT.json` lists all of them under "components" with their sources and what
is modelled, and under "hazards" the code that is hard to test, at its line.

## 2. Modules

    RunLifecycle             what a heartbeat_runs row promises its readers
      ^ implemented by
    HeartbeatService         the coordinator and the other writers of its tables
      ^ extended by                 ^ extended by
    HeartbeatClaims          HeartbeatService_proofs   types, refinement
    documented claims          ^ HeartbeatOwners_proofs  who spawns, who owns a handle
      ^ MCHeartbeat (TLC)        ^ HeartbeatLocks_proofs   locks, sessions, twin runs
    HeartbeatHistory         HeartbeatService with a record of what wakeups looked at
      ^ with MCHeartbeat extended by MCHeartbeatRaces (TLC), and by HeartbeatLocks_proofs

    AgentRegistry            agents, reporting lines and approvals
      ^ extended by                 ^ extended by
    RegistryHistory          AgentRegistry_proofs      types, companies
    who was overtaken          ^ RegistryHistory_proofs  cycles, termination, hires
      ^ MCRegistry (TLC)

    GenerationSlot           one generation at a time, one result from each
      ^ implemented by StatusCards
    SettledChoice            a question is settled once, and everything follows the choice
      ^ implemented by Decisions
    StatusCards  SummarySlots  Decisions  IssueDocuments
    PluginWorkers  RoutineTriggers  TaskWatchdog
      ^ all seven extended by MCServices (TLC)
      ^ StatusCards by StatusCardHistory (whose claim was taken from it), which
        MCServices and StatusCards_proofs extend, and by StatusCardClaims (a
        documented claim)
      ^ Decisions, SummarySlots, IssueDocuments by Board_proofs
      ^ PluginWorkers, TaskWatchdog, RoutineTriggers by Workers_proofs

Three modules with History in their names add variables that only listen: what
a handler had read when another changed it. The code has no transaction or row
lock there, so the plain statements ("no cycle", "one run per issue") are false
of it; with the record the properties can say in which order of statements each
of them fails, and that it fails in no other. No action is taken away: every
step of the extended module is a step of the history module, for any number of
callers.

### HeartbeatService

One action is one SQL statement, one acquisition of a mutex or one system call;
everything else may run in between.

| Code | Model |
|---|---|
| rows of `heartbeat_runs`, numbered in creation order | `run[r]`: status, agent, issue |
| `issues.status`, `assignee_agent_id`, `execution_run_id` | `issue[i]`: status, assignee, lock |
| `agents.status` | `agent[a]` |
| the `agent_wakeup_requests` row of a run | `wakeup[r]` |
| an unrevoked `tool_gateway_sessions` row | `session[r]` |
| a spawned `execute_run` task; two call sites spawn them | `exec[<<r, origin>>]`, origin "woken" or "claimed" |
| the adapter CLI of a task | `process[e]`; "piped" after it has exited while something it started keeps a pipe open |
| `DefaultHeartbeatService.children` and its `Mutex` | `children[r]`, `registry` |
| a request handler or job, its locals | `caller[c]` |
| boot and restart | `server`, `bootQueue` |

Callers run `wakeup` (`Wakeup*`), `LegacyIssueService::update` (`RequestEdit`,
`EditIssue`), the cancel route (`RequestCancel`, `Cancel*`, `CancelTarget`) with
the queue step that ends it (`Next*`), `set_status` (`RequestStatus`,
`StatusWrite`), the stuck run detector (`StuckScan`, `StuckMark`) and the boot
sweep (`Boot`, `BootNext`). Tasks run `run_command` (`ExecStart` to
`WaitTimesOut`) and the statements that finish a run (`Finish*`).

Two mutexes matter. The map's guard in `cancel_run` lives until the end of the
`if let` body, so `registry` names the caller from `CancelTake` to the end of
the grace period. The child's own mutex is held by `run_command` from
`AttachChild` on, so `CancelSignal` is enabled only when the task does not wait.

Abstractions: run numbers stand for ids and creation order; "blocked" also
stands for `in_review`; which running runs are older than 30 minutes is left
open; the child's output is reduced to succeeded or failed; what a handler
returns to its client is left out. `NextSlots` reads the agent's policy and the
active count in one step, `NextPlan` the queued runs and the readiness of their
issues: the shipped queue step stops at the first of these queries, and with
`PriorityIsInteger` what is read decides only which runs are tried, each of which
the guarded claim checks again.

`HeartbeatHistory` records the runs that existed at a wakeup's lookup (`known`)
and, for each run, those its wakeup could have seen (`knew`). `TwinsOverlapped`:
two active runs of an agent for one issue were each unknown to the other's
wakeup.

`PriorityIsInteger` deserves a word. The queue step decodes `issues.priority`
as a 32-bit integer while the column is text (an enum in the model crate), so
the shipped code is `PriorityIsInteger = FALSE`: the query fails and the claim
loop is never reached. All runs but one use FALSE. `heartbeat_restart` sets TRUE
and checks the claim loop as it will run once the column decodes. It reaches
states in which a run is executed by two tasks, the wakeup's and the queue
step's: the properties below hold in them too, but the adapter runs twice.

### AgentRegistry

One action is one SQL statement of a handler; `caller[c]` holds the handler's
local variables between two of them.

| Code | Model |
|---|---|
| `agents.status`, `company_id`, `reports_to` | `agent[a]`; "absent" before the row is inserted |
| `approvals` of type hire_agent: status, company, payload's agentId, reportsTo or requester | `approval[p]`: status, company, target, manager |
| which approval an agent was created by (not a column) | `origin[a]`, a history variable |
| `create`, `update`, `set_status`, `delete`, `terminate` and the handlers of a review | `caller[c]`: pc, op, agent, row, cursor, visited, approval, form |

`create` is `RequestHire`, then `ReadManager`, the walk (`WalkUp`,
`WalkFindsCycle`, `WalkEnds`: one SELECT per level) if it names a manager, then
`InsertAgent`; a hire that needs an approval goes on with `FileApproval`.
`update` reads the agent (`ReadForUpdate`), takes the same way and ends in
`WriteRow`. `set_status`, the edits and `terminate` read (`ReadForStatus`,
`ReadForEdit`, `ReadForTermination`) and write the whole row; `terminate` then
clears the reports (`ClearReports`). A review reads the approval
(`ReadApproval`), writes it (`Decide`), and an approved one activates its
pending agent (`Activate`, then `set_status`) or creates one, under the
requester or the company's only root (`FindRoot`). `RunWakes` and `RunEnds` are
the two single-column updates of the run coordinator, `Drop` is a handler that
does not go on.

`ReadsMayFail` lets a SELECT fail where the code takes the failure for an answer
(`Err(_) => break` in the walk, `if let Ok(..)` around the search for a root).
Nothing keeps handlers apart: the code has no transaction, no row lock and no
guard on what was read. With two updates at a time each can walk before the other
writes, and a cycle results; a late whole-row write revives a terminated agent;
with two reviews at a time an approval hires twice (`hired_twice`). What the code
keeps in every interleaving is `TypeOK` and `SameCompany`.

`RegistryHistory` records the handlers that were overtaken. `misled` are those
whose walk, or whose copy of reports_to, was followed by a change of some
reporting line before they wrote, or whose walk was cut off by a failed SELECT or
the level limit, and `unsure` the agents whose manager came from one of them;
`late` are those that read an agent before it was terminated; `outvoted` the
reviews that read their approval before another decided it, and `contested` the
approvals that one of them decided once more. `WalkedLinesAcyclic`,
`TerminatedStays`, `UncontestedHiresOnce` and `DecisionsStand` say that nothing
else makes a cycle, revives an agent, hires twice or undoes a decision.

Abstractions: columns other than these three, roles, permissions and access
control, API keys, configuration revisions, activity records, budget policies,
and built-in agents, which are no candidates for a root. The team catalog
inserts agents and sets their reports_to in one transaction; it is not
modelled. An update in the request's body cannot set reports_to to NULL, so
`RequestUpdate` has no such case.

### StatusCards and GenerationSlot

| Code | Model |
|---|---|
| a row of `status_cards`: state, generating_issue_id, compiled queries, archived_at, refresh policy, fingerprint, pending change, last change, next_eval_at | `card[c]` |
| the hidden issues of origin `status_card_generation`, by status | `genIssue[g]`: open, blocked or ended |
| wakeups requested for them | `woken` |
| a request handler or an execution of the scheduled job, with its locals | `task[t]` |
| the issues a card watches | `world`, a counter of their changes; a fingerprint is its value when the queries ran |
| now() | `clock` |

`CreateCard`, `PatchCard`/`WritePatch` and `DeleteCard` are the routes of the
row. `RequestGeneration` begins a compile (`ReadForCompile`, `InsertGeneration`,
`ClaimCompile`, `WakeSummarizer`, or `NoSummarizer`) or a refresh
(`ReadForRefresh`, `ExecuteQueries`, then `RescheduleUnchanged`, `Postpone`, or
`InsertGeneration` and `ClaimRefresh`). `RequestWrite` begins a write-back of
the summarizer (`WriteQuery`, `WriteSummary`). The scheduled job is `StartTick`,
`ClaimDue` with the refresh of each card claimed, `SelectStalled` and
`FinalizeStalled`. `MoveIssue`, `WatchedIssueChanges` and `TimePasses` are the
rest of the system, `Drop` a task that stops half-way. `delivered` is a history
variable: the generations whose summary was accepted.

`GenerationSlot` is the promise to a reader of a card: `Begin` takes a fresh
generation, `Deliver` takes one result from it while it is held, `Release` lets
it go. `CardSlotSpec` says that StatusCards implements it, with the row's
generating_issue_id as the holder.

The claim of an execution is only a time in the row: the end of a window of five
minutes. The code does evaluate a card twice within it: a summary written back,
or the end of another evaluation, sets next_eval_at from the policy, and a
reactive debounce (at most 60 s, `status_card_worker.rs:39`) or an interval below
five minutes (`:320`) is shorter than the window (`:1092`). `StatusCardHistory`
records the executions whose card was rescheduled that way (`reopened`), and
`ScanExclusive` says that there is no other way but a claim that ran out.

### SummarySlots

`slot[s]` is a row of `summary_slots` (status, draft issue), `draftIssue` the
hidden issues, `slotTask` the requests and the executions of the finalizer.
`Generate`, `ProbeDraft`, `InsertDraft`, `UpsertGenerating` and `WakeWriter` start a
generation; `RequestRevision`, `InsertRevision` and `SettleIdle` are the
summarizer's write; `StartFinalizer` and `FinalizeDraft` the job, `RequestFails`
a statement that fails with what precedes it committed. `ended` remembers the
drafts that have ever been terminal. Only scopes with an id are modelled: with a
NULL scope_id the ON CONFLICT clause of the upsert never matches, so each
generation adds a row. `WritesOneSlot` says that a generation writes to the slot
it was started for and no other; that its last UPDATE may find the slot waiting
for a newer generation, and show it as idle, is in the model (`SettleIdle`).

### Decisions

`decision[d]` is a row (status, chosen option, execution, key), `effects` the
rows that claim effects, `ask[r]` a request; an option stands for the number of
effects it has (`EffectCount`). `LookupKey`, `CountOpen`, `InsertDecision` and
`LinkTargets` create; `LoadToDecide` continues in `AnswerSettled`,
`ExpireDecision`, `RefuseInput` or `Decide` and then `ClaimEffect`, one INSERT at a time;
`LoadToClose` continues in `Dismiss` or `CancelDecision`. `PassDeadline` lets a
deadline pass and `AskFails` a request fail between two statements. `answers`
is a history variable: what clients that decide were told.

`SettledChoice` is the promise to whoever answers or waits for a decision:
`Settle` takes a choice once, `Tell` and `Act` follow the choice taken.
`ChoiceSpec` says that Decisions implements it, with the column of the chosen
option, the answers that accept and the claims of effects. It speaks of the
past as well as of the present state: a replay is answered from a row read
earlier, and the row may have been overwritten with `expired` since.

### IssueDocuments

`linkOf[k]` is the document of a key, `docs[d]` the revisions in the order of
their commits, `locked` the documents with a lock, `writer[w]` a request. A PUT
is a transaction: `RequestPut`, `LockKey` (SELECT FOR UPDATE, which waits while
another PUT is between it and its commit), `CheckBase`, `NumberRevision`
(MAX + 1), `CommitPut` or `CommitCreate`; `Refuse` is every way to be refused. A
restore numbers its revision before its transaction begins: `RequestRestore`,
`NumberRestore`, `CommitRestore`. A third writer is the end of a run:
`refresh_continuation_summary` (`heartbeat_service.rs:927`) looks for the
document of its key with FOR UPDATE outside its transaction, so the lock is gone
when it writes, and names no base. `RefreshSummary` begins it; its number and its
commit are those of a restore, or of a new document. It writes only the key
`continuation-summary`, the model lets it write any. The document tables are not created in the
repository, so `UniqueNumbers` says whether they refuse a number twice; with it,
`RevisionsInOrder` says that the numbers count the commits.

### PluginWorkers

The manager's map and the handles of one plugin. `registered` is the handle in
the map, `lockedBy` the holder of the map's write lock, `worker[h]` what the
handle's state lock protects (status, child, pending requests), `parent` and
`alive` describe processes, `client[c]` the tasks that call. `StartWorker`,
`StopWorker`, `StopAll` and `UseHandle` begin an operation; `Spawn` and
`MarkRunning` start a child, `CheckRunning`, `Send`, `Respond` and `NoResponse`
are a request to it, `BeginStop`, `KillChild` and `NextToStop` a stop. A step is
a stretch of code under the state lock, which is given up while a request waits.

### RoutineTriggers

`trigger[t]` is a row of `routine_triggers` with what it needs of its routine and
project, `scan[s]` an execution of the job. `QueryDue` reads what is due,
`ClaimTrigger` is the UPDATE that compares next_run_at with what was read,
`RecordSkipped` writes the runs a paused project or the policy skips and
`DispatchRun` calls `dispatch_routine_run` once. `EditTrigger`, `Tick` and
`SchedulerStops` are the API, time and a stop between two statements. A cron
expression fires at the multiples of `CronStep`; one in `Broken` does not parse
at first, and ends the whole execution. `EditTrigger` is a PATCH that enables or
disables a trigger or gives it an expression that parses or does not, the pause
of its project, and a DELETE (disabled for good). None of them moves next_run_at;
that a new expression may change the spacing of the ticks is left out.

Two facts of the code surround this model. Nothing in the server sets
next_run_at of a new trigger, so the rows the model starts from come from
elsewhere; and the INSERT of `dispatch_routine_run` names a column that does not
exist (`routine_execution_service.rs:82`), so a dispatch is counted as a call.

### TaskWatchdog

`subtree`, `liveRuns` and `liveWakes` are what the queries read, `watchdog` the
row, `review` the review issues, `evaluation[e]` a request. `Evaluate`,
`LoadSubtree`, `ListLiveRuns` and `ListLiveWakes` are the queries and the
classification (`Stopped`); `FindReview`, `ReopenReview`, `CreateReview`,
`LinkReview` and `RecordReviewed` what follows a stop, `GiveUp` a failed
statement or a grace period. `WakeIssue`, `RecordWake`, `RunEnds`, `CloseWakes`,
`SetIssue`, `MoveReview` and `SetStatus` are the other writers. The history
variables `wasIdle` and `sameTree` say what was the case during an evaluation;
`misjudged` is set when an evaluation takes as stopped a subtree that stayed the
same and had a live run all the time.

### Composition

The seven modules share no row that one writes and another decides on, apart
from issues, whose status the API can set to anything; each module lets it do
that (`MoveIssue`, `MoveDraft`, `MoveReview`, `SetIssue`). `MCServices` therefore
chooses one of them at the start of a behaviour (`part`) and runs that one: a
run covers the sum of the state spaces instead of their product. The
coordinator's part in them is what it does to issues, runs and wakeups.

## 3. Runs

| Run | Question | Result |
|---|---|---|
| heartbeat_races | two callers wake, reassign and terminate; an API agent and a CLI agent with a time limit: is an execution lock leaked, or ended by another run, and does an agent get two active runs of the issue other than from two lookups that each precede the other's insert? | holds |
| heartbeat_restart | three runs left queued without a task by a restart, two cancels, a wakeup: is a queued run claimed twice, an agent given slots it does not have? | holds |
| heartbeat_faults | failing statements, dropped requests, failing adapters, a restart, cancels, the stuck run detector: no leaked handle, runs stay ended? | holds |
| heartbeat_liveness | under fairness, with a time limit that may kill the child during a cancel: is every lock released, does every request return, does every run end, and has every open session a task that is to revoke it? | holds |
| registry | two handlers hire, move, edit, terminate and review, in any order of their statements: is there a manager of another company; and is there a reporting cycle, a revived agent, a second hire of one approval or a decision undone without a handler that was overtaken between its read and its write? | holds |
| services | is a card's generation replaced or delivered twice, a live slot failed, a summary written to another slot, a decision given two outcomes or answered with one it has not, an edit lost, a revision number out of order, a plugin process lost, a tick run twice or dropped, a live subtree taken as stopped, a stop reviewed without a review? | holds |
| services_liveness | under the scheduler's fairness: does a card or slot wait for ever, is an accepted effect claimed, does a due trigger get its turn; and do two executions evaluate one card without one of the causes named? | holds |
| cancel_before_spawn | "stop ongoing execution": is no child started for a cancelled run? | violated |
| hung_child | "SIGTERM first, wait for the grace period, then SIGKILL": does the grace period end the child? | violated |
| terminated_agent | "From Terminated - no transitions allowed" | violated |
| hired_twice | "Validate current status": does an approval hire once when two reviews race? | violated |
| generations_woken | "the agent is woken by a heartbeat wakeup": does every generation a card waits for have its wakeup? | violated |

The properties are stated in the module of their component, with the code they
are about; the claims in `HeartbeatClaims` and `StatusCardClaims`. Every property
of a passing run has a mutant in `PROJECT.json`: a plausible bug in one mapped
definition that TLC must find with that property.

### Bounds

`MaxRuns`, `MaxRequests` and `MaxCrashes` only limit how often something
starts. Two runs of one issue are what it takes for a lock, a handle or a
session to change hands; two callers are what it takes for an operation to be
overtaken; a third request lets a cancel meet two wakeups; one crash at any
point followed by the boot sweep meets every half-done operation once.
`heartbeat_restart` starts from the tables such a crash leaves (`RestartInit`):
two cancels reach the claim of the same run only after several wakeups, and
starting there keeps the instance small enough to explore in full. The
liveness run has one run and two cancels, because its cycles (a cancel that
holds the map's mutex, the task that needs it) are between one task and two
cancels. `heartbeat_faults` has a
single caller, which restarts, failing statements and the detector leave room
for; concurrent wakeups are the subject of `heartbeat_races`. Symmetry is used over the callers in safety runs
only. `CHECK_DEADLOCK` is off because a server without requests stops.

`registry` has three agents, two companies, one approval, two handlers and four
requests: three agents are what a cycle through a third party takes, a second
company what a transfer of a manager takes, two handlers let a hire overtake a
writer at every statement, and four requests let an approval be filed, revised,
resubmitted and reviewed again. `WalkLimit` is 3, the number of agents; the
code's limit is 100, and the theorem is for any limit, since a walk that it cuts
off counts as misled. `hired_twice` takes two agents, one company and three
requests: one to file the approval and two to review it.

`services` (about 870,000 states in all):

* cards: one card, two generations, two handlers and one execution of the tick.
  A second generation is what a late write-back or a late finalizer can be
  confused with. A second initial state has a card that is compiled and due
  (`CompiledCards`), since reaching one costs the requests that the races are to
  be made of. Symmetry is over generations and handlers.
* slots: two slots, so that a text can go astray, two drafts and a finalizer that
  may be late by one generation.
* decisions: three options with two, no and one effect; two requests at a time,
  three in all, so that a third can answer what two raced for; one deadline.
* documents: one key and two documents, since a delete and a create give one key another
  document; five requests, so that two edits of one base meet a restore.
* workers: two handles, since a start replaces a handle that a client may still
  have; three processes, so that one can exit and be replaced.
* triggers: two overlapping scans, four units of time, a cap of two runs, so
  that missed ticks are split over executions; two edits, one crash.
* watchdog: the watched issue and one child that can join and leave, two reviews,
  five changes, one evaluation at a time and two in all.

`services_liveness` needs no symmetry and little concurrency: one card with a
reactive policy without debounce, two executions of the tick, a manual refresh in
flight and time up to the claim window (so that the card falls due again within a
claim), a slot with two drafts,
three requests to a decision, a trigger behind a broken one. Documents, workers
and the watchdog have no liveness property and stay at rest.

### Fairness

Coordinator: weak fairness of `CallerStep` and `ExecStep`, since the tokio
runtime polls every task that can go on. Strong fairness of `CancelTake`,
`RegisterChild` and `FinishChild`: tokio's `Mutex` is fair (FIFO), so a waiter is
not overtaken for ever. Nothing obliges a client to send a request. That an
adapter exits is an assumption of `FairSpec` alone; `HungSpec` leaves it out and
is what the run `hung_child` uses. API agents are not in the liveness run since
their HTTP call has no time limit in the code.

Services: weak fairness of `StartTick` and `Step`, of `StartFinalizer` and
`FinalizeDraft`, and of `Execute`: the scheduler starts each job again every 30 s
and tokio goes on with what is started. Weak fairness of `Handle`, the steps of
an accepted request about a decision, for the same reason. Nothing
obliges an agent to write its summary, a client to send a request or an issue to
move. `DueClaimed` is stated only for triggers without a broken trigger that
falls due before them (`HeldUp`): behind one they do starve, since the first
expression that does not parse ends the execution.

## 4. Findings

* `cancel_before_spawn`: `run_command` spawns the child without looking at the
  run again and ignores how many rows the UPDATE to running changed.
* `hung_child`: the child's mutex is held for as long as the child runs, so the
  cancel reaches SIGTERM only when there is nothing left to signal, and holds
  the mutex of the whole map meanwhile.
* `terminated_agent`: `wakeup` sets `agents.status` to running unguarded.
* `hired_twice`: `review` checks that an approval is pending and later writes it
  with no guard, so two approvals of one pending hire create two agents.
* `generations_woken`: `tick_due_status_cards` creates the hidden issue of a
  generation and makes the card wait for it, and wakes nobody; only the routes
  wake the agent. The card then waits until somebody moves the issue.

`PROJECT.json` quotes the line that each contradicts.

Some weaknesses are modelled, and reached by the runs, without a property: the
code has nothing that would keep one, and no comment or test promises it. They
are in "hazards" with a note. The main ones: the queue step decodes
`issues.priority` as an integer and fails as soon as it has something to start;
the end of a run overwrites what a user did to its issue meanwhile; an agent can
come to report to a terminated one; the last UPDATE of a summary's write may show
a slot as idle that waits for a newer generation (`WritesOneSlot` covers the text
only); the UPDATE that expires a
decision asks for no status, so a request that read it open and late writes
expired over a decided row whose effects are claimed; a decision that loses its
request between two claims of effects loses the rest, since a replay claims
nothing; a crash between the claim of a trigger and its dispatch loses the runs;
one cron expression that does not parse ends a whole scan.

## 5. Proofs

All theorems are for arbitrary values of the constants, under the named
assumptions on constants of their module and those given here. Each follows the
same scheme: a strengthening of the property that is inductive, one lemma per
action or group of actions, and the temporal step last. `IInv` and `SpawnInv` of
the coordinator were also checked by TLC on the instances above.

`HeartbeatService_proofs`, from `ConstantsAssumption`:

* `Invariance`, `TypeCorrectness`: `TypeOK` is not inductive, since what a
  statement writes back depends on locals that only some program counters have
  assigned. `IInv` adds exactly that: `RunsOK` (a row has an agent and an issue),
  `ExecsOK` (a task has a row, and an outcome when it finishes), `CallersOK`
  (`Locals`: the locals assigned at each program counter), `TablesOK`,
  `ServerOK`. It is preserved table by table: the writer lemmas (`RunWriters`,
  `ExecWriters`, `CallerWriters`) say which actions write a table, and one step
  lemma per table takes these one by one. Rows are never deleted (`RowsStay`),
  which is what carries a local that names a row from one step to the next.
* `RunsLive`: `Spec => RunLifecycleSpec`. Each writer of `heartbeat_runs` is a
  step of one run's life (`SetRunStatusLives`): the guards `status = 'queued'`
  and `status IN ('queued','running')` are needed, and the unguarded updates of
  `cancel_run` and the detector are harmless to the life cycle because they
  write a final status over a row that exists.

`HeartbeatOwners_proofs`:

* `SpawnInvariance`, `TasksSpawnedOnce`: a run belongs to one wakeup until its
  task is spawned (`OneWaker`, `NotYetWoken`: the row inserted is new), and a
  claimed run is no longer queued (`ClaimedOnce`, by `RunsLive`'s step lemma).
* `HandlesHaveOwners`: `[]HandleHasOwner`, using that a spawn never resets a
  registered task.

`HeartbeatLocks_proofs`:

* `LocksAreRespected`: `[][ForeignRunsKeepOut]` with no further assumption.
* `LocksHaveReleasers`, `SessionsHaveOwners`: under `~DbMayFail` and
  `MaxCrashes = 0`; with either, the code does leave locks and sessions behind.
  A wakeup locks the issue of the run it has inserted (`WakerFits`), and no
  request is in flight while the server is down (`DownIsIdle`); the rest follows
  what one step does to one run, one task and one issue.
* `TwinsRace`: `HistorySpec => []TwinsOverlapped`, with no further assumption:
  any number of wakeups at a time, failing statements, scans and restarts.
  `LookupHolds` says that of the runs that existed at its lookup a wakeup which is
  to insert one knows none that is active; it is stable because a run that has
  ended does not become active again (`RunsAppear`). `RecordsFit` says
  that only runs that exist are in the records.

`AgentRegistry_proofs`, from `ConstantsAssumption` only:

* `Invariance`, `TypeCorrectness`, `ManagersOfSameCompany`. `SameCompany` is not
  inductive: a handler compares two rows and writes one of them several
  statements later, and an edit writes back a reports_to it read long ago.
  `IInv` says of the locals at each program counter what they have to do with
  the table (`Assigned`, `Located`, `Consistent`), that new ids are fresh
  (`IdsFresh`), and that approvals name agents that exist. The argument is that
  rows stay and keep their company (`Grows`): `FitsStays` carries a handler's
  locals over every step of the others, and one lemma per group of statements
  (`SubmitsFit`, `WalksFit`, `EditsFit`, `ReviewsFit`, `WritersFit`) over its own.

`RegistryHistory_proofs`, of `HistorySpec` and again from `ConstantsAssumption`
only. The invariants speak of the handlers that are not in the record: what such
a handler holds is as fresh as the table.

* `NoReportingCycle`. `Walking` says that what the walk has passed reports to
  itself or to the cursor, avoids the agent and exists, so that no hire can
  disturb it; at a root this becomes `Walked`: the new manager's line stays in a
  set `W` without the agent. In a set of agents that contains the agent and its
  new manager, and nobody unsure, somebody in `W` then reports to nobody in the
  set (`LinesStep`).
* `TerminatedForGood`: a row about to be written by a handler that is not late is
  terminated if the row in the table is (`Spares`).
* `HiresOnce`, `DecisionsFinal`: a review that was not outvoted finds its approval
  pending when it writes; one that hires finds it approved and no agent with it as
  its origin (`Entitled`), and two reviews hire for one approval only if it is
  contested (`TurnsOK`). Only `Decide` changes an approval that is not waiting for
  a revision (`FilingStands`).

`StatusCards_proofs`:

* `CardsTyped`, `CardsImplementSlot`: the invariant `CardsInv` says that two
  cards do not wait for one generation (`OneHolder`), that a generation held or
  delivered has been made (`Made`), and that one a task is about to claim is
  fresh (`ClaimsFresh`). Most steps hand out no generation (`Kept`); the others
  (`InsertGeneration`, the two claims, `WriteSummary`) are taken one by one.
  `SlotStep` is the abstract step in terms of rows (`SlotStepRefines`).
* `NoDoubleEvaluation`: `HistorySpec => []ScanExclusive`, for all policies and
  with no assumption on how long an evaluation takes. The claim of an execution is
  only a time in the row, so the proof has to say who may change that time. While
  an execution is at work and not in the record, the card is `Deferred`: it is not
  due before the claim runs out, or not at all, or it waits for a generation, which
  keeps it out of the scan as well. `Rescheduled` lists what a step may do to
  next_eval_at: only the write-back of a summary, by whoever comes, takes the
  generation away and sets a time, and only the end of an evaluation sets one from
  the policy; both put the others that work on the card in the record. `ScanInv`
  is the conjunction with `CardsInv`; each lemma moves one task and the rows
  (`ScanKept`).

`Board_proofs`:

* `DecisionHasOneOutcome`: a request that claims effects has a row that is
  running with its option (`AskFits`), and a running row is not open
  (`RunningSettled`), so every guarded UPDATE leaves it alone; the unguarded one
  that expires it leaves option and execution as they are.
* `DecisionsSettleOnce`: `DecisionsSpec => ChoiceSpec`, by the invariant
  `ChoiceInv`: a row that is open has no choice (`Unsettled`), and a request that
  has read a row as decided has read the choice the row still shows
  (`ReadSettled`). The latter is stable because a row never becomes open again
  and no UPDATE changes the choice of a row that is not open (`RowsGoOn`): the
  guards of decide and dismiss are needed for it, while the unguarded expiry
  leaves the choice alone. The step lemmas are `SettlingStep`, `TellingStep` and
  `OtherSteps`; `StepsOfChoice` is the abstract step in terms of the mapped
  variables.
* `NoLiveGenerationFails`: what the finalizer read as ended has ended, and a draft
  that has ended stays in `ended` (`LeftEnded`).
* `GenerationsWriteOneSlot`: `WritesOneSlot` forgets requests in flight, so
  `OwnersInv` says of every place that names a generation with a slot (the row,
  the revisions, the locals of a request) that it is the same slot (`OneSlot`),
  and that a generation named anywhere exists (`NamedIsMade`), which makes the
  one a request inserts fresh.
* `RevisionsAreNumbered`, under `UniqueNumbers`: the conjunct `Numbered` of the
  invariant below.
* `EditsSurvive`, under `UniqueNumbers`: revisions of a document are numbered by
  their positions (`Numbered`), one PUT holds a key (`OneHolder`), its document
  stays that of the key (`Placed`, `LinksApart`), and between its check and its
  commit only restores come in (`Current`). A restore that came in between may
  take the number the PUT has computed. The database then refuses the PUT; if it
  did not, two revisions would have one number, and the next check of a base
  could read either as the newest.

`Workers_proofs`:

* `NoProcessIsLost`: a stopped handle has no child (`StoppedChildless`) and a
  child was spawned by the handle that has it (`Fathered`).
* `NoTickRunsTwice`: every tick claimed has a run that was dispatched, lost or
  skipped, or that an execution still owes (`ClaimsCounted`, which counts the
  runs to skip as well and so is inductive where `TicksRunOnce` is not). A claim
  finds next_run_at as it was read and moves it on by as many ticks as it takes
  on runs (`TriggersAligned`: next_run_at is a tick; `ScanFits`: what was read of
  a trigger still goes for it). The runs owed are pairs of an execution and a
  number, counted as a finite set: a step changes what one execution owes
  (`ClaimMoves`).
* `LiveTreeIsNotStopped`: an evaluation of a tree that stayed the same has the
  members it read, and if it found no live run, nothing was live at some moment of
  it (`Watchful`).
* `ReviewIsNamed`: an evaluation that goes on to record a stop has linked its
  review (`ReviewsLinked`).

Every safety property of a passing run is stated by a theorem. Only
model-checked are the liveness properties (`LockReleased`, `CallersReturn`,
`RunsEnd`, `CardReleased`, `SlotSettles`, `EffectsClaimed`, `DueClaimed`), since
the prover does neither liveness under fairness nor `ENABLED`. Two pairs of
theorems need an assumption, which the runs make as well: `LocksHaveReleasers` and
`SessionsHaveOwners` that statements do not fail and the server stays up, since the
code leaves locks and sessions behind otherwise; `RevisionsAreNumbered` and
`EditsSurvive` that the database refuses a revision number twice, since the tables
are not in the repository.

## 6. Not modelled

* Issue checkout: the checkout and release routes validate a run and then write
  the checkout and execution columns with no guard; two requests leave whatever
  came last, and the next wakeup overwrites it. The checkout and lock services
  that have guards are not wired into the server.
* Budgets: `evaluate_cost_event`, which would pause an agent, has no caller. The
  total is a sum written by a second statement; nothing reads it to decide.
* Environment leases: the lease service that is wired keeps nothing; the expiry
  scanner and health prober are single UPDATEs.
* Tool gateway: an action's approval reads it pending and updates it by id alone,
  so two approvals execute it twice and one can overwrite a decline. No guard and
  no comment gives a property to check.
* Issue thread interactions: accept, reject, answer and cancel read and return
  columns that do not match the row struct and fail when decoding, so no protocol
  between them is reachable; create and expiry are single statements.
* Issue tree holds: nothing reads a hold to decide anything.
* Case documents: as issue documents, without the check of the base.
* Pipelines, goals, projects, cases: rows written by one request each; the stage
  transition of a pipeline case has no route.
* Secrets: the rotation is four unguarded statements whose errors are ignored.
* Adapter installation, sagas, recovery actions, the database secret service, the
  plugin job scheduler, the decision queue service, the monitor scheduler, rate
  limits and caches: not started or not called by the server. Nothing calls
  `reconcile_orphaned_runs` either, and `get_heartbeat_context` only reads.
* Event bus: in memory, best effort, no state depends on it.
* Authentication and authorization: decisions on one request.
* HTTP routing, validation, formatting, redaction, encryption, schemas, and the
  parts of modelled files that write rows nobody decides on: activity records,
  comments, configuration revisions, queues and bundles of decisions.
