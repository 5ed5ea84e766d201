--------------------------- MODULE AgentRegistry ---------------------------
(***************************************************************************)
(* Hiring, reorganising and dismissing agents: AgentService over the       *)
(* agents table (crates/services/src/agent_service.rs) and the approvals   *)
(* that hire agents (approval_service.rs, approval_execution.rs).          *)
(*                                                                         *)
(* An operation reads the rows it decides on, one SELECT each, and then    *)
(* writes the whole row it has read back, WHERE id only.  Nothing is done  *)
(* in a transaction: one action is one SQL statement.  caller[c] is a      *)
(* request handler with its local variables.                               *)
(***************************************************************************)
EXTENDS Integers, FiniteSets

CONSTANTS
  Agents,          \* ids of rows of agents, those of later hires included
  Companies, Approvals, Callers,
  NoAgent, NoCompany, NoApproval,   \* "no row": the SQL NULL
  MaxRequests,     \* bound: requests that start
  WalkLimit,       \* levels detect_reporting_cycle walks up, 100 in the code
  ReadsMayFail     \* a SELECT of the walk, or of the search for a root, may fail

ASSUME ConstantsAssumption ==
  /\ NoAgent \notin Agents
  /\ NoCompany \notin Companies
  /\ NoApproval \notin Approvals
  /\ MaxRequests \in Nat
  /\ WalkLimit \in Nat
  /\ ReadsMayFail \in BOOLEAN

VARIABLES
  agent,      \* agents: status, company_id, reports_to
  origin,     \* the approval that hired the agent of a row, as a new one
  approval,   \* approvals of type hire_agent: status, company_id, payload
  caller,     \* the requests in flight
  requests    \* number of requests so far

vars == <<agent, origin, approval, caller, requests>>

-----------------------------------------------------------------------------
Statuses == {"idle", "running", "paused", "pending_approval", "terminated"}
\* "same": an update whose request names no status.
Row == [status : Statuses \cup {"absent", "same"},
        company : Companies \cup {NoCompany}, manager : Agents \cup {NoAgent}]
NoRow == [status |-> "absent", company |-> NoCompany, manager |-> NoAgent]
WithStatus(row, s) ==
  [status |-> s, company |-> row.company, manager |-> row.manager]
WithManager(row, m) ==
  [status |-> row.status, company |-> row.company, manager |-> m]

\* The payload of an approval names the pending agent to activate (agentId),
\* or none, and the manager of a new agent (reportsTo, else the requester).
Decisions == {"approved", "rejected", "revision_requested"}
Approval == [status : Decisions \cup {"absent", "pending"},
             company : Companies \cup {NoCompany},
             target : Agents \cup {NoAgent}, manager : Agents \cup {NoAgent}]
NoForm == [status |-> "absent", company |-> NoCompany,
           target |-> NoAgent, manager |-> NoAgent]
Decided(form, d) ==
  [status |-> d, company |-> form.company,
   target |-> form.target, manager |-> form.manager]

\* Requests that write a row that exists; the others only insert rows.
Ops == {"none", "hire", "update", "status", "edit", "terminate", "review"}
Pcs == {"idle", "read", "manager", "walk", "write", "insert", "file",
        "clear", "look", "decide", "activate", "root"}

\* row: what the handler is going to write; before its "read" of an agent, the
\* fields that the request asks for.  cursor and visited: current and visited
\* of detect_reporting_cycle.  form: the approval as it is going to be written.
Caller == [pc : Pcs, op : Ops, agent : Agents \cup {NoAgent}, row : Row,
           cursor : Agents \cup {NoAgent}, visited : SUBSET Agents,
           approval : Approvals \cup {NoApproval}, form : Approval]

Local(op, l, a, row, p, form) ==
  [pc |-> l, op |-> op, agent |-> a, row |-> row, cursor |-> NoAgent,
   visited |-> {}, approval |-> p, form |-> form]
Idle == Local("none", "idle", NoAgent, NoRow, NoApproval, NoForm)

Init ==
  /\ agent = [a \in Agents |-> NoRow]
  /\ origin = [a \in Agents |-> NoApproval]
  /\ approval = [p \in Approvals |-> NoForm]
  /\ caller = [c \in Callers |-> Idle]
  /\ requests = 0

-----------------------------------------------------------------------------
Exists(a) == agent[a].status # "absent"
Staff == {a \in Agents : Exists(a)}

\* Uuid::new_v4(): no row and no other request has this id.
Fresh(a) == ~Exists(a) /\ \A c \in Callers : caller[c].agent # a

At(c, l) == caller[c].pc = l
Goto(c, l) == caller' = [caller EXCEPT ![c].pc = l]
Return(c) == caller' = [caller EXCEPT ![c] = Idle]

Submit(c, local) ==
  /\ caller[c] = Idle
  /\ requests < MaxRequests
  /\ requests' = requests + 1
  /\ caller' = [caller EXCEPT ![c] = local]
  /\ UNCHANGED <<agent, origin, approval>>

\* update writes a row back, create inserts one, with or without a manager.
Store(op) == IF op = "update" THEN "write" ELSE "insert"
CheckManager(op, m) == IF m = NoAgent THEN Store(op) ELSE "manager"

\* AgentStateMachine::can_transition_to
CanTransition(s, t) ==
  /\ s # "terminated"
  /\ \/ s = t
     \/ t = "terminated"
     \/ <<s, t>> \in {<<"idle", "running">>, <<"idle", "pending_approval">>,
                      <<"running", "idle">>, <<"running", "paused">>,
                      <<"paused", "running">>, <<"paused", "idle">>,
                      <<"pending_approval", "idle">>, <<"pending_approval", "running">>}

-----------------------------------------------------------------------------
(* create and update: the manager and the walk up the reporting line       *)

\* POST agent-hires; the company decides whether a hire needs an approval.
RequestHire(c) ==
  \E a \in Agents, k \in Companies, m \in Staff \cup {NoAgent},
     s \in {"idle", "pending_approval"} :
    /\ Fresh(a)
    /\ Submit(c, Local("hire", CheckManager("hire", m), a,
                       [status |-> s, company |-> k, manager |-> m],
                       NoApproval, NoForm))

RequestUpdate(c) ==
  \E a \in Staff, m \in Staff \cup {NoAgent}, s \in Statuses \cup {"same"} :
    Submit(c, Local("update", "read", a,
                    [status |-> s, company |-> NoCompany, manager |-> m],
                    NoApproval, NoForm))

\* The row as it is read, with the fields of the request put over it.
MergedAsAsked(old, asked) ==
  [status |-> asked.status, company |-> old.company,
   manager |-> IF asked.manager = NoAgent THEN old.manager ELSE asked.manager]

Merged(old, asked) ==
  [status |-> IF asked.status = "same" THEN old.status ELSE asked.status,
   company |-> old.company,
   manager |-> IF asked.manager = NoAgent THEN old.manager ELSE asked.manager]

ReadForUpdate(c) ==
  LET old == agent[caller[c].agent]
      asked == caller[c].row
  IN /\ At(c, "read") /\ caller[c].op = "update"
     /\ IF /\ old.status \notin {"terminated", "pending_approval"}
           /\ asked.status = "same" \/ CanTransition(old.status, asked.status)
        THEN caller' = [caller EXCEPT
               ![c].row = Merged(old, asked),
               ![c].pc = CheckManager("update", asked.manager)]
        ELSE Return(c)
     /\ UNCHANGED <<agent, origin, approval, requests>>

\* validate_reports_to_assignment on the manager's row; the manager's status is
\* not looked at.  The id is that of a row, and rows are never deleted.
ReadManagerUnwalked(c) ==
  LET a == caller[c].agent
      row == caller[c].row
  IN /\ At(c, "manager")
     /\ IF row.manager # a /\ agent[row.manager].company = row.company
        THEN Goto(c, Store(caller[c].op))
        ELSE Return(c)
     /\ UNCHANGED <<agent, origin, approval, requests>>

ReadManagerOfAnyCompany(c) ==
  LET a == caller[c].agent
      row == caller[c].row
  IN /\ At(c, "manager")
     /\ IF row.manager # a
        THEN caller' = [caller EXCEPT ![c].pc = "walk", ![c].cursor = row.manager,
                                      ![c].visited = {a}]
        ELSE Return(c)
     /\ UNCHANGED <<agent, origin, approval, requests>>

ReadManager(c) ==
  LET a == caller[c].agent
      row == caller[c].row
  IN /\ At(c, "manager")
     /\ IF row.manager # a /\ agent[row.manager].company = row.company
        THEN caller' = [caller EXCEPT ![c].pc = "walk", ![c].cursor = row.manager,
                                      ![c].visited = {a}]
        ELSE Return(c)
     /\ UNCHANGED <<agent, origin, approval, requests>>

\* The loop of detect_reporting_cycle, one SELECT per level.  The agent itself
\* counts as visited, so each level adds one to the set.
Level(c) == Cardinality(caller[c].visited)

WalkFindsCycle(c) ==
  /\ At(c, "walk")
  /\ Level(c) <= WalkLimit
  /\ caller[c].cursor \in caller[c].visited
  /\ Return(c)
  /\ UNCHANGED <<agent, origin, approval, requests>>

WalkUp(c) ==
  LET at == caller[c].cursor
  IN /\ At(c, "walk")
     /\ Level(c) <= WalkLimit
     /\ at \notin caller[c].visited
     /\ agent[at].manager # NoAgent
     /\ caller' = [caller EXCEPT ![c].visited = caller[c].visited \cup {at},
                                 ![c].cursor = agent[at].manager]
     /\ UNCHANGED <<agent, origin, approval, requests>>

\* A root, a failed SELECT and the level limit all count as "no cycle".
WalkEnds(c) ==
  LET at == caller[c].cursor
  IN /\ At(c, "walk")
     /\ \/ Level(c) > WalkLimit
        \/ at \notin caller[c].visited /\ (agent[at].manager = NoAgent \/ ReadsMayFail)
     /\ Goto(c, Store(caller[c].op))
     /\ UNCHANGED <<agent, origin, approval, requests>>

\* A hire that needs an approval goes on to file it, as a second statement.
InsertAgent(c) ==
  LET a == caller[c].agent
      op == caller[c].op
  IN /\ At(c, "insert")
     /\ agent' = [agent EXCEPT ![a] = caller[c].row]
     /\ origin' = [origin EXCEPT ![a] = caller[c].approval]
     /\ IF op = "hire" /\ caller[c].row.status = "pending_approval"
        THEN Goto(c, "file")
        ELSE Return(c)
     /\ UNCHANGED <<approval, requests>>

\* UPDATE agents SET every column WHERE id = agent
WriteRow(c) ==
  /\ At(c, "write")
  /\ agent' = [agent EXCEPT ![caller[c].agent] = caller[c].row]
  /\ IF caller[c].op = "terminate" THEN Goto(c, "clear") ELSE Return(c)
  /\ UNCHANGED <<origin, approval, requests>>

-----------------------------------------------------------------------------
(* set_status, the other edits of a row, terminate and delete              *)

\* pause, resume, clear-error and approve of the agents API.
RequestStatus(c) ==
  \E a \in Staff, s \in {"paused", "running", "idle"} :
    Submit(c, Local("status", "read", a, WithStatus(NoRow, s),
                    NoApproval, NoForm))

ReadForStatusUnchecked(c) ==
  LET old == agent[caller[c].agent]
  IN /\ At(c, "read") /\ caller[c].op \in {"status", "review"}
     /\ caller' = [caller EXCEPT ![c].row = WithStatus(old, caller[c].row.status),
                                 ![c].pc = "write"]
     /\ UNCHANGED <<agent, origin, approval, requests>>

ReadForStatus(c) ==
  LET old == agent[caller[c].agent]
  IN /\ At(c, "read") /\ caller[c].op \in {"status", "review"}
     /\ IF old.status # "terminated"
        THEN caller' = [caller EXCEPT
               ![c].row = WithStatus(old, caller[c].row.status),
               ![c].pc = "write"]
        ELSE Return(c)
     /\ UNCHANGED <<agent, origin, approval, requests>>

\* Permissions, budget, instructions, bundle files and rollback of the
\* configuration: columns that are not modelled change, status and reports_to
\* are written back as they were read.
RequestEdit(c) ==
  \E a \in Staff : Submit(c, Local("edit", "read", a, NoRow, NoApproval, NoForm))

ReadForEdit(c) ==
  /\ At(c, "read") /\ caller[c].op = "edit"
  /\ caller' = [caller EXCEPT ![c].row = agent[caller[c].agent], ![c].pc = "write"]
  /\ UNCHANGED <<agent, origin, approval, requests>>

RequestTermination(c) ==
  \E a \in Staff : Submit(c, Local("terminate", "read", a, NoRow, NoApproval, NoForm))

ReadForTermination(c) ==
  LET old == agent[caller[c].agent]
  IN /\ At(c, "read") /\ caller[c].op = "terminate"
     /\ IF old.status # "terminated"
        THEN caller' = [caller EXCEPT ![c].row = WithStatus(old, "terminated"),
                                      ![c].pc = "write"]
        ELSE Return(c)
     /\ UNCHANGED <<agent, origin, approval, requests>>

\* cleanup_terminated_resources: clear_child_reports_to, one UPDATE.
ClearReports(c) ==
  /\ At(c, "clear")
  /\ agent' = [b \in Agents |->
                 IF agent[b].manager = caller[c].agent
                 THEN WithManager(agent[b], NoAgent) ELSE agent[b]]
  /\ Return(c)
  /\ UNCHANGED <<origin, approval, requests>>

-----------------------------------------------------------------------------
(* Approvals                                                               *)

\* The second half of a hire: ApprovalService::create with the agent's id.
FileApproval(c) ==
  \E p \in Approvals :
    /\ At(c, "file")
    /\ approval[p].status = "absent"
    /\ approval' = [approval EXCEPT ![p] =
         [status |-> "pending", company |-> caller[c].row.company,
          target |-> caller[c].agent, manager |-> caller[c].row.manager]]
    /\ Return(c)
    /\ UNCHANGED <<agent, origin, requests>>

\* POST approvals with a payload of the client's own.
CreateApproval ==
  \E p \in Approvals, k \in Companies, t, m \in Staff \cup {NoAgent} :
    /\ approval[p].status = "absent"
    /\ requests < MaxRequests
    /\ requests' = requests + 1
    /\ approval' = [approval EXCEPT ![p] =
         [status |-> "pending", company |-> k, target |-> t, manager |-> m]]
    /\ UNCHANGED <<agent, origin, caller>>

\* POST approvals/:id/resubmit, with the old payload or a new one.
ResubmitAnyApproval ==
  \E p \in Approvals, t, m \in Staff \cup {NoAgent} :
    /\ approval[p].status # "absent"
    /\ requests < MaxRequests
    /\ requests' = requests + 1
    /\ approval' = [approval EXCEPT ![p].status = "pending",
                                    ![p].target = t, ![p].manager = m]
    /\ UNCHANGED <<agent, origin, caller>>

ResubmitApproval ==
  \E p \in Approvals, t, m \in Staff \cup {NoAgent} :
    /\ approval[p].status = "revision_requested"
    /\ requests < MaxRequests
    /\ requests' = requests + 1
    /\ approval' = [approval EXCEPT ![p].status = "pending",
                                    ![p].target = t, ![p].manager = m]
    /\ UNCHANGED <<agent, origin, caller>>

\* approve, reject and request-revision; form carries the decision.
RequestReview(c) ==
  \E p \in Approvals, d \in Decisions :
    /\ approval[p].status # "absent"
    /\ Submit(c, Local("review", "look", NoAgent, NoRow, p,
                       Decided(NoForm, d)))

ReadApprovalOfAnyStatus(c) ==
  LET p == caller[c].approval
  IN /\ At(c, "look")
     /\ caller' = [caller EXCEPT
          ![c].form = Decided(approval[p], caller[c].form.status),
          ![c].pc = "decide"]
     /\ UNCHANGED <<agent, origin, approval, requests>>

ReadApproval(c) ==
  LET p == caller[c].approval
  IN /\ At(c, "look")
     /\ IF approval[p].status = "pending"
        THEN caller' = [caller EXCEPT
               ![c].form = Decided(approval[p], caller[c].form.status),
               ![c].pc = "decide"]
        ELSE Return(c)
     /\ UNCHANGED <<agent, origin, approval, requests>>

\* UPDATE approvals SET every column WHERE id = approval; then
\* execute_hire_agent goes on with the payload as it was read.
Decide(c) ==
  LET p == caller[c].approval
      form == caller[c].form
  IN /\ At(c, "decide")
     /\ approval' = [approval EXCEPT ![p] = form]
     /\ \/ form.status # "approved" /\ Return(c)
        \/ /\ form.status = "approved" /\ form.target # NoAgent
           /\ caller' = [caller EXCEPT
                ![c] = Local("review", "activate", form.target,
                             WithStatus(NoRow, "idle"), p, form)]
        \/ /\ form.status = "approved" /\ form.target = NoAgent
           /\ \E a \in Agents :
                /\ Fresh(a)
                /\ caller' = [caller EXCEPT
                     ![c] = Local("review",
                                  IF form.manager = NoAgent THEN "root" ELSE "manager", a,
                                  [status |-> "idle", company |-> form.company,
                                   manager |-> form.manager], p, form)]
     /\ UNCHANGED <<agent, origin, requests>>

\* activate_pending_agent reads the status, set_status reads the row again.
Activate(c) ==
  /\ At(c, "activate")
  /\ IF agent[caller[c].agent].status = "pending_approval"
     THEN Goto(c, "read")
     ELSE Return(c)
  /\ UNCHANGED <<agent, origin, approval, requests>>

Roots(k) == {b \in Staff : /\ agent[b].status # "terminated"
                           /\ agent[b].company = k
                           /\ agent[b].manager = NoAgent}

\* find_single_root_agent; an error of its query is "no root".
FindRoot(c) ==
  LET roots == Roots(caller[c].row.company)
  IN /\ At(c, "root")
     /\ \/ \E b \in roots :
             /\ roots = {b}
             /\ caller' = [caller EXCEPT ![c].row = WithManager(caller[c].row, b),
                                         ![c].pc = "manager"]
        \/ /\ Cardinality(roots) # 1 \/ ReadsMayFail
           /\ Goto(c, "insert")
     /\ UNCHANGED <<agent, origin, approval, requests>>

-----------------------------------------------------------------------------
(* Everybody else                                                          *)

\* The run coordinator sets the status of an agent with single-column updates.
RunWakes(a) ==
  /\ Exists(a)
  /\ agent' = [agent EXCEPT ![a].status = "running"]
  /\ UNCHANGED <<origin, approval, caller, requests>>

RunEnds(a) ==
  /\ agent[a].status = "running"
  /\ agent' = [agent EXCEPT ![a].status = "idle"]
  /\ UNCHANGED <<origin, approval, caller, requests>>

\* A statement fails, the client disconnects or the server stops: the handler
\* does not go on, what it has written stays.
Drop(c) ==
  /\ caller[c] # Idle
  /\ Return(c)
  /\ UNCHANGED <<agent, origin, approval, requests>>

Submits(c) ==
  \/ RequestHire(c) \/ RequestUpdate(c) \/ RequestStatus(c) \/ RequestEdit(c)
  \/ RequestTermination(c) \/ RequestReview(c)

Step(c) ==
  \/ ReadForUpdate(c) \/ ReadForStatus(c) \/ ReadForEdit(c) \/ ReadForTermination(c)
  \/ ReadManager(c) \/ WalkFindsCycle(c) \/ WalkUp(c) \/ WalkEnds(c)
  \/ InsertAgent(c) \/ WriteRow(c) \/ ClearReports(c) \/ FileApproval(c)
  \/ ReadApproval(c) \/ Decide(c) \/ Activate(c) \/ FindRoot(c) \/ Drop(c)

Next ==
  \/ \E c \in Callers : Submits(c) \/ Step(c)
  \/ CreateApproval \/ ResubmitApproval
  \/ \E a \in Agents : RunWakes(a) \/ RunEnds(a)

Spec == Init /\ [][Next]_vars

-----------------------------------------------------------------------------
(* Properties                                                              *)

\* Type invariant.  "same" never reaches the table.
TypeOK ==
  /\ agent \in [Agents -> Row]
  /\ \A a \in Agents : agent[a].status # "same"
  /\ origin \in [Agents -> Approvals \cup {NoApproval}]
  /\ approval \in [Approvals -> Approval]
  /\ caller \in [Callers -> Caller]
  /\ requests \in 0..MaxRequests

\* validate_reports_to_assignment, over the whole-row writes of stale rows: a
\* manager is an agent of the same company.
SameCompany ==
  \A a \in Agents : agent[a].manager # NoAgent =>
    /\ Exists(agent[a].manager)
    /\ agent[agent[a].manager].company = agent[a].company

\* review: one approval hires at most one new agent, whatever is revised,
\* resubmitted and dropped in between.  Two reviews at a time can break it:
\* RegistryHistory says what holds then.
OneHirePerApproval ==
  \A a, b \in Agents : origin[a] # NoApproval /\ origin[a] = origin[b] => a = b

=============================================================================
