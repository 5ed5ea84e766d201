------------------------ MODULE AgentRegistry_proofs ------------------------
(***************************************************************************)
(* Theorems about AgentRegistry for every number of agents, companies,     *)
(* approvals, callers and requests.                                        *)
(*                                                                         *)
(* A handler works on copies of rows that others rewrite.  What makes the  *)
(* copies safe to write is that rows only come into being and keep their   *)
(* company (Grows): Fits says, for each program counter, what a handler's  *)
(* locals have to do with the table, and Grows preserves it.               *)
(***************************************************************************)
EXTENDS AgentRegistry, FiniteSetTheorems, TLAPS

\* x is the NULL or the id of a row of the table ag.
There(x, ag) == x = NoAgent \/ (x \in Agents /\ ag[x].status # "absent")

\* The handler has an id of its own, for a row it has yet to insert.
Inserting(k) == k.pc \in {"root", "manager", "walk", "insert"} /\ k.op # "update"
\* The handler is about a row of the table.
Owning(k) == k.pc \notin {"idle", "look", "decide"} /\ ~Inserting(k)

\* The manager in a row is of the row's company.
Matches(row, ag) == row.manager # NoAgent => ag[row.manager].company = row.company

\* What the locals k of a handler have to do with the table ag.
Assigned(k) ==
  /\ k.pc \notin {"idle", "look", "decide"} => k.agent \in Agents
  /\ k.pc \in {"look", "decide"} => k.approval \in Approvals /\ k.form.status \in Decisions
  /\ k.pc \in {"activate", "root", "manager", "walk", "insert", "write", "file"} =>
       k.row.status \in Statuses
  /\ k.pc = "read" /\ k.op \in {"status", "review"} => k.row.status \in Statuses
  /\ k.pc = "read" => k.row.status # "absent" \/ k.op \in {"edit", "terminate"}
  /\ k.pc \in {"manager", "walk"} => k.row.manager \in Agents /\ k.op \in {"update", "hire", "review"}
  /\ k.pc = "walk" => k.cursor \in Agents
  /\ k.pc = "root" => k.row.manager = NoAgent
  /\ k.pc = "insert" => k.op # "update"
  /\ k.pc \in {"look", "decide", "activate", "root"} => k.op = "review"
Located(k, ag) ==
  /\ There(k.row.manager, ag) /\ There(k.form.target, ag) /\ There(k.form.manager, ag)
  /\ Inserting(k) => ag[k.agent].status = "absent"
  /\ Owning(k) => ag[k.agent].status # "absent"
Consistent(k, ag) ==
  /\ k.pc = "write" \/ (k.pc \in {"manager", "walk"} /\ k.op = "update") =>
       k.row.company = ag[k.agent].company
  /\ k.pc \in {"walk", "insert", "write"} => Matches(k.row, ag)
Fits(k, ag) == Assigned(k) /\ Located(k, ag) /\ Consistent(k, ag)

\* No two handlers have the same new id.
IdsFresh ==
  \A c, d \in Callers : c # d /\ Inserting(caller[c]) => caller[d].agent # caller[c].agent

CallersOK ==
  /\ caller \in [Callers -> Caller]
  /\ \A c \in Callers : Fits(caller[c], agent)
ApprovalsOK ==
  /\ approval \in [Approvals -> Approval]
  /\ \A p \in Approvals : There(approval[p].target, agent) /\ There(approval[p].manager, agent)
AgentsOK ==
  /\ agent \in [Agents -> Row]
  /\ \A a \in Agents : agent[a].status # "same"
  /\ \A a \in Agents : There(agent[a].manager, agent) /\ Matches(agent[a], agent)
OthersOK == origin \in [Agents -> Approvals \cup {NoApproval}] /\ requests \in 0..MaxRequests

IInv == AgentsOK /\ ApprovalsOK /\ CallersOK /\ IdsFresh /\ OthersOK

\* Rows are never deleted and keep their company.
Grows(ag, new) ==
  \A a \in Agents : ag[a].status # "absent" =>
    new[a].status # "absent" /\ new[a].company = ag[a].company

-----------------------------------------------------------------------------
(* Which actions write which table.                                        *)

\* The actions that write the agents table.
LEMMA AgentWriters ==
  ASSUME Next
  PROVE  \/ UNCHANGED agent
         \/ \E c \in Callers : InsertAgent(c) \/ WriteRow(c) \/ ClearReports(c)
         \/ \E a \in Agents : RunWakes(a) \/ RunEnds(a)
<1>1. ASSUME NEW c \in Callers, Submits(c)
      PROVE  UNCHANGED agent
  BY <1>1 DEF Submits, RequestHire, RequestUpdate, RequestStatus, RequestEdit,
              RequestTermination, RequestReview, Submit
<1>2. ASSUME NEW c \in Callers, Step(c)
      PROVE  UNCHANGED agent \/ InsertAgent(c) \/ WriteRow(c) \/ ClearReports(c)
  BY <1>2 DEF Step, ReadForUpdate, ReadForStatus, ReadForEdit, ReadForTermination, ReadManager,
              WalkFindsCycle, WalkUp, WalkEnds, FileApproval, ReadApproval, Decide, Activate,
              FindRoot, Drop
<1>3. CreateApproval \/ ResubmitApproval => UNCHANGED agent
  BY DEF CreateApproval, ResubmitApproval
<1> QED BY <1>1, <1>2, <1>3 DEF Next

\* The actions that write the approvals table.
LEMMA ApprovalWriters ==
  ASSUME Next
  PROVE  \/ UNCHANGED approval
         \/ \E c \in Callers : FileApproval(c) \/ Decide(c)
         \/ CreateApproval \/ ResubmitApproval
<1>1. ASSUME NEW c \in Callers, Submits(c)
      PROVE  UNCHANGED approval
  BY <1>1 DEF Submits, RequestHire, RequestUpdate, RequestStatus, RequestEdit,
              RequestTermination, RequestReview, Submit
<1>2. ASSUME NEW c \in Callers, Step(c)
      PROVE  UNCHANGED approval \/ FileApproval(c) \/ Decide(c)
  BY <1>2 DEF Step, ReadForUpdate, ReadForStatus, ReadForEdit, ReadForTermination, ReadManager,
              WalkFindsCycle, WalkUp, WalkEnds, InsertAgent, WriteRow, ClearReports, ReadApproval,
              Activate, FindRoot, Drop
<1>3. ASSUME NEW a \in Agents, RunWakes(a) \/ RunEnds(a)
      PROVE  UNCHANGED approval
  BY <1>3 DEF RunWakes, RunEnds
<1> QED BY <1>1, <1>2, <1>3 DEF Next

\* A handler changes its own locals only.
LEMMA CallerWriters ==
  ASSUME Next
  PROVE  \/ UNCHANGED caller
         \/ \E c \in Callers : /\ Submits(c) \/ Step(c)
                               /\ \E k : caller' = [caller EXCEPT ![c] = k]
<1>1. ASSUME NEW c \in Callers, Submits(c)
      PROVE  \E k : caller' = [caller EXCEPT ![c] = k]
  BY <1>1 DEF Submits, RequestHire, RequestUpdate, RequestStatus, RequestEdit,
              RequestTermination, RequestReview, Submit
<1>2. ASSUME NEW c \in Callers, Step(c)
      PROVE  \E k : caller' = [caller EXCEPT ![c] = k]
  BY <1>2 DEF Step, ReadForUpdate, ReadForStatus, ReadForEdit, ReadForTermination, ReadManager,
              WalkFindsCycle, WalkUp, WalkEnds, InsertAgent, WriteRow, ClearReports, FileApproval,
              ReadApproval, Decide, Activate, FindRoot, Drop, Goto, Return
<1>3. CreateApproval \/ ResubmitApproval => UNCHANGED caller
  BY DEF CreateApproval, ResubmitApproval
<1>4. ASSUME NEW a \in Agents, RunWakes(a) \/ RunEnds(a)
      PROVE  UNCHANGED caller
  BY <1>4 DEF RunWakes, RunEnds
<1> QED BY <1>1, <1>2, <1>3, <1>4 DEF Next

-----------------------------------------------------------------------------
(* The agents table.                                                       *)

\* A row whose manager existed and fitted still does after rows were added or moved
\* within their companies.
LEMMA MatchesStays ==
  ASSUME NEW ag \in [Agents -> Row], NEW new \in [Agents -> Row], Grows(ag, new),
         NEW row \in Row, There(row.manager, ag), Matches(row, ag)
  PROVE  There(row.manager, new) /\ Matches(row, new)
BY DEF Grows, There, Matches, Row

\* A row is inserted under a fresh id, written over itself or loses its manager.
LEMMA AgentsStep ==
  ASSUME IInv, [Next]_vars
  PROVE  /\ AgentsOK'
         /\ Grows(agent, agent')
         /\ \A d \in Callers : Inserting(caller[d]) =>
              agent'[caller[d].agent].status = "absent" \/ InsertAgent(d)
<1> DEFINE Keeps == \A d \in Callers : Inserting(caller[d]) =>
              agent'[caller[d].agent].status = "absent" \/ InsertAgent(d)
<1> USE ConstantsAssumption
<1>a. agent \in [Agents -> Row] /\ \A d \in Callers : caller[d] \in Caller
  BY DEF IInv, AgentsOK, CallersOK
<1>1. CASE UNCHANGED agent
  BY <1>1 DEF IInv, AgentsOK, CallersOK, Fits, Located, Grows, There, Matches, Row
<1>2. ASSUME NEW c \in Callers, InsertAgent(c)
      PROVE  AgentsOK' /\ Grows(agent, agent') /\ Keeps
  <2> DEFINE a == caller[c].agent
             row == caller[c].row
  <2>1. a \in Agents /\ agent[a].status = "absent" /\ row \in Row
        /\ row.status \in Statuses /\ There(row.manager, agent) /\ Matches(row, agent)
    BY <1>2 DEF InsertAgent, At, IInv, CallersOK, Fits, Assigned, Located, Consistent, Inserting,
                Caller
  <2>2. agent' = [agent EXCEPT ![a] = row] /\ agent' \in [Agents -> Row]
    BY <1>2, <1>a, <2>1 DEF InsertAgent
  <2>3. Grows(agent, agent')
    BY <2>1, <2>2, <1>a DEF Grows
  <2>4. ASSUME NEW b \in Agents
        PROVE  agent'[b].status # "same" /\ There(agent'[b].manager, agent')
               /\ Matches(agent'[b], agent')
    <3>1. agent'[b] \in Row /\ There(agent'[b].manager, agent) /\ Matches(agent'[b], agent)
          /\ agent'[b].status # "same"
      BY <2>1, <2>2, <1>a DEF IInv, AgentsOK, Statuses
    <3> QED BY <3>1, <2>2, <2>3, <1>a, MatchesStays
  <2>5. Keeps
    <3> SUFFICES ASSUME NEW d \in Callers, Inserting(caller[d]), d # c
                 PROVE  agent'[caller[d].agent].status = "absent"
      BY <1>2
    <3>1. caller[d].agent # a /\ caller[d].agent \in Agents
          /\ agent[caller[d].agent].status = "absent"
      BY DEF IInv, IdsFresh, CallersOK, Fits, Assigned, Located, Inserting
    <3> QED BY <3>1, <2>2, <1>a
  <2> QED BY <2>2, <2>3, <2>4, <2>5 DEF AgentsOK
<1>3. ASSUME NEW c \in Callers, WriteRow(c)
      PROVE  AgentsOK' /\ Grows(agent, agent') /\ Keeps
  <2> DEFINE a == caller[c].agent
             row == caller[c].row
  <2>1. a \in Agents /\ agent[a].status # "absent" /\ row \in Row /\ row.company = agent[a].company
        /\ row.status \in Statuses /\ There(row.manager, agent) /\ Matches(row, agent)
    BY <1>3 DEF WriteRow, At, IInv, CallersOK, Fits, Assigned, Located, Consistent, Inserting,
                Owning, Caller
  <2>2. agent' = [agent EXCEPT ![a] = row] /\ agent' \in [Agents -> Row]
    BY <1>3, <1>a, <2>1 DEF WriteRow
  <2>3. Grows(agent, agent')
    BY <2>1, <2>2, <1>a DEF Grows, Statuses
  <2>4. ASSUME NEW b \in Agents
        PROVE  agent'[b].status # "same" /\ There(agent'[b].manager, agent')
               /\ Matches(agent'[b], agent')
    <3>1. agent'[b] \in Row /\ There(agent'[b].manager, agent) /\ Matches(agent'[b], agent)
          /\ agent'[b].status # "same"
      BY <2>1, <2>2, <1>a DEF IInv, AgentsOK, Statuses
    <3> QED BY <3>1, <2>2, <2>3, <1>a, MatchesStays
  <2>5. Keeps
    <3> SUFFICES ASSUME NEW d \in Callers, Inserting(caller[d])
                 PROVE  agent'[caller[d].agent].status = "absent"
      OBVIOUS
    <3>1. caller[d].agent \in Agents /\ agent[caller[d].agent].status = "absent"
      BY DEF IInv, CallersOK, Fits, Assigned, Located, Inserting
    <3> QED BY <3>1, <2>1, <2>2, <1>a
  <2> QED BY <2>2, <2>3, <2>4, <2>5 DEF AgentsOK
<1>4. ASSUME NEW c \in Callers, ClearReports(c)
      PROVE  AgentsOK' /\ Grows(agent, agent') /\ Keeps
  <2>1. agent' \in [Agents -> Row]
        /\ \A b \in Agents : /\ agent'[b].status = agent[b].status
                             /\ agent'[b].company = agent[b].company
                             /\ agent'[b].manager \in {agent[b].manager, NoAgent}
    BY <1>4, <1>a DEF ClearReports, WithManager, Row
  <2>2. Grows(agent, agent') BY <2>1 DEF Grows
  <2>3. AgentsOK'
    BY <2>1, <1>a DEF IInv, AgentsOK, There, Matches, Row
  <2>4. Keeps
    BY <2>1 DEF IInv, CallersOK, Fits, Assigned, Located, Inserting
  <2> QED BY <2>2, <2>3, <2>4
<1>5. ASSUME NEW x \in Agents, RunWakes(x) \/ RunEnds(x)
      PROVE  AgentsOK' /\ Grows(agent, agent') /\ Keeps
  <2>1. agent' \in [Agents -> Row]
        /\ \A b \in Agents : /\ agent'[b].status \in {agent[b].status, "running", "idle"}
                             /\ agent[b].status = "absent" => agent'[b].status = "absent"
                             /\ agent'[b].company = agent[b].company
                             /\ agent'[b].manager = agent[b].manager
    BY <1>5, <1>a DEF RunWakes, RunEnds, Exists, Row, Statuses
  <2>2. Grows(agent, agent') BY <2>1 DEF Grows
  <2>3. AgentsOK'
    BY <2>1, <1>a DEF IInv, AgentsOK, There, Matches, Row
  <2>4. Keeps
    BY <2>1 DEF IInv, CallersOK, Fits, Assigned, Located, Inserting
  <2> QED BY <2>2, <2>3, <2>4
<1> QED BY <1>1, <1>2, <1>3, <1>4, <1>5, AgentWriters DEF vars

-----------------------------------------------------------------------------
(* The handlers.                                                           *)

\* What others do to the table leaves a handler's locals fitting.
LEMMA FitsStays ==
  ASSUME NEW k \in Caller, NEW ag \in [Agents -> Row], NEW new \in [Agents -> Row],
         Fits(k, ag), Grows(ag, new), Inserting(k) => new[k.agent].status = "absent"
  PROVE  Fits(k, new)
<1> USE ConstantsAssumption
<1>1. Assigned(k)
  BY DEF Fits
<1>2. Located(k, new)
  BY DEF Fits, Assigned, Located, There, Grows, Owning, Inserting
<1>3. Consistent(k, new)
  <2>1. k.pc = "write" \/ (k.pc \in {"manager", "walk"} /\ k.op = "update") =>
          k.row.company = new[k.agent].company
    BY DEF Fits, Assigned, Located, Consistent, Grows, Owning, Inserting
  <2>2. k.row \in Row /\ There(k.row.manager, ag)
    BY DEF Caller, Fits, Located
  <2>3. k.pc \in {"walk", "insert", "write"} => Matches(k.row, new)
    BY <2>2, MatchesStays DEF Fits, Consistent
  <2> QED BY <2>1, <2>3 DEF Consistent
<1> QED BY <1>1, <1>2, <1>3 DEF Fits

\* A handler without a request holds nothing.
LEMMA IdleFits ==
  ASSUME NEW ag \in [Agents -> Row]
  PROVE  Idle \in Caller /\ Fits(Idle, ag)
BY ConstantsAssumption
DEF Idle, Local, NoRow, NoForm, Caller, Pcs, Ops, Row, Approval, Fits, Assigned, Located,
    Consistent, There, Inserting, Owning

\* A request begins with an id of the table or a fresh one.
LEMMA SubmitsFit ==
  ASSUME IInv, NEW c \in Callers, Submits(c)
  PROVE  caller'[c] \in Caller /\ Fits(caller'[c], agent)
<1> USE ConstantsAssumption
    DEF Submit, Local, NoRow, NoForm, WithStatus, Decided, Caller, Pcs, Ops, Row,
        Approval, Statuses, Decisions, Fits, Assigned, Located, Consistent, There, Matches,
        Inserting, Owning, Staff, Exists
<1>0. caller \in [Callers -> Caller]
  BY DEF IInv, CallersOK
<1>1. CASE RequestHire(c)
  BY <1>1, <1>0 DEF RequestHire, CheckManager, Store, Fresh
<1>2. CASE RequestUpdate(c)
  BY <1>2, <1>0 DEF RequestUpdate
<1>3. CASE RequestStatus(c)
  BY <1>3, <1>0 DEF RequestStatus
<1>4. CASE RequestEdit(c)
  BY <1>4, <1>0 DEF RequestEdit
<1>5. CASE RequestTermination(c)
  BY <1>5, <1>0 DEF RequestTermination
<1>6. CASE RequestReview(c)
  BY <1>6, <1>0 DEF RequestReview
<1> QED BY <1>1, <1>2, <1>3, <1>4, <1>5, <1>6 DEF Submits

\* The steps that end the handler, and those that look at an approval.
LEMMA ReviewsFit ==
  ASSUME IInv, NEW c \in Callers, ReadApproval(c) \/ Decide(c) \/ Activate(c) \/ FindRoot(c)
  PROVE  caller'[c] \in Caller /\ Fits(caller'[c], agent)
<1>0. caller \in [Callers -> Caller] /\ Fits(caller[c], agent) /\ agent \in [Agents -> Row]
      /\ ApprovalsOK /\ Idle \in Caller /\ Fits(Idle, agent)
  BY IdleFits DEF IInv, CallersOK, AgentsOK
<1> USE ConstantsAssumption
    DEF At, Goto, Return, Local, NoRow, NoForm, WithStatus, Decided, Caller, Pcs, Ops,
        Row, Approval, Statuses, Decisions, Fits, Assigned, Located, Consistent, There, Matches,
        Inserting, Owning, Exists
<1>1. CASE ReadApproval(c)
  <2> DEFINE k == caller[c]
             form == Decided(approval[k.approval], k.form.status)
  <2>1. k \in Caller /\ k.pc = "look" /\ Fits(k, agent)
    BY <1>1, <1>0 DEF ReadApproval
  <2>2. k.approval \in Approvals /\ k.form.status \in Decisions /\ k.op = "review"
    BY <2>1
  <2>3. form \in Approval /\ There(form.target, agent) /\ There(form.manager, agent)
        /\ form.status = k.form.status
    BY <2>2, <1>0 DEF ApprovalsOK
  <2>4. \/ caller'[c] = Idle
        \/ caller'[c] = [k EXCEPT !.form = form, !.pc = "decide"]
    BY <1>1, <1>0, ZenonT(40) DEF ReadApproval
  <2>5. ASSUME caller'[c] = [k EXCEPT !.form = form, !.pc = "decide"]
        PROVE  caller'[c] \in Caller /\ Fits(caller'[c], agent)
    <3> DEFINE m == caller'[c]
    <3>0. /\ m \in Caller /\ m.pc = "decide" /\ m.form = form
          /\ \A f \in {"op", "approval", "agent", "row"} : m[f] = k[f]
      <4> HIDE DEF form
      <4> QED BY <2>1, <2>3, <2>5, ZenonT(40)
    <3> HIDE DEF form, m
    <3>1. m.approval \in Approvals /\ m.form.status \in Decisions /\ m.op = "review"
      BY <2>2, <2>3, <3>0
    <3>2. Assigned(m) BY <3>0, <3>1
    <3>3. There(m.row.manager, agent)
      BY <2>1, <3>0
    <3>4. Located(m, agent) BY <2>3, <3>0, <3>3
    <3>5. Consistent(m, agent) BY <3>0
    <3> QED BY <3>0, <3>2, <3>4, <3>5 DEF m
  <2> HIDE DEF k, form, Caller, Fits
  <2> QED BY <2>4, <2>5, <1>0
<1>2. CASE Decide(c)
  <2> DEFINE k == caller[c]
  <2>1. k \in Caller /\ k.pc = "decide" /\ Fits(k, agent)
    BY <1>2, <1>0 DEF Decide
  <2>2. k.approval \in Approvals /\ k.form \in Approval
        /\ There(k.form.target, agent) /\ There(k.form.manager, agent)
    BY <2>1
  <2>3. CASE caller' = [caller EXCEPT ![c] = Idle]
    BY <2>3, <1>0
  <2>4. CASE /\ k.form.target # NoAgent
             /\ caller' = [caller EXCEPT ![c] = Local("review", "activate", k.form.target,
                             WithStatus(NoRow, "idle"), k.approval, k.form)]
    BY <2>2, <2>4, <1>0
  <2>5. CASE ~(caller' = [caller EXCEPT ![c] = Idle]) /\ k.form.target = NoAgent
    <3>1. PICK a \in Agents : Fresh(a) /\ caller' = [caller EXCEPT
             ![c] = Local("review", IF k.form.manager = NoAgent THEN "root" ELSE "manager", a,
                          [status |-> "idle", company |-> k.form.company,
                           manager |-> k.form.manager], k.approval, k.form)]
      BY <1>2, <2>5, <1>0 DEF Decide
    <3> DEFINE m == caller'[c]
               row == [status |-> "idle", company |-> k.form.company, manager |-> k.form.manager]
    <3> HIDE DEF k
    <3>2. row \in Row /\ row.status \in Statuses /\ row.manager = k.form.manager
          /\ k.form.manager \in Agents \cup {NoAgent}
      BY <2>2
    <3> HIDE DEF row
    <3>3. m = Local("review", IF k.form.manager = NoAgent THEN "root" ELSE "manager", a, row,
                    k.approval, k.form)
      BY <3>1, <1>0 DEF row
    <3>4. m \in Caller /\ m.op = "review" /\ m.agent = a /\ m.row = row /\ m.form = k.form
          /\ m.pc = IF k.form.manager = NoAgent THEN "root" ELSE "manager"
      BY <2>2, <3>2, <3>3
    <3> HIDE DEF m
    <3>5. Assigned(m) BY <3>2, <3>4
    <3>6. Located(m, agent) BY <2>2, <3>1, <3>2, <3>4 DEF Fresh
    <3>7. Consistent(m, agent) BY <3>4
    <3> QED BY <3>4, <3>5, <3>6, <3>7 DEF m
  <2> HIDE DEF Caller, Fits
  <2> QED BY <1>2, <2>3, <2>4, <2>5 DEF Decide
<1>3. CASE Activate(c)
  <2> DEFINE k == caller[c]
             k2 == caller'[c]
  <2>1. k \in Caller /\ k.pc = "activate" /\ Fits(k, agent)
        /\ (k2 = Idle \/ k2 = [k EXCEPT !.pc = "read"])
    BY <1>3, <1>0, ZenonT(40) DEF Activate
  <2>2. ASSUME k2 = [k EXCEPT !.pc = "read"]
        PROVE  k2 \in Caller /\ Fits(k2, agent)
    <3> HIDE DEF k, k2
    <3>1. /\ k2 \in Caller /\ k2.pc = "read" /\ k2.op = k.op /\ k2.agent = k.agent
          /\ k2.row = k.row /\ k2.form = k.form
      BY <2>1, <2>2
    <3>2. Assigned(k2) BY <2>1, <3>1
    <3>3. Located(k2, agent) BY <2>1, <3>1
    <3>4. Consistent(k2, agent) BY <2>1, <3>1
    <3> QED BY <3>1, <3>2, <3>3, <3>4
  <2> HIDE DEF Caller, Fits
  <2> QED BY <2>1, <2>2, <1>0
<1>4. CASE FindRoot(c)
  <2>1. CASE caller' = [caller EXCEPT ![c].pc = "insert"]
    <3>1. caller[c] \in Caller /\ caller'[c] = [caller[c] EXCEPT !.pc = "insert"]
          /\ caller[c].pc = "root"
      BY <2>1, <1>4, <1>0, ZenonT(40) DEF FindRoot
    <3>2. caller'[c] \in Caller BY <3>1
    <3>3. Assigned(caller'[c]) /\ Located(caller'[c], agent) BY <3>1, <1>0
    <3>4. Consistent(caller'[c], agent) BY <3>1, <1>0
    <3> QED BY <3>2, <3>3, <3>4
  <2>2. ASSUME NEW b \in Roots(caller[c].row.company),
               caller' = [caller EXCEPT ![c].row = WithManager(caller[c].row, b),
                                        ![c].pc = "manager"]
        PROVE  caller'[c] \in Caller /\ Fits(caller'[c], agent)
    <3> DEFINE row == WithManager(caller[c].row, b)
    <3>1. b \in Agents /\ agent[b].status # "absent"
      BY <2>2 DEF Roots, Staff
    <3>2. row \in Row /\ row.status = caller[c].row.status /\ row.manager = b
      BY <1>0, <3>1 DEF WithManager
    <3> HIDE DEF row
    <3> DEFINE k == caller[c]
               k2 == caller'[c]
    <3>3. k2 = [[k EXCEPT !.row = row] EXCEPT !.pc = "manager"] /\ k \in Caller /\ k.pc = "root"
      BY <2>2, <1>4, <1>0, ZenonT(40) DEF row, FindRoot
    <3>4. Fits(k, agent) BY <1>0
    <3> HIDE DEF k, k2
    <3>5. k2 \in Caller /\ k2.pc = "manager" /\ k2.row = row /\ k2.op = k.op /\ k2.agent = k.agent
          /\ k2.form = k.form
      BY <3>2, <3>3
    <3>6. row.manager = b /\ row.status \in Statuses
      BY <3>2, <3>3, <3>4 DEF k
    <3>7. Assigned(k2) BY <3>1, <3>3, <3>4, <3>5, <3>6
    <3>8. Located(k2, agent) BY <3>1, <3>3, <3>4, <3>5, <3>6
    <3>9. Consistent(k2, agent) BY <3>3, <3>4, <3>5
    <3> QED BY <3>5, <3>7, <3>8, <3>9 DEF k2
  <2> QED BY <2>1, <2>2, <1>4 DEF FindRoot
<1> QED BY <1>1, <1>2, <1>3, <1>4

\* create, update and the walk.
LEMMA WalksFit ==
  ASSUME IInv, NEW c \in Callers,
         \/ ReadForUpdate(c) \/ ReadManager(c) \/ WalkFindsCycle(c) \/ WalkUp(c) \/ WalkEnds(c)
  PROVE  caller'[c] \in Caller /\ Fits(caller'[c], agent)
<1>0. caller \in [Callers -> Caller] /\ Fits(caller[c], agent) /\ AgentsOK
      /\ Idle \in Caller /\ Fits(Idle, agent)
  BY IdleFits DEF IInv, CallersOK, AgentsOK
<1> USE ConstantsAssumption
    DEF At, Goto, Return, Caller, Pcs, Ops, Row, Statuses, Fits, Assigned, Located,
        Consistent, There, Matches, Inserting, Owning, CheckManager, Store
<1>1. CASE ReadForUpdate(c)
  <2> DEFINE old == agent[caller[c].agent]
             asked == caller[c].row
             row == Merged(old, asked)
  <2>1. CASE caller'[c] = Idle
    BY <2>1, <1>0
  <2>2. CASE caller' = [caller EXCEPT ![c].row = row,
                                      ![c].pc = CheckManager("update", asked.manager)]
    <3>1. caller[c].agent \in Agents /\ old.status # "absent" /\ old \in Row /\ asked \in Row
          /\ asked.status # "absent" /\ There(asked.manager, agent) /\ There(old.manager, agent)
          /\ Matches(old, agent) /\ old.status # "same"
      BY <1>0, <1>1 DEF ReadForUpdate, AgentsOK
    <3>2. row \in Row /\ row.status \in Statuses /\ row.company = old.company
          /\ There(row.manager, agent)
          /\ row.manager = IF asked.manager = NoAgent THEN old.manager ELSE asked.manager
      BY <3>1 DEF Merged
    <3> HIDE DEF row
    <3> DEFINE k == caller[c]
               k2 == caller'[c]
               l == IF asked.manager = NoAgent THEN "write" ELSE "manager"
    <3>3. k2 = [[k EXCEPT !.row = row] EXCEPT !.pc = l] /\ k \in Caller /\ k.op = "update"
          /\ k.pc = "read" /\ Fits(k, agent) /\ asked \in Row
      BY <2>2, <1>1, <1>0 DEF ReadForUpdate
    <3>4. row.manager \in Agents \/ l = "write"
      BY <3>1, <3>2
    <3>5. l \in {"write", "manager"} OBVIOUS
    <3>6. k.agent \in Agents /\ row.company = agent[k.agent].company
          /\ agent[k.agent].status # "absent" /\ (l = "write" => Matches(row, agent))
      BY <3>1, <3>2
    <3> HIDE DEF k, k2, l
    <3>7. k2 \in Caller /\ k2.pc = l /\ k2.row = row /\ k2.op = k.op /\ k2.agent = k.agent
          /\ k2.form = k.form
      BY <3>2, <3>3, <3>5
    <3>8. Assigned(k2) BY <3>2, <3>3, <3>4, <3>5, <3>6, <3>7
    <3>9. Located(k2, agent) BY <3>2, <3>3, <3>5, <3>6, <3>7
    <3>10. Consistent(k2, agent) BY <3>3, <3>5, <3>6, <3>7
    <3> QED BY <3>7, <3>8, <3>9, <3>10 DEF k2
  <2> QED BY <2>1, <2>2, <1>1, <1>0, ZenonT(40) DEF ReadForUpdate
<1>2. CASE ReadManager(c)
  <2> DEFINE k == caller[c]
             k2 == caller'[c]
  <2>1. k \in Caller /\ k.pc = "manager" /\ Fits(k, agent) /\ k.row.manager \in Agents
    BY <1>2, <1>0 DEF ReadManager
  <2>2. CASE k2 = Idle
    BY <2>2, <1>0
  <2>3. CASE ~(k2 = Idle)
    <3>1. agent[k.row.manager].company = k.row.company
          /\ k2 = [[[k EXCEPT !.pc = "walk"] EXCEPT !.cursor = k.row.manager]
                     EXCEPT !.visited = {k.agent}]
      <4>1. ~Return(c)
        BY <1>0, <2>3
      <4>2. agent[k.row.manager].company = k.row.company
            /\ caller' = [caller EXCEPT ![c].pc = "walk", ![c].cursor = k.row.manager,
                                        ![c].visited = {k.agent}]
        <5> HIDE DEF Caller, Fits, Return
        <5> QED BY <1>2, <4>1 DEF ReadManager
      <4> HIDE DEF Caller, Fits
      <4> QED BY <1>0, <4>2
    <3> HIDE DEF k, k2
    <3>2. k2 \in Caller /\ k2.pc = "walk" /\ k2.row = k.row /\ k2.op = k.op
          /\ k2.agent = k.agent /\ k2.form = k.form /\ k2.cursor \in Agents
      BY <2>1, <3>1
    <3>3. Assigned(k2) BY <2>1, <3>2
    <3>4. Located(k2, agent) BY <2>1, <3>2
    <3>5. Consistent(k2, agent) BY <2>1, <3>1, <3>2
    <3> QED BY <3>2, <3>3, <3>4, <3>5 DEF k2
  <2> QED BY <2>2, <2>3
<1>3. CASE WalkFindsCycle(c)
  BY <1>3, <1>0 DEF WalkFindsCycle
<1>4. CASE WalkUp(c)
  <2> DEFINE k == caller[c]
             k2 == caller'[c]
             m == agent[k.cursor].manager
  <2>0. k \in Caller /\ k.pc = "walk" /\ Fits(k, agent) /\ k.cursor \in Agents
    BY <1>4, <1>0 DEF WalkUp
  <2>1. /\ k \in Caller /\ k.pc = "walk" /\ Fits(k, agent) /\ k.cursor \in Agents
        /\ m \in Agents
        /\ k2 = [[k EXCEPT !.visited = k.visited \cup {k.cursor}] EXCEPT !.cursor = m]
    <3>1. agent[k.cursor] \in Row BY <2>0, <1>0 DEF AgentsOK
    <3>2. m \in Agents BY <3>1, <1>4 DEF WalkUp
    <3>3. k2 = [[k EXCEPT !.visited = k.visited \cup {k.cursor}] EXCEPT !.cursor = m]
      BY <1>4, <1>0 DEF WalkUp
    <3> HIDE DEF k, k2, m, Caller, Fits
    <3> QED BY <2>0, <3>2, <3>3
  <2> HIDE DEF k, k2, m
  <2>2. k2 \in Caller /\ k2.pc = "walk" /\ k2.row = k.row /\ k2.op = k.op /\ k2.agent = k.agent
        /\ k2.form = k.form /\ k2.cursor \in Agents
    BY <2>1
  <2>3. Assigned(k2) BY <2>1, <2>2
  <2>4. Located(k2, agent) BY <2>1, <2>2
  <2>5. Consistent(k2, agent) BY <2>1, <2>2
  <2> QED BY <2>2, <2>3, <2>4, <2>5 DEF k2
<1>5. CASE WalkEnds(c)
  BY <1>5, <1>0 DEF WalkEnds
<1> QED BY <1>1, <1>2, <1>3, <1>4, <1>5

\* A handler that has read its agent may write a row of the same company back.
LEMMA WriteFits ==
  ASSUME NEW k \in Caller, NEW row \in Row, Fits(k, agent), k.pc = "read",
         agent[k.agent].status # "absent", row.company = agent[k.agent].company,
         row.status \in Statuses, There(row.manager, agent), Matches(row, agent)
  PROVE  /\ [k EXCEPT !.row = row, !.pc = "write"] \in Caller
         /\ Fits([k EXCEPT !.row = row, !.pc = "write"], agent)
<1> DEFINE m == [k EXCEPT !.row = row, !.pc = "write"]
<1>1. m \in Caller /\ m.pc = "write" /\ m.row = row /\ m.op = k.op /\ m.agent = k.agent
      /\ m.form = k.form
  BY DEF Caller, Pcs
<1>2. k.agent \in Agents /\ There(k.form.target, agent) /\ There(k.form.manager, agent)
  BY DEF Fits, Assigned, Located
<1> HIDE DEF m
<1>3. Assigned(m)
  BY <1>1, <1>2 DEF Assigned
<1>4. Located(m, agent)
  BY <1>1, <1>2 DEF Located, Inserting
<1>5. Consistent(m, agent)
  BY <1>1 DEF Consistent
<1> QED BY <1>1, <1>3, <1>4, <1>5 DEF Fits, m

\* set_status, the edits and terminate; filing and dropping.
LEMMA EditsFit ==
  ASSUME IInv, NEW c \in Callers,
         \/ ReadForStatus(c) \/ ReadForEdit(c) \/ ReadForTermination(c)
         \/ FileApproval(c) \/ Drop(c)
  PROVE  caller'[c] \in Caller /\ Fits(caller'[c], agent)
<1>0. caller \in [Callers -> Caller] /\ Fits(caller[c], agent) /\ AgentsOK
      /\ Idle \in Caller /\ Fits(Idle, agent)
  BY IdleFits DEF IInv, CallersOK, AgentsOK
<1> USE ConstantsAssumption
    DEF At, Goto, Return, WithStatus, Caller, Pcs, Ops, Row, Statuses, Fits, Assigned,
        Located, Consistent, There, Matches, Inserting, Owning
<1>1. \/ caller'[c] = Idle \/ FileApproval(c) \/ Drop(c)
      \/ \E row : /\ caller[c].pc = "read" /\ row \in Row /\ row.status \in Statuses
                  /\ agent[caller[c].agent].status # "absent"
                  /\ row.company = agent[caller[c].agent].company
                  /\ row.manager = agent[caller[c].agent].manager
                  /\ caller'[c] = [caller[c] EXCEPT !.row = row, !.pc = "write"]
  <2> DEFINE old == agent[caller[c].agent]
  <2>0. caller[c] \in Caller /\ (caller[c].pc = "read" => caller[c].agent \in Agents /\ old \in Row
        /\ old.status # "absent" /\ old.status # "same")
    BY <1>0 DEF AgentsOK
  <2> HIDE DEF old
  <2>1. CASE ReadForStatus(c)
    <3> DEFINE row == WithStatus(old, caller[c].row.status)
    <3>1. caller[c].pc = "read" /\ caller[c].row.status \in Statuses
      BY <2>1, <1>0 DEF ReadForStatus
    <3>2. row \in Row /\ row.status \in Statuses /\ row.company = old.company
          /\ row.manager = old.manager
      BY <2>0, <3>1
    <3> HIDE DEF row
    <3>3. caller'[c] = Idle \/ caller'[c] = [caller[c] EXCEPT !.row = row, !.pc = "write"]
      BY <2>1, <1>0 DEF ReadForStatus, row, old
    <3> QED BY <2>0, <3>1, <3>2, <3>3 DEF old
  <2>2. CASE ReadForEdit(c)
    <3>1. caller[c].pc = "read" BY <2>2 DEF ReadForEdit
    <3>2. caller'[c] = [caller[c] EXCEPT !.row = old, !.pc = "write"]
      BY <2>2, <1>0 DEF ReadForEdit, old
    <3>3. old.status \in Statuses BY <2>0, <3>1
    <3> QED BY <2>0, <3>1, <3>2, <3>3 DEF old
  <2>3. CASE ReadForTermination(c)
    <3> DEFINE row == WithStatus(old, "terminated")
    <3>1. caller[c].pc = "read" BY <2>3 DEF ReadForTermination
    <3>2. row \in Row /\ row.status \in Statuses /\ row.company = old.company
          /\ row.manager = old.manager
      BY <2>0, <3>1
    <3> HIDE DEF row
    <3>3. caller'[c] = Idle \/ caller'[c] = [caller[c] EXCEPT !.row = row, !.pc = "write"]
      BY <2>3, <1>0 DEF ReadForTermination, row, old
    <3> QED BY <2>0, <3>1, <3>2, <3>3 DEF old
  <2> QED BY <2>1, <2>2, <2>3
<1>2. CASE caller'[c] = Idle
  BY <1>2, <1>0
<1>3. ASSUME NEW row \in Row, row.status \in Statuses, caller[c].pc = "read",
             agent[caller[c].agent].status # "absent",
             row.company = agent[caller[c].agent].company,
             row.manager = agent[caller[c].agent].manager,
             caller'[c] = [caller[c] EXCEPT !.row = row, !.pc = "write"]
      PROVE  caller'[c] \in Caller /\ Fits(caller'[c], agent)
  <2>1. caller[c] \in Caller /\ caller[c].agent \in Agents
    BY <1>0, <1>3
  <2>2. There(row.manager, agent) /\ Matches(row, agent)
    <3> DEFINE old == agent[caller[c].agent]
    <3> HIDE DEF There, Matches, Caller, Fits, Row
    <3>1. There(old.manager, agent) /\ Matches(old, agent)
      BY <1>0, <2>1 DEF AgentsOK
    <3> HIDE DEF old
    <3>2. row.manager = old.manager /\ row.company = old.company
      BY <1>3 DEF old
    <3> QED BY <3>1, <3>2 DEF There, Matches
  <2> HIDE DEF Caller, Fits, There, Matches, Row, Statuses
  <2> DEFINE k == caller[c]
  <2>3. [k EXCEPT !.row = row, !.pc = "write"] \in Caller
        /\ Fits([k EXCEPT !.row = row, !.pc = "write"], agent)
    <3> HIDE DEF k
    <3>1. k \in Caller /\ Fits(k, agent) /\ k.pc = "read" /\ agent[k.agent].status # "absent"
          /\ row.company = agent[k.agent].company
      BY <1>0, <1>3, <2>1 DEF k
    <3> QED BY <1>3, <2>2, <3>1, WriteFits
  <2> QED BY <1>3, <2>3
<1>4. CASE FileApproval(c)
  BY <1>4, <1>0 DEF FileApproval
<1>5. CASE Drop(c)
  BY <1>5, <1>0 DEF Drop
<1> HIDE DEF Caller, Fits
<1> QED BY <1>1, <1>2, <1>3, <1>4, <1>5

\* The statements that write the table.
LEMMA WritersFit ==
  ASSUME IInv, NEW c \in Callers, InsertAgent(c) \/ WriteRow(c) \/ ClearReports(c)
  PROVE  caller'[c] \in Caller /\ Fits(caller'[c], agent')
<1> USE ConstantsAssumption
<1>0. caller \in [Callers -> Caller] /\ Fits(caller[c], agent) /\ AgentsOK
  BY DEF IInv, CallersOK
<1>1. [Next]_vars
  BY DEF Next, Step
<1>2. agent' \in [Agents -> Row] /\ Grows(agent, agent') /\ Idle \in Caller /\ Fits(Idle, agent')
      /\ AgentsOK'
  BY <1>1, AgentsStep, IdleFits DEF AgentsOK
<1> USE DEF At, Goto, Return, Caller, Pcs, Fits, Assigned, Located, Consistent, There, Matches,
            Inserting, Owning, Grows
<1>3. CASE InsertAgent(c)
  <2>1. CASE caller'[c] = Idle
    BY <2>1, <1>2
  <2>2. CASE caller' = [caller EXCEPT ![c].pc = "file"] /\ caller[c].op = "hire"
    <3>1. agent'[caller[c].agent].status # "absent"
      BY <1>3, <1>0 DEF InsertAgent, AgentsOK, Statuses
    <3>2. There(caller[c].row.manager, agent') /\ There(caller[c].form.target, agent')
          /\ There(caller[c].form.manager, agent')
      BY <1>0, <1>2
    <3> QED BY <3>1, <3>2, <2>2, <1>3, <1>0, ZenonT(40) DEF InsertAgent
  <2> QED BY <2>1, <2>2, <1>3, <1>0 DEF InsertAgent
<1>4. CASE WriteRow(c)
  <2>1. CASE caller'[c] = Idle
    BY <2>1, <1>2
  <2>2. CASE caller' = [caller EXCEPT ![c].pc = "clear"]
    <3> DEFINE k == caller[c]
               m == caller'[c]
    <3>1. k \in Caller /\ k.pc = "write" /\ Fits(k, agent)
      BY <1>4, <1>0 DEF WriteRow
    <3>2. m \in Caller /\ m.pc = "clear" /\ m.op = k.op /\ m.agent = k.agent /\ m.row = k.row
          /\ m.form = k.form
      BY <2>2, <3>1, <1>0
    <3> HIDE DEF k, m
    <3>3. k.agent \in Agents /\ agent[k.agent].status # "absent"
      BY <3>1
    <3>4. Assigned(m)
      BY <3>2, <3>3
    <3>5. Located(m, agent')
      BY <1>2, <3>1, <3>2, <3>3
    <3>6. Consistent(m, agent')
      BY <3>2
    <3> QED BY <3>2, <3>4, <3>5, <3>6 DEF m
  <2> QED BY <2>1, <2>2, <1>4, <1>0 DEF WriteRow
<1>5. CASE ClearReports(c)
  <2>1. caller'[c] = Idle
    BY <1>5, <1>0 DEF ClearReports
  <2> QED BY <2>1, <1>2
<1> QED BY <1>3, <1>4, <1>5

-----------------------------------------------------------------------------
(* The inductive invariant.                                                *)

\* A handler's own statement leaves it with locals that fit the tables it leaves.
LEMMA HandlersFit ==
  ASSUME IInv, NEW c \in Callers, Submits(c) \/ Step(c)
  PROVE  caller'[c] \in Caller /\ Fits(caller'[c], agent')
<1>1. CASE Submits(c)
  <2>1. UNCHANGED agent
    BY <1>1 DEF Submits, RequestHire, RequestUpdate, RequestStatus, RequestEdit,
                RequestTermination, RequestReview, Submit
  <2> QED BY <1>1, <2>1, SubmitsFit
<1>2. CASE InsertAgent(c) \/ WriteRow(c) \/ ClearReports(c)
  BY <1>2, WritersFit
<1>3. CASE ReadApproval(c) \/ Decide(c) \/ Activate(c) \/ FindRoot(c)
  <2>1. UNCHANGED agent
    BY <1>3 DEF ReadApproval, Decide, Activate, FindRoot
  <2> QED BY <1>3, <2>1, ReviewsFit
<1>4. CASE \/ ReadForUpdate(c) \/ ReadManager(c) \/ WalkFindsCycle(c) \/ WalkUp(c) \/ WalkEnds(c)
  <2>1. UNCHANGED agent
    BY <1>4 DEF ReadForUpdate, ReadManager, WalkFindsCycle, WalkUp, WalkEnds
  <2> QED BY <1>4, <2>1, WalksFit
<1>5. CASE \/ ReadForStatus(c) \/ ReadForEdit(c) \/ ReadForTermination(c)
           \/ FileApproval(c) \/ Drop(c)
  <2>1. UNCHANGED agent
    BY <1>5 DEF ReadForStatus, ReadForEdit, ReadForTermination, FileApproval, Drop
  <2> QED BY <1>5, <2>1, EditsFit
<1> QED BY <1>1, <1>2, <1>3, <1>4, <1>5 DEF Step

\* Every step preserves what the locals of all handlers have to do with the tables.
LEMMA CallersStep ==
  ASSUME IInv, [Next]_vars
  PROVE  CallersOK'
<1> USE ConstantsAssumption
<1>1. /\ agent \in [Agents -> Row] /\ agent' \in [Agents -> Row] /\ Grows(agent, agent')
      /\ caller \in [Callers -> Caller] /\ \A d \in Callers : Fits(caller[d], agent)
      /\ \A d \in Callers : Inserting(caller[d]) =>
           agent'[caller[d].agent].status = "absent" \/ InsertAgent(d)
  BY AgentsStep DEF IInv, AgentsOK, CallersOK
<1>2. ASSUME NEW d \in Callers, ~InsertAgent(d)
      PROVE  caller[d] \in Caller /\ Fits(caller[d], agent')
  BY <1>1, <1>2, FitsStays
<1>3. CASE UNCHANGED caller
  <2>1. ASSUME NEW d \in Callers PROVE ~InsertAgent(d)
    BY <1>1, <1>3, IdleFits DEF InsertAgent, At, Goto, Return, Idle, Local, Caller
  <2> QED BY <1>1, <1>2, <1>3, <2>1 DEF CallersOK
<1>4. ASSUME NEW c \in Callers, Submits(c) \/ Step(c), NEW k, caller' = [caller EXCEPT ![c] = k]
      PROVE  CallersOK'
  <2>1. caller'[c] \in Caller /\ Fits(caller'[c], agent')
    BY <1>4, HandlersFit
  <2>2. ASSUME NEW d \in Callers, d # c
        PROVE  ~InsertAgent(d) /\ caller'[d] = caller[d]
    BY <1>1, <1>4, <2>2 DEF InsertAgent, At, Goto, Return, Idle, Local, Caller
  <2> QED BY <1>1, <1>2, <1>4, <2>1, <2>2 DEF CallersOK
<1> QED BY <1>3, <1>4, CallerWriters DEF vars

\* Where the id in a handler's locals comes from.
LEMMA IdSources ==
  ASSUME IInv, NEW c \in Callers, Submits(c) \/ Step(c)
  PROVE  \/ /\ caller'[c].agent = caller[c].agent
            /\ Inserting(caller'[c]) => Inserting(caller[c])
         \/ caller'[c].agent \in {NoAgent} \cup Staff /\ ~Inserting(caller'[c])
         \/ caller'[c].agent \in Agents /\ Fresh(caller'[c].agent)
<1>0. caller \in [Callers -> Caller] /\ Fits(caller[c], agent)
      /\ Idle.agent = NoAgent /\ ~Inserting(Idle)
  BY DEF IInv, CallersOK, Idle, Local, Inserting
<1>1. CASE Submits(c)
  BY <1>1, <1>0 DEF Submits, RequestHire, RequestUpdate, RequestStatus, RequestEdit,
      RequestTermination, RequestReview, Submit, Local, Inserting
<1>2. CASE ReadForUpdate(c) \/ ReadForStatus(c) \/ ReadForEdit(c) \/ ReadForTermination(c)
  BY <1>2, <1>0 DEF ReadForUpdate, ReadForStatus, ReadForEdit, ReadForTermination, At, Return,
      CheckManager, Store, Caller, Inserting
<1>3. CASE ReadManager(c) \/ WalkFindsCycle(c) \/ WalkUp(c) \/ WalkEnds(c)
  BY <1>3, <1>0 DEF ReadManager, WalkFindsCycle, WalkUp, WalkEnds, At, Goto, Return, Store,
      Caller, Inserting
<1>4. CASE InsertAgent(c) \/ WriteRow(c) \/ ClearReports(c) \/ FileApproval(c) \/ Drop(c)
  BY <1>4, <1>0 DEF InsertAgent, WriteRow, ClearReports, FileApproval, Drop, At, Goto, Return,
      Caller, Inserting
<1>5. CASE ReadApproval(c) \/ Activate(c)
  BY <1>5, <1>0 DEF ReadApproval, Activate, At, Goto, Return, Caller, Inserting
<1>7. CASE FindRoot(c)
  <2>1. caller[c].pc = "root" /\ caller[c].op = "review"
    BY <1>7, <1>0 DEF FindRoot, At, Fits, Assigned
  <2>2. PICK r : \/ caller' = [caller EXCEPT ![c].pc = "insert"]
                 \/ caller' = [caller EXCEPT ![c].row = r, ![c].pc = "manager"]
    BY <1>7 DEF FindRoot, Goto
  <2>3. caller'[c].agent = caller[c].agent
    BY <2>2, <1>0 DEF Caller
  <2> QED BY <2>1, <2>3 DEF Inserting
<1>6. CASE Decide(c)
  <2>1. There(caller[c].form.target, agent)
    BY <1>0 DEF Fits, Located
  <2> QED BY <2>1, <1>6, <1>0 DEF Decide, Return, Local, Inserting, There, Staff, Exists
<1> QED BY <1>1, <1>2, <1>3, <1>4, <1>5, <1>6, <1>7 DEF Step

\* Every step keeps the ids that handlers generated apart from each other and unused.
LEMMA IdsStep ==
  ASSUME IInv, [Next]_vars
  PROVE  IdsFresh'
<1> USE ConstantsAssumption
<1>1. caller \in [Callers -> Caller] /\ \A d \in Callers : Fits(caller[d], agent)
  BY DEF IInv, CallersOK
<1>2. CASE UNCHANGED caller
  BY <1>2 DEF IInv, IdsFresh
<1>3. ASSUME NEW c \in Callers, Submits(c) \/ Step(c), NEW k, caller' = [caller EXCEPT ![c] = k]
      PROVE  IdsFresh'
  <2>1. \A d \in Callers : d # c => caller'[d] = caller[d]
    BY <1>1, <1>3
  <2>2. ASSUME NEW d \in Callers, d # c, Inserting(caller[d])
        PROVE  caller'[c].agent # caller[d].agent
    <3>1. caller[d].agent \in Agents /\ caller[d].agent \notin Staff
      BY <1>1, <2>2 DEF Fits, Assigned, Located, Inserting, Staff, Exists
    <3>2. caller[c].agent # caller[d].agent
      BY <2>2 DEF IInv, IdsFresh
    <3> QED BY <3>1, <3>2, IdSources, <1>3 DEF Fresh
  <2>3. ASSUME NEW d \in Callers, d # c, Inserting(caller'[c])
        PROVE  caller[d].agent # caller'[c].agent
    <3>1. \/ caller'[c].agent = caller[c].agent /\ Inserting(caller[c])
          \/ Fresh(caller'[c].agent)
      BY <2>3, IdSources, <1>3
    <3> QED BY <3>1, <2>3 DEF IInv, IdsFresh, Fresh
  <2> SUFFICES ASSUME NEW d \in Callers, NEW e \in Callers, d # e, Inserting(caller'[d])
               PROVE  caller'[e].agent # caller'[d].agent
    BY DEF IdsFresh
  <2>4. CASE d = c
    BY <2>1, <2>3, <2>4
  <2>5. CASE e = c
    BY <2>1, <2>2, <2>5
  <2>6. CASE d # c /\ e # c
    BY <2>1, <2>6 DEF IInv, IdsFresh
  <2> QED BY <2>4, <2>5, <2>6
<1> QED BY <1>2, <1>3, CallerWriters DEF vars

\* Every step keeps approvals typed and the agents they name in the table.
LEMMA ApprovalsStep ==
  ASSUME IInv, [Next]_vars
  PROVE  ApprovalsOK'
<1> USE ConstantsAssumption
<1>1. agent \in [Agents -> Row] /\ Grows(agent, agent') /\ approval \in [Approvals -> Approval]
      /\ \A p \in Approvals : There(approval[p].target, agent) /\ There(approval[p].manager, agent)
      /\ caller \in [Callers -> Caller] /\ \A d \in Callers : Fits(caller[d], agent)
  BY AgentsStep DEF IInv, AgentsOK, CallersOK, ApprovalsOK
<1>2. \A x : There(x, agent) => There(x, agent')
  BY <1>1 DEF There, Grows
<1>3. CASE UNCHANGED approval
  BY <1>1, <1>2, <1>3 DEF ApprovalsOK
<1>4. ASSUME NEW p \in Approvals, NEW form \in Approval, There(form.target, agent),
             There(form.manager, agent), approval' = [approval EXCEPT ![p] = form]
      PROVE  ApprovalsOK'
  BY <1>1, <1>2, <1>4 DEF ApprovalsOK
<1>5. ASSUME NEW c \in Callers, FileApproval(c)
      PROVE  ApprovalsOK'
  <2>1. caller[c].row.company \in Companies \cup {NoCompany} /\ caller[c].agent \in Agents
        /\ caller[c].row.manager \in Agents \cup {NoAgent}
        /\ There(caller[c].agent, agent) /\ There(caller[c].row.manager, agent)
    BY <1>1, <1>5 DEF FileApproval, At, Fits, Assigned, Located, There, Owning, Inserting, Caller,
                      Row
  <2>2. PICK p \in Approvals : approval' = [approval EXCEPT ![p] =
           [status |-> "pending", company |-> caller[c].row.company,
            target |-> caller[c].agent, manager |-> caller[c].row.manager]]
    BY <1>5 DEF FileApproval
  <2> QED BY <2>1, <2>2, <1>4 DEF Approval
<1>6. ASSUME NEW c \in Callers, Decide(c)
      PROVE  ApprovalsOK'
  <2>0. At(c, "decide")
    BY <1>6 DEF Decide
  <2>1. caller[c] \in Caller
    BY DEF IInv, CallersOK
  <2>6. Fits(caller[c], agent)
    BY DEF IInv, CallersOK
  <2> DEFINE k == caller[c]
  <2>7. k.pc = "decide" BY <2>0 DEF At
  <2> HIDE DEF k
  <2>2. k.approval \in Approvals BY <2>6, <2>7 DEF Fits, Assigned, k
  <2>3. k.form \in Approval BY <2>1 DEF Caller, k
  <2>4. There(k.form.target, agent) /\ There(k.form.manager, agent) BY <2>6 DEF Fits, Located, k
  <2>5. approval' = [approval EXCEPT ![k.approval] = k.form] BY <1>6 DEF Decide, k
  <2> QED BY <2>2, <2>3, <2>4, <2>5, <1>4
<1>7. CASE CreateApproval
  <2>1. PICK p \in Approvals, k \in Companies, t \in Staff \cup {NoAgent},
             m \in Staff \cup {NoAgent} : approval' = [approval EXCEPT ![p] =
               [status |-> "pending", company |-> k, target |-> t, manager |-> m]]
    BY <1>7 DEF CreateApproval
  <2> QED BY <2>1, <1>4 DEF Approval, Staff, There, Exists
<1>8. CASE ResubmitApproval
  <2>1. PICK p \in Approvals, t \in Staff \cup {NoAgent}, m \in Staff \cup {NoAgent} :
          approval' = [approval EXCEPT ![p].status = "pending", ![p].target = t, ![p].manager = m]
    BY <1>8 DEF ResubmitApproval
  <2> DEFINE form == [approval[p] EXCEPT !.status = "pending", !.target = t, !.manager = m]
  <2>2. approval[p] \in Approval BY <1>1
  <2>3. t \in Agents \cup {NoAgent} /\ m \in Agents \cup {NoAgent}
        /\ There(t, agent) /\ There(m, agent)
    BY DEF Staff, There, Exists
  <2>4. form \in Approval /\ form.target = t /\ form.manager = m
    BY <2>2, <2>3 DEF Approval
  <2>5. approval' = [approval EXCEPT ![p] = form]
    BY <2>1, <1>1
  <2> QED BY <2>3, <2>4, <2>5, <1>4
<1> QED BY <1>3, <1>5, <1>6, <1>7, <1>8, ApprovalWriters DEF vars

\* Every step preserves the types of the remaining variables.
LEMMA OthersStep ==
  ASSUME IInv, [Next]_vars
  PROVE  OthersOK'
<1> USE ConstantsAssumption
<1>0. OthersOK /\ caller \in [Callers -> Caller]
  BY DEF IInv, CallersOK
<1>1. CASE UNCHANGED <<origin, requests>>
  BY <1>1, <1>0 DEF OthersOK
<1>2. ASSUME NEW c \in Callers, InsertAgent(c)
      PROVE  OthersOK'
  BY <1>2, <1>0 DEF InsertAgent, OthersOK, Caller
<1>3. CASE requests < MaxRequests /\ requests' = requests + 1 /\ UNCHANGED origin
  BY <1>3, <1>0 DEF OthersOK
<1>4. ASSUME NEW c \in Callers, Submits(c)
      PROVE  OthersOK'
  BY <1>3, <1>4 DEF Submits, RequestHire, RequestUpdate, RequestStatus, RequestEdit,
      RequestTermination, RequestReview, Submit
<1>5. ASSUME NEW c \in Callers, Step(c)
      PROVE  OthersOK'
  BY <1>1, <1>2, <1>5 DEF Step, ReadForUpdate, ReadForStatus, ReadForEdit, ReadForTermination,
      ReadManager, WalkFindsCycle, WalkUp, WalkEnds, WriteRow, ClearReports, FileApproval,
      ReadApproval, Decide, Activate, FindRoot, Drop
<1>6. CASE CreateApproval \/ ResubmitApproval
  BY <1>3, <1>6 DEF CreateApproval, ResubmitApproval
<1>7. ASSUME NEW a \in Agents, RunWakes(a) \/ RunEnds(a)
      PROVE  OthersOK'
  BY <1>1, <1>7 DEF RunWakes, RunEnds
<1> QED BY <1>1, <1>4, <1>5, <1>6, <1>7 DEF Next, vars

\* The invariant holds of the tables the model starts from.
LEMMA Initially == Init => IInv
<1> USE ConstantsAssumption
<1>1. NoRow \in Row /\ NoRow.status = "absent" /\ NoRow.manager = NoAgent
  BY DEF NoRow, Row
<1>2. NoForm \in Approval /\ NoForm.target = NoAgent /\ NoForm.manager = NoAgent
  BY DEF NoForm, Approval
<1>3. ~Inserting(Idle)
  BY DEF Idle, Local, Inserting
<1>4. ASSUME Init PROVE IInv
  <2>1. AgentsOK BY <1>1, <1>4 DEF Init, AgentsOK, There, Matches
  <2>2. ApprovalsOK BY <1>2, <1>4 DEF Init, ApprovalsOK, There
  <2>3. CallersOK BY <2>1, <1>4, IdleFits DEF Init, CallersOK, AgentsOK
  <2>4. IdsFresh BY <1>3, <1>4 DEF Init, IdsFresh
  <2>5. OthersOK BY <1>4 DEF Init, OthersOK
  <2> QED BY <2>1, <2>2, <2>3, <2>4, <2>5 DEF IInv
<1> QED BY <1>4

\* The handlers' locals fit the table in every state, whoever interleaves.
THEOREM Invariance == Spec => []IInv
<1>1. IInv /\ [Next]_vars => IInv'
  BY AgentsStep, CallersStep, IdsStep, ApprovalsStep, OthersStep DEF IInv
<1> QED BY <1>1, Initially, PTL DEF Spec

\* Type correctness; no row of the table has a status that is a request's.
THEOREM TypeCorrectness == Spec => []TypeOK
<1>1. IInv => TypeOK
  BY DEF IInv, TypeOK, AgentsOK, ApprovalsOK, CallersOK, OthersOK
<1> QED BY <1>1, Invariance, PTL

\* validate_reports_to_assignment reads the manager's row long before the row of
\* the agent is written, and the edits write back rows they read earlier: with
\* any number of handlers interleaved, a manager is still an agent of the same
\* company, because rows stay and keep their company.
THEOREM ManagersOfSameCompany == Spec => []SameCompany
<1>1. IInv => SameCompany
  BY DEF IInv, AgentsOK, SameCompany, There, Matches, Exists
<1> QED BY <1>1, Invariance, PTL

=============================================================================
