----------------------- MODULE RegistryHistory_proofs -----------------------
(***************************************************************************)
(* What holds of RegistryHistory for any number of handlers that overtake  *)
(* one another.  A handler that nothing overtook has a copy of a row that  *)
(* is, in what matters here, as fresh as the table.                        *)
(***************************************************************************)
EXTENDS AgentRegistry_proofs, RegistryHistory

\* Program counters of an op: a hire inserts its row and never writes one.
OpsOK == \A c \in Callers : /\ caller[c].op = "none" => caller[c].pc = "idle"
                            /\ caller[c].op = "hire" =>
                                 caller[c].pc \in {"manager", "walk", "insert", "file"}

\* The walk of an update so far: the agents above the new manager that it has
\* seen report to each other or to the cursor, and the agent is not among them.
Above(k) == k.visited \ {k.agent}
Walking(k, ag) ==
  /\ k.agent \in k.visited /\ k.visited \subseteq Agents
  /\ k.row.manager \in Above(k) \cup {k.cursor}
  /\ ag[k.cursor].status # "absent"
  /\ \A v \in Above(k) : ag[v].status # "absent" /\ ag[v].manager \in Above(k) \cup {k.cursor}
\* After it: the reporting line of the new manager stays within a set of agents
\* that the agent is not in.
Walked(k, ag) ==
  \E W \in SUBSET (Agents \ {k.agent}) :
    /\ k.row.manager \in W
    /\ \A w \in W : ag[w].status # "absent" /\ ag[w].manager \in W \cup {NoAgent}
Ordered(k, ag) ==
  /\ k.pc = "walk" /\ k.op = "update" => Walking(k, ag)
  /\ k.pc = "write" => k.row.manager = ag[k.agent].manager \/ Walked(k, ag)

\* A row that is going to be written revives nobody.
Updating(k) == k.pc = "write" \/ (k.pc \in {"manager", "walk"} /\ k.op = "update")
Spares(k, ag) ==
  Updating(k) /\ ag[k.agent].status = "terminated" => k.row.status = "terminated"

WorkOK == \A c \in Callers : /\ c \notin misled => Ordered(caller[c], agent)
                             /\ c \notin late => Spares(caller[c], agent)

LinesInv == OpsOK /\ WorkOK /\ WalkedLinesAcyclic

-----------------------------------------------------------------------------
\* A handler keeps its op until it returns, and comes to a walk or a write by
\* reading rows only.
LEMMA OpSources ==
  ASSUME IInv, OpsOK, NEW c \in Callers, Submits(c) \/ Step(c)
  PROVE  /\ caller'[c].op = "none" => caller'[c].pc = "idle"
         /\ caller'[c].op = "hire" => caller'[c].pc \in {"manager", "walk", "insert", "file"}
         /\ caller'[c].op \in {caller[c].op, "none"} \/ Submits(c)
         /\ caller'[c].pc \in {"walk", "write"} \/ Updating(caller'[c]) =>
              \/ ReadForUpdate(c) \/ ReadForStatus(c) \/ ReadForEdit(c)
              \/ ReadForTermination(c) \/ ReadManager(c) \/ WalkUp(c) \/ WalkEnds(c)
<1>0. /\ caller \in [Callers -> Caller] /\ Fits(caller[c], agent)
      /\ caller[c].op = "none" => caller[c].pc = "idle"
      /\ caller[c].op = "hire" => caller[c].pc \in {"manager", "walk", "insert", "file"}
      /\ Idle.op = "none" /\ Idle.pc = "idle"
  BY DEF IInv, CallersOK, OpsOK, Idle, Local
<1>1. CASE Submits(c)
  <2> USE <1>0 DEF Submit, Local, Updating
  <2>1. CASE RequestHire(c) BY <1>1, <2>1 DEF RequestHire, CheckManager, Store
  <2>2. CASE RequestUpdate(c) BY <1>1, <2>2 DEF RequestUpdate
  <2>3. CASE RequestStatus(c) BY <1>1, <2>3 DEF RequestStatus
  <2>4. CASE RequestEdit(c) BY <1>1, <2>4 DEF RequestEdit
  <2>5. CASE RequestTermination(c) BY <1>1, <2>5 DEF RequestTermination
  <2>6. CASE RequestReview(c) BY <1>1, <2>6 DEF RequestReview
  <2> QED BY <1>1, <2>1, <2>2, <2>3, <2>4, <2>5, <2>6 DEF Submits
<1>2. CASE ReadForUpdate(c) \/ ReadForStatus(c) \/ ReadForEdit(c) \/ ReadForTermination(c)
  BY <1>2, <1>0 DEF ReadForUpdate, ReadForStatus, ReadForEdit, ReadForTermination, At, Return,
      CheckManager, Store, Caller
<1>3. CASE ReadManager(c) \/ WalkFindsCycle(c) \/ WalkUp(c) \/ WalkEnds(c)
  <2>1. CASE ReadManager(c) \/ WalkFindsCycle(c)
    BY <2>1, <1>0 DEF ReadManager, WalkFindsCycle, At, Return, Caller, Updating
  <2>2. CASE WalkUp(c)
    <3>1. caller'[c].op = caller[c].op /\ caller'[c].pc = caller[c].pc /\ caller[c].pc = "walk"
      BY <2>2, <1>0 DEF WalkUp, At, Caller
    <3> QED BY <3>1, <2>2, <1>0
  <2>3. CASE WalkEnds(c)
    BY <2>3, <1>0 DEF WalkEnds, At, Goto, Store, Caller
  <2> QED BY <2>1, <2>2, <2>3, <1>3
<1>4. CASE InsertAgent(c) \/ WriteRow(c) \/ ClearReports(c) \/ FileApproval(c) \/ Drop(c)
  BY <1>4, <1>0 DEF InsertAgent, WriteRow, ClearReports, FileApproval, Drop, At, Goto, Return,
      Caller, Updating
<1>5. CASE ReadApproval(c) \/ Activate(c)
  BY <1>5, <1>0 DEF ReadApproval, Activate, At, Goto, Return, Caller, Updating
<1>6. CASE Decide(c)
  <2>1. caller[c].op = "review"
    BY <1>6, <1>0 DEF Decide, At, Fits, Assigned
  <2> QED BY <2>1, <1>6, <1>0 DEF Decide, Return, Local, Updating
<1>7. CASE FindRoot(c)
  <2>1. caller[c].pc = "root" /\ caller[c].op = "review"
    BY <1>7, <1>0 DEF FindRoot, At, Fits, Assigned
  <2>2. PICK r : \/ caller' = [caller EXCEPT ![c].pc = "insert"]
                 \/ caller' = [caller EXCEPT ![c].row = r, ![c].pc = "manager"]
    BY <1>7 DEF FindRoot, Goto
  <2>3. caller'[c].op = caller[c].op /\ caller'[c].pc \in {"insert", "manager"}
    BY <2>2, <1>0 DEF Caller
  <2> QED BY <2>1, <2>3 DEF Updating
<1> QED BY <1>1, <1>2, <1>3, <1>4, <1>5, <1>6, <1>7 DEF Step

\* A step of others that moves nobody keeps what a handler worked out.
LEMMA LinesStay ==
  ASSUME NEW k \in Caller, NEW ag \in [Agents -> Row], NEW new \in [Agents -> Row],
         Fits(k, ag), Grows(ag, new), Ordered(k, ag),
         \A a \in Agents : ag[a].status # "absent" => new[a].manager = ag[a].manager
  PROVE  Ordered(k, new)
<1>1. ASSUME k.pc = "walk", k.op = "update" PROVE Walking(k, new)
  <2>1. Walking(k, ag) BY <1>1 DEF Ordered
  <2>2. k.cursor \in Agents BY <1>1 DEF Fits, Assigned
  <2> QED BY <2>1, <2>2 DEF Walking, Above, Grows
<1>2. ASSUME k.pc = "write" PROVE k.row.manager = new[k.agent].manager \/ Walked(k, new)
  <2>1. k.agent \in Agents /\ ag[k.agent].status # "absent"
    BY <1>2 DEF Fits, Assigned, Located, Owning, Inserting
  <2>2. CASE k.row.manager = ag[k.agent].manager
    BY <2>1, <2>2
  <2>3. CASE Walked(k, ag)
    BY <2>3 DEF Walked, Grows
  <2> QED BY <1>2, <2>2, <2>3 DEF Ordered
<1> QED BY <1>1, <1>2 DEF Ordered

\* The handler's own steps that read.
LEMMA ReadsWork ==
  ASSUME IInv, NEW c \in Callers,
         \/ ReadForUpdate(c) \/ ReadForStatus(c) \/ ReadForEdit(c) \/ ReadForTermination(c)
         \/ ReadManager(c) \/ WalkUp(c) \/ WalkEnds(c)
  PROVE  /\ ~CutOff(c) /\ (Relies(caller[c]) => Ordered(caller[c], agent)) =>
              Ordered(caller'[c], agent)
         /\ (HasRead(caller[c]) => Spares(caller[c], agent)) => Spares(caller'[c], agent)
<1> USE ConstantsAssumption
<1> DEFINE k == caller[c]
           k2 == caller'[c]
<1>0. k \in Caller /\ Fits(k, agent) /\ agent \in [Agents -> Row]
      /\ Idle.pc = "idle" /\ caller \in [Callers -> Caller]
  BY DEF IInv, CallersOK, AgentsOK, Idle, Local
<1>1. CASE k2.pc = "idle"
  BY <1>1 DEF Ordered, Spares, Updating
<1>2. CASE ReadForUpdate(c)
  <2>1. CASE k2 = Idle BY <2>1, <1>0, <1>1
  <2>2. CASE /\ agent[k.agent].status # "terminated"
             /\ caller' = [caller EXCEPT ![c].row = Merged(agent[k.agent], k.row),
                                         ![c].pc = CheckManager("update", k.row.manager)]
    <3> DEFINE row == Merged(agent[k.agent], k.row)
               l == CheckManager("update", k.row.manager)
    <3>1. l = "manager" \/ (l = "write" /\ row.manager = agent[k.agent].manager)
      BY DEF CheckManager, Store, Merged
    <3>2. k2 = [[k EXCEPT !.row = row] EXCEPT !.pc = l] /\ agent[k.agent].status # "terminated"
      BY <2>2, <1>0
    <3>3. k.pc = "read" BY <1>2 DEF ReadForUpdate, At
    <3> HIDE DEF row, l, k, k2
    <3>4. k2.pc = l /\ k2.row = row /\ k2.agent = k.agent
      BY <3>2, <1>0 DEF Caller
    <3>5. Ordered(k2, agent) BY <3>1, <3>4 DEF Ordered
    <3>6. Spares(k2, agent) BY <3>2, <3>4 DEF Spares
    <3> QED BY <3>5, <3>6 DEF k2
  <2> QED BY <2>1, <2>2, <1>2, <1>0 DEF ReadForUpdate, Return
<1>3. CASE ReadForStatus(c) \/ ReadForTermination(c)
  <2>1. CASE k2 = Idle BY <2>1, <1>0, <1>1
  <2>2. ASSUME NEW s, agent[k.agent].status # "terminated",
               caller' = [caller EXCEPT ![c].row = WithStatus(agent[k.agent], s), ![c].pc = "write"]
        PROVE  Ordered(k2, agent) /\ Spares(k2, agent)
    <3> DEFINE row == WithStatus(agent[k.agent], s)
    <3>1. k2 = [[k EXCEPT !.row = row] EXCEPT !.pc = "write"]
      BY <2>2, <1>0
    <3>2. row.manager = agent[k.agent].manager
      BY DEF WithStatus
    <3> HIDE DEF row, k, k2
    <3>3. k2.pc = "write" /\ k2.row = row /\ k2.agent = k.agent
      BY <3>1, <1>0 DEF Caller
    <3> QED BY <2>2, <3>2, <3>3 DEF Ordered, Spares
  <2> QED BY <2>1, <2>2, <1>3, <1>0 DEF ReadForStatus, ReadForTermination, Return
<1>4. CASE ReadForEdit(c)
  <2>1. k2 = [[k EXCEPT !.row = agent[k.agent]] EXCEPT !.pc = "write"]
    BY <1>4, <1>0 DEF ReadForEdit
  <2> HIDE DEF k, k2
  <2>2. k2.pc = "write" /\ k2.row = agent[k.agent] /\ k2.agent = k.agent
    BY <2>1, <1>0 DEF Caller
  <2>3. Ordered(k2, agent) BY <2>2 DEF Ordered
  <2>4. Spares(k2, agent) BY <2>2 DEF Spares
  <2> QED BY <2>3, <2>4 DEF k2
<1>5. CASE ReadManager(c)
  <2>1. CASE k2 = Idle BY <2>1, <1>0, <1>1
  <2>2. CASE k2 = [[[k EXCEPT !.pc = "walk"] EXCEPT !.cursor = k.row.manager]
                      EXCEPT !.visited = {k.agent}]
    <3>1. k.pc = "manager" /\ k.agent \in Agents /\ k.row.manager \in Agents
          /\ agent[k.row.manager].status # "absent"
      BY <1>5, <1>0 DEF ReadManager, At, Fits, Assigned, Located, There
    <3> HIDE DEF k, k2
    <3>2. k2.pc = "walk" /\ k2.cursor = k.row.manager /\ k2.visited = {k.agent}
          /\ k2.row = k.row /\ k2.agent = k.agent /\ k2.op = k.op
      BY <2>2, <1>0 DEF Caller
    <3>3. Walking(k2, agent)
      BY <3>1, <3>2 DEF Walking, Above
    <3>4. Ordered(k2, agent) BY <3>2, <3>3 DEF Ordered
    <3>5. Spares(k, agent) => Spares(k2, agent)
      BY <3>1, <3>2, <1>0 DEF Spares, Updating
    <3>6. HasRead(k) BY <3>1 DEF HasRead
    <3> QED BY <3>4, <3>5, <3>6 DEF k2, k
  <2> QED BY <2>1, <2>2, <1>5, <1>0 DEF ReadManager, Return
<1>6. CASE WalkUp(c)
  <2> DEFINE x == k.cursor
             m == agent[x].manager
  <2>1. k.pc = "walk" /\ x \in Agents /\ x \notin k.visited /\ m \in Agents
        /\ agent[m].status # "absent"
        /\ k2 = [[k EXCEPT !.visited = k.visited \cup {x}] EXCEPT !.cursor = m]
    <3>1. x \in Agents /\ agent[x] \in Row
      BY <1>6, <1>0 DEF WalkUp, At, Fits, Assigned
    <3>2. There(m, agent) /\ m # NoAgent
      BY <3>1, <1>6 DEF WalkUp, IInv, AgentsOK
    <3> QED BY <3>1, <3>2, <1>6, <1>0 DEF WalkUp, At, There
  <2> HIDE DEF k, k2, m
  <2>2. k2.pc = "walk" /\ k2.cursor = m /\ k2.visited = k.visited \cup {x}
        /\ k2.row = k.row /\ k2.agent = k.agent /\ k2.op = k.op
    BY <2>1, <1>0 DEF Caller
  <2>3. ASSUME Walking(k, agent) PROVE Walking(k2, agent)
    <3>1. Above(k2) = Above(k) \cup {x}
      BY <2>1, <2>2, <2>3 DEF Walking, Above
    <3>2. agent[x].status # "absent" /\ agent[x].manager = m
      BY <2>3 DEF Walking, m
    <3> QED BY <2>1, <2>2, <2>3, <3>1, <3>2 DEF Walking
  <2>4. Ordered(k, agent) => Ordered(k2, agent)
    BY <2>1, <2>2, <2>3, <1>0 DEF Ordered
  <2>5. Spares(k, agent) => Spares(k2, agent)
    BY <2>1, <2>2, <1>0 DEF Spares, Updating
  <2>6. Relies(k) /\ HasRead(k) BY <2>1 DEF Relies, HasRead
  <2> QED BY <2>4, <2>5, <2>6 DEF k2, k
<1>7. CASE WalkEnds(c)
  <2>1. k.pc = "walk" /\ k.visited \subseteq Agents /\ k.cursor \in Agents
    BY <1>7, <1>0 DEF WalkEnds, At, Caller, Fits, Assigned
  <2>2. k2.pc = "write" /\ ~CutOff(c) =>
          k.cursor \notin k.visited /\ agent[k.cursor].manager = NoAgent
    BY <2>1 DEF CutOff, At
  <2>3. k2 = [k EXCEPT !.pc = Store(k.op)]
    BY <1>7, <1>0 DEF WalkEnds, Goto
  <2>7. Relies(k) /\ HasRead(k) BY <2>1 DEF Relies, HasRead
  <2> HIDE DEF k, k2
  <2>4. k2.pc = Store(k.op) /\ k2.row = k.row /\ k2.agent = k.agent /\ k2.op = k.op
    BY <2>3, <1>0 DEF Caller
  <2>5. CASE k.op = "update"
    <3>1. ASSUME Ordered(k, agent), ~CutOff(c) PROVE Ordered(k2, agent)
      <4>1. Walking(k, agent) BY <2>1, <2>5, <3>1 DEF Ordered
      <4> DEFINE W == Above(k) \cup {k.cursor}
      <4>2. W \in SUBSET (Agents \ {k.agent}) /\ k.row.manager \in W
            /\ \A w \in W : agent[w].status # "absent" /\ agent[w].manager \in W \cup {NoAgent}
        BY <2>1, <2>2, <2>4, <2>5, <3>1, <4>1 DEF Walking, Above, Store
      <4>3. Walked(k2, agent)
        BY <4>2, <2>4 DEF Walked
      <4> QED BY <4>3, <2>4, <2>5 DEF Ordered, Store
    <3>2. Spares(k, agent) => Spares(k2, agent)
      BY <2>1, <2>4, <2>5, <1>0 DEF Spares, Updating
    <3> QED BY <3>1, <3>2, <2>7 DEF k2, k
  <2>6. CASE k.op # "update"
    <3>1. Ordered(k2, agent) BY <2>4, <2>6 DEF Ordered, Store
    <3>2. Spares(k2, agent) BY <2>4, <2>6 DEF Spares, Updating, Store
    <3> QED BY <3>1, <3>2 DEF k2
  <2> QED BY <2>5, <2>6
<1> QED BY <1>2, <1>3, <1>4, <1>5, <1>6, <1>7

-----------------------------------------------------------------------------
(* The reporting lines.                                                    *)

\* Every step keeps a handler within the program counters of its operation.
LEMMA OpsStep ==
  ASSUME IInv, OpsOK, [Next]_vars
  PROVE  OpsOK'
<1>1. CASE UNCHANGED caller
  BY <1>1 DEF OpsOK
<1>2. ASSUME NEW c \in Callers, Submits(c) \/ Step(c), NEW k, caller' = [caller EXCEPT ![c] = k]
      PROVE  OpsOK'
  <2>1. \A d \in Callers : d # c => caller'[d] = caller[d]
    BY <1>2 DEF IInv, CallersOK
  <2> QED BY <2>1, <1>2, OpSources DEF OpsOK
<1> QED BY <1>1, <1>2, CallerWriters DEF vars

\* Every step keeps what a walk has passed, and its result, true of the table
\* until the handler is misled, and a copied status until it is late.
LEMMA WorkStep ==
  ASSUME IInv, OpsOK, WorkOK, HistoryNext
  PROVE  WorkOK'
<1>1. /\ agent \in [Agents -> Row] /\ agent' \in [Agents -> Row] /\ Grows(agent, agent')
      /\ caller \in [Callers -> Caller] /\ \A d \in Callers : Fits(caller[d], agent)
      /\ Next /\ RecordMisled /\ RecordLate
  BY AgentsStep DEF IInv, AgentsOK, CallersOK, HistoryNext, Record
<1>2. ASSUME NEW d \in Callers, caller'[d] = caller[d], d \notin misled'
      PROVE  Ordered(caller[d], agent')
  <2>1. CASE Relies(caller[d])
    <3>1. d \notin misled /\ ~LineChanged
      BY <1>1, <1>2, <2>1 DEF RecordMisled
    <3>2. \A a \in Agents : agent[a].status # "absent" => agent'[a].manager = agent[a].manager
      BY <3>1 DEF LineChanged, Moved, Exists
    <3>3. Ordered(caller[d], agent) BY <3>1 DEF WorkOK
    <3>4. caller[d] \in Caller BY <1>1
    <3> QED BY <1>1, <3>2, <3>3, <3>4, LinesStay
  <2>2. CASE ~Relies(caller[d])
    BY <2>2 DEF Relies, Ordered
  <2> QED BY <2>1, <2>2
<1>3. ASSUME NEW d \in Callers, caller'[d] = caller[d], d \notin late'
      PROVE  Spares(caller[d], agent')
  <2>1. CASE Updating(caller[d])
    <3>1. HasRead(caller[d]) BY <2>1 DEF Updating, HasRead
    <3>2. d \notin late /\ ~Terminated(caller[d].agent)
      BY <1>1, <1>3, <3>1 DEF RecordLate
    <3> QED BY <3>2 DEF WorkOK, Spares, Terminated
  <2>2. CASE ~Updating(caller[d])
    BY <2>2 DEF Spares
  <2> QED BY <2>1, <2>2
<1>4. CASE UNCHANGED caller
  BY <1>2, <1>3, <1>4 DEF WorkOK
<1>5. ASSUME NEW c \in Callers, Submits(c) \/ Step(c), NEW k, caller' = [caller EXCEPT ![c] = k]
      PROVE  WorkOK'
  <2>1. \A d \in Callers : d # c => caller'[d] = caller[d]
    BY <1>1, <1>5
  <2>2. /\ c \notin misled' => Ordered(caller'[c], agent')
        /\ c \notin late' => Spares(caller'[c], agent')
    <3>1. CASE \/ ReadForUpdate(c) \/ ReadForStatus(c) \/ ReadForEdit(c)
               \/ ReadForTermination(c) \/ ReadManager(c) \/ WalkUp(c) \/ WalkEnds(c)
      <4>1. UNCHANGED agent
        BY <3>1 DEF ReadForUpdate, ReadForStatus, ReadForEdit, ReadForTermination, ReadManager,
                    WalkUp, WalkEnds
      <4>2. ASSUME c \notin misled', Relies(caller'[c])
            PROVE  ~CutOff(c) /\ (Relies(caller[c]) => Ordered(caller[c], agent))
        <5>1. c \notin misled /\ ~CutOff(c)
          BY <1>1, <4>2 DEF RecordMisled
        <5> QED BY <5>1 DEF WorkOK
      <4>3. ~Relies(caller'[c]) => Ordered(caller'[c], agent)
        BY DEF Relies, Ordered
      <4>4. ASSUME c \notin late', HasRead(caller'[c])
            PROVE  HasRead(caller[c]) => Spares(caller[c], agent)
        <5>1. c \notin late
          BY <1>1, <4>4 DEF RecordLate
        <5> QED BY <5>1 DEF WorkOK
      <4>5. ~HasRead(caller'[c]) => Spares(caller'[c], agent)
        BY DEF HasRead, Spares, Updating
      <4> QED BY <3>1, <4>1, <4>2, <4>3, <4>4, <4>5, ReadsWork
    <3>2. CASE ~(caller'[c].pc \in {"walk", "write"} \/ Updating(caller'[c]))
      BY <3>2 DEF Ordered, Spares
    <3> QED BY <3>1, <3>2, <1>5, OpSources
  <2> QED BY <2>1, <2>2, <1>2, <1>3 DEF WorkOK
<1> QED BY <1>1, <1>4, <1>5, CallerWriters

\* A row is inserted at the bottom, or its new manager's line avoids it; an agent
\* that is sure afterwards was so before or is written by a walk that holds.
LEMMA LinesStep ==
  ASSUME IInv, WorkOK, WalkedLinesAcyclic, HistoryNext
  PROVE  WalkedLinesAcyclic'
<1> USE ConstantsAssumption
<1>1. /\ agent \in [Agents -> Row] /\ agent' \in [Agents -> Row]
      /\ caller \in [Callers -> Caller] /\ \A d \in Callers : Fits(caller[d], agent)
      /\ Next /\ RecordUnsure
  BY AgentsStep DEF IInv, AgentsOK, CallersOK, HistoryNext, Record
<1> SUFFICES ASSUME NEW S \in SUBSET (Agents \ unsure'), S # {}
             PROVE  \E b \in S : agent'[b].manager \notin S
  BY DEF WalkedLinesAcyclic
\* The agents of S that do not move were sure before.
<1>2. ASSUME NEW T \in SUBSET S, T # {}, \A b \in T : ~Moved(b)
      PROVE  \E b \in T : agent[b].manager \notin T
  <2>1. T \in SUBSET (Agents \ unsure)
    BY <1>1, <1>2 DEF RecordUnsure
  <2> QED BY <2>1, <1>2 DEF WalkedLinesAcyclic
<1>3. CASE \A b \in S : agent'[b].manager = agent[b].manager
  BY <1>2, <1>3 DEF Moved
<1>4. ASSUME NEW c \in Callers, InsertAgent(c)
      PROVE  \E b \in S : agent'[b].manager \notin S
  <2> DEFINE a == caller[c].agent
             m == caller[c].row.manager
  <2>1. a \in Agents /\ agent[a].status = "absent" /\ There(m, agent)
    BY <1>1, <1>4 DEF InsertAgent, At, Fits, Assigned, Located, Inserting
  <2>2. \A b \in Agents : agent[b].manager # a
    BY <2>1 DEF IInv, AgentsOK, There
  <2>3. agent'[a].manager = m /\ \A b \in Agents : b # a => agent'[b].manager = agent[b].manager
    BY <1>1, <1>4, <2>1 DEF InsertAgent
  <2>4. m # a BY <2>1 DEF There
  <2> HIDE DEF a, m
  <2>5. CASE S = {a}
    BY <2>3, <2>4, <2>5
  <2>6. CASE S # {a}
    <3>1. S \ {a} # {} /\ \A b \in S \ {a} : ~Moved(b)
      BY <2>3, <2>6 DEF Moved
    <3>2. PICK b \in S \ {a} : agent[b].manager \notin S \ {a}
      BY <3>1, <1>2
    <3> QED BY <3>2, <2>2, <2>3
  <2> QED BY <2>5, <2>6
<1>5. ASSUME NEW c \in Callers, WriteRow(c)
      PROVE  \E b \in S : agent'[b].manager \notin S
  <2> DEFINE a == caller[c].agent
             m == caller[c].row.manager
  <2>1. a \in Agents /\ caller[c].pc = "write" /\ agent[a].status # "absent"
    BY <1>1, <1>5 DEF WriteRow, At, Fits, Assigned, Located, Owning, Inserting
  <2>2. agent'[a].manager = m /\ \A b \in Agents : b # a => agent'[b].manager = agent[b].manager
    BY <1>1, <1>5, <2>1 DEF WriteRow
  <2>3. CASE m = agent[a].manager \/ a \notin S
    BY <2>2, <2>3, <1>3
  <2>4. CASE m # agent[a].manager /\ a \in S /\ m \in S
    <3>1. Moved(a) BY <2>1, <2>2, <2>4 DEF Moved, Exists
    <3>2. c \notin misled
      BY <1>1, <1>5, <2>1, <2>4, <3>1 DEF RecordUnsure
    <3>3. PICK W \in SUBSET (Agents \ {a}) :
            m \in W /\ \A w \in W : agent[w].manager \in W \cup {NoAgent}
      BY <2>1, <2>4, <3>2 DEF WorkOK, Ordered, Walked
    <3> HIDE DEF a, m
    <3>4. S \cap W # {} /\ \A b \in S \cap W : ~Moved(b)
      BY <2>2, <2>4, <3>3 DEF Moved
    <3>5. PICK b \in S \cap W : agent[b].manager \notin S \cap W
      BY <3>4, <1>2
    <3>6. agent[b].manager \notin S
      BY <3>3, <3>5
    <3> QED BY <3>5, <3>6, <3>3, <2>2
  <2>5. CASE a \in S /\ m \notin S
    BY <2>2, <2>5
  <2> QED BY <2>3, <2>4, <2>5
<1>6. ASSUME NEW c \in Callers, ClearReports(c)
      PROVE  \E b \in S : agent'[b].manager \notin S
  <2>1. \A b \in Agents : agent'[b].manager \in {agent[b].manager, NoAgent}
    BY <1>1, <1>6 DEF ClearReports, WithManager
  <2> QED BY <2>1, <1>3
<1>7. ASSUME NEW a \in Agents, RunWakes(a) \/ RunEnds(a)
      PROVE  \E b \in S : agent'[b].manager \notin S
  BY <1>1, <1>3, <1>7 DEF RunWakes, RunEnds, Row
<1>8. UNCHANGED agent => \E b \in S : agent'[b].manager \notin S
  BY <1>3
<1> QED BY <1>1, <1>4, <1>5, <1>6, <1>7, <1>8, AgentWriters

\* The record only listens.
LEMMA HistoryImplements == HistorySpec => Spec
<1>1. HistoryInit => Init BY DEF HistoryInit
<1>2. [HistoryNext]_<<vars, history>> => [Next]_vars BY DEF HistoryNext
<1> QED BY <1>1, <1>2, PTL DEF HistorySpec, Spec

\* The invariant of the lines holds initially.
LEMMA LinesInitially == HistoryInit => LinesInv
<1>1. ASSUME HistoryInit PROVE LinesInv
  <2>0. Init BY <1>1 DEF HistoryInit
  <2>1. \A c \in Callers : caller[c].op = "none" /\ caller[c].pc = "idle"
    BY <2>0 DEF Init, Idle, Local
  <2>2. OpsOK
    BY <2>1 DEF OpsOK
  <2>3. WorkOK
    BY <2>1 DEF WorkOK, Ordered, Spares, Updating
  <2>4. WalkedLinesAcyclic
    <3>1. \A a \in Agents : agent[a].manager = NoAgent BY <2>0 DEF Init, NoRow
    <3>2. ASSUME NEW S \in SUBSET (Agents \ unsure), S # {}
          PROVE  \E a \in S : agent[a].manager \notin S
      BY <3>1, <3>2, ConstantsAssumption
    <3> QED BY <3>2 DEF WalkedLinesAcyclic
  <2> QED BY <2>2, <2>3, <2>4 DEF LinesInv
<1> QED BY <1>1

\* Any number of handlers that overtake one another: handlers and table stay as
\* the three parts of LinesInv say.
THEOREM LinesInvariance == HistorySpec => []LinesInv
<1>1. IInv /\ LinesInv /\ [HistoryNext]_<<vars, history>> => LinesInv'
  <2>1. ASSUME IInv, LinesInv, HistoryNext PROVE LinesInv'
    BY <2>1, OpsStep, WorkStep, LinesStep DEF LinesInv, HistoryNext
  <2>2. ASSUME LinesInv, UNCHANGED <<vars, history>> PROVE LinesInv'
    BY <2>2 DEF LinesInv, OpsOK, WorkOK, WalkedLinesAcyclic, vars, history
  <2> QED BY <2>1, <2>2
<1> QED BY <1>1, LinesInitially, HistoryImplements, Invariance, PTL DEF HistorySpec

\* detect_reporting_cycle keeps the reporting lines free of cycles, for any number
\* of agents, levels, failed reads and handlers that overtake one another, but
\* for the agents that a walk misled moved: no row that any other walk has passed
\* was moved, and a row that is inserted meanwhile is nobody's manager.
THEOREM NoReportingCycle == HistorySpec => []WalkedLinesAcyclic
<1>1. LinesInv => WalkedLinesAcyclic
  BY DEF LinesInv
<1> QED BY <1>1, LinesInvariance, PTL

\* set_status, update, terminate and the edits that look at no status: beside a
\* run's wakeup only a handler that had read the row before the termination
\* brings back an agent that was terminated.
THEOREM TerminatedForGood == HistorySpec => TerminatedStays
<1>1. ASSUME IInv, LinesInv, Next, NEW a \in Agents,
             agent[a].status = "terminated", agent'[a].status # "terminated"
      PROVE  RunWakes(a) \/ \E c \in late : WriteRow(c) /\ caller[c].agent = a
  <2>1. agent \in [Agents -> Row] /\ \A d \in Callers : Fits(caller[d], agent)
    BY <1>1 DEF IInv, AgentsOK, CallersOK
  <2>2. ASSUME NEW c \in Callers, InsertAgent(c) PROVE FALSE
    <3>1. caller[c].agent \in Agents /\ agent[caller[c].agent].status = "absent"
      BY <2>1, <2>2 DEF InsertAgent, At, Fits, Assigned, Located, Inserting
    <3> QED BY <3>1, <2>1, <2>2, <1>1 DEF InsertAgent
  <2>3. ASSUME NEW c \in Callers, WriteRow(c) PROVE c \in late /\ caller[c].agent = a
    <3>1. caller[c].agent \in Agents /\ caller[c].pc = "write"
      BY <2>1, <2>3 DEF WriteRow, At, Fits, Assigned
    <3>2. caller[c].agent = a /\ caller[c].row.status # "terminated"
      BY <3>1, <2>1, <2>3, <1>1 DEF WriteRow
    <3>3. ~Spares(caller[c], agent)
      BY <3>1, <3>2, <1>1 DEF Spares, Updating
    <3> QED BY <3>2, <3>3, <1>1 DEF LinesInv, WorkOK
  <2>4. ASSUME NEW c \in Callers, ClearReports(c) PROVE FALSE
    BY <2>1, <2>4, <1>1 DEF ClearReports, WithManager
  <2>5. ASSUME NEW x \in Agents, RunEnds(x) PROVE FALSE
    BY <2>1, <2>5, <1>1 DEF RunEnds, Row
  <2>6. ASSUME NEW x \in Agents, RunWakes(x) PROVE x = a
    BY <2>1, <2>6, <1>1 DEF RunWakes, Row
  <2> QED BY <1>1, <2>2, <2>3, <2>4, <2>5, <2>6, AgentWriters
<1>2. IInv /\ LinesInv /\ [HistoryNext]_<<vars, history>> =>
        [\A a \in Agents : agent[a].status = "terminated" /\ agent'[a].status # "terminated" =>
           \/ RunWakes(a)
           \/ \E c \in late : WriteRow(c) /\ caller[c].agent = a]_<<vars, history>>
  BY <1>1 DEF HistoryNext
<1> QED BY <1>2, HistoryImplements, Invariance, LinesInvariance, PTL
    DEF HistorySpec, TerminatedStays

-----------------------------------------------------------------------------
(* Approvals.                                                              *)

\* A review that goes on to hire a new agent.
Hiring(k) == k.op = "review" /\ k.pc \in {"root", "manager", "walk", "insert"}
\* A review that is going to write finds its approval as it has read it, unless it
\* was outvoted; one that goes on to hire has hired nobody yet, and it is the only
\* one, unless the approval is contested.
Entitled(k, ap, og) ==
  /\ k.approval \in Approvals /\ ap[k.approval].status = "approved"
  /\ \A a \in Agents : og[a] # k.approval
ReviewsOK ==
  \A c \in Callers :
    /\ caller[c].op # "review" => caller[c].approval = NoApproval
    /\ At(c, "decide") /\ c \notin outvoted => approval[caller[c].approval].status = "pending"
    /\ Hiring(caller[c]) /\ caller[c].approval \notin contested =>
         Entitled(caller[c], approval, origin)
TurnsOK ==
  \A c, d \in Callers :
    c # d /\ Hiring(caller[c]) /\ Hiring(caller[d]) /\ caller[c].approval = caller[d].approval =>
      caller[c].approval \in contested
\* Who was hired by an approval was hired by an approved one.
HiresOK ==
  \A a \in Agents : origin[a] \notin contested \cup {NoApproval} =>
    approval[origin[a]].status = "approved"

HireInv == ReviewsOK /\ TurnsOK /\ HiresOK /\ UncontestedHiresOnce

\* What everybody but the reviewer leaves alone.
Stands(ap, new) ==
  \A p \in Approvals : ap[p].status \in {"pending", "approved", "rejected"} => new[p] = ap[p]

\* Only a review changes an approval that is not waiting for a revision.
LEMMA FilingStands ==
  ASSUME IInv, Next
  PROVE  Stands(approval, approval') \/ \E c \in Callers : Decide(c)
<1>1. approval \in [Approvals -> Approval]
  BY DEF IInv, ApprovalsOK
<1>2. ASSUME NEW c \in Callers, FileApproval(c)
      PROVE  Stands(approval, approval')
  BY <1>1, <1>2 DEF FileApproval, Stands
<1>3. CASE CreateApproval
  BY <1>1, <1>3 DEF CreateApproval, Stands
<1>4. CASE ResubmitApproval
  <2>1. PICK p \in Approvals, t \in Staff \cup {NoAgent}, m \in Staff \cup {NoAgent} :
          /\ approval[p].status = "revision_requested"
          /\ approval' = [approval EXCEPT ![p].status = "pending", ![p].target = t, ![p].manager = m]
    BY <1>4 DEF ResubmitApproval
  <2> QED BY <1>1, <2>1 DEF Stands
<1>5. CASE UNCHANGED approval
  BY <1>5 DEF Stands
<1> QED BY <1>2, <1>3, <1>4, <1>5, ApprovalWriters

\* Who writes origin.
LEMMA OriginWriters ==
  ASSUME Next
  PROVE  UNCHANGED origin \/ \E c \in Callers : InsertAgent(c)
<1>1. ASSUME NEW c \in Callers, Submits(c)
      PROVE  UNCHANGED origin
  BY <1>1 DEF Submits, RequestHire, RequestUpdate, RequestStatus, RequestEdit,
              RequestTermination, RequestReview, Submit
<1>2. ASSUME NEW c \in Callers, Step(c)
      PROVE  UNCHANGED origin \/ InsertAgent(c)
  BY <1>2 DEF Step, ReadForUpdate, ReadForStatus, ReadForEdit, ReadForTermination, ReadManager,
              WalkFindsCycle, WalkUp, WalkEnds, WriteRow, ClearReports, FileApproval,
              ReadApproval, Decide, Activate, FindRoot, Drop
<1>3. CreateApproval \/ ResubmitApproval => UNCHANGED origin
  BY DEF CreateApproval, ResubmitApproval
<1>4. ASSUME NEW a \in Agents, RunWakes(a) \/ RunEnds(a)
      PROVE  UNCHANGED origin
  BY <1>4 DEF RunWakes, RunEnds
<1> QED BY <1>1, <1>2, <1>3, <1>4 DEF Next

\* A handler comes to a decision by ReadApproval and to a hire by Decide.
LEMMA ReviewSources ==
  ASSUME IInv, NEW c \in Callers, Submits(c) \/ Step(c),
         caller[c].op # "review" => caller[c].approval = NoApproval
  PROVE  /\ caller'[c].op # "review" => caller'[c].approval = NoApproval
         /\ caller'[c].pc = "decide" => ReadApproval(c)
         /\ Hiring(caller'[c]) =>
              \/ Decide(c)
              \/ /\ Hiring(caller[c]) /\ ~InsertAgent(c)
                 /\ caller'[c].approval = caller[c].approval
                 /\ UNCHANGED <<approval, origin>>
<1>0. /\ caller \in [Callers -> Caller] /\ Fits(caller[c], agent)
      /\ caller[c].op # "review" => caller[c].approval = NoApproval
      /\ Idle.op = "none" /\ Idle.pc = "idle" /\ Idle.approval = NoApproval
      /\ InsertAgent(c) => caller[c].pc = "insert"
  BY DEF IInv, CallersOK, Idle, Local, InsertAgent, At
<1> USE DEF Hiring
<1>1. CASE Submits(c)
  BY <1>1, <1>0 DEF Submits, RequestHire, RequestUpdate, RequestStatus, RequestEdit,
      RequestTermination, RequestReview, Submit, Local, CheckManager, Store
<1>2. CASE ReadForUpdate(c) \/ ReadForStatus(c) \/ ReadForEdit(c) \/ ReadForTermination(c)
  BY <1>2, <1>0 DEF ReadForUpdate, ReadForStatus, ReadForEdit, ReadForTermination, At, Return,
      CheckManager, Store, Caller
<1>3. CASE ReadManager(c) \/ WalkFindsCycle(c)
  BY <1>3, <1>0 DEF ReadManager, WalkFindsCycle, At, Return, Caller
<1>4. CASE WalkUp(c)
  <2>1. caller'[c].op = caller[c].op /\ caller'[c].pc = caller[c].pc /\ caller[c].pc = "walk"
        /\ caller'[c].approval = caller[c].approval /\ UNCHANGED <<approval, origin>>
    BY <1>4, <1>0 DEF WalkUp, At, Caller
  <2> QED BY <2>1, <1>0
<1>5. CASE WalkEnds(c)
  BY <1>5, <1>0 DEF WalkEnds, At, Goto, Store, Caller
<1>6. CASE InsertAgent(c) \/ WriteRow(c) \/ ClearReports(c) \/ FileApproval(c) \/ Drop(c)
  BY <1>6, <1>0 DEF InsertAgent, WriteRow, ClearReports, FileApproval, Drop, At, Goto, Return,
      Caller
<1>7. CASE Activate(c)
  BY <1>7, <1>0 DEF Activate, At, Goto, Return, Caller
<1>8. CASE ReadApproval(c)
  <2>1. caller[c].pc = "look" /\ caller[c].op = "review"
    BY <1>8, <1>0 DEF ReadApproval, At, Fits, Assigned
  <2>2. caller'[c] = Idle \/ (caller'[c].op = "review" /\ caller'[c].pc = "decide")
    BY <2>1, <1>8, <1>0 DEF ReadApproval, Return, Caller
  <2> QED BY <2>2, <1>8, <1>0
<1>9. CASE Decide(c)
  BY <1>9, <1>0 DEF Decide, Return, Local
<1>10. CASE FindRoot(c)
  <2>1. caller[c].pc = "root" /\ caller[c].op = "review" /\ UNCHANGED <<approval, origin>>
    BY <1>10, <1>0 DEF FindRoot, At, Fits, Assigned
  <2>2. PICK r : \/ caller' = [caller EXCEPT ![c].pc = "insert"]
                 \/ caller' = [caller EXCEPT ![c].row = r, ![c].pc = "manager"]
    BY <1>10 DEF FindRoot, Goto
  <2>3. caller'[c].op = caller[c].op /\ caller'[c].pc \in {"insert", "manager"}
        /\ caller'[c].approval = caller[c].approval
    BY <2>2, <1>0 DEF Caller
  <2> QED BY <2>1, <2>3, <1>0
<1> QED BY <1>1, <1>2, <1>3, <1>4, <1>5, <1>6, <1>7, <1>8, <1>9, <1>10 DEF Step

\* Only a review that was outvoted changes an approval that was decided.
LEMMA DecidedStays ==
  ASSUME IInv, HireInv, HistoryNext, NEW p \in Approvals,
         approval[p].status \in {"approved", "rejected"},
         \A c \in Callers : ~DecidesAgain(c, p)
  PROVE  approval'[p] = approval[p]
<1>1. ASSUME NEW c \in Callers, Decide(c)
      PROVE  approval'[p] = approval[p]
  <2>1. caller[c].approval \in Approvals
    BY <1>1 DEF Decide, At, IInv, CallersOK, Fits, Assigned
  <2>2. caller[c].approval # p
    BY <1>1 DEF DecidesAgain, HireInv, ReviewsOK, Decide
  <2> QED BY <2>1, <2>2, <1>1 DEF Decide, IInv, ApprovalsOK
<1>2. Stands(approval, approval') => approval'[p] = approval[p]
  BY DEF Stands
<1> QED BY <1>1, <1>2, FilingStands DEF HistoryNext

\* Every step keeps the claim of a review that writes or hires on its approval.
LEMMA ReviewsStep ==
  ASSUME IInv, HireInv, HistoryNext
  PROVE  ReviewsOK' /\ TurnsOK'
<1>1. /\ caller \in [Callers -> Caller] /\ approval \in [Approvals -> Approval]
      /\ origin \in [Agents -> Approvals \cup {NoApproval}]
      /\ Next /\ RecordOutvoted /\ RecordContested
  BY DEF IInv, CallersOK, ApprovalsOK, OthersOK, HistoryNext, Record
<1>2. ASSUME NEW p \in Approvals, p \notin contested'
      PROVE  /\ p \notin contested /\ \A c \in Callers : ~DecidesAgain(c, p)
             /\ approval[p].status = "approved" => approval'[p].status = "approved"
  <2>1. p \notin contested /\ \A c \in Callers : ~DecidesAgain(c, p)
    BY <1>1, <1>2 DEF RecordContested
  <2> QED BY <2>1, DecidedStays
\* A decision that is not contested finds a pending approval that hired nobody.
<1>3. ASSUME NEW c \in Callers, Decide(c), caller[c].approval \notin contested'
      PROVE  /\ caller[c].approval \in Approvals /\ At(c, "decide")
             /\ approval[caller[c].approval].status = "pending"
             /\ \A a \in Agents : origin[a] # caller[c].approval
  <2> DEFINE p == caller[c].approval
  <2>1. At(c, "decide") /\ p \in Approvals
    BY <1>3 DEF Decide, At, IInv, CallersOK, Fits, Assigned
  <2>2. c \notin outvoted /\ p \notin contested
    BY <2>1, <1>2, <1>3 DEF DecidesAgain
  <2>3. approval[p].status = "pending" BY <2>1, <2>2 DEF HireInv, ReviewsOK
  <2>4. \A a \in Agents : origin[a] # p
    BY <2>1, <2>2, <2>3, ConstantsAssumption DEF HireInv, HiresOK
  <2> QED BY <2>1, <2>3, <2>4
\* What a handler that does not move has.
<1>4. ASSUME NEW d \in Callers, caller'[d] = caller[d]
      PROVE  /\ At(d, "decide") /\ d \notin outvoted' =>
                  approval'[caller[d].approval].status = "pending"
             /\ Hiring(caller[d]) /\ caller[d].approval \notin contested' /\ ~InsertAgent(d) =>
                  Entitled(caller[d], approval', origin')
  <2> DEFINE p == caller[d].approval
  <2>1. ASSUME At(d, "decide"), d \notin outvoted'
        PROVE  approval'[p].status = "pending"
    <3>1. d \notin outvoted /\ ~Settled(p)
      BY <1>1, <1>4, <2>1 DEF RecordOutvoted, At
    <3>2. approval[p].status = "pending" BY <2>1, <3>1 DEF HireInv, ReviewsOK
    <3> QED BY <3>1, <3>2 DEF Settled
  <2>2. ASSUME Hiring(caller[d]), p \notin contested', ~InsertAgent(d)
        PROVE  Entitled(caller[d], approval', origin')
    <3>1. p \notin contested BY <1>1, <2>2 DEF RecordContested
    <3>2. Entitled(caller[d], approval, origin)
      BY <2>2, <3>1 DEF HireInv, ReviewsOK
    <3>3. p \in Approvals /\ approval'[p].status = "approved"
      BY <3>2, <2>2, <1>2 DEF Entitled
    <3>4. ASSUME NEW a \in Agents PROVE origin'[a] # p
      <4>1. CASE UNCHANGED origin BY <4>1, <3>2 DEF Entitled
      <4>2. ASSUME NEW c \in Callers, InsertAgent(c) PROVE origin'[a] # p
        <5>1. c # d BY <4>2, <2>2
        <5>2. caller[c].approval # p
          <6>1. CASE caller[c].op = "review"
            <7>1. Hiring(caller[c]) BY <6>1, <4>2 DEF Hiring, InsertAgent, At
            <7> QED BY <7>1, <5>1, <2>2, <3>1 DEF HireInv, TurnsOK
          <6>2. CASE caller[c].op # "review"
            BY <6>2, <3>3, ConstantsAssumption DEF HireInv, ReviewsOK
          <6> QED BY <6>1, <6>2
        <5>3. origin' = [origin EXCEPT ![caller[c].agent] = caller[c].approval]
          BY <4>2 DEF InsertAgent
        <5> QED BY <5>2, <5>3, <3>2, <1>1 DEF Entitled
      <4> QED BY <4>1, <4>2, <1>1, OriginWriters
    <3> QED BY <3>3, <3>4 DEF Entitled
  <2> QED BY <2>1, <2>2
<1>5. CASE UNCHANGED caller
  <2>1. ASSUME NEW d \in Callers PROVE ~InsertAgent(d)
    BY <1>1, <1>5 DEF InsertAgent, At, Goto, Return, Idle, Local, Caller
  <2>2. ASSUME NEW d \in Callers PROVE caller[d].op # "review" => caller[d].approval = NoApproval
    BY DEF HireInv, ReviewsOK
  <2>3. ReviewsOK' BY <2>1, <2>2, <1>4, <1>5 DEF ReviewsOK, At
  <2>4. TurnsOK' BY <1>1, <1>5 DEF HireInv, TurnsOK, RecordContested
  <2> QED BY <2>3, <2>4
<1>6. ASSUME NEW c \in Callers, Submits(c) \/ Step(c), NEW k, caller' = [caller EXCEPT ![c] = k]
      PROVE  ReviewsOK' /\ TurnsOK'
  <2>1. \A d \in Callers : d # c => caller'[d] = caller[d]
    BY <1>1, <1>6
  <2>2. ASSUME NEW d \in Callers, d # c
        PROVE  ~InsertAgent(d)
    BY <1>1, <2>1, <2>2 DEF InsertAgent, At, Goto, Return, Idle, Local, Caller
  <2>3. caller[c].op # "review" => caller[c].approval = NoApproval
    BY DEF HireInv, ReviewsOK
  <2>4. /\ caller'[c].op # "review" => caller'[c].approval = NoApproval
        /\ caller'[c].pc = "decide" => ReadApproval(c)
        /\ Hiring(caller'[c]) =>
             \/ Decide(c)
             \/ /\ Hiring(caller[c]) /\ ~InsertAgent(c)
                /\ caller'[c].approval = caller[c].approval
                /\ UNCHANGED <<approval, origin>>
    BY <1>6, <2>3, ReviewSources
  <2>5. ASSUME Hiring(caller'[c]), Decide(c)
        PROVE  caller'[c].approval = caller[c].approval /\ caller[c].form.status = "approved"
    BY <2>5, <1>1 DEF Decide, Return, Local, Idle, Hiring
  <2>6. ASSUME caller'[c].pc = "decide"
        PROVE  approval'[caller'[c].approval].status = "pending"
    <3>1. ReadApproval(c) BY <2>4, <2>6
    <3>2. caller'[c] # Idle BY <2>6 DEF Idle, Local
    <3>3. caller'[c].approval = caller[c].approval
          /\ approval[caller[c].approval].status = "pending"
      BY <3>1, <3>2, <1>1 DEF ReadApproval, Return, Caller
    <3> QED BY <3>1, <3>3 DEF ReadApproval
  <2>7. ASSUME Hiring(caller'[c]), caller'[c].approval \notin contested'
        PROVE  Entitled(caller'[c], approval', origin')
    <3>1. CASE Decide(c)
      <4>1. caller'[c].approval = caller[c].approval /\ caller[c].form.status = "approved"
        BY <2>5, <2>7, <3>1
      <4>2. caller[c].approval \in Approvals /\ \A a \in Agents : origin[a] # caller[c].approval
        BY <1>3, <2>7, <3>1, <4>1
      <4>3. UNCHANGED origin /\ approval'[caller[c].approval] = caller[c].form
        BY <3>1, <4>2, <1>1 DEF Decide
      <4> QED BY <4>1, <4>2, <4>3 DEF Entitled
    <3>2. CASE ~Decide(c)
      <4>1. /\ Hiring(caller[c]) /\ caller'[c].approval = caller[c].approval
            /\ UNCHANGED <<approval, origin>>
        BY <2>4, <2>7, <3>2
      <4>2. caller[c].approval \notin contested
        BY <1>1, <2>7, <4>1 DEF RecordContested
      <4>3. Entitled(caller[c], approval, origin)
        BY <4>1, <4>2 DEF HireInv, ReviewsOK
      <4> QED BY <4>1, <4>3 DEF Entitled
    <3> QED BY <3>1, <3>2
  <2>8. ReviewsOK'
    <3> SUFFICES ASSUME NEW d \in Callers
                 PROVE  /\ caller'[d].op # "review" => caller'[d].approval = NoApproval
                        /\ caller'[d].pc = "decide" /\ d \notin outvoted' =>
                             approval'[caller'[d].approval].status = "pending"
                        /\ Hiring(caller'[d]) /\ caller'[d].approval \notin contested' =>
                             Entitled(caller'[d], approval', origin')
      BY DEF ReviewsOK, At
    <3>1. CASE d = c BY <3>1, <2>4, <2>6, <2>7
    <3>2. CASE d # c
      <4>1. caller[d].op # "review" => caller[d].approval = NoApproval
        BY DEF HireInv, ReviewsOK
      <4> QED BY <3>2, <4>1, <2>1, <2>2, <1>4 DEF At
    <3> QED BY <3>1, <3>2
\* Two reviews of one approval that hire: one of them decided now, or both before.
  <2>9. ASSUME NEW e \in Callers, e # c, Hiring(caller'[c]), Hiring(caller'[e]),
               caller'[c].approval = caller'[e].approval, caller'[c].approval \notin contested'
        PROVE  FALSE
    <3>1. Hiring(caller[e]) /\ caller[e].approval = caller'[c].approval
      BY <2>1, <2>9
    <3>2. caller[e].approval \notin contested
      BY <1>1, <2>9, <3>1 DEF RecordContested
    <3>3. approval[caller[e].approval].status = "approved"
      BY <3>1, <3>2 DEF HireInv, ReviewsOK, Entitled
    <3>4. CASE Decide(c)
      BY <3>1, <3>3, <3>4, <2>5, <2>9, <1>3
    <3>5. CASE ~Decide(c)
      <4>1. Hiring(caller[c]) /\ caller'[c].approval = caller[c].approval
        BY <2>4, <2>9, <3>5
      <4> QED BY <4>1, <3>1, <3>2, <2>9 DEF HireInv, TurnsOK
    <3> QED BY <3>4, <3>5
  <2>10. TurnsOK'
    <3> SUFFICES ASSUME NEW d \in Callers, NEW e \in Callers, d # e,
                        Hiring(caller'[d]), Hiring(caller'[e]),
                        caller'[d].approval = caller'[e].approval
                 PROVE  caller'[d].approval \in contested'
      BY DEF TurnsOK
    <3>1. CASE d = c \/ e = c BY <3>1, <2>9
    <3>2. CASE d # c /\ e # c
      BY <3>2, <2>1, <1>1 DEF HireInv, TurnsOK, RecordContested
    <3> QED BY <3>1, <3>2
  <2> QED BY <2>8, <2>10
<1> QED BY <1>1, <1>5, <1>6, CallerWriters

\* Every step keeps agents and the uncontested approvals they were hired by one to one.
LEMMA HiresStep ==
  ASSUME IInv, HireInv, HistoryNext
  PROVE  HiresOK' /\ UncontestedHiresOnce'
<1>1. /\ caller \in [Callers -> Caller] /\ approval \in [Approvals -> Approval]
      /\ origin \in [Agents -> Approvals \cup {NoApproval}]
      /\ Next /\ RecordContested
  BY DEF IInv, CallersOK, ApprovalsOK, OthersOK, HistoryNext, Record
<1>2. contested \subseteq contested'
  BY <1>1 DEF RecordContested
<1>3. ASSUME NEW a \in Agents, origin[a] \notin contested' \cup {NoApproval}
      PROVE  approval'[origin[a]].status = "approved"
  <2>1. origin[a] \in Approvals /\ origin[a] \notin contested
        /\ \A c \in Callers : ~DecidesAgain(c, origin[a])
    BY <1>1, <1>3 DEF RecordContested
  <2>2. approval[origin[a]].status = "approved"
    BY <2>1, <1>3 DEF HireInv, HiresOK
  <2>3. approval'[origin[a]] = approval[origin[a]]
    BY <2>1, <2>2, DecidedStays
  <2> QED BY <2>2, <2>3
<1>4. CASE UNCHANGED origin
  BY <1>2, <1>3, <1>4 DEF HireInv, HiresOK, UncontestedHiresOnce
<1>5. ASSUME NEW c \in Callers, InsertAgent(c)
      PROVE  HiresOK' /\ UncontestedHiresOnce'
  <2> DEFINE p == caller[c].approval
  <2>1. p \in contested \cup {NoApproval}
        \/ (p \in Approvals /\ approval[p].status = "approved" /\ \A a \in Agents : origin[a] # p)
    BY <1>5 DEF InsertAgent, At, Hiring, HireInv, ReviewsOK, Entitled
  <2>2. caller[c].agent \in Agents
    BY <1>5 DEF InsertAgent, At, IInv, CallersOK, Fits, Assigned
  <2>3. origin' = [origin EXCEPT ![caller[c].agent] = p] /\ UNCHANGED approval
    BY <1>5 DEF InsertAgent
  <2> QED BY <2>1, <2>2, <2>3, <1>1, <1>2 DEF HireInv, HiresOK, UncontestedHiresOnce
<1> QED BY <1>1, <1>4, <1>5, OriginWriters

\* The invariant of hires holds initially.
LEMMA HireInitially == HistoryInit => HireInv
<1>1. ASSUME HistoryInit PROVE HireInv
  <2>0. Init BY <1>1 DEF HistoryInit
  <2>1. \A c \in Callers : caller[c].op = "none" /\ caller[c].pc = "idle"
                           /\ caller[c].approval = NoApproval
    BY <2>0 DEF Init, Idle, Local
  <2>2. ReviewsOK /\ TurnsOK
    BY <2>1 DEF ReviewsOK, TurnsOK, Hiring, At
  <2>3. HiresOK /\ UncontestedHiresOnce
    BY <2>0 DEF Init, HiresOK, UncontestedHiresOnce
  <2> QED BY <2>2, <2>3 DEF HireInv
<1> QED BY <1>1

\* Any number of reviews that overtake one another: what a review has read of its
\* approval holds until it has hired, or the record says that it does not.
THEOREM HireInvariance == HistorySpec => []HireInv
<1>1. IInv /\ HireInv /\ [HistoryNext]_<<vars, history>> => HireInv'
  <2>1. ASSUME IInv, HireInv, HistoryNext PROVE HireInv'
    BY <2>1, ReviewsStep, HiresStep DEF HireInv
  <2>2. ASSUME HireInv, UNCHANGED <<vars, history>> PROVE HireInv'
    BY <2>2 DEF HireInv, ReviewsOK, TurnsOK, HiresOK, UncontestedHiresOnce, At, vars, history
  <2> QED BY <2>1, <2>2
<1> QED BY <1>1, HireInitially, HistoryImplements, Invariance, PTL DEF HistorySpec

\* review and execute_hire_agent: an approval hires at most one new agent however
\* often it is revised, resubmitted and reviewed, unless a review decided it that
\* another one had outvoted.
THEOREM HiresOnce == HistorySpec => []UncontestedHiresOnce
<1>1. HireInv => UncontestedHiresOnce
  BY DEF HireInv
<1> QED BY <1>1, HireInvariance, PTL

\* review and resubmit: nothing but an outvoted review changes an approval that was
\* approved or rejected.
THEOREM DecisionsFinal == HistorySpec => DecisionsStand
<1>1. IInv /\ HireInv /\ [HistoryNext]_<<vars, history>> =>
        [\A p \in Approvals :
           approval[p].status \in {"approved", "rejected"} /\ approval'[p] # approval[p] =>
             \E c \in Callers : DecidesAgain(c, p)]_<<vars, history>>
  BY DecidedStays
<1> QED BY <1>1, HistoryImplements, Invariance, HireInvariance, PTL
    DEF HistorySpec, DecisionsStand

=============================================================================
