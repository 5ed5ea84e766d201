--------------------------- MODULE Workers_proofs ---------------------------
(***************************************************************************)
(* Theorems about PluginWorkers, TaskWatchdog and RoutineTriggers, for     *)
(* every number of handles, processes, clients, issues, evaluations,       *)
(* triggers and executions.                                                *)
(***************************************************************************)
EXTENDS PluginWorkers, TaskWatchdog, RoutineTriggers, FiniteSetTheorems, TLAPS

-----------------------------------------------------------------------------
(* Plugin workers.  start spawns only in a handle that is idle or stopped, *)
(* and such a handle has no child (StoppedChildless): it gets one together *)
(* with the status starting, and loses it together with the status stopped.*)
(* A late start may show a stopped handle as running, but never the other  *)
(* way round.                                                              *)

Handle == [status : {"idle", "starting", "running", "stopping", "stopped"},
           child : Processes \cup {Nil}, pending : SUBSET Clients]
InHandle == {"start", "running", "call", "send", "wait", "stop", "kill"}
ClientRow == [op : {"none", "start_worker", "stop_worker", "stop_all", "restart", "call"},
              sub : InHandle \cup {"none", "next"}, on : Workers \cup {Nil},
              rpc : {"none", "initialize", "shutdown", "method"}, todo : SUBSET Workers]

WorkerTypes ==
  /\ worker \in [Workers -> Handle]
  /\ registered \in Workers \cup {Nil}
  /\ parent \in [Processes -> Workers \cup {Nil}]
  /\ alive \subseteq Processes
  /\ client \in [Clients -> ClientRow]
  /\ \A c \in Clients : client[c].sub \in InHandle => client[c].on \in Workers
StoppedChildless ==
  \A h \in Workers : worker[h].status \in {"idle", "stopped"} => worker[h].child = Nil
Fathered == \A p \in alive : parent[p] \in Workers
WorkersInv == WorkerTypes /\ StoppedChildless /\ Fathered /\ ChildKept

\* The invariant of PluginWorkers holds before any worker is started.
LEMMA WorkersInitially == WorkersInit => WorkersInv
BY DEF WorkersInit, WorkersInv, WorkerTypes, StoppedChildless, Fathered, ChildKept, Handle,
       ClientRow, InHandle, Unstarted, Unused

\* What the locals of a client may become
ClientOK(k) == k \in ClientRow /\ (k.sub \in InHandle => k.on \in Workers)
Moves(c) == client' = client \/ \E k : ClientOK(k) /\ client' = [client EXCEPT ![c] = k]

\* A client without a call holds no handle.
LEMMA UnusedOK == ClientOK(Unused)
BY DEF ClientOK, Unused, ClientRow, InHandle

\* The steps that only move a client's program counter are moves in the sense of Moves.
LEMMA StepsAreMoves ==
  ASSUME WorkersInv, NEW c \in Clients
  PROVE  /\ EndUse(c) => Moves(c)
         /\ \A s \in InHandle \cup {"next"} : 
              Proceed(c, s) /\ client[c].on \in Workers => Moves(c)
<1>1. EndUse(c) => Moves(c)
  BY UnusedOK DEF EndUse, Moves
<1>2. ASSUME NEW s \in InHandle \cup {"next"}, Proceed(c, s), client[c].on \in Workers
      PROVE  Moves(c)
  <2>1. client[c] \in ClientRow
    BY DEF WorkersInv, WorkerTypes
  <2>2. ClientOK([client[c] EXCEPT !.sub = s])
    BY <1>2, <2>1 DEF ClientOK, ClientRow
  <2>3. client' = [client EXCEPT ![c] = [client[c] EXCEPT !.sub = s]]
    BY <1>2 DEF Proceed
  <2> QED BY <2>2, <2>3 DEF Moves
<1> QED BY <1>1, <1>2

\* A step that changes no child and no process keeps the invariant, if it does
\* not show a handle with a child as idle or stopped.
LEMMA HandlesKept ==
  ASSUME WorkersInv, NEW c \in Clients, Moves(c),
         worker' \in [Workers -> Handle], registered' \in Workers \cup {Nil},
         \A h \in Workers : /\ worker'[h].child = worker[h].child
                            /\ worker'[h].status \in {"idle", "stopped"} =>
                                 worker[h].status = worker'[h].status,
         UNCHANGED parent, alive' \subseteq alive
  PROVE  WorkersInv'
<1>1. WorkerTypes'
  BY DEF WorkersInv, WorkerTypes, Moves, ClientOK
<1> QED BY <1>1 DEF WorkersInv, StoppedChildless, Fathered, ChildKept, WorkerTypes

\* Start, stop, stop_all and a call of a handle begin without touching a process.
LEMMA OperationsBegin ==
  ASSUME WorkersInv, NEW c \in Clients,
         StartWorker(c) \/ StopWorker(c) \/ StopAll(c) \/ UseHandle(c)
  PROVE  WorkersInv'
<1>1. Moves(c)
  <2>1. CASE StartWorker(c)
    <3>1. ASSUME NEW h \in Workers
          PROVE  ClientOK([Unused EXCEPT !.op = "start_worker", !.sub = "start", !.on = h])
      BY UnusedOK DEF ClientOK, Unused, ClientRow, InHandle
    <3> QED BY <2>1, <3>1 DEF StartWorker, Moves
  <2>2. CASE StopWorker(c)
    <3>1. registered # Nil =>
            ClientOK([Unused EXCEPT !.op = "stop_worker", !.sub = "stop", !.on = registered])
      BY UnusedOK DEF ClientOK, Unused, ClientRow, InHandle, WorkersInv, WorkerTypes
    <3> QED BY <2>2, <3>1 DEF StopWorker, Moves
  <2>3. CASE StopAll(c)
    <3>1. Known \in SUBSET Workers
      BY DEF Known, WorkersInv, WorkerTypes
    <3>2. ClientOK([Unused EXCEPT !.op = "stop_all", !.sub = "next", !.todo = Known])
      BY <3>1 DEF ClientOK, Unused, ClientRow, InHandle
    <3> QED BY <2>3, <3>2 DEF StopAll, Moves
  <2>4. CASE UseHandle(c)
    <3>1. Known \subseteq Workers
      BY DEF Known, WorkersInv, WorkerTypes
    <3>2. ASSUME NEW h \in Known, NEW op \in {"restart", "call"}
          PROVE  ClientOK([Unused EXCEPT !.op = op, !.on = h,
                             !.sub = IF op = "restart" THEN "stop" ELSE "call",
                             !.rpc = IF op = "call" THEN "method" ELSE "none"])
      BY <3>1 DEF ClientOK, Unused, ClientRow, InHandle
    <3> QED BY <2>4, <3>2 DEF UseHandle, Moves
  <2> QED BY <2>1, <2>2, <2>3, <2>4
<1>2. UNCHANGED <<worker, parent, alive>> /\ registered' \in {registered, Nil}
  BY DEF StartWorker, StopWorker, StopAll, UseHandle
<1> QED BY <1>1, <1>2, HandlesKept DEF WorkersInv, WorkerTypes

\* A spawn puts a new process into a handle without a child.
LEMMA SpawnKeeps ==
  ASSUME WorkersInv, NEW c \in Clients, Spawn(c)
  PROVE  WorkersInv'
<1> DEFINE h == client[c].on
<1>1. h \in Workers
  BY DEF Spawn, WorkersInv, WorkerTypes, InHandle
<1>2. CASE UNCHANGED <<worker, parent, alive>> /\ EndUse(c)
  BY <1>2, StepsAreMoves, HandlesKept DEF Spawn, WorkersInv, WorkerTypes
<1>3. CASE worker' = [worker EXCEPT ![h].status = "starting"] /\ UNCHANGED <<parent, alive>>
           /\ EndUse(c)
  <2>1. worker' \in [Workers -> Handle]
        /\ \A g \in Workers : /\ worker'[g].child = worker[g].child
                              /\ worker'[g].status \in {"idle", "stopped"} =>
                                   worker[g].status = worker'[g].status
    BY <1>1, <1>3 DEF WorkersInv, WorkerTypes, Handle
  <2> QED BY <1>3, <2>1, StepsAreMoves, HandlesKept DEF Spawn, WorkersInv, WorkerTypes
<1>4. ASSUME NEW p \in Processes, parent[p] = Nil,
             worker[h].status \in {"idle", "stopped"},
             worker' = [worker EXCEPT ![h].status = "starting", ![h].child = p],
             parent' = [parent EXCEPT ![p] = h], alive' = alive \cup {p},
             client' = [client EXCEPT ![c].sub = "call", ![c].rpc = "initialize"]
      PROVE  WorkersInv'
  <2>1. worker[h].child = Nil
    BY <1>1, <1>4 DEF WorkersInv, StoppedChildless
  <2>2. /\ worker' \in [Workers -> Handle]
        /\ worker'[h].status = "starting" /\ worker'[h].child = p
        /\ \A g \in Workers \ {h} : worker'[g] = worker[g]
    BY <1>1, <1>4 DEF WorkersInv, WorkerTypes, Handle
  <2>3. client' \in [Clients -> ClientRow] /\ (\A d \in Clients : client'[d].on = client[d].on)
        /\ \A d \in Clients \ {c} : client'[d].sub = client[d].sub
    <3>1. client[c] \in ClientRow
      BY DEF WorkersInv, WorkerTypes
    <3>2. LET k == [client[c] EXCEPT !.sub = "call", !.rpc = "initialize"]
          IN k \in ClientRow /\ k.on = h
      BY <3>1 DEF ClientRow, InHandle
    <3>3. client' = [client EXCEPT ![c] = [client[c] EXCEPT !.sub = "call", !.rpc = "initialize"]]
      BY <1>4 DEF WorkersInv, WorkerTypes
    <3> QED BY <3>2, <3>3 DEF WorkersInv, WorkerTypes
  <2>4. WorkerTypes'
    BY <1>1, <1>4, <2>2, <2>3 DEF Spawn, WorkersInv, WorkerTypes
  <2>5. StoppedChildless'
    BY <2>2 DEF WorkersInv, StoppedChildless
  <2>6. \A q \in alive : q # p /\ parent'[q] = parent[q] /\ parent[q] # h
    BY <1>4, <2>1, WorkersAssumption DEF WorkersInv, WorkerTypes, Fathered, ChildKept
  <2>7. Fathered' /\ ChildKept'
    BY <1>1, <1>4, <2>2, <2>6 DEF WorkersInv, WorkerTypes, Fathered, ChildKept
  <2> QED BY <2>4, <2>5, <2>7 DEF WorkersInv
<1> QED BY <1>2, <1>3, <1>4 DEF Spawn

\* The statements of a call, and the mark after a spawn, keep the children.
LEMMA CallKeeps ==
  ASSUME WorkersInv, NEW c \in Clients,
         MarkRunning(c) \/ CheckRunning(c) \/ Send(c) \/ Respond(c) \/ NoResponse(c)
  PROVE  WorkersInv'
<1> DEFINE h == client[c].on
<1>1. h \in Workers
  BY DEF MarkRunning, CheckRunning, Send, Respond, NoResponse, WorkersInv, WorkerTypes, InHandle
<1>2. Moves(c)
  BY <1>1, StepsAreMoves
     DEF MarkRunning, CheckRunning, Send, Respond, NoResponse, Failed, InHandle
<1>3. \/ UNCHANGED worker
      \/ worker' = [worker EXCEPT ![h].status = "running"]
      \/ \E pending \in SUBSET Clients : worker' = [worker EXCEPT ![h].pending = pending]
  <2>1. worker[h].pending \in SUBSET Clients
    BY <1>1 DEF WorkersInv, WorkerTypes, Handle
  <2>2. worker[h].pending \cup {c} \in SUBSET Clients /\ worker[h].pending \ {c} \in SUBSET Clients
    BY <2>1
  <2> QED BY <2>2 DEF MarkRunning, CheckRunning, Send, Respond, NoResponse
<1>4. worker' \in [Workers -> Handle]
      /\ \A g \in Workers : /\ worker'[g].child = worker[g].child
                            /\ worker'[g].status \in {"idle", "stopped"} =>
                                 worker[g].status = worker'[g].status
  <2>1. worker \in [Workers -> Handle]
    BY DEF WorkersInv, WorkerTypes
  <2>2. CASE worker' = [worker EXCEPT ![h].status = "running"]
    BY <1>1, <2>1, <2>2 DEF Handle
  <2>3. ASSUME NEW pending \in SUBSET Clients, worker' = [worker EXCEPT ![h].pending = pending]
        PROVE  <1>4
    <3>1. [worker[h] EXCEPT !.pending = pending] \in Handle
      BY <1>1, <2>1 DEF Handle
    <3>2. worker' = [worker EXCEPT ![h] = [worker[h] EXCEPT !.pending = pending]]
      BY <2>1, <2>3
    <3>3. worker'[h].child = worker[h].child /\ worker'[h].status = worker[h].status
      BY <1>1, <2>1, <3>2 DEF Handle
    <3> QED BY <1>1, <2>1, <3>1, <3>2, <3>3
  <2> QED BY <1>3, <2>1, <2>2, <2>3
<1>5. registered' \in Workers \cup {Nil} /\ UNCHANGED <<parent, alive>>
  BY <1>1 DEF MarkRunning, CheckRunning, Send, Respond, NoResponse, WorkersInv, WorkerTypes
<1> QED BY <1>2, <1>4, <1>5, HandlesKept

\* The statements of a stop take the child of a handle out only to kill it.
LEMMA StopKeeps ==
  ASSUME WorkersInv, NEW c \in Clients, BeginStop(c) \/ KillChild(c) \/ NextToStop(c)
  PROVE  WorkersInv'
<1> DEFINE h == client[c].on
<1>1. client[c] \in ClientRow
  BY DEF WorkersInv, WorkerTypes
<1>2. client[c].sub \in {"stop", "kill"} => h \in Workers /\ (StopReturns(c) => Moves(c))
  BY StepsAreMoves DEF StopReturns, WorkersInv, WorkerTypes, InHandle
<1>3. CASE BeginStop(c)
  <2>1. h \in Workers
    BY <1>2, <1>3 DEF BeginStop
  <2>2. CASE UNCHANGED worker /\ StopReturns(c)
    BY <1>2, <1>3, <2>2, HandlesKept DEF BeginStop, WorkersInv, WorkerTypes
  <2>3. CASE worker' = [worker EXCEPT ![h].status = "stopping"]
             /\ client' = [client EXCEPT ![c].sub = "call", ![c].rpc = "shutdown"]
    <3>1. worker' \in [Workers -> Handle]
          /\ \A g \in Workers : /\ worker'[g].child = worker[g].child
                                /\ worker'[g].status \in {"idle", "stopped"} =>
                                     worker[g].status = worker'[g].status
      BY <2>1, <2>3 DEF WorkersInv, WorkerTypes, Handle
    <3>2. ClientOK([client[c] EXCEPT !.sub = "call", !.rpc = "shutdown"])
      BY <1>1, <2>1 DEF ClientOK, ClientRow, InHandle
    <3>3. client' = [client EXCEPT ![c] = [client[c] EXCEPT !.sub = "call", !.rpc = "shutdown"]]
      BY <2>3 DEF WorkersInv, WorkerTypes
    <3> QED BY <1>3, <3>1, <3>2, <3>3, HandlesKept DEF BeginStop, Moves, WorkersInv, WorkerTypes
  <2> QED BY <1>3, <2>2, <2>3 DEF BeginStop
<1>4. CASE KillChild(c)
  <2> DEFINE p == worker[h].child
  <2>1. h \in Workers /\ Moves(c)
    BY <1>2, <1>4 DEF KillChild
  <2>2. /\ worker' \in [Workers -> Handle]
        /\ worker'[h].status = "stopped" /\ worker'[h].child = Nil
        /\ \A g \in Workers \ {h} : worker'[g] = worker[g]
    BY <1>4, <2>1 DEF KillChild, WorkersInv, WorkerTypes, Handle
  <2>3. alive' = alive \ {p} /\ UNCHANGED <<parent, registered>>
    BY <1>4 DEF KillChild
  <2>4. WorkerTypes'
    BY <2>1, <2>2, <2>3 DEF WorkersInv, WorkerTypes, Moves, ClientOK
  <2>5. StoppedChildless'
    BY <2>2 DEF WorkersInv, StoppedChildless
  <2>6. Fathered' /\ ChildKept'
    BY <2>1, <2>2, <2>3 DEF WorkersInv, Fathered, ChildKept
  <2> QED BY <2>4, <2>5, <2>6 DEF WorkersInv
<1>5. CASE NextToStop(c)
  <2>1. ASSUME NEW g \in client[c].todo
        PROVE  /\ ClientOK([client[c] EXCEPT !.sub = "stop", !.on = g, !.todo = @ \ {g}])
               /\ client' = [client EXCEPT ![c].sub = "stop", ![c].on = g, ![c].todo = @ \ {g}] =>
                    Moves(c)
    <3>1. g \in Workers /\ client[c].todo \ {g} \in SUBSET Workers
      BY <1>1 DEF ClientRow
    <3>2. ClientOK([client[c] EXCEPT !.sub = "stop", !.on = g, !.todo = @ \ {g}])
      BY <1>1, <3>1 DEF ClientOK, ClientRow, InHandle
    <3>3. client' = [client EXCEPT ![c].sub = "stop", ![c].on = g, ![c].todo = @ \ {g}] =>
            client' = [client EXCEPT
                         ![c] = [client[c] EXCEPT !.sub = "stop", !.on = g, !.todo = @ \ {g}]]
      BY DEF WorkersInv, WorkerTypes
    <3> QED BY <3>2, <3>3 DEF Moves
  <2>2. Moves(c)
    BY <1>5, <2>1, StepsAreMoves DEF NextToStop
  <2> QED BY <1>5, <2>2, HandlesKept DEF NextToStop, WorkersInv, WorkerTypes
<1> QED BY <1>3, <1>4, <1>5

\* Every step of PluginWorkers keeps its invariant.
LEMMA WorkersSteps == WorkersInv /\ [WorkersNext]_workerVars => WorkersInv'
<1>1. WorkersInv /\ UNCHANGED workerVars => WorkersInv'
  BY DEF workerVars, WorkersInv, WorkerTypes, StoppedChildless, Fathered, ChildKept
<1>2. ASSUME WorkersInv, NEW p \in Processes, ProcessExits(p)
      PROVE  WorkersInv'
  BY <1>2 DEF ProcessExits, WorkersInv, WorkerTypes, StoppedChildless, Fathered, ChildKept
<1> QED BY <1>1, <1>2, OperationsBegin, SpawnKeeps, CallKeeps, StopKeeps DEF WorkersNext, ClientStep

\* A worker process that runs is the child of its handle, so that the next stop
\* ends it, whatever operations of whatever clients overlap.
THEOREM NoProcessIsLost == WorkersSpec => []ChildKept
<1>1. WorkersInv => ChildKept
  BY DEF WorkersInv
<1> QED BY <1>1, WorkersInitially, WorkersSteps, PTL DEF WorkersSpec

-----------------------------------------------------------------------------
(* The watchdog.  A review id that an evaluation holds is one the row      *)
(* names, but for one that it has created and not linked yet               *)
(* (ReviewsLinked).  What an evaluation concludes is about one moment: the *)
(* query of the runs, which the history variables date (Watchful).         *)

Prints == (SUBSET (Issues \X {"open", "done", "outside"})) \cup {NoPrint}
EvaluationRow ==
  [pc : {"resting", "subtree", "runs", "wakes", "classify", "find", "reopen", "create", "link",
         "reviewed"},
   row : Reviews \cup {NoReview}, ids : SUBSET Issues, print : Prints, live : BOOLEAN,
   reviewed : Prints]
WatchdogRow == [active : BOOLEAN, review : Reviews \cup {NoReview}, observed : Prints,
                reviewed : Prints]
WatchdogTypes ==
  /\ subtree \in [Issues -> {"open", "done", "outside"}]
  /\ liveRuns \subseteq Issues
  /\ evaluation \in [Evaluations -> EvaluationRow]
  /\ watchdog \in WatchdogRow

Linked(k, linked) ==
  /\ k.row # NoReview /\ k.pc # "link" => linked # NoReview
  /\ k.pc \in {"reopen", "link", "reviewed"} => k.row # NoReview
ReviewsLinked == \A e \in Evaluations : Linked(evaluation[e], watchdog.review)

Watches(e, k, idle, same) ==
  /\ k.pc # "resting" /\ ~Live(liveRuns, subtree) => e \in idle
  /\ k.pc \notin {"resting", "subtree"} /\ e \in same => k.ids = Members
  /\ k.pc \in {"wakes", "classify"} /\ ~k.live /\ e \in same => e \in idle
Watchful == \A e \in Evaluations : Watches(e, evaluation[e], wasIdle, sameTree)

WatchdogInv == WatchdogTypes /\ ReviewsLinked /\ ReviewedHasIssue /\ Watchful /\ StableTreeSound

\* No fingerprint is a value of the fingerprint column.
LEMMA NoPrintTyped == NoPrint \in Prints
BY DEF Prints

\* The invariant of TaskWatchdog holds of a watchdog that was never evaluated.
LEMMA WatchdogInitially == WatchdogInit => WatchdogInv
<1> SUFFICES ASSUME WatchdogInit
             PROVE  WatchdogInv
  OBVIOUS
<1>1. WatchdogTypes
  <2>1. Resting \in EvaluationRow
    BY NoPrintTyped DEF Resting, EvaluationRow
  <2>2. watchdog \in WatchdogRow
    BY NoPrintTyped DEF WatchdogInit, WatchdogRow
  <2> QED BY <2>1, <2>2, WatchdogAssumption DEF WatchdogInit, WatchdogTypes
<1>2. ReviewsLinked /\ Watchful
  BY DEF WatchdogInit, ReviewsLinked, Linked, Watchful, Watches, Resting
<1> QED BY <1>1, <1>2 DEF WatchdogInit, WatchdogInv, ReviewedHasIssue, StableTreeSound

\* A step of one evaluation that leaves the subtree and its runs alone.
LEMMA EvaluationTurn ==
  ASSUME WatchdogInv, NEW e \in Evaluations, NEW k \in EvaluationRow, Become(e, k),
         Linked(k, watchdog'.review), Watches(e, k, wasIdle', sameTree'),
         watchdog' \in WatchdogRow, watchdog.review # NoReview => watchdog'.review # NoReview,
         ReviewedHasIssue', ~misjudged',
         UNCHANGED <<subtree, liveRuns>>,
         \A d \in Evaluations \ {e} : (d \in wasIdle <=> d \in wasIdle')
                                      /\ (d \in sameTree <=> d \in sameTree')
  PROVE  WatchdogInv'
<1>1. evaluation' = [evaluation EXCEPT ![e] = k] /\ evaluation'[e] = k
      /\ \A d \in Evaluations \ {e} : evaluation'[d] = evaluation[d]
  BY DEF Become, WatchdogInv, WatchdogTypes
<1>2. WatchdogTypes'
  BY <1>1 DEF WatchdogInv, WatchdogTypes
<1>3. ASSUME NEW d \in Evaluations
      PROVE  Linked(evaluation[d], watchdog.review)' /\ Watches(d, evaluation[d], wasIdle, sameTree)'
  BY <1>1 DEF WatchdogInv, ReviewsLinked, Linked, Watchful, Watches, Live, Members
<1> QED BY <1>2, <1>3 DEF WatchdogInv, ReviewsLinked, Watchful, StableTreeSound

\* An evaluation at rest claims nothing.
LEMMA RestingFits ==
  Resting \in EvaluationRow /\ Linked(Resting, watchdog'.review) /\ \A e \in Evaluations : Watches(e, Resting, wasIdle', sameTree')
BY NoPrintTyped DEF Resting, EvaluationRow, Linked, Watches

\* The members of the subtree and its fingerprint have their types.
LEMMA PrintsTyped == WatchdogInv => Members \in SUBSET Issues /\ Fingerprint \in Prints
BY WatchdogAssumption
   DEF WatchdogInv, WatchdogTypes, Members, Fingerprint, Leaves, Prints

\* An evaluation's queries read what the history variables say was the case.
LEMMA Queries ==
  ASSUME WatchdogInv, NEW e \in Evaluations,
         Evaluate(e) \/ LoadSubtree(e) \/ ListLiveRuns(e) \/ ListLiveWakes(e) \/ GiveUp(e)
  PROVE  WatchdogInv'
<1>1. evaluation[e] \in EvaluationRow /\ Linked(evaluation[e], watchdog.review) /\ Watches(e, evaluation[e], wasIdle, sameTree)
      /\ watchdog \in WatchdogRow /\ ReviewedHasIssue /\ ~misjudged
  BY DEF WatchdogInv, WatchdogTypes, ReviewsLinked, Watchful, StableTreeSound
<1>2. ReviewedHasIssue' /\ ~misjudged' /\ UNCHANGED <<subtree, liveRuns, watchdog>>
      /\ \A d \in Evaluations \ {e} : (d \in wasIdle <=> d \in wasIdle')
                                      /\ (d \in sameTree <=> d \in sameTree')
  BY <1>1 DEF Evaluate, LoadSubtree, ListLiveRuns, ListLiveWakes, GiveUp, ReviewedHasIssue
<1>3. CASE Evaluate(e)
  <2> DEFINE k == [Resting EXCEPT !.pc = "subtree", !.row = watchdog.review,
                                  !.reviewed = watchdog.reviewed]
  <2>1. k \in EvaluationRow /\ k.pc = "subtree" /\ k.row = watchdog.review
    BY <1>1, NoPrintTyped DEF Resting, EvaluationRow, WatchdogRow
  <2>2. Linked(k, watchdog'.review) /\ Watches(e, k, wasIdle', sameTree')
    BY <1>2, <1>3, <2>1 DEF Evaluate, Linked, Watches, Live
  <2> QED BY <1>1, <1>2, <1>3, <2>1, <2>2, EvaluationTurn DEF Evaluate
<1>4. CASE LoadSubtree(e)
  <2> DEFINE k == [evaluation[e] EXCEPT !.pc = "runs", !.ids = Members, !.print = Fingerprint]
  <2>1. k \in EvaluationRow /\ k.pc = "runs" /\ k.row = evaluation[e].row /\ k.ids = Members
    BY <1>1, PrintsTyped DEF EvaluationRow
  <2>2. Linked(k, watchdog'.review) /\ Watches(e, k, wasIdle', sameTree')
    BY <1>1, <1>2, <1>4, <2>1 DEF LoadSubtree, Linked, Watches, Live, Members
  <2> QED BY <1>1, <1>2, <1>4, <2>1, <2>2, EvaluationTurn DEF LoadSubtree
<1>5. CASE ListLiveRuns(e)
  <2> DEFINE live == evaluation[e].ids \cap liveRuns # {}
             k == [evaluation[e] EXCEPT !.pc = "wakes", !.live = live]
  <2>1. live \in BOOLEAN
    BY SMT
  <2>2. k \in EvaluationRow /\ k.pc = "wakes" /\ k.row = evaluation[e].row
        /\ k.ids = evaluation[e].ids /\ k.live = live
    <3>1. ASSUME NEW l \in BOOLEAN
          PROVE  LET m == [evaluation[e] EXCEPT !.pc = "wakes", !.live = l]
                 IN  m \in EvaluationRow /\ m.pc = "wakes" /\ m.row = evaluation[e].row
                     /\ m.ids = evaluation[e].ids /\ m.live = l
      BY <1>1 DEF EvaluationRow
    <3> QED BY <2>1, <3>1, Zenon
  <2>3. e \in sameTree /\ ~live => ~Live(liveRuns, subtree)
    BY <1>1, <1>5 DEF ListLiveRuns, Watches, Live, Members, WatchdogInv, WatchdogTypes
  <2>4. Linked(k, watchdog'.review) /\ Watches(e, k, wasIdle', sameTree')
    BY <1>1, <1>2, <1>5, <2>2, <2>3 DEF ListLiveRuns, Linked, Watches, Live, Members
  <2> QED BY <1>1, <1>2, <1>5, <2>2, <2>4, EvaluationTurn DEF ListLiveRuns
<1>6. CASE ListLiveWakes(e)
  <2> DEFINE live == evaluation[e].live \/ evaluation[e].ids \cap liveWakes # {}
             m == [evaluation[e] EXCEPT !.pc = "classify", !.live = live]
  <2>1. live \in BOOLEAN
    BY SMT
  <2>2. m \in EvaluationRow /\ m.pc = "classify" /\ m.row = evaluation[e].row
        /\ m.ids = evaluation[e].ids /\ m.live = live
    <3>1. ASSUME NEW l \in BOOLEAN
          PROVE  LET n == [evaluation[e] EXCEPT !.pc = "classify", !.live = l]
                 IN  n \in EvaluationRow /\ n.pc = "classify" /\ n.row = evaluation[e].row
                     /\ n.ids = evaluation[e].ids /\ n.live = l
      BY <1>1 DEF EvaluationRow
    <3> QED BY <2>1, <3>1, Zenon
  <2>3. Linked(m, watchdog'.review) /\ Watches(e, m, wasIdle', sameTree')
    BY <1>1, <1>2, <1>6, <2>2 DEF ListLiveWakes, Linked, Watches, Live, Members
  <2>4. Become(e, m)
    BY <1>6 DEF ListLiveWakes
  <2> QED BY <1>1, <1>2, <1>6, <2>2, <2>3, <2>4, EvaluationTurn DEF ListLiveWakes
<1>7. CASE GiveUp(e)
  BY <1>1, <1>2, <1>7, RestingFits, EvaluationTurn DEF GiveUp, End
<1> QED BY <1>3, <1>4, <1>5, <1>6, <1>7

\* An evaluation in which a run was live all the time does not get past its
\* classifier while the subtree stays the same.
LEMMA StoppedKeeps ==
  ASSUME WatchdogInv, NEW e \in Evaluations, Stopped(e)
  PROVE  WatchdogInv'
<1> DEFINE k == [evaluation[e] EXCEPT !.pc = "find"]
<1>1. evaluation[e] \in EvaluationRow /\ Linked(evaluation[e], watchdog.review)
      /\ Watches(e, evaluation[e], wasIdle, sameTree) /\ watchdog \in WatchdogRow
  BY DEF WatchdogInv, WatchdogTypes, ReviewsLinked, Watchful
<1>2. k \in EvaluationRow /\ k.pc = "find" /\ k.row = evaluation[e].row
      /\ k.ids = evaluation[e].ids
  BY <1>1 DEF EvaluationRow
<1>3. watchdog' \in WatchdogRow /\ watchdog'.review = watchdog.review
      /\ watchdog'.reviewed = watchdog.reviewed
  BY <1>1 DEF Stopped, EvaluationRow, WatchdogRow
<1>4. ~misjudged'
  BY <1>1 DEF Stopped, Watches, WatchdogInv, StableTreeSound
<1>5. Linked(k, watchdog'.review) /\ Watches(e, k, wasIdle', sameTree')
  BY <1>1, <1>2, <1>3 DEF Stopped, Linked, Watches, Live, Members
<1> QED BY <1>2, <1>3, <1>4, <1>5, EvaluationTurn
        DEF Stopped, WatchdogInv, ReviewedHasIssue

\* The statements about the review issue keep it linked to the watchdog.
LEMMA ReviewSteps ==
  ASSUME WatchdogInv, NEW e \in Evaluations,
         FindReview(e) \/ ReopenReview(e) \/ CreateReview(e) \/ LinkReview(e) \/ RecordReviewed(e)
  PROVE  WatchdogInv'
<1>1. evaluation[e] \in EvaluationRow /\ Linked(evaluation[e], watchdog.review)
      /\ Watches(e, evaluation[e], wasIdle, sameTree) /\ watchdog \in WatchdogRow
      /\ ~misjudged /\ ReviewedHasIssue
  BY DEF WatchdogInv, WatchdogTypes, ReviewsLinked, Watchful, StableTreeSound
<1>2. ~misjudged' /\ UNCHANGED <<subtree, liveRuns, wasIdle, sameTree>>
  <2>1. UNCHANGED <<subtree, liveRuns, wasIdle, sameTree, misjudged>>
    BY DEF FindReview, ReopenReview, CreateReview, LinkReview, RecordReviewed
  <2> QED BY <1>1, <2>1
\* The locals of an evaluation past its classifier watch nothing but the tree.
<1>3. ASSUME NEW k \in EvaluationRow, Become(e, k), k.ids = evaluation[e].ids,
             k.pc \in {"reopen", "create", "link", "reviewed"},
             evaluation[e].pc \notin {"resting", "subtree"},
             watchdog' \in WatchdogRow, watchdog.review # NoReview => watchdog'.review # NoReview,
             Linked(k, watchdog'.review), watchdog'.reviewed = watchdog.reviewed
      PROVE  WatchdogInv'
  <2>1. Watches(e, k, wasIdle', sameTree') /\ ReviewedHasIssue'
    BY <1>1, <1>2, <1>3 DEF Watches, Live, Members, ReviewedHasIssue
  <2> QED BY <1>2, <1>3, <2>1, EvaluationTurn
<1>4. CASE FindReview(e)
  <2>1. CASE Become(e, [evaluation[e] EXCEPT !.pc = "create"]) /\ UNCHANGED watchdog
             /\ evaluation[e].row = NoReview
    <3> DEFINE k == [evaluation[e] EXCEPT !.pc = "create"]
    <3>1. k \in EvaluationRow /\ k.pc = "create" /\ k.row = NoReview /\ k.ids = evaluation[e].ids
      BY <1>1, <2>1 DEF EvaluationRow
    <3>2. Linked(k, watchdog'.review)
      BY <3>1 DEF Linked
    <3> QED BY <1>1, <1>3, <1>4, <2>1, <3>1, <3>2 DEF FindReview
  <2>2. ASSUME NEW r \in Reviews,
               Become(e, [evaluation[e] EXCEPT !.pc = "reopen", !.row = r]),
               watchdog' = IF evaluation[e].row = NoReview
                           THEN [watchdog EXCEPT !.review = r] ELSE watchdog
        PROVE  WatchdogInv'
    <3> DEFINE k == [evaluation[e] EXCEPT !.pc = "reopen", !.row = r]
    <3>1. k \in EvaluationRow /\ k.pc = "reopen" /\ k.row = r /\ k.ids = evaluation[e].ids
      BY <1>1 DEF EvaluationRow
    <3>2. watchdog' \in WatchdogRow /\ watchdog'.reviewed = watchdog.reviewed
          /\ watchdog'.review # NoReview
      BY <1>1, <1>4, <2>2, WatchdogAssumption DEF FindReview, WatchdogRow, Linked
    <3>3. Linked(k, watchdog'.review)
      BY <3>1, <3>2, WatchdogAssumption DEF Linked
    <3> QED BY <1>3, <1>4, <2>2, <3>1, <3>2, <3>3 DEF FindReview
  <2> QED BY <1>1, <1>4, <2>1, <2>2 DEF FindReview, EvaluationRow
<1>5. CASE ReopenReview(e)
  <2> DEFINE k == [evaluation[e] EXCEPT !.pc = "reviewed"]
  <2>1. k \in EvaluationRow /\ k.pc = "reviewed" /\ k.row = evaluation[e].row
        /\ k.ids = evaluation[e].ids
    BY <1>1 DEF EvaluationRow
  <2>2. Linked(k, watchdog'.review)
    BY <1>1, <1>5, <2>1 DEF ReopenReview, Linked
  <2> QED BY <1>1, <1>3, <1>5, <2>1, <2>2 DEF ReopenReview
<1>6. CASE CreateReview(e)
  <2>1. PICK r \in Reviews : Become(e, [evaluation[e] EXCEPT !.pc = "link", !.row = r])
    BY <1>6 DEF CreateReview
  <2> DEFINE k == [evaluation[e] EXCEPT !.pc = "link", !.row = r]
  <2>2. k \in EvaluationRow /\ k.pc = "link" /\ k.row = r /\ k.ids = evaluation[e].ids
    BY <1>1 DEF EvaluationRow
  <2>3. Linked(k, watchdog'.review)
    BY <2>2, WatchdogAssumption DEF Linked
  <2> QED BY <1>1, <1>3, <1>6, <2>1, <2>2, <2>3 DEF CreateReview
<1>7. CASE LinkReview(e)
  <2> DEFINE k == [evaluation[e] EXCEPT !.pc = "reviewed"]
  <2>1. k \in EvaluationRow /\ k.pc = "reviewed" /\ k.row = evaluation[e].row
        /\ k.ids = evaluation[e].ids
    BY <1>1 DEF EvaluationRow
  <2>2. watchdog' \in WatchdogRow /\ watchdog'.reviewed = watchdog.reviewed
        /\ watchdog'.review # NoReview
    BY <1>1, <1>7 DEF LinkReview, WatchdogRow, EvaluationRow, Linked
  <2>3. Linked(k, watchdog'.review)
    BY <1>1, <1>7, <2>1, <2>2 DEF LinkReview, Linked
  <2> QED BY <1>3, <1>7, <2>1, <2>2, <2>3 DEF LinkReview
<1>8. CASE RecordReviewed(e)
  <2>1. watchdog' \in WatchdogRow /\ watchdog'.review = watchdog.review
        /\ watchdog.review # NoReview
    BY <1>1, <1>8 DEF RecordReviewed, WatchdogRow, EvaluationRow, Linked
  <2>2. ReviewedHasIssue'
    BY <2>1 DEF ReviewedHasIssue
  <2> QED BY <1>2, <1>8, <2>1, <2>2, RestingFits, EvaluationTurn DEF RecordReviewed, End
<1> QED BY <1>4, <1>5, <1>6, <1>7, <1>8

\* A change of the world, noted for the evaluations in flight, keeps the invariant.
LEMMA NoteKeeps ==
  ASSUME WatchdogInv, NEW tree \in [Issues -> {"open", "done", "outside"}],
         NEW runs \in SUBSET Issues, NEW wakes, Note(tree, runs, wakes)
  PROVE  WatchdogInv'
<1>1. WatchdogTypes' /\ ReviewsLinked' /\ ReviewedHasIssue' /\ StableTreeSound'
  BY DEF Note, WatchdogInv, WatchdogTypes, ReviewsLinked, Linked, ReviewedHasIssue, StableTreeSound
<1>2. ASSUME NEW e \in Evaluations
      PROVE  Watches(e, evaluation[e], wasIdle, sameTree)'
  BY DEF Note, WatchdogInv, Watchful, Watches, Live, Members
<1> QED BY <1>1, <1>2 DEF WatchdogInv, Watchful

\* Every step of TaskWatchdog keeps its invariant.
LEMMA WatchdogSteps == WatchdogInv /\ [WatchdogNext]_watchdogVars => WatchdogInv'
<1> SUFFICES ASSUME WatchdogInv, [WatchdogNext]_watchdogVars
             PROVE  WatchdogInv'
  OBVIOUS
<1>1. subtree \in [Issues -> {"open", "done", "outside"}] /\ liveRuns \subseteq Issues
      /\ watchdog \in WatchdogRow
  BY DEF WatchdogInv, WatchdogTypes
<1>2. ASSUME NEW i \in Issues,
             WakeIssue(i) \/ RecordWake(i) \/ RunEnds(i) \/ CloseWakes(i) \/ SetIssue(i)
      PROVE  WatchdogInv'
  <2>1. CASE SetIssue(i)
    <3>1. PICK s \in {"open", "done", "outside"} :
            Note([subtree EXCEPT ![i] = s], liveRuns, liveWakes)
      BY <2>1 DEF SetIssue
    <3>2. [subtree EXCEPT ![i] = s] \in [Issues -> {"open", "done", "outside"}]
      BY <1>1
    <3> QED BY <1>1, <3>1, <3>2, NoteKeeps
  <2>2. CASE WakeIssue(i)
    BY <1>1, <2>2, NoteKeeps DEF WakeIssue
  <2>3. CASE RunEnds(i)
    BY <1>1, <2>3, NoteKeeps DEF RunEnds
  <2>4. CASE RecordWake(i) \/ CloseWakes(i)
    BY <1>1, <2>4, NoteKeeps DEF RecordWake, CloseWakes
  <2> QED BY <1>2, <2>1, <2>2, <2>3, <2>4
<1>3. ASSUME watchdog' \in WatchdogRow, watchdog'.review = watchdog.review,
             watchdog'.reviewed = watchdog.reviewed,
             UNCHANGED <<subtree, liveRuns, evaluation, wasIdle, sameTree, misjudged>>
      PROVE  WatchdogInv'
  BY <1>3 DEF WatchdogInv, WatchdogTypes, ReviewsLinked, Linked, ReviewedHasIssue, Watchful,
              Watches, Live, Members, StableTreeSound
<1>4. CASE SetStatus
  BY <1>1, <1>3, <1>4 DEF SetStatus, WatchdogRow
<1>5. ASSUME NEW r \in Reviews, MoveReview(r)
      PROVE  WatchdogInv'
  BY <1>1, <1>3, <1>5 DEF MoveReview
<1>6. CASE UNCHANGED watchdogVars
  BY <1>1, <1>3, <1>6 DEF watchdogVars
<1> QED BY <1>2, <1>4, <1>5, <1>6, Queries, StoppedKeeps, ReviewSteps DEF WatchdogNext

\* A subtree that stays the same and in which a run is live all the time is not
\* taken as stopped, however the queries of an evaluation and the runs interleave.
THEOREM LiveTreeIsNotStopped == WatchdogSpec => []StableTreeSound
<1>1. WatchdogInv => StableTreeSound
  BY DEF WatchdogInv
<1> QED BY <1>1, WatchdogInitially, WatchdogSteps, PTL DEF WatchdogSpec

\* A stop recorded as reviewed has a review issue that the watchdog names.
THEOREM ReviewIsNamed == WatchdogSpec => []ReviewedHasIssue
<1>1. WatchdogInv => ReviewedHasIssue
  BY DEF WatchdogInv
<1> QED BY <1>1, WatchdogInitially, WatchdogSteps, PTL DEF WatchdogSpec

-----------------------------------------------------------------------------
(* Routine triggers.  Every tick of a trigger that was claimed has a run   *)
(* that was dispatched, lost or skipped, or that an execution still owes   *)
(* (ClaimsCounted).  The claim keeps the balance since it finds            *)
(* next_run_at as it was read: the runs it takes on are the ticks that it  *)
(* moves next_run_at on by.  The sum over the executions is the number of  *)
(* pairs of an execution and a run it owes, so that it changes with one    *)
(* execution at a time (ClaimMoves).                                       *)

\* The runs that an execution owes to a trigger, and the pairs of an execution of sc
\* and a run that it owes: pc says whether to dispatch or to record as skipped.
Share(k, t, pc) == IF k.on = t /\ k.pc = pc THEN k.runs ELSE 0
Owed(sc, t, pc) ==
  {r \in Scans \X (1..MaxCatchUp) :
     sc[r[1]].on = t /\ sc[r[1]].pc = pc /\ r[2] <= sc[r[1]].runs}

\* There are finitely many pairs.
LEMMA PairsFinite == IsFiniteSet(Scans \X (1..MaxCatchUp))
<1>1. MaxCatchUp \in Int /\ 1 \in Int /\ IsFiniteSet(Scans)
  BY TriggersAssumption
<1>2. IsFiniteSet(1..MaxCatchUp)
  BY <1>1, FS_Interval
<1> QED BY <1>1, <1>2, FS_Product

\* Their number is a number.
LEMMA OwedFinite ==
  ASSUME NEW sc, NEW t, NEW pc
  PROVE  Cardinality(Owed(sc, t, pc)) \in Nat
BY PairsFinite, FS_Subset, FS_CardinalityType DEF Owed

\* An execution that moves from sc[s] to k changes it by what these two owe.
LEMMA ClaimMoves ==
  ASSUME NEW sc, NEW s \in Scans, NEW k, NEW t, NEW pc,
         sc[s].runs \in 0..MaxCatchUp, k.runs \in 0..MaxCatchUp,
         NEW moved, \A q \in Scans : moved[q] = IF q = s THEN k ELSE sc[q]
  PROVE  Cardinality(Owed(moved, t, pc)) =
           Cardinality(Owed(sc, t, pc)) - Share(sc[s], t, pc) + Share(k, t, pc)
<1> DEFINE Rest == {r \in Scans \X (1..MaxCatchUp) :
                     r[1] # s /\ sc[r[1]].on = t /\ sc[r[1]].pc = pc /\ r[2] <= sc[r[1]].runs}
           Mine(x) == {s} \X (1..Share(x, t, pc))
<1>1. IsFiniteSet(Rest)
  BY PairsFinite, FS_Subset
<1>2. Cardinality(Rest) \in Nat
  BY <1>1, FS_CardinalityType
<1>3. ASSUME NEW x, x.runs \in 0..MaxCatchUp
      PROVE  /\ IsFiniteSet(Rest \cup Mine(x))
             /\ Cardinality(Rest \cup Mine(x)) = Cardinality(Rest) + Share(x, t, pc)
  <2> DEFINE n == Share(x, t, pc)
  <2>1. n \in Nat
    BY <1>3, TriggersAssumption DEF Share
  <2> HIDE DEF n
  <2>2. IsFiniteSet(1..n) /\ Cardinality(1..n) = n
    <3>1. Cardinality(1..n) = IF 1 > n THEN 0 ELSE n - 1 + 1
      BY <2>1, FS_Interval
    <3>2. IsFiniteSet(1..n)
      BY <2>1, FS_Interval
    <3> QED BY <2>1, <3>1, <3>2
  <2>3. IsFiniteSet({s}) /\ Cardinality({s}) = 1
    BY FS_Singleton
  <2>4. IsFiniteSet({s} \X (1..n)) /\ Cardinality({s} \X (1..n)) = Cardinality({s}) * Cardinality(1..n)
    BY <2>2, <2>3, FS_Product
  <2>5. Cardinality({s} \X (1..n)) = n
    BY <2>1, <2>2, <2>3, <2>4
  <2>6. Rest \cap ({s} \X (1..n)) = {}
    OBVIOUS
  <2> HIDE DEF Rest
  <2>7. IsFiniteSet(Rest \cup ({s} \X (1..n)))
        /\ Cardinality(Rest \cup ({s} \X (1..n)))
             = Cardinality(Rest) + Cardinality({s} \X (1..n)) - Cardinality({})
    BY <1>1, <2>4, <2>6, FS_Union
  <2>8. Cardinality({}) = 0
    BY FS_EmptySet
  <2> QED BY <1>2, <2>1, <2>5, <2>7, <2>8 DEF n
<1>4. Owed(sc, t, pc) = Rest \cup Mine(sc[s])
  BY TriggersAssumption DEF Owed, Share
<1>5. Owed(moved, t, pc) = Rest \cup Mine(k)
  BY TriggersAssumption DEF Owed, Share
<1>6. Share(sc[s], t, pc) \in Nat /\ Share(k, t, pc) \in Nat
  BY TriggersAssumption DEF Share
<1> HIDE DEF Rest, Mine
<1>7. /\ Cardinality(Rest \cup Mine(sc[s])) = Cardinality(Rest) + Share(sc[s], t, pc)
      /\ Cardinality(Rest \cup Mine(k)) = Cardinality(Rest) + Share(k, t, pc)
  BY <1>3
<1>8. /\ Cardinality(Owed(sc, t, pc)) = Cardinality(Rest) + Share(sc[s], t, pc)
      /\ Cardinality(Owed(moved, t, pc)) = Cardinality(Rest) + Share(k, t, pc)
  BY <1>4, <1>5, <1>7
<1> QED BY <1>2, <1>6, <1>8

\* Ticks of the cron expression as multiples of CronStep
LEMMA TickOf ==
  ASSUME NEW k \in Int
  PROVE  (k * CronStep) \div CronStep = k
BY TriggersAssumption, SMTT(30)
\* The ticks of two intervals together
LEMMA TicksAdd ==
  ASSUME NEW k \in Nat, NEW m \in Nat
  PROVE  k * CronStep + m * CronStep = (k + m) * CronStep
BY TriggersAssumption, SMTT(30)
\* There is a tick for every CronStep since the one that a trigger is due at.
LEMMA TicksPassed ==
  ASSUME NEW k \in Nat, NEW now \in Nat, k * CronStep <= now
  PROVE  /\ now \div CronStep \in Nat /\ now \div CronStep >= k
         /\ (now - k * CronStep) \div CronStep + 1 \in Nat \ {0}
BY TriggersAssumption, SMTT(30)

\* The rows, what a query returns of them and the locals of an execution
TriggerRow ==
  [next : Nat, enabled : BOOLEAN, policy : CatchUpPolicies, paused : BOOLEAN, broken : BOOLEAN]
QueriedRow ==
  [id : Triggers, next : Nat, policy : CatchUpPolicies, paused : BOOLEAN, broken : BOOLEAN]
ScanRow == [pc : {"waiting", "claim", "skip", "dispatch"}, now : Nat, todo : SUBSET QueriedRow,
            on : Triggers \cup {NoTrigger}, runs : 0..MaxCatchUp]

TriggerTypes ==
  /\ trigger \in [Triggers -> TriggerRow]
  /\ time \in Nat
  /\ scan \in [Scans -> ScanRow]
  /\ dispatched \in [Triggers -> Nat] /\ skipRows \in [Triggers -> Nat] /\ lost \in [Triggers -> Nat]
  /\ everPaused \subseteq Triggers
\* A trigger falls due at a tick of its expression.
OnTick(n) == \E k \in Nat \ {0} : n = k * CronStep
TriggersAligned ==
  \A t \in Triggers : OnTick(trigger[t].next) /\ (trigger[t].paused => t \in everPaused)
\* What an execution has read still goes for the triggers it read it from.
ScanFits(k) ==
  /\ \A r \in k.todo :
       /\ r.next <= k.now /\ r.policy = trigger[r.id].policy
       /\ r.paused => r.id \in everPaused
  /\ k.pc \in {"skip", "dispatch"} => k.on \in Triggers /\ k.runs >= 1
  /\ k.pc = "skip" => k.runs = 1 /\ k.on \in everPaused
\* The runs of the ticks that were claimed for t: to dispatch, and to skip
Claimed(t) == dispatched[t] + lost[t] + Cardinality(Owed(scan, t, "dispatch"))
Skipped(t) == skipRows[t] + Cardinality(Owed(scan, t, "skip"))
ClaimsCounted ==
  \A t \in Triggers :
    /\ Claimed(t) + Skipped(t) <= Ticks(t)
    /\ trigger[t].policy = "all" /\ t \notin everPaused => Claimed(t) = Ticks(t)
TriggersInv ==
  TriggerTypes /\ TriggersAligned /\ (\A s \in Scans : ScanFits(scan[s])) /\ ClaimsCounted

\* The smaller of two numbers
LEMMA MinOfTwo ==
  ASSUME NEW a \in Int, NEW b \in Int
  PROVE  Min({a, b}) \in {a, b} /\ Min({a, b}) <= a /\ Min({a, b}) <= b
<1> DEFINE P(x) == x \in {a, b} /\ \A y \in {a, b} : x <= y
<1>1. \E x : P(x)
  <2>1. CASE a <= b
    BY <2>1
  <2>2. CASE b <= a
    BY <2>2
  <2> QED BY <2>1, <2>2
<1>2. P(CHOOSE x : P(x))
  BY <1>1
<1>3. Min({a, b}) = CHOOSE x : P(x)
  BY DEF Min
<1> QED BY <1>2, <1>3

\* A claim takes at least one run and no more than the cap, and moves the trigger
\* on by a tick for every run; by exactly as many if it catches up.
LEMMA ClaimTakes ==
  ASSUME NEW row \in QueriedRow, NEW now \in Nat, row.next <= now,
         NEW k \in Nat \ {0}, row.next = k * CronStep
  PROVE  /\ RunCount(row, now) \in 1..MaxCatchUp
         /\ ~CatchesUp(row) => RunCount(row, now) = 1
         /\ \E m \in Nat \ {0} :
              /\ ClaimedNext(row, now) = m * CronStep
              /\ m >= k + RunCount(row, now)
              /\ CatchesUp(row) => m = k + RunCount(row, now)
<1> DEFINE missed == MissedTicks(row, now)
<1>1. missed \in 1..MaxCatchUp
  <2> DEFINE all == (now - row.next) \div CronStep + 1
  <2>1. all \in Nat \ {0}
    BY TicksPassed
  <2> HIDE DEF all
  <2>4. all \in Int /\ MaxCatchUp \in Int
    BY <2>1, TriggersAssumption
  <2>2. Min({all, MaxCatchUp}) \in {all, MaxCatchUp} /\ Min({all, MaxCatchUp}) <= MaxCatchUp
    BY <2>4, MinOfTwo
  <2>3. missed = Min({all, MaxCatchUp})
    BY DEF MissedTicks, all
  <2> QED BY <2>1, <2>2, <2>3, TriggersAssumption
<1> HIDE DEF missed
<1>2. CASE CatchesUp(row)
  <2>1. RunCount(row, now) = missed /\ ClaimedNext(row, now) = row.next + missed * CronStep
    BY <1>2 DEF RunCount, ClaimedNext, missed
  <2>2. ClaimedNext(row, now) = (k + missed) * CronStep
    BY <1>1, <2>1, TicksAdd
  <2> QED BY <1>1, <1>2, <2>1, <2>2
<1>3. CASE ~CatchesUp(row)
  <2>1. RunCount(row, now) = 1 /\ ClaimedNext(row, now) = (now \div CronStep + 1) * CronStep
    BY <1>3 DEF RunCount, ClaimedNext, NextTick
  <2> DEFINE m == now \div CronStep + 1
  <2>2. m \in Nat \ {0} /\ m >= k + 1
    BY TicksPassed
  <2> HIDE DEF m
  <2>3. ClaimedNext(row, now) = m * CronStep
    BY <2>1 DEF m
  <2> QED BY <1>3, <2>1, <2>2, <2>3, TriggersAssumption
<1> QED BY <1>2, <1>3

\* No tick is claimed before the job runs.
LEMMA TriggersInitially == TriggersInit => TriggersInv
<1> SUFFICES ASSUME TriggersInit PROVE TriggersInv
  OBVIOUS
<1>1. PICK policy \in [Triggers -> CatchUpPolicies] :
        trigger = [t \in Triggers |-> [next |-> CronStep, enabled |-> TRUE,
                                       policy |-> policy[t], paused |-> FALSE,
                                       broken |-> t \in Broken]]
  BY DEF TriggersInit
<1>2. Waiting \in ScanRow /\ ScanFits(Waiting)
  BY TriggersAssumption DEF Waiting, ScanRow, ScanFits
<1>3. TriggerTypes
  BY <1>1, <1>2, TriggersAssumption DEF TriggersInit, TriggerTypes, TriggerRow
<1>4. CronStep = 1 * CronStep
  BY TriggersAssumption
<1>5. TriggersAligned
  BY <1>1, <1>4 DEF TriggersAligned, OnTick
<1>6. ASSUME NEW t \in Triggers
      PROVE  Claimed(t) = 0 /\ Skipped(t) = 0 /\ Ticks(t) = 0
  <2>1. \A pc \in {"dispatch", "skip"} : Owed(scan, t, pc) = {}
    BY DEF TriggersInit, Owed, Waiting
  <2>2. CronStep \div CronStep = 1
    BY <1>4, TickOf
  <2>3. Cardinality(Owed(scan, t, "dispatch")) = 0 /\ Cardinality(Owed(scan, t, "skip")) = 0
    BY <2>1, FS_EmptySet
  <2>4. dispatched[t] = 0 /\ lost[t] = 0 /\ skipRows[t] = 0 /\ trigger[t].next = CronStep
    BY <1>1 DEF TriggersInit
  <2> HIDE DEF Owed
  <2> QED BY <2>2, <2>3, <2>4 DEF Claimed, Skipped, Ticks
<1>7. \A s \in Scans : ScanFits(scan[s])
  BY <1>2 DEF TriggersInit
<1> QED BY <1>3, <1>5, <1>6, <1>7 DEF TriggersInv, ClaimsCounted

\* What an execution that goes on does to the runs that are owed for a trigger
LEMMA OwedMoves ==
  ASSUME TriggerTypes, NEW s \in Scans, NEW k \in ScanRow, NEW t, NEW pc,
         \A q \in Scans : scan'[q] = IF q = s THEN k ELSE scan[q]
  PROVE  /\ Cardinality(Owed(scan, t, pc)) \in Nat /\ Cardinality(Owed(scan', t, pc)) \in Nat
         /\ Cardinality(Owed(scan', t, pc)) =
              Cardinality(Owed(scan, t, pc)) - Share(scan[s], t, pc) + Share(k, t, pc)
<1>1. scan[s].runs \in 0..MaxCatchUp /\ k.runs \in 0..MaxCatchUp /\ DOMAIN scan = Scans
  BY DEF TriggerTypes, ScanRow
<1>2. Cardinality(Owed(scan', t, pc)) =
        Cardinality(Owed(scan, t, pc)) - Share(scan[s], t, pc) + Share(k, t, pc)
  BY <1>1, ClaimMoves
<1> QED BY <1>2, OwedFinite

\* The number of runs that an execution owes
LEMMA ShareTyped ==
  ASSUME NEW k \in ScanRow, NEW t, NEW pc
  PROVE  Share(k, t, pc) \in Nat
BY TriggersAssumption DEF Share, ScanRow

\* A step of an execution that leaves the triggers alone keeps the invariant if
\* every claimed run it is done with is dispatched, lost or skipped.
LEMMA ScanKeeps ==
  ASSUME TriggersInv, NEW s \in Scans, NEW k \in ScanRow, ScanFits(k), ScanGoes(s, k),
         UNCHANGED <<trigger, time, everPaused>>,
         dispatched' \in [Triggers -> Nat], skipRows' \in [Triggers -> Nat],
         lost' \in [Triggers -> Nat],
         \A t \in Triggers :
           /\ dispatched'[t] + lost'[t] + Share(k, t, "dispatch")
                = dispatched[t] + lost[t] + Share(scan[s], t, "dispatch")
           /\ skipRows'[t] + Share(k, t, "skip") <= skipRows[t] + Share(scan[s], t, "skip")
  PROVE  TriggersInv'
<1>1. TriggerTypes' /\ TriggersAligned' /\ \A q \in Scans : ScanFits(scan[q])'
  BY DEF TriggersInv, TriggerTypes, TriggersAligned, OnTick, ScanFits, ScanGoes
<1>2. ASSUME NEW t \in Triggers
      PROVE  Claimed(t)' = Claimed(t) /\ Skipped(t)' <= Skipped(t)
             /\ Claimed(t) \in Nat /\ Skipped(t) \in Nat /\ Skipped(t)' \in Nat
  <2>1. /\ Share(scan[s], t, "dispatch") \in Nat /\ Share(scan[s], t, "skip") \in Nat
        /\ Share(k, t, "dispatch") \in Nat /\ Share(k, t, "skip") \in Nat
    BY ShareTyped DEF TriggersInv, TriggerTypes
  <2>4. \A q \in Scans : scan'[q] = IF q = s THEN k ELSE scan[q]
    BY DEF ScanGoes, TriggersInv, TriggerTypes
  <2>2. /\ Cardinality(Owed(scan, t, "dispatch")) \in Nat
        /\ Cardinality(Owed(scan', t, "dispatch")) \in Nat
        /\ Cardinality(Owed(scan', t, "dispatch")) = Cardinality(Owed(scan, t, "dispatch"))
              - Share(scan[s], t, "dispatch") + Share(k, t, "dispatch")
    BY <2>4, OwedMoves DEF TriggersInv
  <2>3. /\ Cardinality(Owed(scan, t, "skip")) \in Nat
        /\ Cardinality(Owed(scan', t, "skip")) \in Nat
        /\ Cardinality(Owed(scan', t, "skip")) = Cardinality(Owed(scan, t, "skip"))
              - Share(scan[s], t, "skip") + Share(k, t, "skip")
    BY <2>4, OwedMoves DEF TriggersInv
  <2> QED BY <2>1, <2>2, <2>3 DEF Claimed, Skipped, TriggersInv, TriggerTypes
<1>3. \A t \in Triggers : Ticks(t)' = Ticks(t) /\ Ticks(t) \in Int
  BY TriggersAssumption DEF Ticks, TriggersInv, TriggerTypes, TriggerRow
<1>4. ClaimsCounted'
  BY <1>2, <1>3 DEF TriggersInv, ClaimsCounted
<1> QED BY <1>1, <1>4 DEF TriggersInv

\* What the invariant says of one execution
LEMMA ScanTyped ==
  ASSUME TriggersInv, NEW s \in Scans
  PROVE  /\ scan[s] \in ScanRow /\ ScanFits(scan[s]) /\ Waiting \in ScanRow /\ ScanFits(Waiting)
         /\ NextRow(s) \in ScanRow /\ ScanFits(NextRow(s)) /\ NextRow(s).pc \in {"waiting", "claim"}
<1>1. scan[s] \in ScanRow /\ ScanFits(scan[s])
  BY DEF TriggersInv, TriggerTypes
<1>2. Waiting \in ScanRow /\ ScanFits(Waiting) /\ Waiting.pc = "waiting"
  BY TriggersAssumption DEF Waiting, ScanRow, ScanFits
<1> DEFINE k == [scan[s] EXCEPT !.pc = "claim", !.on = NoTrigger, !.runs = 0]
<1>3. k \in ScanRow /\ ScanFits(k) /\ k.pc = "claim"
  <2>1. 0 \in 0..MaxCatchUp
    BY TriggersAssumption
  <2>2. k \in ScanRow
    BY <1>1, <2>1, ZenonT(40) DEF ScanRow
  <2> QED BY <1>1, <2>2 DEF ScanRow, ScanFits
<1>4. NextRow(s) \in {Waiting, k}
  BY DEF NextRow
<1> HIDE DEF k
<1> QED BY <1>1, <1>2, <1>3, <1>4

\* The scan reads the due triggers.
LEMMA QueryDueKeeps ==
  ASSUME TriggersInv, NEW s \in Scans, QueryDue(s)
  PROVE  TriggersInv'
<1> DEFINE rows == {RowOf(t) : t \in {u \in Triggers : Due(u, time)}}
           k == [Waiting EXCEPT !.pc = "claim", !.now = time, !.todo = rows]
<1>1. rows \subseteq QueriedRow
      /\ \A r \in rows :
           /\ r.next <= time /\ r.policy = trigger[r.id].policy
           /\ r.paused => r.id \in everPaused
  BY DEF TriggersInv, TriggerTypes, TriggersAligned, RowOf, Due, TriggerRow, QueriedRow
<1>2. time \in Nat
  BY DEF TriggersInv, TriggerTypes
<1> HIDE DEF rows
<1>3. k \in ScanRow /\ ScanFits(k) /\ k.pc = "claim"
  <2>1. 0 \in 0..MaxCatchUp
    BY TriggersAssumption
  <2>2. k \in ScanRow
    BY <1>1, <1>2, <2>1 DEF Waiting, ScanRow
  <2>3. k.pc = "claim" /\ k.now = time /\ k.todo = rows
    BY DEF Waiting
  <2> HIDE DEF k
  <2> QED BY <1>1, <2>2, <2>3 DEF ScanFits
<1>4. ScanGoes(s, k) /\ scan[s].pc = "waiting" /\ UNCHANGED <<trigger, time, dispatched, skipRows, lost, everPaused>>
  BY DEF QueryDue, rows
<1> HIDE DEF k
<1>5. \A t \in Triggers, pc \in {"dispatch", "skip"} : Share(k, t, pc) = 0 /\ Share(scan[s], t, pc) = 0
  BY <1>3, <1>4 DEF Share
<1> QED BY <1>3, <1>4, <1>5, ScanKeeps DEF TriggersInv, TriggerTypes

\* A trigger that another execution claimed, an edit moved or whose expression
\* does not parse is left alone.
LEMMA ClaimMissed ==
  ASSUME TriggersInv, NEW s \in Scans, scan[s].pc = "claim", NEW row \in scan[s].todo,
         NEW k \in {Waiting, [scan[s] EXCEPT !.todo = @ \ {row}]}, ScanGoes(s, k),
         UNCHANGED <<trigger, time, dispatched, skipRows, lost, everPaused>>
  PROVE  TriggersInv'
<1>1. k \in ScanRow /\ ScanFits(k) /\ k.pc \in {"waiting", "claim"}
  <2>1. LET rest == [scan[s] EXCEPT !.todo = @ \ {row}]
        IN  rest \in ScanRow /\ ScanFits(rest) /\ rest.pc = "claim"
    <3> DEFINE rest == [scan[s] EXCEPT !.todo = @ \ {row}]
    <3>1. rest \in ScanRow
      BY ScanTyped DEF ScanRow
    <3>2. rest.pc = "claim" /\ rest.now = scan[s].now /\ rest.todo \subseteq scan[s].todo
      BY ScanTyped DEF ScanRow
    <3> HIDE DEF rest
    <3>3. ScanFits(rest)
      BY <3>2, ScanTyped DEF ScanFits
    <3> QED BY <3>1, <3>2, <3>3 DEF rest
  <2>2. Waiting.pc = "waiting"
    BY DEF Waiting
  <2> QED BY <2>1, <2>2, ScanTyped
<1>2. \A t \in Triggers, pc \in {"dispatch", "skip"} : Share(k, t, pc) = 0 /\ Share(scan[s], t, pc) = 0
  BY <1>1 DEF Share
<1> QED BY <1>1, <1>2, ScanKeeps DEF TriggersInv, TriggerTypes

\* A trigger that still is as it was read moves on by the runs that are claimed.
LEMMA ClaimMade ==
  ASSUME TriggersInv, NEW s \in Scans, scan[s].pc = "claim", NEW row \in scan[s].todo,
         trigger[row.id].next = row.next,
         trigger' = [trigger EXCEPT ![row.id].next = ClaimedNext(row, scan[s].now)],
         ScanGoes(s, [scan[s] EXCEPT !.todo = @ \ {row},
                                     !.pc = IF row.paused THEN "skip" ELSE "dispatch",
                                     !.on = row.id, !.runs = RunCount(row, scan[s].now)]),
         UNCHANGED <<time, dispatched, skipRows, lost, everPaused>>
  PROVE  TriggersInv'
<1> DEFINE now == scan[s].now
           runs == RunCount(row, now)
           goes == IF row.paused THEN "skip" ELSE "dispatch"
<1>1. /\ row \in QueriedRow /\ now \in Nat /\ row.next <= now
      /\ row.policy = trigger[row.id].policy /\ (row.paused => row.id \in everPaused)
  <2>1. scan[s].todo \subseteq QueriedRow /\ scan[s].now \in Nat
    BY ScanTyped DEF ScanRow
  <2>2. ScanFits(scan[s])
    BY ScanTyped
  <2>3. row.next <= scan[s].now
    BY <2>2 DEF ScanFits
  <2>4. row.policy = trigger[row.id].policy
    BY <2>2 DEF ScanFits
  <2>5. row.paused => row.id \in everPaused
    BY <2>2, Zenon DEF ScanFits
  <2> QED BY <2>1, <2>3, <2>4, <2>5
<1>2. row.id \in Triggers
  BY <1>1 DEF QueriedRow
<1>3. PICK n \in Nat \ {0} : row.next = n * CronStep
  BY <1>2 DEF TriggersInv, TriggersAligned, OnTick
<1>4. PICK m \in Nat \ {0} :
        /\ ClaimedNext(row, now) = m * CronStep /\ m >= n + runs
        /\ CatchesUp(row) => m = n + runs
  BY <1>1, <1>3, ClaimTakes
<1>5. runs \in 1..MaxCatchUp /\ (~CatchesUp(row) => runs = 1)
  BY <1>1, <1>3, ClaimTakes
<1>6. row.paused => runs = 1
  BY <1>5 DEF CatchesUp
<1>7. PICK k \in ScanRow :
        /\ ScanFits(k) /\ k.on = row.id /\ k.runs = runs /\ k.pc = goes
        /\ scan' \in [Scans -> ScanRow]
        /\ \A q \in Scans : scan'[q] = IF q = s THEN k ELSE scan[q]
  <2> DEFINE k == [scan[s] EXCEPT !.todo = @ \ {row}, !.pc = goes, !.on = row.id, !.runs = runs]
  <2>1. scan' = [scan EXCEPT ![s] = k]
    BY DEF ScanGoes
  <2> HIDE DEF runs, now
  <2>2. /\ k.pc = goes /\ k.now = scan[s].now /\ k.todo = scan[s].todo \ {row}
        /\ k.on = row.id /\ k.runs = runs
    BY ScanTyped DEF ScanRow
  <2>3. runs \in 0..MaxCatchUp /\ goes \in {"skip", "dispatch"}
    BY <1>5, TriggersAssumption
  <2>4. k \in ScanRow
    BY <1>2, <2>3, ScanTyped DEF ScanRow
  <2> HIDE DEF k
  <2>5. ScanFits(k)
    BY <1>1, <1>2, <1>5, <1>6, <2>2, ScanTyped DEF ScanFits
  <2>6. /\ scan' \in [Scans -> ScanRow]
        /\ \A q \in Scans : scan'[q] = IF q = s THEN k ELSE scan[q]
    BY <2>1, <2>4 DEF TriggersInv, TriggerTypes
  <2> QED BY <2>2, <2>4, <2>5, <2>6
<1> HIDE DEF runs, now
<1>9. m * CronStep \in Nat
  BY TriggersAssumption
<1>10. trigger' = [trigger EXCEPT ![row.id].next = m * CronStep]
  BY <1>4 DEF now
<1>11. TriggerTypes' /\ TriggersAligned'
  <2>1. TriggerTypes'
    <3>1. trigger \in [Triggers -> TriggerRow]
      BY DEF TriggersInv, TriggerTypes
    <3>2. [trigger[row.id] EXCEPT !.next = m * CronStep] \in TriggerRow
      BY <1>2, <1>9, <3>1 DEF TriggerRow
    <3>3. trigger' = [trigger EXCEPT ![row.id] = [trigger[row.id] EXCEPT !.next = m * CronStep]]
      BY <1>10
    <3>4. trigger' \in [Triggers -> TriggerRow]
      BY <1>2, <3>1, <3>2, <3>3
    <3> QED BY <1>2, <1>7, <3>4 DEF TriggersInv, TriggerTypes
  <2>2. ASSUME NEW t \in Triggers
        PROVE  OnTick(trigger'[t].next) /\ (trigger'[t].paused => t \in everPaused')
    <3>1. CASE t = row.id
      BY <1>2, <1>10, <3>1 DEF TriggersInv, TriggerTypes, TriggersAligned, TriggerRow, OnTick
    <3>2. CASE t # row.id
      BY <1>2, <1>10, <3>2 DEF TriggersInv, TriggerTypes, TriggersAligned
    <3> QED BY <3>1, <3>2
  <2> QED BY <2>1, <2>2 DEF TriggersAligned, OnTick
<1>12. \A t \in Triggers : trigger'[t].policy = trigger[t].policy
                        /\ (t # row.id => trigger'[t] = trigger[t])
  BY <1>2, <1>10 DEF TriggersInv, TriggerTypes, TriggerRow
<1>13. \A q \in Scans : ScanFits(scan[q])'
  <2>1. \A q \in Scans : ScanFits(scan'[q])
    BY <1>7 DEF TriggersInv, TriggerTypes
  <2> QED BY <1>12, <2>1 DEF ScanFits, TriggersInv, TriggerTypes, ScanRow, QueriedRow
<1>14. ASSUME NEW t \in Triggers
       PROVE  /\ Claimed(t)' = Claimed(t) + Share(k, t, "dispatch")
              /\ Skipped(t)' = Skipped(t) + Share(k, t, "skip")
              /\ Claimed(t) \in Nat /\ Skipped(t) \in Nat
  <2>1. Share(scan[s], t, "dispatch") = 0 /\ Share(scan[s], t, "skip") = 0
    BY DEF Share
  <2>2. Share(k, t, "dispatch") \in Nat /\ Share(k, t, "skip") \in Nat
    BY ShareTyped
  <2>3. /\ Cardinality(Owed(scan, t, "dispatch")) \in Nat
        /\ Cardinality(Owed(scan', t, "dispatch")) = Cardinality(Owed(scan, t, "dispatch"))
              - Share(scan[s], t, "dispatch") + Share(k, t, "dispatch")
    BY <1>7, OwedMoves DEF TriggersInv
  <2>4. /\ Cardinality(Owed(scan, t, "skip")) \in Nat
        /\ Cardinality(Owed(scan', t, "skip")) = Cardinality(Owed(scan, t, "skip"))
              - Share(scan[s], t, "skip") + Share(k, t, "skip")
    BY <1>7, OwedMoves DEF TriggersInv
  <2> QED BY <2>1, <2>2, <2>3, <2>4 DEF Claimed, Skipped, TriggersInv, TriggerTypes
<1>15. ASSUME NEW t \in Triggers
       PROVE  /\ Claimed(t)' + Skipped(t)' <= Ticks(t)'
              /\ trigger'[t].policy = "all" /\ t \notin everPaused' => Claimed(t)' = Ticks(t)'
  <2>1. /\ Claimed(t) + Skipped(t) <= Ticks(t)
        /\ trigger[t].policy = "all" /\ t \notin everPaused => Claimed(t) = Ticks(t)
    BY DEF TriggersInv, ClaimsCounted
  <2>2. CASE t # row.id
    <3>1. Share(k, t, "dispatch") = 0 /\ Share(k, t, "skip") = 0
      BY <1>7, <2>2 DEF Share
    <3>2. Ticks(t)' = Ticks(t)
      BY <1>12, <2>2 DEF Ticks
    <3> QED BY <1>12, <1>14, <2>1, <3>1, <3>2
  <2>3. CASE t = row.id
    <3>1. Ticks(t) = n - 1 /\ Ticks(t)' = m - 1
      <4>1. trigger[t].next = n * CronStep /\ trigger'[t].next = m * CronStep
        BY <1>2, <1>3, <1>10, <2>3 DEF TriggersInv, TriggerTypes, TriggerRow
      <4> QED BY <4>1, TickOf DEF Ticks
    <3>2. /\ Share(k, t, "dispatch") = IF row.paused THEN 0 ELSE runs
          /\ Share(k, t, "skip") = IF row.paused THEN runs ELSE 0
      BY <1>7, <2>3 DEF Share
    <3>3. trigger'[t].policy = "all" /\ t \notin everPaused' =>
            /\ trigger[t].policy = "all" /\ t \notin everPaused /\ CatchesUp(row) /\ ~row.paused
      BY <1>1, <1>12, <2>3 DEF CatchesUp
    <3> QED BY <1>4, <1>5, <1>14, <2>1, <3>1, <3>2, <3>3
  <2> QED BY <2>2, <2>3
<1> QED BY <1>11, <1>13, <1>15 DEF TriggersInv, ClaimsCounted

\* The claim, whether it hits or misses
LEMMA ClaimKeeps ==
  ASSUME TriggersInv, NEW s \in Scans, ClaimTrigger(s)
  PROVE  TriggersInv'
<1>1. PICK row \in Earliest(scan[s].todo) :
        LET t == row.id
            now == scan[s].now
            rest == [scan[s] EXCEPT !.todo = @ \ {row}]
        IN IF row.broken
           THEN ScanGoes(s, Waiting) /\ UNCHANGED trigger
           ELSE IF trigger[t].enabled /\ trigger[t].next = row.next
           THEN /\ trigger' = [trigger EXCEPT ![t].next = ClaimedNext(row, now)]
                /\ ScanGoes(s, [rest EXCEPT !.pc = IF row.paused THEN "skip" ELSE "dispatch",
                                            !.on = t, !.runs = RunCount(row, now)])
           ELSE /\ ScanGoes(s, IF rest.todo = {} THEN Waiting ELSE rest)
                /\ UNCHANGED trigger
  BY DEF ClaimTrigger
<1>2. row \in scan[s].todo
  BY DEF Earliest
<1> DEFINE rest == [scan[s] EXCEPT !.todo = @ \ {row}]
<1>3. /\ scan[s].pc = "claim"
      /\ UNCHANGED <<time, dispatched, skipRows, lost, everPaused>>
  BY DEF ClaimTrigger
<1>4. CASE row.broken \/ ~(trigger[row.id].enabled /\ trigger[row.id].next = row.next)
  <2>1. UNCHANGED trigger /\ \E k \in {Waiting, rest} : ScanGoes(s, k)
    BY <1>1, <1>4
  <2>2. PICK k \in {Waiting, rest} : ScanGoes(s, k)
    BY <2>1
  <2> QED BY <1>2, <1>3, <2>1, <2>2, ClaimMissed
<1>5. CASE ~row.broken /\ trigger[row.id].enabled /\ trigger[row.id].next = row.next
  <2>1. /\ trigger' = [trigger EXCEPT ![row.id].next = ClaimedNext(row, scan[s].now)]
        /\ ScanGoes(s, [rest EXCEPT !.pc = IF row.paused THEN "skip" ELSE "dispatch",
                                    !.on = row.id, !.runs = RunCount(row, scan[s].now)])
    BY <1>1, <1>5
  <2> QED BY <1>2, <1>3, <1>5, <2>1, ClaimMade
<1> QED BY <1>4, <1>5

\* A skipped run is recorded for a claim that is to be skipped.
LEMMA RecordSkippedKeeps ==
  ASSUME TriggersInv, NEW s \in Scans, RecordSkipped(s)
  PROVE  TriggersInv'
<1> DEFINE u == scan[s].on
<1>1. /\ scan[s].pc = "skip" /\ skipRows' = [skipRows EXCEPT ![u] = @ + 1] /\ ScanGoes(s, NextRow(s))
      /\ UNCHANGED <<trigger, time, dispatched, lost, everPaused>>
  BY DEF RecordSkipped
<1>2. u \in Triggers /\ scan[s].runs = 1
  BY <1>1, ScanTyped DEF ScanFits
<1>3. PICK k \in ScanRow : k = NextRow(s) /\ ScanFits(k) /\ k.pc \in {"waiting", "claim"}
  BY ScanTyped
<1>4. skipRows' \in [Triggers -> Nat]
  BY <1>1, <1>2 DEF TriggersInv, TriggerTypes
<1>5. ASSUME NEW t \in Triggers
      PROVE  /\ Share(k, t, "dispatch") = 0 /\ Share(scan[s], t, "dispatch") = 0
             /\ skipRows'[t] + Share(k, t, "skip") <= skipRows[t] + Share(scan[s], t, "skip")
             /\ dispatched[t] \in Nat /\ lost[t] \in Nat
  BY <1>1, <1>2, <1>3 DEF Share, TriggersInv, TriggerTypes
<1> QED BY <1>1, <1>3, <1>4, <1>5, ScanKeeps DEF TriggersInv, TriggerTypes

\* A run is dispatched for a claim that has one left.
LEMMA DispatchRunKeeps ==
  ASSUME TriggersInv, NEW s \in Scans, DispatchRun(s)
  PROVE  TriggersInv'
<1> DEFINE u == scan[s].on
           fewer == [scan[s] EXCEPT !.runs = @ - 1]
<1>1. /\ scan[s].pc = "dispatch" /\ dispatched' = [dispatched EXCEPT ![u] = @ + 1]
      /\ ScanGoes(s, IF scan[s].runs > 1 THEN fewer ELSE NextRow(s))
      /\ UNCHANGED <<trigger, time, skipRows, lost, everPaused>>
  BY DEF DispatchRun
<1>2. u \in Triggers /\ scan[s].runs \in 1..MaxCatchUp
  <2>1. scan[s].runs \in 0..MaxCatchUp
    BY ScanTyped DEF ScanRow
  <2> QED BY <1>1, <2>1, ScanTyped, TriggersAssumption DEF ScanFits
<1>3. PICK k \in ScanRow :
        /\ ScanGoes(s, k) /\ ScanFits(k)
        /\ \/ k.pc = "dispatch" /\ k.on = u /\ k.runs = scan[s].runs - 1
           \/ k.pc \in {"waiting", "claim"} /\ scan[s].runs = 1
  <2>1. CASE scan[s].runs > 1
    <3>1. scan[s].runs - 1 \in 0..MaxCatchUp /\ scan[s].runs - 1 >= 1
      BY <1>2, <2>1, TriggersAssumption
    <3>2. fewer \in ScanRow
      BY <3>1, ScanTyped DEF ScanRow
    <3>3. /\ fewer.pc = "dispatch" /\ fewer.on = u /\ fewer.runs = scan[s].runs - 1
          /\ fewer.todo = scan[s].todo /\ fewer.now = scan[s].now
      BY <1>1, ScanTyped DEF ScanRow
    <3>4. ScanGoes(s, fewer)
      BY <1>1, <2>1
    <3> HIDE DEF fewer
    <3>5. ScanFits(fewer)
      BY <1>2, <3>1, <3>3, ScanTyped DEF ScanFits
    <3> QED BY <3>2, <3>3, <3>4, <3>5
  <2>2. CASE ~(scan[s].runs > 1)
    <3>1. scan[s].runs = 1 /\ ScanGoes(s, NextRow(s))
      BY <1>1, <1>2, <2>2, TriggersAssumption
    <3> QED BY <3>1, ScanTyped
  <2> QED BY <2>1, <2>2
<1>4. dispatched' \in [Triggers -> Nat]
  BY <1>1, <1>2 DEF TriggersInv, TriggerTypes
<1>5. ASSUME NEW t \in Triggers
      PROVE  /\ dispatched'[t] + lost[t] + Share(k, t, "dispatch")
                  = dispatched[t] + lost[t] + Share(scan[s], t, "dispatch")
             /\ Share(k, t, "skip") = 0 /\ Share(scan[s], t, "skip") = 0 /\ skipRows[t] \in Nat
  BY <1>1, <1>2, <1>3 DEF Share, TriggersInv, TriggerTypes
<1> QED BY <1>1, <1>3, <1>4, <1>5, ScanKeeps DEF TriggersInv, TriggerTypes

\* The runs that a stopped execution owes are lost; a skip that it owes is not made up for.
LEMMA SchedulerStopsKeeps ==
  ASSUME TriggersInv, NEW s \in Scans, SchedulerStops(s)
  PROVE  TriggersInv'
<1> DEFINE u == scan[s].on
<1>1. /\ lost' = IF scan[s].pc = "dispatch" THEN [lost EXCEPT ![u] = @ + scan[s].runs] ELSE lost
      /\ ScanGoes(s, Waiting)
      /\ UNCHANGED <<trigger, time, dispatched, skipRows, everPaused>>
  BY DEF SchedulerStops
<1>2. scan[s].runs \in Nat /\ (scan[s].pc = "dispatch" => u \in Triggers)
  <2>1. scan[s].runs \in 0..MaxCatchUp
    BY ScanTyped DEF ScanRow
  <2> QED BY <2>1, ScanTyped, TriggersAssumption DEF ScanFits
<1>3. PICK k \in ScanRow : k = Waiting /\ ScanFits(k) /\ k.pc = "waiting"
  BY ScanTyped DEF Waiting
<1>4. lost' \in [Triggers -> Nat]
  BY <1>1, <1>2 DEF TriggersInv, TriggerTypes
<1>5. ASSUME NEW t \in Triggers
      PROVE  /\ dispatched[t] + lost'[t] + Share(k, t, "dispatch")
                  = dispatched[t] + lost[t] + Share(scan[s], t, "dispatch")
             /\ Share(k, t, "skip") = 0 /\ Share(scan[s], t, "skip") \in Nat /\ skipRows[t] \in Nat
  BY <1>1, <1>2, <1>3 DEF Share, TriggersInv, TriggerTypes
<1> QED BY <1>1, <1>3, <1>4, <1>5, ScanKeeps DEF TriggersInv, TriggerTypes

\* Edits of triggers and projects, and time
LEMMA TriggersRestKeeps ==
  ASSUME TriggersInv, (\E t \in Triggers : EditTrigger(t)) \/ Tick \/ UNCHANGED triggerVars
  PROVE  TriggersInv'
<1>1. /\ UNCHANGED <<scan, dispatched, skipRows, lost>> /\ time' \in Nat
      /\ everPaused \subseteq everPaused' /\ everPaused' \subseteq Triggers
  BY DEF EditTrigger, Tick, triggerVars, TriggersInv, TriggerTypes
<1>2. /\ trigger' \in [Triggers -> TriggerRow]
      /\ \A t \in Triggers :
           /\ trigger'[t].next = trigger[t].next /\ trigger'[t].policy = trigger[t].policy
           /\ trigger'[t].paused => trigger[t].paused \/ t \in everPaused'
  <2>1. CASE Tick \/ UNCHANGED triggerVars
    BY <2>1 DEF Tick, triggerVars, TriggersInv, TriggerTypes
  <2>2. ASSUME NEW t \in Triggers, EditTrigger(t),
               \/ trigger' = [trigger EXCEPT ![t].enabled = ~@]
               \/ trigger' = [trigger EXCEPT ![t].broken = ~@]
        PROVE  /\ trigger' \in [Triggers -> TriggerRow]
               /\ \A u \in Triggers : /\ trigger'[u].next = trigger[u].next
                                      /\ trigger'[u].policy = trigger[u].policy
                                      /\ trigger'[u].paused = trigger[u].paused
    <3>1. CASE trigger' = [trigger EXCEPT ![t].enabled = ~@]
      BY <3>1 DEF TriggersInv, TriggerTypes, TriggerRow
    <3>2. CASE trigger' = [trigger EXCEPT ![t].broken = ~@]
      BY <3>2 DEF TriggersInv, TriggerTypes, TriggerRow
    <3> QED BY <2>2, <3>1, <3>2
  <2>3. ASSUME NEW t \in Triggers, EditTrigger(t),
               trigger' = [trigger EXCEPT ![t].paused = ~@], t \in everPaused'
        PROVE  /\ trigger' \in [Triggers -> TriggerRow]
               /\ \A u \in Triggers : /\ trigger'[u].next = trigger[u].next
                                      /\ trigger'[u].policy = trigger[u].policy
                                      /\ u # t => trigger'[u].paused = trigger[u].paused
    BY <2>3 DEF TriggersInv, TriggerTypes, TriggerRow
  <2> QED BY <2>1, <2>2, <2>3 DEF EditTrigger
<1>3. TriggerTypes'
  BY <1>1, <1>2 DEF TriggersInv, TriggerTypes
<1>4. TriggersAligned'
  BY <1>1, <1>2 DEF TriggersInv, TriggersAligned, OnTick
<1>5. \A s \in Scans : ScanFits(scan[s])'
  BY <1>1, <1>2 DEF TriggersInv, TriggerTypes, ScanFits, ScanRow, QueriedRow
<1>6. \A t \in Triggers : Claimed(t)' = Claimed(t) /\ Skipped(t)' = Skipped(t) /\ Ticks(t)' = Ticks(t)
  BY <1>1, <1>2 DEF Claimed, Skipped, Ticks, Owed
<1>7. ClaimsCounted'
  BY <1>1, <1>6, <1>2 DEF TriggersInv, ClaimsCounted
<1> QED BY <1>3, <1>4, <1>5, <1>7 DEF TriggersInv

\* Every step of RoutineTriggers keeps the invariant.
LEMMA TriggersSteps == TriggersInv /\ [TriggersNext]_triggerVars => TriggersInv'
<1> SUFFICES ASSUME TriggersInv, [TriggersNext]_triggerVars PROVE TriggersInv'
  OBVIOUS
<1>1. ASSUME NEW s \in Scans, Execute(s) \/ SchedulerStops(s)
      PROVE  TriggersInv'
  BY <1>1, QueryDueKeeps, ClaimKeeps, RecordSkippedKeeps, DispatchRunKeeps, SchedulerStopsKeeps
     DEF Execute
<1>2. CASE (\E t \in Triggers : EditTrigger(t)) \/ Tick \/ UNCHANGED triggerVars
  BY <1>2, TriggersRestKeeps
<1> QED BY <1>1, <1>2 DEF TriggersNext

\* Overlapping executions do not dispatch a tick twice, and a trigger that
\* catches up gets one run for every missed tick.
THEOREM NoTickRunsTwice == TriggersSpec => []TicksRunOnce
<1>1. TriggersInv => TicksRunOnce
  <2> SUFFICES ASSUME TriggersInv, NEW t \in Triggers
               PROVE  /\ Runs(t) + skipRows[t] <= Ticks(t)
                      /\ trigger[t].policy = "all" /\ t \notin everPaused => Runs(t) = Ticks(t)
    BY DEF TicksRunOnce
  <2>1. Runs(t) = Claimed(t)
    BY DEF Runs, Claimed, ToDispatch, Owed
  <2>2. Claimed(t) \in Nat /\ Skipped(t) \in Nat /\ Skipped(t) >= skipRows[t] /\ skipRows[t] \in Nat
    BY OwedFinite DEF Claimed, Skipped, TriggersInv, TriggerTypes
  <2>3. Ticks(t) \in Int
    BY TriggersAssumption DEF Ticks, TriggersInv, TriggerTypes, TriggerRow
  <2> QED BY <2>1, <2>2, <2>3 DEF TriggersInv, ClaimsCounted
<1> QED BY <1>1, TriggersInitially, TriggersSteps, PTL DEF TriggersSpec

=============================================================================
