--------------------------- MODULE PluginWorkers ---------------------------
(***************************************************************************)
(* Plugin workers: handles that each run one worker process and send it    *)
(* JSON-RPC requests, and the manager's map of handles.  The map belongs   *)
(* to one plugin here (plugins share nothing but its lock).  A step is a   *)
(* stretch of code under the state lock of a handle; the manager's write   *)
(* lock is held over the whole of start_worker and stop_worker.            *)
(***************************************************************************)
EXTENDS Naturals, FiniteSets

CONSTANTS
  Workers,          \* PluginWorkerHandle objects
  Processes,
  Clients,          \* tasks that use the manager
  Nil,
  MaxUses           \* bound: operations started

ASSUME WorkersAssumption == Nil \notin Workers \cup Processes \cup Clients

VARIABLES
  worker,           \* worker[h]: status, child and pending requests of handle h
  registered,       \* the handle in the manager's map, or Nil
  lockedBy,         \* the client that holds the map's write lock, or Nil
  parent,           \* parent[p]: the handle that spawned process p, or Nil
  alive,            \* processes that run
  client,           \* clients with their locals
  uses

workerVars == <<worker, registered, lockedBy, parent, alive, client, uses>>

Unstarted == [status |-> "idle", child |-> Nil, pending |-> {}]

\* op is what the client does; sub the step in its handle; rpc the request that
\* it is about to send or waits for; todo the handles stop_all has yet to stop
Unused == [op |-> "none", sub |-> "none", on |-> Nil, rpc |-> "none", todo |-> {}]

WorkersInit ==
  /\ worker = [h \in Workers |-> Unstarted]
  /\ registered = Nil
  /\ lockedBy = Nil
  /\ parent = [p \in Processes |-> Nil]
  /\ alive = {}
  /\ client = [c \in Clients |-> Unused]
  /\ uses = 0

Proceed(c, sub) == client' = [client EXCEPT ![c].sub = sub]
On(c) == worker[client[c].on]
Known == IF registered = Nil THEN {} ELSE {registered}

(***************************************************************************)
(* Operations of the manager and of a handle that get_worker returned      *)
(***************************************************************************)
Use(c) ==
  /\ client[c].op = "none"
  /\ uses < MaxUses
  /\ uses' = uses + 1

\* A new handle under the write lock, unless the plugin has one
StartWorker(c) ==
  /\ Use(c)
  /\ lockedBy = Nil
  /\ IF registered # Nil
     THEN UNCHANGED <<client, lockedBy>>
     ELSE \E h \in Workers :
            /\ worker[h] = Unstarted
            /\ \A d \in Clients : client[d].on # h
            /\ client' = [client EXCEPT ![c] = [Unused EXCEPT !.op = "start_worker",
                                                            !.sub = "start", !.on = h]]
            /\ lockedBy' = c
  /\ UNCHANGED <<worker, registered, parent, alive>>

StopWorker(c) ==
  /\ Use(c)
  /\ lockedBy = Nil
  /\ registered' = Nil
  /\ IF registered = Nil
     THEN UNCHANGED <<client, lockedBy>>
     ELSE /\ client' = [client EXCEPT ![c] = [Unused EXCEPT !.op = "stop_worker", !.sub = "stop",
                                                          !.on = registered]]
          /\ lockedBy' = c
  /\ UNCHANGED <<worker, parent, alive>>

\* stop_all copies the map under the read lock, which it gives back.
StopAll(c) ==
  /\ Use(c)
  /\ lockedBy = Nil
  /\ client' = [client EXCEPT ![c] = [Unused EXCEPT !.op = "stop_all", !.sub = "next",
                                                  !.todo = Known]]
  /\ UNCHANGED <<worker, registered, lockedBy, parent, alive>>

\* restart and call, on the handle that the map shows now
UseHandle(c) ==
  /\ Use(c)
  /\ lockedBy = Nil
  /\ \E h \in Known, op \in {"restart", "call"} :
       client' = [client EXCEPT ![c] = [Unused EXCEPT !.op = op, !.on = h,
                    !.sub = IF op = "restart" THEN "stop" ELSE "call",
                    !.rpc = IF op = "call" THEN "method" ELSE "none"]]
  /\ UNCHANGED <<worker, registered, lockedBy, parent, alive>>

\* An operation ends, with an error or without; the write lock goes with it.
EndUse(c) ==
  /\ client' = [client EXCEPT ![c] = Unused]
  /\ lockedBy' = IF lockedBy = c THEN Nil ELSE lockedBy

(***************************************************************************)
(* start                                                                   *)
(***************************************************************************)
\* Mutant: start does not look at the status.
SpawnAnyway(c) ==
  /\ client[c].sub = "start"
  /\ \E p \in Processes :
       /\ parent[p] = Nil
       /\ worker' = [worker EXCEPT ![client[c].on].status = "starting",
                                  ![client[c].on].child = p]
       /\ parent' = [parent EXCEPT ![p] = client[c].on]
       /\ alive' = alive \cup {p}
       /\ client' = [client EXCEPT ![c].sub = "call", ![c].rpc = "initialize"]
  /\ UNCHANGED <<registered, lockedBy, uses>>

\* A spawn that fails leaves the handle in status starting.
Spawn(c) ==
  /\ client[c].sub = "start"
  /\ LET h == client[c].on IN
     IF worker[h].status \notin {"idle", "stopped"}
     THEN EndUse(c) /\ UNCHANGED <<worker, parent, alive>>
     ELSE \/ /\ worker' = [worker EXCEPT ![h].status = "starting"]
             /\ EndUse(c)
             /\ UNCHANGED <<parent, alive>>
          \/ \E p \in Processes :
               /\ parent[p] = Nil
               /\ worker' = [worker EXCEPT ![h].status = "starting", ![h].child = p]
               /\ parent' = [parent EXCEPT ![p] = h]
               /\ alive' = alive \cup {p}
               /\ client' = [client EXCEPT ![c].sub = "call", ![c].rpc = "initialize"]
               /\ UNCHANGED lockedBy
  /\ UNCHANGED <<registered, uses>>

\* After the answer to initialize, whatever the status is by now
MarkRunning(c) ==
  /\ client[c].sub = "running"
  /\ worker' = [worker EXCEPT ![client[c].on].status = "running"]
  /\ registered' = IF client[c].op = "start_worker" THEN client[c].on ELSE registered
  /\ EndUse(c)
  /\ UNCHANGED <<parent, alive, uses>>

(***************************************************************************)
(* call                                                                    *)
(***************************************************************************)
\* A refused or failed request: stop goes on, start and call return the error.
Failed(c) ==
  IF client[c].rpc = "shutdown" THEN Proceed(c, "kill") /\ UNCHANGED lockedBy ELSE EndUse(c)

CheckRunning(c) ==
  /\ client[c].sub = "call"
  /\ IF On(c).status \in {"running", "starting"}
     THEN Proceed(c, "send") /\ UNCHANGED lockedBy
     ELSE Failed(c)
  /\ UNCHANGED <<worker, registered, parent, alive, uses>>

\* The request is entered as pending before the child is looked at, and stays
\* if there is none or if the write fails.
Send(c) ==
  /\ client[c].sub = "send"
  /\ LET h == client[c].on
         p == worker[h].child
     IN /\ worker' = [worker EXCEPT ![h].pending = @ \cup {c}]
        /\ IF p \in alive
           THEN Proceed(c, "wait") /\ UNCHANGED lockedBy
           ELSE Failed(c)
  /\ UNCHANGED <<registered, parent, alive, uses>>

\* handle_rpc_response: the worker answers with a result or with an error.
Respond(c) ==
  /\ client[c].sub = "wait"
  /\ c \in On(c).pending
  /\ On(c).child \in alive
  /\ worker' = [worker EXCEPT ![client[c].on].pending = @ \ {c}]
  /\ CASE client[c].rpc = "initialize" -> (Proceed(c, "running") /\ UNCHANGED lockedBy) \/ EndUse(c)
       [] client[c].rpc = "shutdown" -> Proceed(c, "kill") /\ UNCHANGED lockedBy
       [] OTHER -> EndUse(c)
  /\ UNCHANGED <<registered, parent, alive, uses>>

\* The timeout of the call, or the end of its channel
NoResponse(c) ==
  /\ client[c].sub = "wait"
  /\ worker' = [worker EXCEPT ![client[c].on].pending = @ \ {c}]
  /\ Failed(c)
  /\ UNCHANGED <<registered, parent, alive, uses>>

(***************************************************************************)
(* stop                                                                    *)
(***************************************************************************)
StopReturns(c) ==
  CASE client[c].op = "restart" -> Proceed(c, "start") /\ UNCHANGED lockedBy
    [] client[c].op = "stop_all" -> Proceed(c, "next") /\ UNCHANGED lockedBy
    [] OTHER -> EndUse(c)

BeginStop(c) ==
  /\ client[c].sub = "stop"
  /\ LET h == client[c].on IN
     IF worker[h].status \in {"stopped", "idle"}
     THEN StopReturns(c) /\ UNCHANGED worker
     ELSE /\ worker' = [worker EXCEPT ![h].status = "stopping"]
          /\ client' = [client EXCEPT ![c].sub = "call", ![c].rpc = "shutdown"]
          /\ UNCHANGED lockedBy
  /\ UNCHANGED <<registered, parent, alive, uses>>

\* The state lock is held until the child has exited or was killed; pending
\* requests fail.
KillChild(c) ==
  /\ client[c].sub = "kill"
  /\ LET h == client[c].on
         p == worker[h].child
     IN /\ worker' = [worker EXCEPT ![h].status = "stopped", ![h].child = Nil,
                                   ![h].pending = {}]
        /\ alive' = alive \ {p}
  /\ StopReturns(c)
  /\ UNCHANGED <<registered, parent, uses>>

\* stop_all: the next handle of its copy; in the end the map is cleared.
NextToStop(c) ==
  /\ client[c].sub = "next"
  /\ IF client[c].todo # {}
     THEN /\ \E h \in client[c].todo :
               client' = [client EXCEPT ![c].sub = "stop", ![c].on = h, ![c].todo = @ \ {h}]
          /\ UNCHANGED <<registered, lockedBy>>
     ELSE /\ lockedBy = Nil
          /\ registered' = Nil
          /\ EndUse(c)
  /\ UNCHANGED <<worker, parent, alive, uses>>

\* A process ends by itself: nothing takes note of it.
ProcessExits(p) ==
  /\ p \in alive
  /\ alive' = alive \ {p}
  /\ UNCHANGED <<worker, registered, lockedBy, parent, client, uses>>

ClientStep(c) ==
  \/ Spawn(c) \/ MarkRunning(c) \/ CheckRunning(c) \/ Send(c) \/ Respond(c) \/ NoResponse(c)
  \/ BeginStop(c) \/ KillChild(c) \/ NextToStop(c)

WorkersNext ==
  \/ \E c \in Clients :
       StartWorker(c) \/ StopWorker(c) \/ StopAll(c) \/ UseHandle(c) \/ ClientStep(c)
  \/ \E p \in Processes : ProcessExits(p)

WorkersSpec == WorkersInit /\ [][WorkersNext]_workerVars

(***************************************************************************)
(* Properties                                                              *)
(***************************************************************************)
\* A handle never loses a process: one that runs is the child of the handle
\* that spawned it, so that the handle's next stop ends it, however starts,
\* stops, restarts and calls overlap.  So a handle has one process at a time.
ChildKept == \A p \in alive : worker[parent[p]].child = p
=============================================================================
