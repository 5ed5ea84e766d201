---------------------------- MODULE MCHeartbeat ----------------------------
EXTENDS HeartbeatClaims, TLC
CONSTANTS a1, a2, i1, i2, c1, c2

OneSlot == [a \in Agents |-> 1]
TwoSlots == [a \in Agents |-> 2]
SamePriority == [i \in Issues |-> 2]
NoBlocks == {}
CallerSymmetry == Permutations(Callers)

\* Where a restart leaves the tables: the process died when three wakeups,
\* two of them racing for one issue, had put runs in the queue and before a
\* task of theirs began.  The sweep of the boot passes over the issues, which
\* are in progress, so that the rows stay queued with no task.
onIssue == <<i1, i2, i1>>
LeftQueued == DOMAIN onIssue
RestartInit ==
  \E owner \in Agents :
    /\ run = [r \in Runs |->
                IF r \in LeftQueued
                THEN [status |-> "queued", agent |-> owner, issue |-> onIssue[r]]
                ELSE [status |-> "absent", agent |-> NoAgent, issue |-> NoIssue]]
    /\ issue = [i \in Issues |->
                  [status |-> "in_progress", assignee |-> owner,
                   lock |-> CHOOSE r \in LeftQueued :
                              onIssue[r] = i /\ \A q \in LeftQueued : onIssue[q] = i => q <= r]]
    /\ agent = [a \in Agents |-> IF a = owner THEN "running" ELSE "idle"]
    /\ wakeup = [r \in Runs |-> IF r \in LeftQueued THEN "dispatched" ELSE "none"]
    /\ session = [r \in Runs |-> FALSE]
    /\ exec = [e \in Execs |-> [pc |-> IF e[1] \in LeftQueued /\ e[2] = "woken"
                                       THEN "done" ELSE "none",
                                outcome |-> "none"]]
    /\ process = [e \in Execs |-> "none"]
    /\ children = [r \in Runs |-> NoChild]
    /\ registry = Free
    /\ caller = [c \in Callers |-> Idle]
    /\ server = "serving"
    /\ bootQueue = {}
    /\ requests = 0
    /\ crashes = MaxCrashes
RestartSpec == RestartInit /\ [][Next]_vars
=============================================================================
