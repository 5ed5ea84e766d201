---------------------------- MODULE TaskWatchdog ----------------------------
(***************************************************************************)
(* The watchdog of one issue: an evaluation reads the issue's subtree, the *)
(* live runs and the live wakeups of its issues in separate queries, and   *)
(* if nothing is live it opens a review issue for the watchdog's agent.    *)
(* Evaluations are requested over HTTP and overlap.  The subtree is the    *)
(* watched issue and its children.                                         *)
(***************************************************************************)
EXTENDS Naturals, FiniteSets

CONSTANTS
  Issues,
  Watched,          \* the watched issue
  Reviews,          \* issues of origin task_watchdog
  Evaluations,      \* requests in flight
  NoReview,
  NoPrint,          \* no fingerprint
  MaxMoves,         \* bound: changes of the subtree and its runs
  MaxEvaluations    \* bound: evaluations requested

ASSUME WatchdogAssumption == NoReview \notin Reviews /\ Watched \in Issues

VARIABLES
  subtree,          \* subtree[i]: status of an issue of the subtree, or "outside"
  liveRuns,         \* issues with a queued or running run
  liveWakes,        \* issues with an open wakeup request
  watchdog,         \* the row of issue_watchdogs
  review,           \* review[r]: status of a review issue
  evaluation,       \* evaluations with their locals
  moves, evaluations,
  wasIdle,          \* history: evaluations during which nothing was live
  sameTree,         \* history: evaluations during which no issue joined or left
  misjudged         \* history: an evaluation took as stopped a subtree that stayed the
                    \* same and in which something was live all the time

watchdogVars == <<subtree, liveRuns, liveWakes, watchdog, review, evaluation, moves,
                  evaluations, wasIdle, sameTree, misjudged>>

Open == {"todo", "in_progress"}
Resting == [pc |-> "resting", row |-> NoReview, ids |-> {}, print |-> NoPrint,
            live |-> FALSE, reviewed |-> NoPrint]

Members == {i \in Issues : subtree[i] # "outside"}
Leaves == IF Members = {Watched} THEN {Watched} ELSE Members \ {Watched}
\* stable_stop_fingerprint: the leaves and their statuses
Fingerprint == {<<i, subtree[i]>> : i \in Leaves}
\* A wakeup inserts the run before its request and ends it first, so a live
\* request without a live run is one that is about to be closed.
Live(runs, tree) == \E i \in runs : tree[i] # "outside"

WatchdogInit ==
  /\ subtree = [i \in Issues |-> IF i = Watched THEN "open" ELSE "outside"]
  /\ liveRuns = {Watched} /\ liveWakes = {Watched}
  /\ watchdog = [active |-> TRUE, review |-> NoReview, observed |-> NoPrint,
                 reviewed |-> NoPrint]
  /\ review = [r \in Reviews |-> "absent"]
  /\ evaluation = [e \in Evaluations |-> Resting]
  /\ moves = 0 /\ evaluations = 0
  /\ wasIdle = {} /\ sameTree = {}
  /\ misjudged = FALSE

Become(e, state) == evaluation' = [evaluation EXCEPT ![e] = state]
End(e) == Become(e, Resting)

(***************************************************************************)
(* evaluate                                                                *)
(***************************************************************************)
\* get_by_issue or list_active_by_company
Evaluate(e) ==
  /\ evaluation[e].pc = "resting"
  /\ evaluations < MaxEvaluations
  /\ watchdog.active
  /\ evaluations' = evaluations + 1
  /\ Become(e, [Resting EXCEPT !.pc = "subtree", !.row = watchdog.review,
                               !.reviewed = watchdog.reviewed])
  /\ wasIdle' = IF Live(liveRuns, subtree) THEN wasIdle \ {e} ELSE wasIdle \cup {e}
  /\ UNCHANGED <<subtree, liveRuns, liveWakes, watchdog, review, moves, sameTree, misjudged>>

LoadSubtree(e) ==
  /\ evaluation[e].pc = "subtree"
  /\ Become(e, [evaluation[e] EXCEPT !.pc = "runs", !.ids = Members, !.print = Fingerprint])
  /\ sameTree' = sameTree \cup {e}
  /\ UNCHANGED <<subtree, liveRuns, liveWakes, watchdog, review, moves, evaluations, wasIdle,
                 misjudged>>

\* Mutant: the runs of the watched issue alone
ListRunsOfWatched(e) ==
  /\ evaluation[e].pc = "runs"
  /\ Become(e, [evaluation[e] EXCEPT !.pc = "wakes", !.live = Watched \in liveRuns])
  /\ UNCHANGED <<subtree, liveRuns, liveWakes, watchdog, review, moves, evaluations, wasIdle,
                 sameTree, misjudged>>

ListLiveRuns(e) ==
  /\ evaluation[e].pc = "runs"
  /\ Become(e, [evaluation[e] EXCEPT !.pc = "wakes",
                                     !.live = evaluation[e].ids \cap liveRuns # {}])
  /\ UNCHANGED <<subtree, liveRuns, liveWakes, watchdog, review, moves, evaluations, wasIdle,
                 sameTree, misjudged>>

ListLiveWakes(e) ==
  /\ evaluation[e].pc = "wakes"
  /\ Become(e, [evaluation[e] EXCEPT !.pc = "classify",
                                     !.live = @ \/ evaluation[e].ids \cap liveWakes # {}])
  /\ UNCHANGED <<subtree, liveRuns, liveWakes, watchdog, review, moves, evaluations, wasIdle,
                 sameTree, misjudged>>

\* The classifier finds the subtree live or already reviewed, an issue is within
\* its first-run grace, or a statement of the evaluation fails.
GiveUp(e) ==
  /\ evaluation[e].pc # "resting"
  /\ End(e)
  /\ UNCHANGED <<subtree, liveRuns, liveWakes, watchdog, review, moves, evaluations, wasIdle,
                 sameTree, misjudged>>

\* The subtree has stopped, and not as it was reviewed last: record_observed.
Stopped(e) ==
  /\ evaluation[e].pc = "classify"
  /\ ~evaluation[e].live
  /\ evaluation[e].print # evaluation[e].reviewed
  /\ watchdog' = [watchdog EXCEPT !.observed = evaluation[e].print]
  /\ Become(e, [evaluation[e] EXCEPT !.pc = "find"])
  /\ misjudged' = (misjudged \/ (e \in sameTree /\ e \notin wasIdle))
  /\ UNCHANGED <<subtree, liveRuns, liveWakes, review, moves, evaluations, wasIdle, sameTree>>

(***************************************************************************)
(* handle_stopped                                                          *)
(***************************************************************************)
\* Mutant: a review that is found by its origin is not entered in the row.
FindReviewOnly(e) ==
  /\ evaluation[e].pc = "find"
  /\ LET made == {r \in Reviews : review[r] # "absent"}
         found == IF evaluation[e].row # NoReview THEN {evaluation[e].row} ELSE made
     IN IF found = {}
        THEN Become(e, [evaluation[e] EXCEPT !.pc = "create"])
        ELSE \E r \in found : Become(e, [evaluation[e] EXCEPT !.pc = "reopen", !.row = r])
  /\ UNCHANGED <<subtree, liveRuns, liveWakes, watchdog, review, moves, evaluations, wasIdle,
                 sameTree, misjudged>>

\* The review issue of the row that was read, or the first of its origin
FindReview(e) ==
  /\ evaluation[e].pc = "find"
  /\ LET made == {r \in Reviews : review[r] # "absent"}
         found == IF evaluation[e].row # NoReview THEN {evaluation[e].row} ELSE made
     IN IF found = {}
        THEN Become(e, [evaluation[e] EXCEPT !.pc = "create"]) /\ UNCHANGED watchdog
        ELSE \E r \in found :
               /\ Become(e, [evaluation[e] EXCEPT !.pc = "reopen", !.row = r])
               /\ watchdog' = IF evaluation[e].row = NoReview
                              THEN [watchdog EXCEPT !.review = r] ELSE watchdog
  /\ UNCHANGED <<subtree, liveRuns, liveWakes, review, moves, evaluations, wasIdle, sameTree,
                 misjudged>>

\* A review that is done, cancelled, in review or in the backlog is reopened.
ReopenReview(e) ==
  /\ evaluation[e].pc = "reopen"
  /\ review' = [review EXCEPT ![evaluation[e].row] = IF @ \in Open THEN @ ELSE "todo"]
  /\ Become(e, [evaluation[e] EXCEPT !.pc = "reviewed"])
  /\ UNCHANGED <<subtree, liveRuns, liveWakes, watchdog, moves, evaluations, wasIdle, sameTree,
                 misjudged>>

CreateReview(e) ==
  /\ evaluation[e].pc = "create"
  /\ \E r \in Reviews :
       /\ review[r] = "absent"
       /\ review' = [review EXCEPT ![r] = "todo"]
       /\ Become(e, [evaluation[e] EXCEPT !.pc = "link", !.row = r])
  /\ UNCHANGED <<subtree, liveRuns, liveWakes, watchdog, moves, evaluations, wasIdle, sameTree,
                 misjudged>>

LinkReview(e) ==
  /\ evaluation[e].pc = "link"
  /\ watchdog' = [watchdog EXCEPT !.review = evaluation[e].row]
  /\ Become(e, [evaluation[e] EXCEPT !.pc = "reviewed"])
  /\ UNCHANGED <<subtree, liveRuns, liveWakes, review, moves, evaluations, wasIdle, sameTree,
                 misjudged>>

RecordReviewed(e) ==
  /\ evaluation[e].pc = "reviewed"
  /\ watchdog' = [watchdog EXCEPT !.reviewed = evaluation[e].print]
  /\ End(e)
  /\ UNCHANGED <<subtree, liveRuns, liveWakes, review, moves, evaluations, wasIdle, sameTree,
                 misjudged>>

(***************************************************************************)
(* The issues and their runs                                               *)
(***************************************************************************)
\* What changed in a step counts for the evaluations under way.
Note(tree, runs, wakes) ==
  /\ moves < MaxMoves
  /\ moves' = moves + 1
  /\ subtree' = tree /\ liveRuns' = runs /\ liveWakes' = wakes
  /\ wasIdle' = IF Live(runs, tree) THEN wasIdle ELSE Evaluations
  /\ sameTree' = IF {i \in Issues : tree[i] # "outside"} = Members THEN sameTree ELSE {}
  /\ UNCHANGED <<watchdog, review, evaluation, evaluations, misjudged>>

\* wakeup inserts the run, then the request; the run ends before its request.
WakeIssue(i) == i \in Members /\ Note(subtree, liveRuns \cup {i}, liveWakes)
RecordWake(i) == i \in liveRuns /\ Note(subtree, liveRuns, liveWakes \cup {i})
RunEnds(i) == i \in liveRuns /\ Note(subtree, liveRuns \ {i}, liveWakes)
CloseWakes(i) == Note(subtree, liveRuns, liveWakes \ {i})

\* An agent adds a child issue or an issue moves; its status changes.
SetIssue(i) ==
  \E s \in {"open", "done", "outside"} :
    /\ i = Watched => s # "outside"
    /\ Note([subtree EXCEPT ![i] = s], liveRuns, liveWakes)

MoveReview(r) ==
  /\ review[r] # "absent"
  /\ moves < MaxMoves
  /\ moves' = moves + 1
  /\ \E s \in Open \cup {"done"} : review' = [review EXCEPT ![r] = s]
  /\ UNCHANGED <<subtree, liveRuns, liveWakes, watchdog, evaluation, evaluations, wasIdle,
                 sameTree, misjudged>>

\* PUT .../status
SetStatus ==
  /\ moves < MaxMoves
  /\ moves' = moves + 1
  /\ watchdog' = [watchdog EXCEPT !.active = ~@]
  /\ UNCHANGED <<subtree, liveRuns, liveWakes, review, evaluation, evaluations, wasIdle,
                 sameTree, misjudged>>

WatchdogNext ==
  \/ \E e \in Evaluations :
       \/ Evaluate(e) \/ LoadSubtree(e) \/ ListLiveRuns(e) \/ ListLiveWakes(e)
       \/ GiveUp(e) \/ Stopped(e) \/ FindReview(e) \/ ReopenReview(e) \/ CreateReview(e)
       \/ LinkReview(e) \/ RecordReviewed(e)
  \/ \E i \in Issues : WakeIssue(i) \/ RecordWake(i) \/ RunEnds(i) \/ CloseWakes(i) \/ SetIssue(i)
  \/ \E r \in Reviews : MoveReview(r)
  \/ SetStatus

WatchdogSpec == WatchdogInit /\ [][WatchdogNext]_watchdogVars

(***************************************************************************)
(* Properties                                                              *)
(***************************************************************************)
\* A subtree whose issues stay the same while it is evaluated, and in which
\* some run is live all the time, is not taken as stopped, whatever runs end and
\* start between the queries.
StableTreeSound == ~misjudged

\* A stop that is recorded as reviewed, and therefore never looked at again, has
\* a review issue the watchdog row names, also when an earlier evaluation failed
\* between the two statements that create and link it.
ReviewedHasIssue == watchdog.reviewed # NoPrint => watchdog.review # NoReview
=============================================================================
