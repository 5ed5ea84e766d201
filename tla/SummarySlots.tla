---------------------------- MODULE SummarySlots ----------------------------
(***************************************************************************)
(* Summary slots: one row of summary_slots per scope and key, the hidden   *)
(* issues that generate its summary, the revisions that the summarizer     *)
(* writes, and the scheduler job that settles slots whose generation has   *)
(* ended.  One action is one SQL statement; requests and executions of the *)
(* job interleave.  Scopes have an id: for a NULL scope_id the ON CONFLICT *)
(* clause never matches, and each generation would add a row of its own.   *)
(***************************************************************************)
EXTENDS Integers

CONSTANTS
  Slots,
  Drafts,           \* hidden issues of origin summary_slot_generation
  Requests,         \* requests in flight
  Finalizers,       \* executions of summary_slot_finalizer in flight
  NoDraft,
  NoSlot,
  MaxCalls          \* bound: requests received

ASSUME SlotsAssumption == NoDraft \notin Drafts /\ NoSlot \notin Slots

VARIABLES
  slot,             \* rows of summary_slots
  draftIssue,       \* draftIssue[g]: status of a generation issue
  revisions,        \* revisions[s]: the generations that wrote a revision of s
  slotWoken,        \* the generation issues a wakeup was requested for
  slotTask,         \* requests and executions with their locals
  calls,            \* requests received so far
  ended             \* history: generation issues that have been terminal

slotVars == <<slot, draftIssue, revisions, slotWoken, slotTask, calls, ended>>

DraftStatuses == {"absent", "open", "blocked", "done", "cancelled"}
\* TERMINAL_ISSUE_STATUSES: blocked is not one of them.
Terminal == {"done", "cancelled"}
SlotStatuses == {"absent", "idle", "generating", "failed"}
SlotTasks == Requests \cup Finalizers

AtRestJob == [pc |-> "resting", slot |-> NoSlot, draft |-> NoDraft, left |-> {}]

SlotsInit ==
  /\ slot = [s \in Slots |-> [status |-> "absent", draft |-> NoDraft]]
  /\ draftIssue = [g \in Drafts |-> "absent"]
  /\ revisions = [s \in Slots |-> {}]
  /\ slotWoken = {}
  /\ slotTask = [t \in SlotTasks |-> AtRestJob]
  /\ calls = 0
  /\ ended = {}

Move(t, pc) == slotTask' = [slotTask EXCEPT ![t].pc = pc]
Rest(t) == slotTask' = [slotTask EXCEPT ![t] = AtRestJob]

Call(t) ==
  /\ t \in Requests
  /\ slotTask[t].pc = "resting"
  /\ calls < MaxCalls
  /\ calls' = calls + 1

(***************************************************************************)
(* POST /summary-slots/../generate                                         *)
(***************************************************************************)
\* find_slot and the read of the row: no row is ever deleted.
Generate(t, s) ==
  /\ Call(t)
  /\ slotTask' = [slotTask EXCEPT ![t] =
                    IF slot[s].status = "generating" /\ slot[s].draft # NoDraft
                    THEN [AtRestJob EXCEPT !.pc = "probe", !.slot = s, !.draft = slot[s].draft]
                    ELSE [AtRestJob EXCEPT !.pc = "insert", !.slot = s]]
  /\ UNCHANGED <<slot, draftIssue, revisions, slotWoken, ended>>

\* The read of the generation's issue: one under way is answered as it is.
ProbeDraft(t) ==
  /\ slotTask[t].pc = "probe"
  /\ IF draftIssue[slotTask[t].draft] \notin Terminal
     THEN Rest(t)
     ELSE slotTask' = [slotTask EXCEPT ![t] =
                         [AtRestJob EXCEPT !.pc = "insert", !.slot = slotTask[t].slot]]
  /\ UNCHANGED <<slot, draftIssue, revisions, slotWoken, calls, ended>>

InsertDraft(t) ==
  /\ slotTask[t].pc = "insert"
  /\ \E g \in Drafts :
       /\ draftIssue[g] = "absent"
       /\ draftIssue' = [draftIssue EXCEPT ![g] = "open"]
       /\ slotTask' = [slotTask EXCEPT ![t].pc = "upsert", ![t].draft = g]
  /\ UNCHANGED <<slot, revisions, slotWoken, calls, ended>>

\* No built-in summarizer, or a statement fails: what was written stays.
RequestFails(t) ==
  /\ slotTask[t].pc \in {"probe", "insert", "upsert", "wake", "revise", "settle"}
  /\ Rest(t)
  /\ UNCHANGED <<slot, draftIssue, revisions, slotWoken, calls, ended>>

UpsertGenerating(t) ==
  /\ slotTask[t].pc = "upsert"
  /\ slot' = [slot EXCEPT ![slotTask[t].slot] =
                [status |-> "generating", draft |-> slotTask[t].draft]]
  /\ Move(t, "wake")
  /\ UNCHANGED <<draftIssue, revisions, slotWoken, calls, ended>>

WakeWriter(t) ==
  /\ slotTask[t].pc = "wake"
  /\ slotWoken' = slotWoken \cup {slotTask[t].draft}
  /\ Rest(t)
  /\ UNCHANGED <<slot, draftIssue, revisions, calls, ended>>

(***************************************************************************)
(* PUT /summary-slots/..                                                   *)
(***************************************************************************)
\* Mutant: any generation may write.
RequestAnyRevision(t, s) ==
  /\ Call(t)
  /\ \E g \in Drafts :
       /\ draftIssue[g] # "absent"
       /\ slotTask' = [slotTask EXCEPT ![t] = [AtRestJob EXCEPT !.pc = "revise", !.slot = s,
                                                              !.draft = g]]
  /\ UNCHANGED <<slot, draftIssue, revisions, slotWoken, ended>>

\* assert_summarizer_writer: the request names the slot's generation.
RequestRevision(t, s) ==
  /\ Call(t)
  /\ slot[s].draft # NoDraft
  /\ slotTask' = [slotTask EXCEPT ![t] = [AtRestJob EXCEPT !.pc = "revise", !.slot = s,
                                                         !.draft = slot[s].draft]]
  /\ UNCHANGED <<slot, draftIssue, revisions, slotWoken, ended>>

InsertRevision(t) ==
  /\ slotTask[t].pc = "revise"
  /\ revisions' = [revisions EXCEPT ![slotTask[t].slot] = @ \cup {slotTask[t].draft}]
  /\ Move(t, "settle")
  /\ UNCHANGED <<slot, draftIssue, slotWoken, calls, ended>>

\* The last UPDATE finds the slot by its id alone.
SettleIdle(t) ==
  /\ slotTask[t].pc = "settle"
  /\ slot' = [slot EXCEPT ![slotTask[t].slot].status = "idle"]
  /\ Rest(t)
  /\ UNCHANGED <<draftIssue, revisions, slotWoken, calls, ended>>

(***************************************************************************)
(* summary_slot_finalizer                                                  *)
(***************************************************************************)
\* What is left to finalize; with nothing left the execution ends.
FinalizeNext(t, left) ==
  slotTask' = [slotTask EXCEPT ![t] = IF left = {} THEN AtRestJob
                                      ELSE [AtRestJob EXCEPT !.pc = "finalize", !.left = left]]

\* Mutant: cancelled generations are not looked for.
StartFinalizerOfDone(t) ==
  /\ t \in Finalizers
  /\ slotTask[t].pc = "resting"
  /\ FinalizeNext(t, {g \in Drafts :
       /\ draftIssue[g] = "done"
       /\ \E s \in Slots : slot[s].draft = g /\ slot[s].status = "generating"})
  /\ UNCHANGED <<slot, draftIssue, revisions, slotWoken, calls, ended>>

StartFinalizer(t) ==
  /\ t \in Finalizers
  /\ slotTask[t].pc = "resting"
  /\ FinalizeNext(t, {g \in Drafts :
       /\ draftIssue[g] \in Terminal
       /\ \E s \in Slots : slot[s].draft = g /\ slot[s].status = "generating"})
  /\ UNCHANGED <<slot, draftIssue, revisions, slotWoken, calls, ended>>

\* Mutant: the update does not name the generation.
FinalizeAnyDraft(t) ==
  /\ slotTask[t].pc = "finalize"
  /\ \E g \in slotTask[t].left :
       /\ slot' = [s \in Slots |-> IF slot[s].status = "generating"
                                   THEN [slot[s] EXCEPT !.status = "failed"] ELSE slot[s]]
       /\ FinalizeNext(t, slotTask[t].left \ {g})
  /\ UNCHANGED <<draftIssue, revisions, slotWoken, calls, ended>>

FinalizeDraft(t) ==
  /\ slotTask[t].pc = "finalize"
  /\ \E g \in slotTask[t].left :
       /\ slot' = [s \in Slots |->
                     IF slot[s].draft = g /\ slot[s].status = "generating"
                     THEN [slot[s] EXCEPT !.status = "failed"] ELSE slot[s]]
       /\ FinalizeNext(t, slotTask[t].left \ {g})
  /\ UNCHANGED <<draftIssue, revisions, slotWoken, calls, ended>>

(***************************************************************************)
(* The issues                                                              *)
(***************************************************************************)
MoveDraft(g) ==
  /\ draftIssue[g] # "absent"
  /\ \E s \in DraftStatuses \ {"absent", draftIssue[g]} :
       /\ draftIssue' = [draftIssue EXCEPT ![g] = s]
       /\ ended' = IF s \in Terminal THEN ended \cup {g} ELSE ended
  /\ UNCHANGED <<slot, revisions, slotWoken, slotTask, calls>>

RequestStep(t) ==
  \/ ProbeDraft(t) \/ InsertDraft(t) \/ RequestFails(t) \/ UpsertGenerating(t) \/ WakeWriter(t)
  \/ InsertRevision(t) \/ SettleIdle(t)

SlotsNext ==
  \/ \E t \in SlotTasks, s \in Slots : Generate(t, s) \/ RequestRevision(t, s)
  \/ \E t \in SlotTasks : RequestStep(t) \/ StartFinalizer(t) \/ FinalizeDraft(t)
  \/ \E g \in Drafts : MoveDraft(g)

SlotsSpec == SlotsInit /\ [][SlotsNext]_slotVars

\* The scheduler starts the job again and again.
SlotsFairness ==
  \A t \in Finalizers : WF_slotVars(StartFinalizer(t)) /\ WF_slotVars(FinalizeDraft(t))
SlotsFairSpec == SlotsSpec /\ SlotsFairness

(***************************************************************************)
(* Properties                                                              *)
(***************************************************************************)
\* A slot is reported as failed only for the generation it waits for, and only
\* after that one has ended: an execution of the job that is late does not fail
\* the generation that was started since.
FailedHasEnded ==
  \A s \in Slots : slot[s].status = "failed" => slot[s].draft \in ended

\* A generation writes the summary of one slot, the one it was started for, and
\* no slot waits for it but that one, however long the generation goes on to write
\* and whatever generations are started meanwhile: its text, about the issues of
\* one scope, does not turn up in another.
WritesOneSlot ==
  \A s, u \in Slots : \A g \in revisions[s] : g \in revisions[u] \/ slot[u].draft = g => u = s

\* A slot does not show "generating" for ever for a generation that stays ended:
\* a write of the summarizer, a new generation or the job settles it.
SlotSettles ==
  \A s \in Slots, g \in Drafts :
    [](slot[s] = [status |-> "generating", draft |-> g] /\ draftIssue[g] \in Terminal
       => <>(slot[s] # [status |-> "generating", draft |-> g] \/ draftIssue[g] \notin Terminal))
=============================================================================
