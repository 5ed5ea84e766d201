-------------------------- MODULE RegistryHistory --------------------------
(***************************************************************************)
(* AgentRegistry with a record of which handlers were overtaken: between a *)
(* SELECT and the UPDATE that rests on it another handler changed what the *)
(* SELECT returned.  The code takes no lock and checks nothing when it     *)
(* writes, so any number of handlers may overtake one another; the         *)
(* properties say that nothing else than that breaks the table.  The       *)
(* record only listens: every step of AgentRegistry is a step here.        *)
(***************************************************************************)
EXTENDS AgentRegistry

VARIABLES
  misled,      \* handlers whose walk, or copy of reports_to, was overtaken or cut off
  unsure,      \* agents that got their manager from a misled handler
  late,        \* handlers that read an agent before it was terminated
  outvoted,    \* reviews that read their approval before another one decided it
  contested    \* approvals that an outvoted review decided once more

history == <<misled, unsure, late, outvoted, contested>>

-----------------------------------------------------------------------------
\* reports_to of a row of the table changes.
Moved(a) == Exists(a) /\ agent'[a].manager # agent[a].manager
LineChanged == \E a \in Agents : Moved(a)

\* A failed SELECT or the level limit ends the walk below the root.
CutOff(c) ==
  /\ At(c, "walk") /\ caller'[c].pc = "write"
  /\ \/ caller[c].cursor \in caller[c].visited
     \/ agent[caller[c].cursor].manager # NoAgent

Relies(k) == k.pc \in {"walk", "write"}
RecordMisled ==
  misled' = {c \in Callers : /\ Relies(caller'[c])
                             /\ \/ c \in misled
                                \/ Relies(caller[c]) /\ LineChanged
                                \/ CutOff(c)}

RecordUnsure ==
  unsure' = {a \in Agents :
               IF Moved(a) THEN \E c \in misled : WriteRow(c) /\ caller[c].agent = a
                           ELSE a \in unsure}

Terminated(a) == agent[a].status # "terminated" /\ agent'[a].status = "terminated"
HasRead(k) == k.pc \in {"manager", "walk", "write"}
RecordLate ==
  late' = {c \in Callers : /\ HasRead(caller'[c])
                           /\ \/ c \in late
                              \/ HasRead(caller[c]) /\ Terminated(caller[c].agent)}

Settled(p) == approval[p].status = "pending" /\ approval'[p].status # "pending"
RecordOutvoted ==
  outvoted' = {c \in Callers : /\ caller'[c].pc = "decide" /\ At(c, "decide")
                               /\ c \in outvoted \/ Settled(caller[c].approval)}

\* The UPDATE of a review that was outvoted.
DecidesAgain(c, p) == c \in outvoted /\ Decide(c) /\ caller[c].approval = p
RecordContested ==
  contested' = contested \cup {p \in Approvals : \E c \in Callers : DecidesAgain(c, p)}

Record == /\ RecordMisled /\ RecordUnsure /\ RecordLate
          /\ RecordOutvoted /\ RecordContested

HistoryInit ==
  /\ Init
  /\ misled = {} /\ unsure = {} /\ late = {} /\ outvoted = {} /\ contested = {}
HistoryNext == Next /\ Record
HistorySpec == HistoryInit /\ [][HistoryNext]_<<vars, history>>

-----------------------------------------------------------------------------
(* Properties                                                              *)

\* update and create, with their walk up the line of the new manager, in any
\* number of requests at a time: a cycle goes through an agent whose manager
\* comes from a walk, or a copied row, that was overtaken or cut off.  In every
\* other set of agents somebody reports to nobody in the set, however the walks
\* of hires, updates and reviews and the writes of stale rows interleave.
WalkedLinesAcyclic ==
  \A S \in (SUBSET (Agents \ unsure)) \ {{}} : \E a \in S : agent[a].manager \notin S

\* set_status, update, the edits that look at no status and terminate itself,
\* each a SELECT and a later UPDATE of the whole row: an agent that is terminated
\* comes back by a run's wakeup, or by the write of a handler that had read the
\* row before the termination; by nothing that reads it afterwards.
TerminatedStays ==
  [][\A a \in Agents : agent[a].status = "terminated" /\ agent'[a].status # "terminated" =>
       \/ RunWakes(a)
       \/ \E c \in late : WriteRow(c) /\ caller[c].agent = a]_<<vars, history>>

\* review, resubmit and execute_hire_agent, several reviews at a time: an
\* approval hires a second agent only if a review decided it that had read it
\* before another review did; revisions, resubmissions and hires that were
\* dropped halfway do not add one.
UncontestedHiresOnce ==
  \A a, b \in Agents :
    origin[a] \notin contested \cup {NoApproval} /\ origin[a] = origin[b] => a = b

\* review and resubmit: nothing else than a review that was outvoted changes an
\* approval that was approved or rejected.
DecisionsStand ==
  [][\A p \in Approvals :
       approval[p].status \in {"approved", "rejected"} /\ approval'[p] # approval[p] =>
         \E c \in Callers : DecidesAgain(c, p)]_<<vars, history>>

=============================================================================
