--------------------------- MODULE IssueDocuments ---------------------------
(***************************************************************************)
(* Documents of issues: one document per issue and key, a list of numbered *)
(* revisions, and requests that write, restore, lock and delete them.      *)
(* A key of an issue is a member of DocKeys.  PUT runs in one transaction  *)
(* and holds the row lock of the key (FOR UPDATE) if the key exists; its   *)
(* writes become visible together, at the commit.  restore reads before it *)
(* opens its transaction and takes no such lock; nor does a run, which at  *)
(* its end writes the summary of its issue to a key of its own.  The       *)
(* tables of documents are not created in the repository: whether          *)
(* (document, number) is unique is a constant.                             *)
(***************************************************************************)
EXTENDS Integers, Sequences, FiniteSetsExt

CONSTANTS
  DocKeys,
  Documents,       \* rows of documents
  Writers,         \* requests in flight
  NoDoc,
  UniqueNumbers,   \* TRUE: the database refuses a number that a document has
  MaxWrites        \* bound: requests received

ASSUME DocumentsAssumption == NoDoc \notin Documents \cup DocKeys

VARIABLES
  linkOf,          \* linkOf[k]: the document of key k (issue_documents), or NoDoc
  docs,            \* docs[d]: its revisions in the order of their commits: number,
                   \* position of the revision it was written against (0: none
                   \* was named), and whether it is of a restore or a
                   \* run's summary, which look at no base
  locked,          \* the documents with locked_at set
  writer,          \* requests with their locals
  writes           \* requests received so far

docVars == <<linkOf, docs, locked, writer, writes>>

AtRest == [pc |-> "rest", key |-> NoDoc, doc |-> NoDoc, base |-> 0, number |-> 0]

DocumentsInit ==
  /\ linkOf = [k \in DocKeys |-> NoDoc]
  /\ docs = [d \in Documents |-> <<>>]
  /\ locked = {}
  /\ writer = [w \in Writers |-> AtRest]
  /\ writes = 0

(***************************************************************************)
(* Helpers                                                                 *)
(***************************************************************************)
Numbers(d) == {docs[d][i].number : i \in DOMAIN docs[d]}
MaxNumber(d) == Max(Numbers(d) \cup {0})

\* ORDER BY revision_number DESC LIMIT 1: of equal numbers any one
Newest(d) == {i \in DOMAIN docs[d] : docs[d][i].number = MaxNumber(d)}

\* The transaction of a PUT holds the lock of its key.
Holds(w, k) == writer[w].pc \in {"check", "number", "commit"} /\ writer[w].key = k
Unlocked(k) == \A w \in Writers : ~Holds(w, k)

Write(w, state) == writer' = [writer EXCEPT ![w] = state]
EndWrite(w) == Write(w, AtRest)

StartWrite(w) ==
  /\ writer[w].pc = "rest"
  /\ writes < MaxWrites
  /\ writes' = writes + 1

\* Mutant: a number that the document has is stored again.
AddAnyRevision(d, number, base, blind) ==
  docs' = [docs EXCEPT ![d] = Append(@, [number |-> number, base |-> base,
                                         blind |-> blind])]

\* A commit, unless the INSERT of the revision fails: the content that a
\* document shows is that of the revision committed last.
AddRevision(d, number, base, blind) ==
  docs' = IF UniqueNumbers /\ number \in Numbers(d) THEN docs
          ELSE [docs EXCEPT ![d] = Append(@, [number |-> number, base |-> base,
                                              blind |-> blind])]

(***************************************************************************)
(* PUT /issues/:id/documents/:key                                          *)
(***************************************************************************)
\* baseRevisionId is a revision that the client has seen, if it names one.
RequestPut(w, k) ==
  /\ StartWrite(w)
  /\ \E base \in {0} \cup (IF linkOf[k] = NoDoc THEN {} ELSE DOMAIN docs[linkOf[k]]) :
       Write(w, [AtRest EXCEPT !.pc = "begin", !.key = k, !.base = base,
                                !.doc = IF base = 0 THEN NoDoc ELSE linkOf[k]])
  /\ UNCHANGED <<linkOf, docs, locked>>

\* Mutant: a SELECT without FOR UPDATE
ReadKey(w) ==
  /\ writer[w].pc = "begin"
  /\ IF linkOf[writer[w].key] # NoDoc
     THEN Write(w, [writer[w] EXCEPT !.pc = "check"])
     ELSE IF writer[w].base # 0 THEN EndWrite(w)
     ELSE Write(w, [writer[w] EXCEPT !.pc = "create"])
  /\ UNCHANGED <<linkOf, docs, locked, writes>>

\* SELECT .. FOR UPDATE waits for the transaction that holds the key.  A base
\* is a conflict where there is no document.
LockKey(w) ==
  /\ writer[w].pc = "begin"
  /\ LET k == writer[w].key IN
     /\ Unlocked(k)
     /\ IF linkOf[k] # NoDoc
        THEN Write(w, [writer[w] EXCEPT !.pc = "check"])
        ELSE IF writer[w].base # 0 THEN EndWrite(w)
        ELSE Write(w, [writer[w] EXCEPT !.pc = "create"])
  /\ UNCHANGED <<linkOf, docs, locked, writes>>

\* A base that is not the newest revision is a conflict.
CheckBase(w) ==
  /\ writer[w].pc = "check"
  /\ LET d == linkOf[writer[w].key] IN
     \E newest \in Newest(d) :
       IF writer[w].base = 0 \/ <<writer[w].doc, writer[w].base>> = <<d, newest>>
       THEN Write(w, [writer[w] EXCEPT !.pc = "number", !.doc = d])
       ELSE EndWrite(w)
  /\ UNCHANGED <<linkOf, docs, locked, writes>>

NumberRevision(w) ==
  /\ writer[w].pc = "number"
  /\ Write(w, [writer[w] EXCEPT !.pc = "commit", !.number = MaxNumber(writer[w].doc) + 1])
  /\ UNCHANGED <<linkOf, docs, locked, writes>>

CommitPut(w) ==
  /\ writer[w].pc = "commit"
  /\ AddRevision(writer[w].doc, writer[w].number, writer[w].base, FALSE)
  /\ EndWrite(w)
  /\ UNCHANGED <<linkOf, locked, writes>>

\* The document, its key and its first revision, or a conflict if another
\* request has created the key since.
CommitCreate(w) ==
  /\ writer[w].pc = "create"
  /\ LET k == writer[w].key IN
     IF linkOf[k] = NoDoc
     THEN \E d \in Documents :
            /\ docs[d] = <<>>
            /\ linkOf' = [linkOf EXCEPT ![k] = d]
            /\ AddRevision(d, 1, 0, FALSE)
     ELSE UNCHANGED <<linkOf, docs>>
  /\ EndWrite(w)
  /\ UNCHANGED <<locked, writes>>

(***************************************************************************)
(* POST .../revisions/:id/restore                                          *)
(***************************************************************************)
\* The reads of the document and of the revision's content
RequestRestore(w, k) ==
  /\ StartWrite(w)
  /\ linkOf[k] # NoDoc
  /\ Write(w, [AtRest EXCEPT !.pc = "restore", !.key = k, !.doc = linkOf[k]])
  /\ UNCHANGED <<linkOf, docs, locked>>

(***************************************************************************)
(* refresh_continuation_summary, at the end of a run                       *)
(***************************************************************************)
\* The lock of the SELECT goes with its statement, which is not in the
\* transaction of the write.
RefreshSummary(w, k) ==
  /\ StartWrite(w)
  /\ Unlocked(k)
  /\ Write(w, [AtRest EXCEPT !.pc = IF linkOf[k] = NoDoc THEN "create" ELSE "restore",
                              !.key = k, !.doc = linkOf[k]])
  /\ UNCHANGED <<linkOf, docs, locked>>

\* Of a restore or of a summary: its number and its commit
NumberRestore(w) ==
  /\ writer[w].pc = "restore"
  /\ Write(w, [writer[w] EXCEPT !.pc = "write", !.number = MaxNumber(writer[w].doc) + 1])
  /\ UNCHANGED <<linkOf, docs, locked, writes>>

CommitRestore(w) ==
  /\ writer[w].pc = "write"
  /\ AddRevision(writer[w].doc, writer[w].number, 0, TRUE)
  /\ EndWrite(w)
  /\ UNCHANGED <<linkOf, locked, writes>>

(***************************************************************************)
(* DELETE, lock and unlock                                                 *)
(***************************************************************************)
\* Only the key goes; a PUT that has its lock is waited for.
DeleteDocument(w, k) ==
  /\ StartWrite(w)
  /\ Unlocked(k)
  /\ linkOf' = [linkOf EXCEPT ![k] = NoDoc]
  /\ UNCHANGED <<docs, locked, writer>>

\* No write looks at the lock.
LockDocument(w, k) ==
  /\ StartWrite(w)
  /\ linkOf[k] # NoDoc
  /\ locked' = locked \cup {linkOf[k]}
  /\ UNCHANGED <<linkOf, docs, writer>>

UnlockDocument(w, k) ==
  /\ StartWrite(w)
  /\ linkOf[k] # NoDoc
  /\ locked' = locked \ {linkOf[k]}
  /\ UNCHANGED <<linkOf, docs, writer>>

\* A transaction that does not get to its commit is rolled back.
Refuse(w) ==
  /\ writer[w].pc # "rest"
  /\ EndWrite(w)
  /\ UNCHANGED <<linkOf, docs, locked, writes>>

Put(w) == LockKey(w) \/ CheckBase(w) \/ NumberRevision(w) \/ CommitPut(w) \/ CommitCreate(w)

DocumentsNext ==
  \E w \in Writers :
    \/ \E k \in DocKeys :
         \/ RequestPut(w, k) \/ RequestRestore(w, k) \/ RefreshSummary(w, k)
         \/ DeleteDocument(w, k) \/ LockDocument(w, k) \/ UnlockDocument(w, k)
    \/ Put(w)
    \/ NumberRestore(w) \/ CommitRestore(w)
    \/ Refuse(w)

DocumentsSpec == DocumentsInit /\ [][DocumentsNext]_docVars

(***************************************************************************)
(* Properties                                                              *)
(***************************************************************************)
\* A PUT that names the revision it was written against is accepted only if no
\* other PUT was since: two clients that edit the same revision do not
\* overwrite each other.  Restores and the summaries of runs may come between.
NoEditLost ==
  \A d \in Documents : \A i \in DOMAIN docs[d] :
    docs[d][i].base # 0 =>
      \A j \in docs[d][i].base + 1 .. i - 1 : docs[d][j].blind

\* Where the database refuses a number twice, the revisions of a document have
\* the numbers 1, 2, 3, ... in the order in which they were committed, although a
\* number is computed before the commit and restores and the summaries of runs take
\* no lock: no gap, and the newest number is the content that the document shows.
RevisionsInOrder ==
  UniqueNumbers => \A d \in Documents : \A i \in DOMAIN docs[d] : docs[d][i].number = i
=============================================================================
