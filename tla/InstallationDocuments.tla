----------------------- MODULE InstallationDocuments -----------------------
(***************************************************************************)
(* The documents an installation's clients share, and the revisions they   *)
(* race on: src/app/ember_installation_documents.py.                       *)
(*                                                                         *)
(* A write or a delete is one BEGIN IMMEDIATE transaction.  The answer to  *)
(* it, and to a read, carries an installationRevision the handler selects  *)
(* afterwards with no lock held, so a handler is two actions of a thread.  *)
(* The clients are external: each remembers the answer it last received.   *)
(***************************************************************************)
EXTENDS Members, Sequences

CONSTANTS Residents,      \* the member rows at the start
          DocumentKeys, Payloads,
          Interests,      \* the <<installation, client, key>> clients ask about
          Stored,         \* the trail of the documents written before the start
          Size,           \* payload -> length in bytes
          MaxDocumentBytes, MaxInstallationBytes,
          Threads, NoRow,
          MaxEvents,      \* bound on the audit trail
          MaxEdits        \* bound on the operator's edits

ASSUME DocumentAssumptions ==
  /\ Residents \subseteq Member
  /\ Interests \subseteq Installations \X Clients \X DocumentKeys
  /\ Size \in [Payloads -> Nat]
  /\ IsFiniteSet(DocumentKeys)        \* DOCUMENT_KEY_PATTERN: at most 160 characters
  /\ MaxDocumentBytes \in Nat /\ MaxInstallationBytes \in Nat
  /\ MaxEvents \in Nat /\ MaxEdits \in Nat

VARIABLES installations, members,
          revision,       \* ember_installations.revision
          documents,      \* ember_installation_documents
          audit,          \* the document events of ember_audit_events
          thread,         \* a handler past its transaction or its SELECT
          seen,           \* what each client last heard of each document
          edits

tables == <<installations, members, revision, documents, audit>>
vars == <<tables, thread, seen, edits>>

-----------------------------------------------------------------------------
DocumentId == Installations \X DocumentKeys
ClientId == Installations \X Clients

Document == [revision: Nat \ {0}, payload: Payloads]

AuditEvent == [type: {"written", "deleted"}, doc: DocumentId,
               revision: Nat, payload: Payloads \cup {NoRow}]

\* at: the installation's audit trail when the row was selected (history)
Answer == [row: Document \cup {NoRow}, installationRevision: Nat, at: Nat]

Unseen == [row |-> NoRow, installationRevision |-> 0, at |-> 0]

Idle == [op |-> "idle"]

Request == {Idle} \cup [op: {"answer"}, client: ClientId, key: DocumentKeys,
                        row: Document \cup {NoRow}, at: Nat]

ASSUME NoRowIsNoRow == NoRow \notin Document /\ NoRow \notin Payloads

\* One event a document, all of them first writes.
ASSUME StoredOnce ==
  /\ Stored \in Seq([type: {"written"}, doc: DocumentId, revision: {1}, payload: Payloads])
  /\ \A m, n \in DOMAIN Stored : m # n => Stored[m].doc # Stored[n].doc

StoredDocuments ==
  [d \in DocumentId |->
     IF \E n \in DOMAIN Stored : Stored[n].doc = d
     THEN [revision |-> 1, payload |-> Stored[CHOOSE n \in DOMAIN Stored : Stored[n].doc = d].payload]
     ELSE NoRow]

RevisionOf(row) == IF row = NoRow THEN 0 ELSE row.revision

SizeOf(row) == IF row = NoRow THEN 0 ELSE Size[row.payload]

BytesOf(row) == 1..SizeOf(row)

\* The bytes of an installation's documents: SUM(length(payload)) counts them.
BytesIn(docs, i) == UNION {{key} \X BytesOf(docs[<<i, key>>]) : key \in DocumentKeys}

\* They were written under the same limits.
ASSUME StoredFits ==
  /\ \A d \in DocumentId : SizeOf(StoredDocuments[d]) <= MaxDocumentBytes
  /\ \A i \in Installations : Cardinality(BytesIn(StoredDocuments, i)) <= MaxInstallationBytes

TypeOK ==
  /\ installations \in [Installations -> InstallationStatus]
  /\ members \subseteq Member
  /\ revision \in [Installations -> Nat]
  /\ documents \in [DocumentId -> Document \cup {NoRow}]
  /\ audit \in Seq(AuditEvent)
  /\ thread \in [Threads -> Request]
  /\ seen \in [ClientId \X DocumentKeys -> Answer]
  /\ edits \in 0..MaxEdits

Init ==
  /\ installations = [i \in Installations |->
                        IF \E m \in Residents : m.inst = i THEN "active" ELSE "absent"]
  /\ members = Residents
  /\ revision = [i \in Installations |->
                   1 + Cardinality({n \in DOMAIN Stored : Stored[n].doc[1] = i})]
  /\ documents = StoredDocuments
  /\ audit = Stored
  /\ thread = [t \in Threads |-> Idle]
  /\ seen = [s \in ClientId \X DocumentKeys |-> Unseen]
  /\ edits = 0

-----------------------------------------------------------------------------
Authorized(c) == ActiveAdminMember(members, installations, c[1], c[2])

TotalSize(i) == Cardinality(BytesIn(documents, i))

\* The handler goes on to answer client c about document <<c[1], key>>.
Answers(t, c, key, row, at) ==
  thread' = [thread EXCEPT ![t] = [op |-> "answer", client |-> c, key |-> key,
                                   row |-> row, at |-> at]]

(* POST /installation-documents/{key} *)
Read(t, c, key) ==
  /\ thread[t] = Idle
  /\ Authorized(c)
  /\ documents[<<c[1], key>>] # NoRow
  /\ Answers(t, c, key, documents[<<c[1], key>>], Len(audit))
  /\ UNCHANGED <<tables, seen, edits>>

\* Mutant: any revision the document has had will do.
CurrentIsNotOlder(d, expected) == RevisionOf(documents[d]) >= expected

Current(d, expected) == RevisionOf(documents[d]) = expected

\* Mutant: the limit is compared with what is stored already.
FitsAlready(d, p) ==
  Size[p] <= MaxDocumentBytes /\ TotalSize(d[1]) <= MaxInstallationBytes

Fits(d, p) ==
  /\ Size[p] <= MaxDocumentBytes
  /\ TotalSize(d[1]) - SizeOf(documents[d]) + Size[p] <= MaxInstallationBytes

\* Mutant: an upsert that starts the revision over.
WrittenAnew(d, p) == [revision |-> 1, payload |-> p]

Written(d, p) == [revision |-> RevisionOf(documents[d]) + 1, payload |-> p]

\* Mutant: only a delete moves the installation's revision.
RevisionAfterDelete(d, type) ==
  IF type = "deleted" THEN [revision EXCEPT ![d[1]] = @ + 1] ELSE revision

RevisionAfter(d, type) == [revision EXCEPT ![d[1]] = @ + 1]

Record(type, d, rev, p) ==
  audit' = Append(audit, [type |-> type, doc |-> d, revision |-> rev, payload |-> p])

(* PUT /installation-documents/{key}, on the revision the client last heard of *)
Write(t, c, key, p) ==
  LET d == <<c[1], key>>
      expected == RevisionOf(seen[<<c, key>>].row)
      row == Written(d, p)
  IN /\ thread[t] = Idle
     /\ Authorized(c) /\ Current(d, expected) /\ Fits(d, p)
     /\ Len(audit) < MaxEvents
     /\ documents' = [documents EXCEPT ![d] = row]
     /\ revision' = RevisionAfter(d, "written")
     /\ Record("written", d, row.revision, p)
     /\ Answers(t, c, key, row, Len(audit) + 1)
     /\ UNCHANGED <<installations, members, seen, edits>>

(* DELETE /installation-documents/{key} *)
Delete(t, c, key) ==
  LET d == <<c[1], key>>
      expected == RevisionOf(seen[<<c, key>>].row)
  IN /\ thread[t] = Idle
     /\ Authorized(c) /\ expected >= 1 /\ Current(d, expected)
     /\ Len(audit) < MaxEvents
     /\ documents' = [documents EXCEPT ![d] = NoRow]
     /\ revision' = RevisionAfter(d, "deleted")
     /\ Record("deleted", d, 0, NoRow)
     /\ Answers(t, c, key, NoRow, Len(audit) + 1)
     /\ UNCHANGED <<installations, members, seen, edits>>

\* The installation's revision is selected now.
Respond(t) ==
  /\ thread[t].op = "answer"
  /\ LET r == thread[t]
     IN seen' = [seen EXCEPT ![<<r.client, r.key>>] =
                   [row |-> r.row, installationRevision |-> revision[r.client[1]], at |-> r.at]]
  /\ thread' = [thread EXCEPT ![t] = Idle]
  /\ UNCHANGED <<tables, edits>>

\* courier restarts, or the connection breaks, after the commit.
AnswerLost(t) ==
  /\ thread[t] # Idle
  /\ thread' = [thread EXCEPT ![t] = Idle]
  /\ UNCHANGED <<tables, seen, edits>>

-----------------------------------------------------------------------------
OperatorRevokes ==
  /\ edits < MaxEdits /\ edits' = edits + 1
  /\ \E m \in members : ~m.revoked /\ members' = (members \ {m}) \cup {Revoked(m)}
  /\ UNCHANGED <<installations, revision, documents, audit, thread, seen>>

OperatorDeactivates ==
  /\ edits < MaxEdits /\ edits' = edits + 1
  /\ \E i \in Installations :
       installations[i] = "active" /\ installations' = [installations EXCEPT ![i] = "inactive"]
  /\ UNCHANGED <<members, revision, documents, audit, thread, seen>>

Next ==
  \/ \E t \in Threads, q \in Interests :
       LET c == <<q[1], q[2]>>  key == q[3] IN
       Read(t, c, key) \/ Delete(t, c, key) \/ \E p \in Payloads : Write(t, c, key, p)
  \/ \E t \in Threads : Respond(t) \/ AnswerLost(t)
  \/ OperatorRevokes \/ OperatorDeactivates

Spec == Init /\ [][Next]_vars

-----------------------------------------------------------------------------
EventsOf(i) == {n \in DOMAIN audit : audit[n].doc[1] = i}
DeletedAfter(d, at) == \E n \in DOMAIN audit : n > at /\ audit[n].doc = d /\ audit[n].type = "deleted"

\* The audit trail accounts for every change: an installation's revision counts
\* the document events recorded for it.
RevisionCountsEvents == \A i \in Installations : revision[i] = 1 + Cardinality(EventsOf(i))

\* A document's row is what the last event recorded of it says, and its revision
\* is the number of writes since it was last deleted.
DocumentIsLastEvent ==
  \A d \in DocumentId :
    LET mine == {n \in DOMAIN audit : audit[n].doc = d}
        writes == {n \in mine : ~\E k \in mine : k >= n /\ audit[k].type = "deleted"}
    IN IF writes = {}
       THEN documents[d] = NoRow
       ELSE documents[d] = [revision |-> Cardinality(writes),
                            payload |-> audit[CHOOSE n \in writes : \A k \in writes : k <= n].payload]

\* Documents, installation revisions and the audit trail agree.
DocumentInv == TypeOK /\ RevisionCountsEvents /\ DocumentIsLastEvent

\* An installation never stores more than its limit, nor a document more than its own.
StorageBounded ==
  /\ \A i \in Installations : TotalSize(i) <= MaxInstallationBytes
  /\ \A d \in DocumentId : SizeOf(documents[d]) <= MaxDocumentBytes

\* No write or delete is accepted over a change its author has not seen, unless
\* the document was deleted in between.
NoLostUpdate ==
  [][\A t \in Threads, c \in ClientId, key \in DocumentKeys :
       LET d == <<c[1], key>>
           mine == seen[<<c, key>>]
       IN (Delete(t, c, key) \/ \E p \in Payloads : Write(t, c, key, p))
            => documents[d] = mine.row \/ DeletedAfter(d, mine.at)]_vars

\* An answer is never ahead of the installationRevision it carries: a client that
\* compares installation revisions may look once too often, but does not take a
\* revision for one that covers a document it does not.
AnswerCovered ==
  \A s \in ClientId \X DocumentKeys :
    Cardinality({n \in EventsOf(s[1][1]) : n <= seen[s].at}) < seen[s].installationRevision
      \/ seen[s] = Unseen

=============================================================================
