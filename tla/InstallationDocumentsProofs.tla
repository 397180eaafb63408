-------------------- MODULE InstallationDocumentsProofs --------------------
(***************************************************************************)
(* The documents' rows, the installation's revision and the audit trail    *)
(* always agree, no update is lost unseen, answers are never ahead of the  *)
(* revision they carry, and the storage limits hold: for any number of     *)
(* installations, clients, documents, payloads and requests in flight.     *)
(*                                                                         *)
(* The trail is the measure of everything else.  What a row was when the   *)
(* trail was `at' events long can be read off the trail, and goes on to be *)
(* so as events are added: this is what relates the rows clients remember  *)
(* to the rows there are.                                                  *)
(***************************************************************************)
EXTENDS InstallationDocuments, FiniteSetTheorems, TLAPS

\* What the trail s said of document d when it was `at' events long: the writes
\* since the last delete.
Writes(s, d, at) ==
  {n \in DOMAIN s :
     /\ n <= at /\ s[n].doc = d
     /\ ~\E k \in DOMAIN s : n <= k /\ k <= at /\ s[k].doc = d /\ s[k].type = "deleted"}

\* The row that those writes leave.
IsRowAt(s, row, d, at) ==
  IF Writes(s, d, at) = {}
  THEN row = NoRow
  ELSE /\ row \in Document
       /\ row.revision = Cardinality(Writes(s, d, at))
       /\ \E n \in Writes(s, d, at) :
            row.payload = s[n].payload /\ \A k \in Writes(s, d, at) : k <= n

EventsUpTo(s, i, at) == {n \in DOMAIN s : s[n].doc[1] = i /\ n <= at}

Rows == \A d \in DocumentId : IsRowAt(audit, documents[d], d, Len(audit))

\* What a client heard was the row, when the trail was as long as its answer says.
Heard ==
  \A q \in ClientId \X DocumentKeys :
    /\ seen[q].at <= Len(audit)
    /\ IsRowAt(audit, seen[q].row, <<q[1][1], q[2]>>, seen[q].at)

\* So was what a handler past its transaction is about to answer.
InFlight ==
  \A t \in Threads :
    thread[t].op = "answer" =>
      /\ thread[t].at <= Len(audit)
      /\ IsRowAt(audit, thread[t].row, <<thread[t].client[1], thread[t].key>>, thread[t].at)

IInv ==
  /\ TypeOK
  /\ RevisionCountsEvents /\ Rows /\ Heard /\ InFlight
  /\ AnswerCovered /\ StorageBounded

-----------------------------------------------------------------------------
(* The trail. *)

LEMMA NoneIsNoRow == NoRow \notin Document
BY NoRowIsNoRow

LEMMA Domains ==
  ASSUME NEW s \in Seq(AuditEvent), NEW e \in AuditEvent
  PROVE  /\ DOMAIN s = 1..Len(s) /\ Len(s) \in Nat
         /\ Append(s, e) \in Seq(AuditEvent)
         /\ Len(Append(s, e)) = Len(s) + 1
         /\ DOMAIN Append(s, e) = 1..(Len(s) + 1)
         /\ \A n \in 1..Len(s) : Append(s, e)[n] = s[n]
         /\ Append(s, e)[Len(s) + 1] = e
OBVIOUS

LEMMA FiniteTrail ==
  ASSUME NEW s \in Seq(AuditEvent), NEW T \in SUBSET DOMAIN s
  PROVE  IsFiniteSet(T) /\ Cardinality(T) \in Nat
<1>1. DOMAIN s = 1..Len(s) /\ Len(s) \in Nat
  OBVIOUS
<1>2. IsFiniteSet(1..Len(s))
  BY <1>1, FS_Interval
<1> QED
  BY <1>1, <1>2, FS_Subset, FS_CardinalityType

LEMMA FiniteWrites ==
  ASSUME NEW s \in Seq(AuditEvent), NEW d, NEW at
  PROVE  IsFiniteSet(Writes(s, d, at)) /\ Cardinality(Writes(s, d, at)) \in Nat
<1>1. Writes(s, d, at) \in SUBSET DOMAIN s
  BY DEF Writes
<1> QED
  BY <1>1, FiniteTrail

\* What the trail said of the past does not change.
LEMMA PastKept ==
  ASSUME NEW s \in Seq(AuditEvent), NEW e \in AuditEvent, NEW d, NEW at \in Nat, at <= Len(s)
  PROVE  Writes(Append(s, e), d, at) = Writes(s, d, at)
BY Domains DEF Writes

LEMMA RowKept ==
  ASSUME NEW s \in Seq(AuditEvent), NEW e \in AuditEvent, NEW d, NEW at \in Nat, at <= Len(s),
         NEW row, IsRowAt(s, row, d, at)
  PROVE  IsRowAt(Append(s, e), row, d, at)
<1>1. Writes(Append(s, e), d, at) = Writes(s, d, at)
  BY PastKept
<1>2. \A n \in Writes(s, d, at) : Append(s, e)[n] = s[n]
  BY Domains DEF Writes
<1> QED
  BY <1>1, <1>2 DEF IsRowAt

\* A row's revision is the number of its writes.
LEMMA RevisionCountsWrites ==
  ASSUME NEW s \in Seq(AuditEvent), NEW d, NEW at, NEW row, IsRowAt(s, row, d, at)
  PROVE  RevisionOf(row) = Cardinality(Writes(s, d, at))
<1>1. CASE Writes(s, d, at) = {}
  BY <1>1, FS_EmptySet DEF IsRowAt, RevisionOf
<1>2. CASE Writes(s, d, at) # {}
  BY <1>2, NoneIsNoRow DEF IsRowAt, RevisionOf
<1> QED
  BY <1>1, <1>2

\* The row after a write is the row before it, its revision moved on.
LEMMA RowWritten ==
  ASSUME NEW s \in Seq(AuditEvent), NEW d, NEW row, IsRowAt(s, row, d, Len(s)),
         NEW e \in AuditEvent, e.type = "written", e.doc = d, e.payload \in Payloads
  PROVE  IsRowAt(Append(s, e), [revision |-> RevisionOf(row) + 1, payload |-> e.payload],
                 d, Len(s) + 1)
<1> DEFINE W == Writes(s, d, Len(s))
           V == Writes(Append(s, e), d, Len(s) + 1)
<1>1. V = W \cup {Len(s) + 1}
  BY Domains DEF Writes
<1>2. Len(s) + 1 \notin W /\ \A n \in W : n \in 1..Len(s)
  BY Domains DEF Writes
<1>3. Cardinality(V) = Cardinality(W) + 1
  BY <1>1, <1>2, FiniteWrites, FS_AddElement
<1>4. Cardinality(W) \in Nat /\ RevisionOf(row) = Cardinality(W)
  BY FiniteWrites, RevisionCountsWrites
<1>5. /\ Len(s) + 1 \in V /\ \A k \in V : k <= Len(s) + 1
      /\ Append(s, e)[Len(s) + 1] = e
  BY <1>1, <1>2, Domains
<1> QED
  BY <1>3, <1>4, <1>5 DEF IsRowAt, Document

LEMMA RowDeleted ==
  ASSUME NEW s \in Seq(AuditEvent), NEW d, NEW e \in AuditEvent,
         e.type = "deleted", e.doc = d
  PROVE  IsRowAt(Append(s, e), NoRow, d, Len(s) + 1)
<1>1. Writes(Append(s, e), d, Len(s) + 1) = {}
  BY Domains DEF Writes
<1> QED
  BY <1>1 DEF IsRowAt

LEMMA RowUntouched ==
  ASSUME NEW s \in Seq(AuditEvent), NEW d, NEW row, IsRowAt(s, row, d, Len(s)),
         NEW e \in AuditEvent, e.doc # d
  PROVE  IsRowAt(Append(s, e), row, d, Len(s) + 1)
<1>1. Writes(Append(s, e), d, Len(s) + 1) = Writes(s, d, Len(s))
  BY Domains DEF Writes
<1>2. \A n \in Writes(s, d, Len(s)) : Append(s, e)[n] = s[n]
  BY Domains DEF Writes
<1> QED
  BY <1>1, <1>2 DEF IsRowAt

\* Equal revisions are equal rows, unless the document was deleted in between.
LEMMA SameRevisionSameRow ==
  ASSUME NEW s \in Seq(AuditEvent), NEW d, NEW at \in Nat, at <= Len(s),
         NEW old, IsRowAt(s, old, d, at), NEW row, IsRowAt(s, row, d, Len(s)),
         RevisionOf(old) = RevisionOf(row),
         \A n \in DOMAIN s : n > at /\ s[n].doc = d => s[n].type # "deleted"
  PROVE  old = row
<1> DEFINE W == Writes(s, d, at)
           V == Writes(s, d, Len(s))
<1>1. W \in SUBSET V
  BY Domains DEF Writes
<1>2. W = V
  <2>1. IsFiniteSet(V) /\ Cardinality(V) = Cardinality(W)
    BY FiniteWrites, RevisionCountsWrites
  <2> HIDE DEF W, V
  <2> QED
    BY <1>1, <2>1, FS_Subset
<1>3. CASE V = {}
  BY <1>2, <1>3 DEF IsRowAt
<1>4. CASE V # {}
  <2>1. PICK n \in V : old.payload = s[n].payload /\ \A k \in V : k <= n
    BY <1>2, <1>4 DEF IsRowAt
  <2>2. PICK m \in V : row.payload = s[m].payload /\ \A k \in V : k <= m
    BY <1>4 DEF IsRowAt
  <2>3. n = m
    <3>1. n <= m /\ m <= n /\ n \in Nat /\ m \in Nat
      BY <2>1, <2>2 DEF Writes
    <3> QED
      BY <3>1
  <2>4. old \in Document /\ row \in Document /\ old.revision = row.revision
    BY <1>2, <1>4 DEF IsRowAt
  <2> QED
    BY <2>1, <2>2, <2>3, <2>4 DEF Document
<1> QED
  BY <1>3, <1>4

-----------------------------------------------------------------------------
(* Events counted. *)

LEMMA FiniteEvents ==
  ASSUME NEW s \in Seq(AuditEvent), NEW i, NEW at
  PROVE  /\ IsFiniteSet(EventsUpTo(s, i, at))
         /\ Cardinality(EventsUpTo(s, i, at)) \in Nat
<1>1. EventsUpTo(s, i, at) \in SUBSET DOMAIN s
  BY DEF EventsUpTo
<1> QED
  BY <1>1, FiniteTrail

LEMMA EventAppended ==
  ASSUME NEW s \in Seq(AuditEvent), NEW e \in AuditEvent, NEW i
  PROVE  Cardinality(EventsUpTo(Append(s, e), i, Len(s) + 1)) =
           IF e.doc[1] = i THEN Cardinality(EventsUpTo(s, i, Len(s))) + 1
                           ELSE Cardinality(EventsUpTo(s, i, Len(s)))
<1> DEFINE A == EventsUpTo(s, i, Len(s))
           B == EventsUpTo(Append(s, e), i, Len(s) + 1)
<1>1. CASE e.doc[1] = i
  <2>1. B = A \cup {Len(s) + 1} /\ Len(s) + 1 \notin A
    BY <1>1, Domains DEF EventsUpTo
  <2>2. IsFiniteSet(A)
    BY FiniteEvents
  <2> HIDE DEF A, B
  <2> QED
    BY <1>1, <2>1, <2>2, FS_AddElement DEF A, B
<1>2. CASE e.doc[1] # i
  <2>1. B = A
    BY <1>2, Domains DEF EventsUpTo
  <2> QED
    BY <1>2, <2>1
<1> QED
  BY <1>1, <1>2

LEMMA PastEventsKept ==
  ASSUME NEW s \in Seq(AuditEvent), NEW e \in AuditEvent, NEW i, NEW at \in Nat, at <= Len(s)
  PROVE  EventsUpTo(Append(s, e), i, at) = EventsUpTo(s, i, at)
BY Domains DEF EventsUpTo

LEMMA FewerEvents ==
  ASSUME NEW s \in Seq(AuditEvent), NEW i, NEW at \in Nat
  PROVE  Cardinality(EventsUpTo(s, i, at)) <= Cardinality(EventsUpTo(s, i, Len(s)))
<1>1. EventsUpTo(s, i, at) \in SUBSET EventsUpTo(s, i, Len(s))
  BY Domains DEF EventsUpTo
<1> QED
  BY <1>1, FiniteEvents, FS_Subset

-----------------------------------------------------------------------------
(* Bytes stored. *)

LEMMA SizesAreNat ==
  ASSUME NEW row \in Document \cup {NoRow}
  PROVE  SizeOf(row) \in Nat
BY DocumentAssumptions DEF SizeOf, Document

LEMMA BytesByKey ==
  \A docs, i, b :
    b \in BytesIn(docs, i) <=> \E key \in DocumentKeys : b \in {key} \X BytesOf(docs[<<i, key>>])
BY DEF BytesIn

\* A byte is known by its document and its place there.
LEMMA ByteIn ==
  ASSUME NEW docs, NEW i, NEW key, NEW n
  PROVE  <<key, n>> \in BytesIn(docs, i)
           <=> key \in DocumentKeys /\ n \in BytesOf(docs[<<i, key>>])
<1>1. <<key, n>> \in BytesIn(docs, i)
        <=> \E k \in DocumentKeys : <<key, n>> \in {k} \X BytesOf(docs[<<i, k>>])
  BY BytesByKey, Zenon
<1>2. \A k : <<key, n>> \in {k} \X BytesOf(docs[<<i, k>>])
               <=> k = key /\ n \in BytesOf(docs[<<i, k>>])
  OBVIOUS
<1> QED
  BY <1>1, <1>2, Zenon

LEMMA BytesArePairs ==
  ASSUME NEW docs, NEW i, NEW b \in BytesIn(docs, i)
  PROVE  b = <<b[1], b[2]>> /\ b[1] \in DocumentKeys /\ b[2] \in BytesOf(docs[<<i, b[1]>>])
<1>1. PICK k \in DocumentKeys : b \in {k} \X BytesOf(docs[<<i, k>>])
  BY BytesByKey, Zenon
<1> QED
  BY <1>1

LEMMA FiniteBytes ==
  ASSUME NEW docs \in [DocumentId -> Document \cup {NoRow}], NEW i \in Installations,
         \A d \in DocumentId : SizeOf(docs[d]) <= MaxDocumentBytes
  PROVE  IsFiniteSet(BytesIn(docs, i)) /\ Cardinality(BytesIn(docs, i)) \in Nat
<1>1. \A key \in DocumentKeys : SizeOf(docs[<<i, key>>]) \in Nat
  BY SizesAreNat DEF DocumentId
<1>2. BytesIn(docs, i) \in SUBSET (DocumentKeys \X (1..MaxDocumentBytes))
  <2>1. \A key \in DocumentKeys : SizeOf(docs[<<i, key>>]) <= MaxDocumentBytes
    BY DEF DocumentId
  <2>2. ASSUME NEW b \in BytesIn(docs, i)
        PROVE  b \in DocumentKeys \X (1..MaxDocumentBytes)
    <3>1. b = <<b[1], b[2]>> /\ b[1] \in DocumentKeys /\ b[2] \in BytesOf(docs[<<i, b[1]>>])
      BY BytesArePairs
    <3>2. b[2] \in 1..MaxDocumentBytes
      BY <1>1, <2>1, <3>1, DocumentAssumptions DEF BytesOf
    <3> QED
      BY <3>1, <3>2
  <2> QED
    BY <2>2
<1>3. IsFiniteSet(DocumentKeys \X (1..MaxDocumentBytes))
  <2>1. IsFiniteSet(1..MaxDocumentBytes)
    BY DocumentAssumptions, FS_Interval
  <2> QED
    BY <2>1, DocumentAssumptions, FS_Product
<1> QED
  BY <1>2, <1>3, FS_Subset, FS_CardinalityType

LEMMA BytesOfOne ==
  ASSUME NEW key, NEW row \in Document \cup {NoRow}
  PROVE  /\ IsFiniteSet({key} \X BytesOf(row))
         /\ Cardinality({key} \X BytesOf(row)) = SizeOf(row)
<1>1. IsFiniteSet(BytesOf(row)) /\ Cardinality(BytesOf(row)) = SizeOf(row)
  BY SizesAreNat, FS_Interval DEF BytesOf
<1>2. IsFiniteSet({key}) /\ Cardinality({key}) = 1
  BY FS_Singleton
<1> QED
  BY <1>1, <1>2, SizesAreNat, FS_Product

\* A change of one row changes the sum by the difference of the sizes, as the
\* code computes it.
LEMMA BytesChanged ==
  ASSUME NEW docs \in [DocumentId -> Document \cup {NoRow}],
         NEW d \in DocumentId, NEW row \in Document \cup {NoRow},
         \A q \in DocumentId : SizeOf(docs[q]) <= MaxDocumentBytes
  PROVE  Cardinality(BytesIn([docs EXCEPT ![d] = row], d[1]))
           = Cardinality(BytesIn(docs, d[1])) - SizeOf(docs[d]) + SizeOf(row)
<1> DEFINE i == d[1]
           key == d[2]
           all == BytesIn(docs, i)
           now == BytesIn([docs EXCEPT ![d] = row], i)
           old == {key} \X BytesOf(docs[d])
           new == {key} \X BytesOf(row)
<1>1. d = <<i, key>> /\ i \in Installations /\ key \in DocumentKeys
  BY DEF DocumentId
<1>2. SizeOf(docs[d]) \in Nat /\ SizeOf(row) \in Nat
  BY SizesAreNat
<1>3. /\ IsFiniteSet(old) /\ Cardinality(old) = SizeOf(docs[d])
      /\ IsFiniteSet(new) /\ Cardinality(new) = SizeOf(row)
  BY <1>2, BytesOfOne
<1>4. IsFiniteSet(all) /\ Cardinality(all) \in Nat
  BY <1>1, FiniteBytes
<1>5. old \subseteq all
  BY <1>1 DEF BytesIn
<1>6. now = (all \ old) \cup new
  <2>1. \A k \in DocumentKeys :
          [docs EXCEPT ![d] = row][<<i, k>>] = IF k = key THEN row ELSE docs[<<i, k>>]
    BY <1>1 DEF DocumentId
  <2>2. ASSUME NEW k, NEW n
        PROVE  <<k, n>> \in now <=> <<k, n>> \in (all \ old) \cup new
    <3>1. <<k, n>> \in now
            <=> k \in DocumentKeys /\ n \in BytesOf([docs EXCEPT ![d] = row][<<i, k>>])
      BY ByteIn
    <3>2. <<k, n>> \in all <=> k \in DocumentKeys /\ n \in BytesOf(docs[<<i, k>>])
      BY ByteIn
    <3>3. /\ <<k, n>> \in new <=> k = key /\ n \in BytesOf(row)
          /\ <<k, n>> \in old <=> k = key /\ n \in BytesOf(docs[d])
      OBVIOUS
    <3> HIDE DEF all, now, old, new
    <3> QED
      BY <1>1, <2>1, <3>1, <3>2, <3>3
  <2>3. \A b : b \in now \/ b \in all \/ b \in new => b = <<b[1], b[2]>>
    <3>1. (\A b \in all : b = <<b[1], b[2]>>) /\ (\A b \in now : b = <<b[1], b[2]>>)
      BY BytesArePairs
    <3>2. \A b \in new : b = <<b[1], b[2]>>
      OBVIOUS
    <3> QED
      BY <3>1, <3>2
  <2> HIDE DEF all, now, old, new
  <2> QED
    BY <2>2, <2>3
<1>7. (all \ old) \cap new = {}
  <2>1. ASSUME NEW b \in all, b \in new
        PROVE  b \in old
    <3>1. b = <<b[1], b[2]>> /\ b[2] \in BytesOf(docs[<<i, b[1]>>])
      BY BytesArePairs
    <3>2. b[1] = key
      BY <2>1
    <3> QED
      BY <1>1, <3>1, <3>2
  <2> QED
    BY <2>1
<1> HIDE DEF all, now, old, new
<1>8. all \cap old = old
  BY <1>5
<1>9. IsFiniteSet(all \ old) /\ Cardinality(all \ old) = Cardinality(all) - Cardinality(old)
  BY <1>4, <1>8, FS_Difference
<1>10. Cardinality(now) = Cardinality(all \ old) + Cardinality(new) - 0
  BY <1>3, <1>6, <1>7, <1>9, FS_Union, FS_EmptySet
<1> QED
  BY <1>2, <1>3, <1>4, <1>9, <1>10 DEF all, now

LEMMA BytesElsewhere ==
  ASSUME NEW docs, NEW now, NEW i,
         \A key \in DocumentKeys : now[<<i, key>>] = docs[<<i, key>>]
  PROVE  BytesIn(now, i) = BytesIn(docs, i)
BY DEF BytesIn

-----------------------------------------------------------------------------
(* Types, and the steps. *)

LEMMA SeqOfMore ==
  ASSUME NEW S, NEW T, S \subseteq T, NEW s \in Seq(S)
  PROVE  s \in Seq(T)
OBVIOUS

LEMMA SeqElements ==
  ASSUME NEW S, NEW s \in Seq(S)
  PROVE  \A n \in DOMAIN s : s[n] \in S
OBVIOUS

LEMMA StoredTrail ==
  /\ Stored \in Seq(AuditEvent) /\ DOMAIN Stored = 1..Len(Stored) /\ Len(Stored) \in Nat
  /\ \A n \in DOMAIN Stored :
       /\ Stored[n].type = "written" /\ Stored[n].doc \in DocumentId
       /\ Stored[n].revision = 1 /\ Stored[n].payload \in Payloads
  /\ \A m, n \in DOMAIN Stored : m # n => Stored[m].doc # Stored[n].doc
<1> DEFINE First == [type: {"written"}, doc: DocumentId, revision: {1}, payload: Payloads]
<1>1. First \subseteq AuditEvent
  BY DEF AuditEvent
<1>2. \A n \in DOMAIN Stored : Stored[n] \in First
  <2> HIDE DEF First
  <2> QED
    BY StoredOnce, SeqElements DEF First
<1>3. Stored \in Seq(AuditEvent)
  <2> HIDE DEF First
  <2> QED
    BY <1>1, StoredOnce, SeqOfMore DEF First
<1> QED
  BY <1>2, <1>3, StoredOnce

LEMMA StoredRows == StoredDocuments \in [DocumentId -> Document \cup {NoRow}]
<1> SUFFICES ASSUME NEW d \in DocumentId, NEW n \in DOMAIN Stored, Stored[n].doc = d
             PROVE  Stored[CHOOSE m \in DOMAIN Stored : Stored[m].doc = d].payload \in Payloads
  BY DEF StoredDocuments, Document
<1> QED
  BY StoredTrail

LEMMA InitTyped == Init => TypeOK
<1> SUFFICES ASSUME Init PROVE TypeOK
  OBVIOUS
<1>1. revision \in [Installations -> Nat]
  <2> SUFFICES ASSUME NEW i \in Installations
               PROVE  Cardinality({n \in DOMAIN Stored : Stored[n].doc[1] = i}) \in Nat
    BY DEF Init
  <2> QED
    BY StoredTrail, FiniteTrail
<1>2. /\ installations \in [Installations -> InstallationStatus] /\ members \subseteq Member
      /\ edits \in 0..MaxEdits
  BY DocumentAssumptions DEF Init, InstallationStatus
<1>3. thread \in [Threads -> Request] /\ seen \in [ClientId \X DocumentKeys -> Answer]
  BY DEF Init, Request, Idle, Answer, Unseen
<1> QED
  BY <1>1, <1>2, <1>3, StoredTrail, StoredRows DEF Init, TypeOK

\* Who asks, and about what.
LEMMA Asked ==
  ASSUME NEW q \in Interests
  PROVE  <<q[1], q[2]>> \in ClientId /\ q[3] \in DocumentKeys
BY DocumentAssumptions DEF ClientId

\* What the steps change of the trail: an event of one document is added, which
\* leaves the row it says, and the installation's revision moves on.
Changes(t, c, key, type, rev, p, row) ==
  LET d == <<c[1], key>> IN
  /\ thread[t] = Idle
  /\ Current(d, RevisionOf(seen[<<c, key>>].row))
  /\ documents' = [documents EXCEPT ![d] = row]
  /\ revision' = [revision EXCEPT ![d[1]] = @ + 1]
  /\ audit' = Append(audit, [type |-> type, doc |-> d, revision |-> rev, payload |-> p])
  /\ thread' = [thread EXCEPT ![t] = [op |-> "answer", client |-> c, key |-> key,
                                      row |-> row, at |-> Len(audit) + 1]]
  /\ UNCHANGED <<installations, members, seen, edits>>

WriteChanges(t, c, key, p) ==
  /\ Fits(<<c[1], key>>, p)
  /\ Changes(t, c, key, "written", RevisionOf(documents[<<c[1], key>>]) + 1, p,
             Written(<<c[1], key>>, p))

DeleteChanges(t, c, key) == Changes(t, c, key, "deleted", 0, NoRow, NoRow)

ReadSteps(t, c, key) ==
  /\ documents[<<c[1], key>>] # NoRow
  /\ Answers(t, c, key, documents[<<c[1], key>>], Len(audit))
  /\ UNCHANGED <<tables, seen, edits>>

OperatorEdits ==
  /\ edits' \in 0..MaxEdits
  /\ installations' \in [Installations -> InstallationStatus] /\ members' \subseteq Member
  /\ UNCHANGED <<revision, documents, audit, thread, seen>>

LEMMA WriteIs ==
  ASSUME NEW t, NEW c, NEW key, NEW p, Write(t, c, key, p)
  PROVE  WriteChanges(t, c, key, p)
BY DEF Write, WriteChanges, Changes, Written, RevisionAfter, Record, Answers

LEMMA DeleteIs ==
  ASSUME NEW t, NEW c, NEW key, Delete(t, c, key)
  PROVE  DeleteChanges(t, c, key)
BY DEF Delete, DeleteChanges, Changes, RevisionAfter, Record, Answers

LEMMA EditsAre ==
  ASSUME TypeOK, OperatorRevokes \/ OperatorDeactivates
  PROVE  OperatorEdits
<1>1. edits' \in 0..MaxEdits
  BY DocumentAssumptions DEF TypeOK, OperatorRevokes, OperatorDeactivates
<1>2. CASE OperatorRevokes
  <2>1. PICK m \in members : members' = (members \ {m}) \cup {Revoked(m)}
    BY <1>2 DEF OperatorRevokes
  <2>2. Revoked(m) \in Member
    BY <2>1 DEF TypeOK, Revoked, Member
  <2> QED
    BY <1>1, <1>2, <2>1, <2>2 DEF TypeOK, OperatorRevokes, OperatorEdits
<1>3. CASE OperatorDeactivates
  BY <1>1, <1>3 DEF TypeOK, OperatorDeactivates, OperatorEdits, InstallationStatus
<1> QED
  BY <1>2, <1>3

\* Every step is one of these.
LEMMA StepCases ==
  ASSUME TypeOK, [Next]_vars
  PROVE  \/ \E t \in Threads, c \in ClientId, key \in DocumentKeys :
              \/ ReadSteps(t, c, key)
              \/ DeleteChanges(t, c, key)
              \/ \E p \in Payloads : WriteChanges(t, c, key, p)
         \/ \E t \in Threads : Respond(t) \/ AnswerLost(t)
         \/ OperatorEdits
         \/ UNCHANGED vars
<1>1. ASSUME NEW t \in Threads, NEW q \in Interests,
             LET c == <<q[1], q[2]>>  key == q[3] IN
             Read(t, c, key) \/ Delete(t, c, key) \/ \E p \in Payloads : Write(t, c, key, p)
      PROVE  \E c \in ClientId, key \in DocumentKeys :
               \/ ReadSteps(t, c, key)
               \/ DeleteChanges(t, c, key)
               \/ \E p \in Payloads : WriteChanges(t, c, key, p)
  <2> DEFINE c == <<q[1], q[2]>>
             key == q[3]
  <2>1. c \in ClientId /\ key \in DocumentKeys
    BY Asked
  <2> HIDE DEF c, key
  <2>2. CASE Read(t, c, key)
    BY <2>1, <2>2 DEF Read, ReadSteps
  <2>3. CASE Delete(t, c, key)
    BY <2>1, <2>3, DeleteIs
  <2>4. CASE \E p \in Payloads : Write(t, c, key, p)
    BY <2>1, <2>4, WriteIs
  <2> QED
    BY <1>1, <2>2, <2>3, <2>4 DEF c, key
<1> QED
  BY <1>1, EditsAre DEF Next

-----------------------------------------------------------------------------
(* A change keeps what holds. *)

LEMMA AllEvents ==
  ASSUME NEW s \in Seq(AuditEvent), NEW i
  PROVE  {n \in DOMAIN s : s[n].doc[1] = i} = EventsUpTo(s, i, Len(s))
BY Domains DEF EventsUpTo

LEMMA SomeEvents ==
  ASSUME NEW s, NEW i, NEW at
  PROVE  {n \in {m \in DOMAIN s : s[m].doc[1] = i} : n <= at} = EventsUpTo(s, i, at)
BY DEF EventsUpTo

\* A change adds an event to the trail that says what the row becomes, and
\* leaves no more bytes than the limits allow.
Told(t, c, key, type, rev, p, row) ==
  LET d == <<c[1], key>> IN
  /\ [type |-> type, doc |-> d, revision |-> rev, payload |-> p] \in AuditEvent
  /\ row \in Document \cup {NoRow}
  /\ IsRowAt(Append(audit, [type |-> type, doc |-> d, revision |-> rev, payload |-> p]),
             row, d, Len(audit) + 1)
  /\ SizeOf(row) <= MaxDocumentBytes
  /\ TotalSize(d[1]) - SizeOf(documents[d]) + SizeOf(row) <= MaxInstallationBytes

LEMMA WriteIsTold ==
  ASSUME IInv, NEW t \in Threads, NEW c \in ClientId, NEW key \in DocumentKeys,
         NEW p \in Payloads, WriteChanges(t, c, key, p)
  PROVE  Told(t, c, key, "written", RevisionOf(documents[<<c[1], key>>]) + 1, p,
              Written(<<c[1], key>>, p))
<1> DEFINE d == <<c[1], key>>
           old == documents[d]
           row == Written(d, p)
           e == [type |-> "written", doc |-> d, revision |-> RevisionOf(old) + 1, payload |-> p]
<1>1. d \in DocumentId /\ old \in Document \cup {NoRow} /\ audit \in Seq(AuditEvent)
  BY DEF ClientId, DocumentId, IInv, TypeOK
<1>2. RevisionOf(old) \in Nat
  BY <1>1 DEF RevisionOf, Document
<1>3. e \in AuditEvent
  BY <1>1, <1>2 DEF AuditEvent
<1>4. row = [revision |-> RevisionOf(old) + 1, payload |-> p] /\ row \in Document
  BY <1>2 DEF Written, Document
<1>5. IsRowAt(Append(audit, e), row, d, Len(audit) + 1)
  <2>1. IsRowAt(audit, old, d, Len(audit))
    BY <1>1 DEF IInv, Rows
  <2>2. e.type = "written" /\ e.doc = d /\ e.payload = p
    OBVIOUS
  <2> HIDE DEF e, d, old
  <2> QED
    BY <1>1, <1>3, <1>4, <2>1, <2>2, RowWritten
<1>6. SizeOf(row) = Size[p]
  BY <1>4, NoneIsNoRow DEF SizeOf
<1> QED
  BY <1>3, <1>4, <1>5, <1>6 DEF WriteChanges, Fits, Told

LEMMA DeleteIsTold ==
  ASSUME IInv, NEW t \in Threads, NEW c \in ClientId, NEW key \in DocumentKeys,
         DeleteChanges(t, c, key)
  PROVE  Told(t, c, key, "deleted", 0, NoRow, NoRow)
<1> DEFINE d == <<c[1], key>>
           e == [type |-> "deleted", doc |-> d, revision |-> 0, payload |-> NoRow]
<1>1. d \in DocumentId /\ d[1] \in Installations /\ audit \in Seq(AuditEvent)
      /\ documents \in [DocumentId -> Document \cup {NoRow}]
  BY DEF ClientId, DocumentId, IInv, TypeOK
<1>2. e \in AuditEvent
  BY <1>1 DEF AuditEvent
<1>3. IsRowAt(Append(audit, e), NoRow, d, Len(audit) + 1)
  BY <1>1, <1>2, RowDeleted
<1>4. SizeOf(NoRow) = 0 /\ SizeOf(documents[d]) \in Nat
  BY <1>1, SizesAreNat DEF SizeOf
<1>5. TotalSize(d[1]) \in Nat /\ TotalSize(d[1]) <= MaxInstallationBytes
  BY <1>1, FiniteBytes DEF IInv, StorageBounded, TotalSize
<1> QED
  BY <1>2, <1>3, <1>4, <1>5, DocumentAssumptions DEF Told

LEMMA ChangeTyped ==
  ASSUME TypeOK, NEW t \in Threads, NEW c \in ClientId, NEW key \in DocumentKeys,
         NEW type, NEW rev, NEW p, NEW row,
         Changes(t, c, key, type, rev, p, row), Told(t, c, key, type, rev, p, row)
  PROVE  TypeOK'
<1> DEFINE d == <<c[1], key>>
           e == [type |-> type, doc |-> d, revision |-> rev, payload |-> p]
<1>1. d \in DocumentId /\ e \in AuditEvent /\ row \in Document \cup {NoRow}
  BY DEF ClientId, DocumentId, Told
<1>2. documents' \in [DocumentId -> Document \cup {NoRow}]
  BY <1>1 DEF TypeOK, Changes
<1>3. revision' \in [Installations -> Nat]
  <2>1. revision' = [revision EXCEPT ![c[1]] = @ + 1] /\ c[1] \in Installations
    BY DEF Changes, ClientId
  <2> QED
    BY <2>1 DEF TypeOK
<1>4. audit' \in Seq(AuditEvent)
  BY <1>1, Domains DEF TypeOK, Changes
<1>5. thread' \in [Threads -> Request]
  <2>1. Len(audit) + 1 \in Nat
    BY DEF TypeOK
  <2> QED
    BY <1>1, <2>1 DEF TypeOK, Changes, Request
<1> QED
  BY <1>2, <1>3, <1>4, <1>5 DEF TypeOK, Changes

LEMMA ChangeKeeps ==
  ASSUME IInv, NEW t \in Threads, NEW c \in ClientId, NEW key \in DocumentKeys,
         NEW type, NEW rev, NEW p, NEW row,
         Changes(t, c, key, type, rev, p, row), Told(t, c, key, type, rev, p, row)
  PROVE  IInv'
<1> DEFINE d == <<c[1], key>>
           e == [type |-> type, doc |-> d, revision |-> rev, payload |-> p]
<1>1. /\ d \in DocumentId /\ d[1] = c[1] /\ d[1] \in Installations
      /\ e \in AuditEvent /\ e.doc = d /\ row \in Document \cup {NoRow}
  BY DEF ClientId, DocumentId, Told
<1>2. /\ TypeOK
      /\ audit \in Seq(AuditEvent) /\ Len(audit) \in Nat
      /\ documents \in [DocumentId -> Document \cup {NoRow}]
      /\ revision \in [Installations -> Nat]
  BY DEF IInv, TypeOK
<1>3. TypeOK'
  BY ChangeTyped DEF IInv
<1>4. /\ audit' = Append(audit, e) /\ Len(audit') = Len(audit) + 1
      /\ documents' = [documents EXCEPT ![d] = row]
      /\ revision' = [revision EXCEPT ![d[1]] = @ + 1]
      /\ seen' = seen
      /\ IsRowAt(Append(audit, e), row, d, Len(audit) + 1)
  BY <1>1, <1>2, Domains DEF Changes, Told
<1>5. thread' = [thread EXCEPT ![t] = [op |-> "answer", client |-> c, key |-> key,
                                       row |-> row, at |-> Len(audit) + 1]]
  BY DEF Changes
<1>6. TotalSize(d[1]) - SizeOf(documents[d]) + SizeOf(row) <= MaxInstallationBytes
      /\ SizeOf(row) <= MaxDocumentBytes
  BY DEF Told
<1> HIDE DEF e, d
<1>7. RevisionCountsEvents'
  <2> SUFFICES ASSUME NEW i \in Installations
               PROVE  revision'[i] = 1 + Cardinality(EventsUpTo(audit', i, Len(audit')))
    BY <1>3, AllEvents DEF TypeOK, RevisionCountsEvents, EventsOf
  <2>1. revision[i] = 1 + Cardinality(EventsUpTo(audit, i, Len(audit)))
    BY <1>2, AllEvents DEF IInv, RevisionCountsEvents, EventsOf
  <2>2. Cardinality(EventsUpTo(audit, i, Len(audit))) \in Nat
    BY <1>2, FiniteEvents
  <2>3. Cardinality(EventsUpTo(Append(audit, e), i, Len(audit) + 1)) =
           IF d[1] = i THEN Cardinality(EventsUpTo(audit, i, Len(audit))) + 1
                       ELSE Cardinality(EventsUpTo(audit, i, Len(audit)))
    BY <1>1, <1>2, EventAppended
  <2> QED
    BY <1>1, <1>2, <1>4, <2>1, <2>2, <2>3
<1>8. Rows'
  <2> SUFFICES ASSUME NEW q \in DocumentId
               PROVE  IsRowAt(audit', documents'[q], q, Len(audit'))
    BY DEF Rows
  <2>1. CASE q = d
    BY <1>1, <1>2, <1>4, <2>1
  <2>2. CASE q # d
    <3>1. IsRowAt(audit, documents[q], q, Len(audit)) /\ documents'[q] = documents[q]
      BY <1>2, <1>4, <2>2 DEF IInv, Rows
    <3>2. IsRowAt(Append(audit, e), documents[q], q, Len(audit) + 1)
      BY <1>1, <1>2, <2>2, <3>1, RowUntouched
    <3> QED
      BY <1>4, <3>1, <3>2
  <2> QED
    BY <2>1, <2>2
<1>9. Heard'
  <2> SUFFICES ASSUME NEW q \in ClientId \X DocumentKeys
               PROVE  /\ seen[q].at <= Len(audit')
                      /\ IsRowAt(audit', seen[q].row, <<q[1][1], q[2]>>, seen[q].at)
    BY <1>4 DEF Heard
  <2>1. /\ seen[q].at \in Nat /\ seen[q].at <= Len(audit)
        /\ IsRowAt(audit, seen[q].row, <<q[1][1], q[2]>>, seen[q].at)
    BY DEF IInv, Heard, TypeOK, Answer
  <2>2. IsRowAt(Append(audit, e), seen[q].row, <<q[1][1], q[2]>>, seen[q].at)
    BY <1>1, <1>2, <2>1, RowKept
  <2> QED
    BY <1>2, <1>4, <2>1, <2>2
<1>10. InFlight'
  <2> SUFFICES ASSUME NEW u \in Threads, thread'[u].op = "answer"
               PROVE  /\ thread'[u].at <= Len(audit')
                      /\ IsRowAt(audit', thread'[u].row,
                                 <<thread'[u].client[1], thread'[u].key>>, thread'[u].at)
    BY DEF InFlight
  <2>1. CASE u = t
    <3>1. thread'[u] = [op |-> "answer", client |-> c, key |-> key,
                        row |-> row, at |-> Len(audit) + 1]
      BY <1>2, <1>5, <2>1 DEF TypeOK
    <3>2. /\ thread'[u].row = row /\ thread'[u].at = Len(audit) + 1
          /\ thread'[u].client = c /\ thread'[u].key = key
      BY <3>1
    <3>3. <<thread'[u].client[1], thread'[u].key>> = d
      BY <3>2 DEF d
    <3> HIDE DEF d
    <3> QED
      BY <1>2, <1>4, <3>2, <3>3
  <2>2. CASE u # t
    <3>1. thread'[u] = thread[u]
      BY <1>5, <1>2, <2>2 DEF TypeOK
    <3>2. /\ thread[u].at \in Nat /\ thread[u].at <= Len(audit)
          /\ IsRowAt(audit, thread[u].row, <<thread[u].client[1], thread[u].key>>, thread[u].at)
      BY <3>1 DEF IInv, InFlight, TypeOK, Request, Idle
    <3>3. IsRowAt(Append(audit, e), thread[u].row,
                  <<thread[u].client[1], thread[u].key>>, thread[u].at)
      BY <1>1, <1>2, <3>2, RowKept
    <3> QED
      BY <1>2, <1>4, <3>1, <3>2, <3>3
  <2> QED
    BY <2>1, <2>2
<1>11. AnswerCovered'
  <2> SUFFICES ASSUME NEW q \in ClientId \X DocumentKeys, seen[q] # Unseen
               PROVE  Cardinality(EventsUpTo(audit', q[1][1], seen[q].at))
                        < seen[q].installationRevision
    BY <1>4, SomeEvents DEF AnswerCovered, EventsOf
  <2>1. Cardinality(EventsUpTo(audit, q[1][1], seen[q].at)) < seen[q].installationRevision
    BY SomeEvents DEF IInv, AnswerCovered, EventsOf
  <2>2. seen[q].at \in Nat /\ seen[q].at <= Len(audit)
    BY DEF IInv, Heard, TypeOK, Answer
  <2>3. EventsUpTo(Append(audit, e), q[1][1], seen[q].at) = EventsUpTo(audit, q[1][1], seen[q].at)
    BY <1>1, <1>2, <2>2, PastEventsKept
  <2> QED
    BY <1>4, <2>1, <2>3
<1>12. StorageBounded'
  <2>1. \A q \in DocumentId : SizeOf(documents[q]) <= MaxDocumentBytes
    BY DEF IInv, StorageBounded
  <2>2. \A q \in DocumentId : SizeOf(documents'[q]) <= MaxDocumentBytes
    BY <1>2, <1>4, <1>6, <2>1
  <2>3. ASSUME NEW i \in Installations
        PROVE  Cardinality(BytesIn(documents', i)) <= MaxInstallationBytes
    <3>1. CASE i = d[1]
      <4>1. Cardinality(BytesIn([documents EXCEPT ![d] = row], d[1]))
              = Cardinality(BytesIn(documents, d[1])) - SizeOf(documents[d]) + SizeOf(row)
        BY <1>1, <1>2, <2>1, BytesChanged
      <4> QED
        BY <1>4, <1>6, <3>1, <4>1 DEF TotalSize
    <3>2. CASE i # d[1]
      <4>1. \A k \in DocumentKeys : documents'[<<i, k>>] = documents[<<i, k>>]
        BY <1>2, <1>4, <3>2 DEF DocumentId
      <4>2. BytesIn(documents', i) = BytesIn(documents, i)
        BY <4>1, BytesElsewhere
      <4> QED
        BY <4>2 DEF TotalSize, IInv, StorageBounded
    <3> QED
      BY <3>1, <3>2
  <2> QED
    BY <2>2, <2>3 DEF StorageBounded, TotalSize
<1> QED
  BY <1>3, <1>7, <1>8, <1>9, <1>10, <1>11, <1>12 DEF IInv

-----------------------------------------------------------------------------
(* The other steps. *)

LEMMA NothingHeard ==
  ASSUME NEW s \in Seq(AuditEvent), NEW d
  PROVE  IsRowAt(s, NoRow, d, 0)
<1>1. Writes(s, d, 0) = {}
  BY Domains DEF Writes
<1> QED
  BY <1>1 DEF IsRowAt

\* One event a document, so that its row is that event's.
LEMMA StoredAreRows ==
  ASSUME NEW d \in DocumentId
  PROVE  IsRowAt(Stored, StoredDocuments[d], d, Len(Stored))
<1> DEFINE W == Writes(Stored, d, Len(Stored))
           n == CHOOSE m \in DOMAIN Stored : Stored[m].doc = d
<1>1. W = {m \in DOMAIN Stored : Stored[m].doc = d}
  BY StoredTrail DEF Writes
<1>2. CASE W = {}
  BY <1>1, <1>2 DEF StoredDocuments, IsRowAt
<1>3. CASE W # {}
  <2>1. n \in DOMAIN Stored /\ Stored[n].doc = d
    BY <1>1, <1>3
  <2> HIDE DEF n
  <2>2. W = {n}
    BY <1>1, <2>1, StoredTrail
  <2>3. Cardinality(W) = 1
    BY <2>2, FS_Singleton
  <2>4. StoredDocuments[d] = [revision |-> 1, payload |-> Stored[n].payload]
    BY <2>1 DEF StoredDocuments, n
  <2>5. StoredDocuments[d] \in Document
    BY <2>1, <2>4, StoredTrail DEF Document
  <2>6. n \in Nat /\ \A k \in W : k <= n
    BY <2>1, <2>2, StoredTrail
  <2> HIDE DEF W
  <2>7. \E m \in W : StoredDocuments[d].payload = Stored[m].payload /\ \A k \in W : k <= m
    BY <2>2, <2>4, <2>6
  <2>8. StoredDocuments[d].revision = Cardinality(W)
    BY <2>3, <2>4
  <2> QED
    BY <2>2, <2>5, <2>7, <2>8 DEF IsRowAt, W
<1> QED
  BY <1>2, <1>3

LEMMA InitHolds == Init => IInv
<1> SUFFICES ASSUME Init PROVE IInv
  OBVIOUS
<1>1. TypeOK
  BY InitTyped
<1>2. RevisionCountsEvents
  BY DEF Init, RevisionCountsEvents, EventsOf
<1>3. Rows
  BY StoredAreRows DEF Init, Rows
<1>4. Heard
  <2> SUFFICES ASSUME NEW q \in ClientId \X DocumentKeys
               PROVE  seen[q].at <= Len(audit) /\ IsRowAt(audit, seen[q].row, <<q[1][1], q[2]>>, seen[q].at)
    BY DEF Heard
  <2>1. seen[q].row = NoRow /\ seen[q].at = 0
    BY DEF Init, Unseen
  <2>2. audit \in Seq(AuditEvent) /\ Len(audit) \in Nat
    BY <1>1 DEF TypeOK
  <2> QED
    BY <2>1, <2>2, NothingHeard
<1>5. InFlight
  BY DEF Init, InFlight, Idle
<1>6. AnswerCovered
  BY DEF Init, AnswerCovered
<1>7. StorageBounded
  BY StoredFits DEF Init, StorageBounded, TotalSize
<1> QED
  BY <1>1, <1>2, <1>3, <1>4, <1>5, <1>6, <1>7 DEF IInv

\* Everything the conjuncts say of tables and answers follows from these.
LEMMA Unchanged ==
  ASSUME IInv, TypeOK', UNCHANGED <<revision, documents, audit>>
  PROVE  /\ RevisionCountsEvents' /\ Rows' /\ StorageBounded'
         /\ seen' = seen => Heard' /\ AnswerCovered'
         /\ thread' = thread => InFlight'
BY DEF IInv, RevisionCountsEvents, EventsOf, Rows, StorageBounded, TotalSize,
       Heard, AnswerCovered, InFlight

LEMMA ReadKeeps ==
  ASSUME IInv, NEW t \in Threads, NEW c \in ClientId, NEW key \in DocumentKeys,
         ReadSteps(t, c, key)
  PROVE  IInv'
<1> DEFINE d == <<c[1], key>>
<1>1. d \in DocumentId /\ documents[d] \in Document \cup {NoRow} /\ Len(audit) \in Nat
      /\ IsRowAt(audit, documents[d], d, Len(audit))
  BY DEF ClientId, DocumentId, IInv, TypeOK, Rows
<1>2. thread' = [thread EXCEPT ![t] = [op |-> "answer", client |-> c, key |-> key,
                                       row |-> documents[d], at |-> Len(audit)]]
      /\ UNCHANGED <<tables, seen, edits>>
  BY DEF ReadSteps, Answers
<1>3. TypeOK'
  <2>1. thread' \in [Threads -> Request]
    BY <1>1, <1>2 DEF IInv, TypeOK, Request
  <2> QED
    BY <1>2, <2>1 DEF IInv, TypeOK, tables
<1>4. InFlight'
  <2> SUFFICES ASSUME NEW u \in Threads, thread'[u].op = "answer"
               PROVE  /\ thread'[u].at <= Len(audit)
                      /\ IsRowAt(audit, thread'[u].row,
                                 <<thread'[u].client[1], thread'[u].key>>, thread'[u].at)
    BY <1>2 DEF InFlight, tables
  <2>1. CASE u = t
    <3>1. /\ thread'[u].row = documents[d] /\ thread'[u].at = Len(audit)
          /\ thread'[u].client = c /\ thread'[u].key = key
      BY <1>2, <2>1 DEF IInv, TypeOK
    <3> QED
      BY <1>1, <3>1
  <2>2. CASE u # t
    <3>1. thread'[u] = thread[u]
      BY <1>2, <2>2 DEF IInv, TypeOK
    <3> QED
      BY <3>1 DEF IInv, InFlight
  <2> QED
    BY <2>1, <2>2
<1> QED
  BY <1>2, <1>3, <1>4, Unchanged DEF tables, IInv

LEMMA RespondKeeps ==
  ASSUME IInv, NEW t \in Threads, Respond(t)
  PROVE  IInv'
<1> DEFINE r == thread[t]
           q == <<r.client, r.key>>
           i == r.client[1]
<1>1. /\ r.op = "answer" /\ r \in Request /\ r # Idle
      /\ r.client \in ClientId /\ r.key \in DocumentKeys
      /\ r.row \in Document \cup {NoRow} /\ r.at \in Nat
  BY DEF Respond, IInv, TypeOK, Request, Idle
<1>2. q \in ClientId \X DocumentKeys /\ i \in Installations
  BY <1>1 DEF ClientId
<1>3. /\ seen' = [seen EXCEPT ![q] = [row |-> r.row, installationRevision |-> revision[i],
                                      at |-> r.at]]
      /\ thread' = [thread EXCEPT ![t] = Idle]
      /\ UNCHANGED <<tables, edits>>
  BY DEF Respond
<1>4. r.at <= Len(audit) /\ IsRowAt(audit, r.row, <<i, r.key>>, r.at)
  BY <1>1 DEF IInv, InFlight
<1>5. revision \in [Installations -> Nat] /\ audit \in Seq(AuditEvent)
      /\ seen \in [ClientId \X DocumentKeys -> Answer]
      /\ thread \in [Threads -> Request]
  BY DEF IInv, TypeOK
<1> HIDE DEF r, q, i
<1>6. TypeOK'
  <2>1. seen' \in [ClientId \X DocumentKeys -> Answer]
    BY <1>1, <1>2, <1>3, <1>5 DEF Answer
  <2>2. thread' \in [Threads -> Request]
    BY <1>3, <1>5 DEF Request
  <2> QED
    BY <1>3, <2>1, <2>2 DEF IInv, TypeOK, tables
<1>7. seen'[q] = [row |-> r.row, installationRevision |-> revision[i], at |-> r.at]
      /\ \A p \in ClientId \X DocumentKeys : p # q => seen'[p] = seen[p]
  BY <1>2, <1>3, <1>5
<1>8. q[1][1] = i /\ q[2] = r.key
  BY DEF q, i
<1>9. Heard'
  <2> SUFFICES ASSUME NEW p \in ClientId \X DocumentKeys
               PROVE  /\ seen'[p].at <= Len(audit)
                      /\ IsRowAt(audit, seen'[p].row, <<p[1][1], p[2]>>, seen'[p].at)
    BY <1>3 DEF Heard, tables
  <2>1. CASE p = q
    BY <1>4, <1>7, <1>8, <2>1
  <2>2. CASE p # q
    BY <1>7, <2>2 DEF IInv, Heard
  <2> QED
    BY <2>1, <2>2
<1>10. InFlight'
  <2>1. \A u \in Threads : thread'[u] = IF u = t THEN Idle ELSE thread[u]
    BY <1>3, <1>5
  <2> QED
    BY <1>3, <2>1 DEF IInv, InFlight, Idle, tables
<1>11. AnswerCovered'
  <2> SUFFICES ASSUME NEW p \in ClientId \X DocumentKeys, seen'[p] # Unseen
               PROVE  Cardinality(EventsUpTo(audit, p[1][1], seen'[p].at))
                        < seen'[p].installationRevision
    BY <1>3, SomeEvents DEF AnswerCovered, EventsOf, tables
  <2>1. CASE p = q
    <3>1. revision[i] = 1 + Cardinality(EventsUpTo(audit, i, Len(audit)))
      BY <1>2, <1>5, AllEvents DEF IInv, RevisionCountsEvents, EventsOf
    <3>2. Cardinality(EventsUpTo(audit, i, r.at)) <= Cardinality(EventsUpTo(audit, i, Len(audit)))
      BY <1>1, <1>5, FewerEvents
    <3>3. /\ Cardinality(EventsUpTo(audit, i, Len(audit))) \in Nat
          /\ Cardinality(EventsUpTo(audit, i, r.at)) \in Nat
      BY <1>5, FiniteEvents
    <3>4. seen'[p].at = r.at /\ seen'[p].installationRevision = revision[i] /\ p[1][1] = i
      BY <1>7, <1>8, <2>1
    <3> HIDE DEF i
    <3> QED
      BY <3>1, <3>2, <3>3, <3>4
  <2>2. CASE p # q
    BY <1>7, <2>2, SomeEvents DEF IInv, AnswerCovered, EventsOf
  <2> QED
    BY <2>1, <2>2
<1> QED
  BY <1>3, <1>6, <1>9, <1>10, <1>11, Unchanged DEF tables, IInv

LEMMA LostKeeps ==
  ASSUME IInv, NEW t \in Threads, AnswerLost(t)
  PROVE  IInv'
<1>1. thread' = [thread EXCEPT ![t] = Idle] /\ UNCHANGED <<tables, seen, edits>>
  BY DEF AnswerLost
<1>2. TypeOK'
  BY <1>1 DEF IInv, TypeOK, Request, tables
<1>3. InFlight'
  <2>1. \A u \in Threads : thread'[u] = IF u = t THEN Idle ELSE thread[u]
    BY <1>1 DEF IInv, TypeOK
  <2> QED
    BY <1>1, <2>1 DEF IInv, InFlight, Idle, tables
<1> QED
  BY <1>1, <1>2, <1>3, Unchanged DEF tables, IInv

LEMMA NextKeeps ==
  ASSUME IInv, [Next]_vars
  PROVE  IInv'
<1>1. CASE \E t \in Threads, c \in ClientId, key \in DocumentKeys :
             \/ ReadSteps(t, c, key)
             \/ DeleteChanges(t, c, key)
             \/ \E p \in Payloads : WriteChanges(t, c, key, p)
  <2>1. PICK t \in Threads, c \in ClientId, key \in DocumentKeys :
             \/ ReadSteps(t, c, key)
             \/ DeleteChanges(t, c, key)
             \/ \E p \in Payloads : WriteChanges(t, c, key, p)
    BY <1>1
  <2>2. CASE ReadSteps(t, c, key)
    BY <2>2, ReadKeeps
  <2>3. CASE DeleteChanges(t, c, key)
    BY <2>3, DeleteIsTold, ChangeKeeps DEF DeleteChanges
  <2>4. ASSUME NEW p \in Payloads, WriteChanges(t, c, key, p)
        PROVE  IInv'
    BY <2>4, WriteIsTold, ChangeKeeps DEF WriteChanges
  <2> QED
    BY <2>1, <2>2, <2>3, <2>4
<1>2. CASE \E t \in Threads : Respond(t) \/ AnswerLost(t)
  BY <1>2, RespondKeeps, LostKeeps
<1>3. CASE OperatorEdits
  <2>1. TypeOK'
    BY <1>3 DEF OperatorEdits, IInv, TypeOK
  <2> QED
    BY <1>3, <2>1, Unchanged DEF OperatorEdits, IInv
<1>4. CASE UNCHANGED vars
  <2>1. TypeOK'
    BY <1>4 DEF vars, tables, IInv, TypeOK
  <2> QED
    BY <1>4, <2>1, Unchanged DEF vars, tables, IInv
<1> QED
  BY <1>1, <1>2, <1>3, <1>4, StepCases DEF IInv

THEOREM Inductive == Spec => []IInv
BY InitHolds, NextKeeps, PTL DEF Spec

-----------------------------------------------------------------------------
(* What the invariant says. *)

IsLastEvent(s, row, d) ==
  LET mine == {n \in DOMAIN s : s[n].doc = d}
      writes == {n \in mine : ~\E k \in mine : k >= n /\ s[k].type = "deleted"}
  IN IF writes = {}
     THEN row = NoRow
     ELSE row = [revision |-> Cardinality(writes),
                 payload |-> s[CHOOSE n \in writes : \A k \in writes : k <= n].payload]

\* The row IsRowAt describes is the one DocumentIsLastEvent spells out.
LEMMA RowIsLastEvent ==
  ASSUME NEW s \in Seq(AuditEvent), NEW d, NEW row, IsRowAt(s, row, d, Len(s))
  PROVE  IsLastEvent(s, row, d)
<1> DEFINE mine == {n \in DOMAIN s : s[n].doc = d}
           writes == {n \in mine : ~\E k \in mine : k >= n /\ s[k].type = "deleted"}
<1>1. writes = Writes(s, d, Len(s))
  BY Domains DEF Writes
<1>2. writes \subseteq Nat
  BY Domains
<1> HIDE DEF writes
<1>3. CASE writes # {}
  <2>1. PICK n \in writes : row.payload = s[n].payload /\ \A k \in writes : k <= n
    BY <1>1, <1>3 DEF IsRowAt
  <2>2. \A m \in writes : (\A k \in writes : k <= m) => m = n
    BY <1>2, <2>1
  <2>3. n = CHOOSE m \in writes : \A k \in writes : k <= m
    BY <2>1, <2>2
  <2>4. row \in Document /\ row.revision = Cardinality(writes)
    BY <1>1, <1>3 DEF IsRowAt
  <2>5. row = [revision |-> Cardinality(writes), payload |-> s[n].payload]
    BY <2>1, <2>4 DEF Document
  <2> QED
    BY <1>3, <2>3, <2>5 DEF writes, IsLastEvent
<1>4. CASE writes = {}
  BY <1>1, <1>4 DEF IsRowAt, writes, IsLastEvent
<1> QED
  BY <1>3, <1>4

\* Rows, installation revisions and the audit trail agree, whatever writes,
\* deletes and lost answers the handlers interleave.
THEOREM TrailAccounts == Spec => []DocumentInv
<1>1. IInv => DocumentInv
  <2> SUFFICES ASSUME IInv PROVE DocumentIsLastEvent
    BY DEF DocumentInv, IInv
  <2>1. audit \in Seq(AuditEvent) /\ \A d \in DocumentId : IsRowAt(audit, documents[d], d, Len(audit))
    BY DEF IInv, Rows, TypeOK
  <2>2. \A d \in DocumentId : IsLastEvent(audit, documents[d], d)
    BY <2>1, RowIsLastEvent
  <2> QED
    BY <2>2 DEF IsLastEvent, DocumentIsLastEvent
<1> QED
  BY <1>1, Inductive, PTL

\* The installation's limit holds because the code subtracts the size of the row
\* it replaces from a sum taken under the same lock.
THEOREM WithinLimits == Spec => []StorageBounded
<1>1. IInv => StorageBounded
  BY DEF IInv
<1> QED
  BY <1>1, Inductive, PTL

\* The installation's revision is selected after the row, with no lock held, so it
\* may be ahead of the row it is sent with and never behind.
THEOREM NeverAhead == Spec => []AnswerCovered
<1>1. IInv => AnswerCovered
  BY DEF IInv
<1> QED
  BY <1>1, Inductive, PTL

\* A client's last word on a document is the revision it heard of.  If the code
\* accepts it, either the row is the one heard of or the document was deleted since:
\* the exception is real, deleting a document brings its revisions back.
THEOREM UpdatesSeen == Spec => NoLostUpdate
<1> DEFINE A == \A t \in Threads, c \in ClientId, key \in DocumentKeys :
                  LET d == <<c[1], key>>
                      mine == seen[<<c, key>>]
                  IN (Delete(t, c, key) \/ \E p \in Payloads : Write(t, c, key, p))
                       => documents[d] = mine.row \/ DeletedAfter(d, mine.at)
<1>1. IInv => A
  <2> SUFFICES ASSUME IInv, NEW t \in Threads, NEW c \in ClientId, NEW key \in DocumentKeys,
                      Delete(t, c, key) \/ \E p \in Payloads : Write(t, c, key, p),
                      ~DeletedAfter(<<c[1], key>>, seen[<<c, key>>].at)
               PROVE  documents[<<c[1], key>>] = seen[<<c, key>>].row
    OBVIOUS
  <2> DEFINE d == <<c[1], key>>
             mine == seen[<<c, key>>]
  <2>1. RevisionOf(documents[d]) = RevisionOf(mine.row)
    BY DEF Delete, Write, Current
  <2>2. d \in DocumentId /\ <<c, key>> \in ClientId \X DocumentKeys
    BY DEF ClientId, DocumentId
  <2>3. /\ audit \in Seq(AuditEvent)
        /\ mine.at \in Nat /\ mine.at <= Len(audit)
        /\ IsRowAt(audit, mine.row, d, mine.at)
        /\ IsRowAt(audit, documents[d], d, Len(audit))
    BY <2>2 DEF IInv, TypeOK, Answer, Rows, Heard
  <2>4. \A n \in DOMAIN audit : n > mine.at /\ audit[n].doc = d => audit[n].type # "deleted"
    BY DEF DeletedAfter
  <2> HIDE DEF d, mine
  <2>5. mine.row = documents[d]
    BY <2>1, <2>3, <2>4, SameRevisionSameRow
  <2> QED
    BY <2>5 DEF d, mine
<1>2. IInv /\ [Next]_vars => [A]_vars
  BY <1>1
<1>3. []IInv /\ [][Next]_vars => [][A]_vars
  <2> HIDE DEF A
  <2> QED
    BY <1>2, PTL
<1> QED
  BY <1>3, Inductive DEF Spec, NoLostUpdate
=============================================================================
