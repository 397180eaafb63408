------------------------------ MODULE Recovery ------------------------------
(***************************************************************************)
(* Recovery backups: the handlers of src/app/ember_recovery.py, run in the *)
(* threads of the process Startup brings up.                               *)
(*                                                                         *)
(* A client uploads a controller's backup under an id it makes itself, so  *)
(* that it may send it again when the answer is lost.  The handler reads   *)
(* the clock, the members and the backup of that id with no transaction    *)
(* open; its INSERT takes the write lock, and fails when another upload of *)
(* the id came first.  A payload is known by its digest, which the client  *)
(* signs.                                                                  *)
(*                                                                         *)
(* created_at is text.  isoformat leaves the fraction out when it is zero, *)
(* and "." sorts before "Z": "09:00:01Z" comes after "09:00:01.5Z", and    *)
(* ORDER BY created_at puts the first tick of a second last in it.         *)
(***************************************************************************)
EXTENDS Startup, Members

CONSTANTS Uploads,        \* uploads clients send: id, inst, client, controller, kind, digest
          Queries,        \* queries clients send: inst, client, controller, kind
          Residents,      \* the members of the installations
          TicksPerSecond,
          NoRow

ASSUME RecoveryAssumptions ==
  /\ Uploads \cup Queries \subseteq Requests
  /\ Residents \subseteq Member /\ SchemaAllows(Residents)
  /\ TicksPerSecond \in Nat \ {0}
  /\ \A u \in Uploads : u.client \in Clients

VARIABLES backups,        \* ember_recovery_backups: id -> row, or NoRow
          stored,         \* its recovery_backup_stored events, oldest first
          members         \* ember_members

recoveryVars == <<backups, stored, members>>

BackupIds == {u.id : u \in Uploads}

\* An upload takes what it stores into the row, less the client, and adds the time.
Row(u, created) ==
  [inst |-> u.inst, controller |-> u.controller, kind |-> u.kind,
   digest |-> u.digest, created |-> created]

BackupRow == {Row(u, created) : u \in Uploads, created \in 0..MaxTime}

ASSUME NoRowIsNoRow == NoRow \notin BackupRow

Stored == {id \in BackupIds : backups[id] # NoRow}

RecoveryTypeOK ==
  /\ backups \in [BackupIds -> BackupRow \cup {NoRow}]
  /\ stored \in Seq([id: BackupIds, by: Clients])
  /\ members \subseteq Member /\ SchemaAllows(members)

RecoveryInit ==
  /\ backups = [id \in BackupIds |-> NoRow]
  /\ stored = <<>>
  /\ members = Residents

-----------------------------------------------------------------------------
\* The installations here are all active; Membership has the others.
AllActive == [i \in Installations |-> "active"]

\* _authorize: an active administrator asks about a controller of the same Home.
Authorized(q) ==
  /\ ActiveAdminMember(members, AllActive, q.inst, q.client)
  /\ \E m \in ControllerMembers(members, q.controller) : m.inst = q.inst /\ ~m.revoked

SameBackup(row, u) ==
  /\ row.inst = u.inst /\ row.controller = u.controller
  /\ row.kind = u.kind /\ row.digest = u.digest

Failed == [op |-> "failed"]
StoredAnswer(row) == [op |-> "stored", row |-> row]

\* The upload up to its write: an authorized one finds the backup already there,
\* finds another under its id (409, not a step), or goes on to store it.  A client
\* that had no answer, or a 500, may send it again.
UploadReads(u) ==
  /\ request[u] \in {Idle, Lost, Failed} /\ Authorized(u)
  /\ IF u.id \in Stored
     THEN SameBackup(backups[u.id], u) /\ Accept(u, StoredAnswer(backups[u.id]))
     ELSE Accept(u, [op |-> "upload", now |-> clock])
  /\ UNCHANGED recoveryVars

\* Mutant: INSERT OR REPLACE.
AnyInsertable(u) == TRUE

Insertable(u) == u.id \notin Stored

\* The backup and its audit event, in one transaction; the answer may not arrive.
UploadStores(u) ==
  LET row == Row(u, request[u].now) IN
  /\ request[u].op = "upload" /\ Insertable(u)
  /\ backups' = [backups EXCEPT ![u.id] = row]
  /\ stored' = Append(stored, [id |-> u.id, by |-> u.client])
  /\ \E answer \in {StoredAnswer(row), Lost} : Continue(u, answer)
  /\ UNCHANGED members

\* The INSERT raises, on the id or on a database that stays locked: 500.
UploadRaises(u) ==
  /\ request[u].op = "upload"
  /\ Continue(u, Failed)
  /\ UNCHANGED recoveryVars

-----------------------------------------------------------------------------
Second(created) == created \div TicksPerSecond

\* How created_at sorts as text.
TextRank(created) ==
  Second(created) * TicksPerSecond +
    (IF created % TicksPerSecond = 0 THEN TicksPerSecond ELSE created % TicksPerSecond) - 1

BackupsFor(q) ==
  {id \in Stored : /\ backups[id].inst = q.inst
                   /\ backups[id].controller = q.controller
                   /\ backups[id].kind = q.kind}

\* Mutant: LIMIT 1 with no ORDER BY.
AnyRow(q) == BackupsFor(q)

\* ORDER BY created_at DESC LIMIT 1
LatestRows(q) ==
  {id \in BackupsFor(q) : \A other \in BackupsFor(q) :
     TextRank(backups[other].created) <= TextRank(backups[id].created)}

\* The one read that answers a query; with no backup it is a 404, not a step.
\* "seen" tells which backups were stored by then (history).
LatestAnswers(q) ==
  /\ request[q] = Idle /\ Authorized(q)
  /\ \E id \in LatestRows(q) : Accept(q, [op |-> "latest", id |-> id, seen |-> Len(stored)])
  /\ UNCHANGED recoveryVars

\* An operator's UPDATE of the member table.
OperatorRevokes ==
  /\ edits < MaxEdits /\ edits' = edits + 1
  /\ \E m \in {n \in members : ~n.revoked} : members' = (members \ {m}) \cup {Revoked(m)}
  /\ UNCHANGED <<stage, database, clock, request, backups, stored>>

RecoveryNext ==
  \/ \E u \in Uploads \cap DOMAIN request : UploadReads(u) \/ UploadStores(u) \/ UploadRaises(u)
  \/ \E q \in Queries \cap DOMAIN request : LatestAnswers(q)
  \/ OperatorRevokes

-----------------------------------------------------------------------------
\* An upload answered with success is in the database with the content it sent,
\* whichever of the uploads of its id stored it and whatever came after, and each
\* backup there has one audit event.
AnsweredIsStored ==
  /\ \A u \in Uploads \cap DOMAIN request :
       request[u].op = "stored" =>
         /\ backups[u.id] = request[u].row
         /\ Row(u, request[u].row.created) = request[u].row
  /\ Stored = {stored[n].id : n \in DOMAIN stored}
  /\ \A m, n \in DOMAIN stored : stored[m].id = stored[n].id => m = n

\* A query is answered with a backup of its own controller and kind, and of those
\* stored by then none was uploaded in a later second: the order of the texts errs
\* within a second only.
LatestWithinSecond ==
  \A q \in Queries \cap DOMAIN request :
    request[q].op = "latest" =>
      LET row == backups[request[q].id] IN
      /\ row.inst = q.inst /\ row.controller = q.controller /\ row.kind = q.kind
      /\ \A n \in 1..request[q].seen :
           LET other == backups[stored[n].id] IN
           other.inst = q.inst /\ other.controller = q.controller /\ other.kind = q.kind
             => Second(other.created) <= Second(row.created)
=============================================================================
