--------------------------- MODULE ServiceProofs ---------------------------
(***************************************************************************)
(* Service's safety invariants, for any file of an earlier release, any    *)
(* requests and any number of crashes.                                     *)
(***************************************************************************)
EXTENDS Service, Integers, TLAPS

\* What each stage of init_db may count on, with a crash after any of them before.
Staged ==
  /\ ~table.exists => table = NoTable
  /\ ~legacy.exists => legacy = NoTable
  /\ legacy.rows \subseteq Bootstrapped
  /\ "identity" \notin table.columns => table.rows \subseteq Bootstrapped
  /\ stage \in {"indexes", "proof_method", "drop_index", "rename"} => table.exists
  /\ stage \in {"proof_method", "grant_id"} => table.exists /\ index
  /\ stage \in {"drop_index", "rename"} => "identity" \notin table.columns
  /\ stage = "recreate" => ~table.exists
  /\ stage = "copy" => table = TableOf(AllColumns, {})
  /\ stage = "grant_id" => {"proof_method", "identity"} \subseteq table.columns
  /\ stage \in {"lifespan", "serving"} => table.exists /\ table.columns = AllColumns /\ index
  /\ edits = 0 /\ legacy.exists => stage \in {"recreate", "copy"}

StartupIInv == StartupTypeOK /\ Staged /\ ConservesChallenges

LEMMA NoTableTyped == NoTable \in ChallengeTable
BY DEF NoTable, ChallengeTable

LEMMA TableTyped ==
  ASSUME NEW columns \in SUBSET AllColumns, NEW rows \in SUBSET Challenges
  PROVE  TableOf(columns, rows) \in ChallengeTable
BY DEF TableOf, ChallengeTable

LEMMA StartupInitInv == StartupInit => StartupIInv
<1> SUFFICES ASSUME StartupInit PROVE StartupIInv
  OBVIOUS
<1> USE StartupAssumptions DEF StartupInit, Deployed, NoTable, TableOf, AllColumns
<1>1. StartupTypeOK
  <2>1. table \in ChallengeTable /\ legacy \in ChallengeTable /\ found \subseteq Challenges
    <3>1. CASE table = NoTable
      BY <3>1, NoTableTyped
    <3>2. CASE \E columns \in SUBSET AllColumns, rows \in SUBSET Challenges : table = TableOf(columns, rows)
      BY <3>2, NoTableTyped, TableTyped
    <3>3. table = NoTable \/ \E columns \in SUBSET AllColumns, rows \in SUBSET Challenges : table = TableOf(columns, rows)
      OBVIOUS
    <3> QED
      BY <3>1, <3>2, <3>3
  <2>2. index \in BOOLEAN
    BY <2>1 DEF ChallengeTable
  <2>3. DOMAIN request \in Workloads
    OBVIOUS
  <2> QED
    BY <2>1, <2>2, <2>3 DEF StartupTypeOK, Stage
<1>2. Staged
  BY DEF Staged
<1>3. ConservesChallenges
  BY DEF ConservesChallenges
<1> QED
  BY <1>1, <1>2, <1>3 DEF StartupIInv

LEMMA StartupCurrent == StartupIInv => ServesCurrentSchema
BY DEF StartupIInv, Staged, ConservesChallenges, ServesCurrentSchema, NoTable

\* Requests and the operator leave the database to init_db.
LEMMA StartupFrame ==
  ASSUME StartupIInv, UNCHANGED <<stage, database>>, DOMAIN request' = DOMAIN request,
         clock' \in 0..MaxTime, edits' \in 0..MaxEdits, edits' = 0 => edits = 0
  PROVE  StartupIInv'
BY DEF StartupIInv, StartupTypeOK, Staged, ConservesChallenges, database

LEMMA BootInv ==
  ASSUME StartupIInv, Boot
  PROVE  StartupIInv'
<1> USE DEF StartupIInv, Reach, NoTable, TableOf, AllColumns
<1>1. StartupTypeOK'
  <2> USE DEF StartupTypeOK, ChallengeTable, Stage
  <2>1. CASE StartProcess BY <2>1 DEF StartProcess
  <2>2. CASE CreateTables BY <2>2 DEF CreateTables, FreshColumns
  <2>3. CASE CreateIndexes BY <2>3 DEF CreateIndexes
  <2>4. CASE AddProofMethod BY <2>4 DEF AddProofMethod, AfterProofMethod
  <2>5. CASE DropIndex BY <2>5 DEF DropIndex
  <2>6. CASE RenameTable
    <3>1. CASE legacy.exists BY <2>6, <3>1 DEF RenameTable
    <3>2. CASE ~legacy.exists BY <2>6, <3>2, NoTableTyped DEF RenameTable
    <3> QED BY <3>1, <3>2
  <2>7. CASE RecreateTable BY <2>7 DEF RecreateTable
  <2>8. CASE CopyAndDrop BY <2>8 DEF CopyAndDrop, CopiedRows
  <2>9. CASE AddGrantColumn BY <2>9 DEF AddGrantColumn
  <2>10. CASE Serve BY <2>10 DEF Serve
  <2> QED BY <2>1, <2>2, <2>3, <2>4, <2>5, <2>6, <2>7, <2>8, <2>9, <2>10 DEF Boot
<1>2. Staged'
  <2> USE DEF Staged, StartupTypeOK, ChallengeTable
  <2>1. CASE StartProcess BY <2>1 DEF StartProcess
  <2>2. CASE CreateTables BY <2>2 DEF CreateTables, FreshColumns
  <2>3. CASE CreateIndexes BY <2>3 DEF CreateIndexes
  <2>4. CASE AddProofMethod BY <2>4 DEF AddProofMethod, AfterProofMethod
  <2>5. CASE DropIndex BY <2>5 DEF DropIndex
  <2>6. CASE RenameTable BY <2>6 DEF RenameTable
  <2>7. CASE RecreateTable BY <2>7 DEF RecreateTable
  <2>8. CASE CopyAndDrop BY <2>8 DEF CopyAndDrop, CopiedRows
  <2>9. CASE AddGrantColumn BY <2>9 DEF AddGrantColumn
  <2>10. CASE Serve BY <2>10 DEF Serve
  <2> QED BY <2>1, <2>2, <2>3, <2>4, <2>5, <2>6, <2>7, <2>8, <2>9, <2>10 DEF Boot
<1>3. ConservesChallenges'
  <2> USE DEF ConservesChallenges, Staged, StartupTypeOK, ChallengeTable
  <2>1. CASE StartProcess BY <2>1 DEF StartProcess
  <2>2. CASE CreateTables BY <2>2 DEF CreateTables, FreshColumns
  <2>3. CASE CreateIndexes BY <2>3 DEF CreateIndexes
  <2>4. CASE AddProofMethod BY <2>4 DEF AddProofMethod, AfterProofMethod
  <2>5. CASE DropIndex BY <2>5 DEF DropIndex
  <2>6. CASE RenameTable BY <2>6 DEF RenameTable
  <2>7. CASE RecreateTable BY <2>7 DEF RecreateTable
  <2>8. CASE CopyAndDrop BY <2>8 DEF CopyAndDrop, CopiedRows
  <2>9. CASE AddGrantColumn BY <2>9 DEF AddGrantColumn
  <2>10. CASE Serve BY <2>10 DEF Serve
  <2> QED BY <2>1, <2>2, <2>3, <2>4, <2>5, <2>6, <2>7, <2>8, <2>9, <2>10 DEF Boot
<1> QED BY <1>1, <1>2, <1>3

LEMMA CrashInv ==
  ASSUME StartupIInv, Crash
  PROVE  StartupIInv'
BY StartupAssumptions DEF Crash, StartupIInv, StartupTypeOK, Stage, Staged, ConservesChallenges, database

-----------------------------------------------------------------------------
\* What the requests of each kind hold, and what makes an answer stay true.
RecoveryIInv ==
  /\ RecoveryTypeOK
  /\ \A u \in Uploads \cap DOMAIN request :
       /\ request[u].op = "upload" => request[u].now \in 0..MaxTime
       /\ request[u].op = "stored" => u.id \in Stored
  /\ \A q \in Queries \cap DOMAIN request :
       request[q].op = "latest" => request[q].id \in Stored /\ request[q].seen \in 0..Len(stored)
  /\ AnsweredIsStored
  /\ LatestWithinSecond

PushIInv ==
  /\ PushTypeOK
  /\ cached # NoToken => cached <= clock
  /\ \A p \in Pushes \cap DOMAIN request :
       /\ request[p].op = "push" =>
            /\ request[p].token \in 0..MaxTime /\ request[p].sent \in 0..clock
            /\ request[p].sent - request[p].token < TTL
            /\ clock - request[p].sent <= SendTimeout

ServiceIInv == StartupIInv /\ RecoveryIInv /\ PushIInv

LEMMA PushInitInv == StartupInit /\ PushInit => PushIInv
BY PushAssumptions DEF StartupInit, PushInit, PushIInv, PushTypeOK, Idle

LEMMA RecoveryInitInv == StartupInit /\ RecoveryInit => RecoveryIInv
BY RecoveryAssumptions DEF StartupInit, RecoveryInit, RecoveryIInv, RecoveryTypeOK, Stored,
   AnsweredIsStored, LatestWithinSecond, Idle

\* A step that leaves the tables alone and puts, if anything, a request of no
\* consequence for the backups.
LEMMA RecoveryFrame ==
  ASSUME RecoveryIInv, UNCHANGED recoveryVars, DOMAIN request' = DOMAIN request,
         \A r \in DOMAIN request : request'[r] = request[r] \/ request'[r].op \notin {"upload", "stored", "latest"}
  PROVE  RecoveryIInv'
BY DEF RecoveryIInv, RecoveryTypeOK, recoveryVars, Stored, AnsweredIsStored, LatestWithinSecond, Row

LEMMA PushFrame ==
  ASSUME PushIInv, UNCHANGED <<pushVars, clock>>, DOMAIN request' = DOMAIN request,
         \A r \in DOMAIN request : request'[r] = request[r] \/ request'[r].op \notin {"push", "pushed"}
  PROVE  PushIInv'
BY DEF PushIInv, PushTypeOK, pushVars

\* The order of the texts keeps that of the seconds.
LEMMA TextKeepsSeconds ==
  ASSUME NEW s \in Nat, NEW t \in Nat, TextRank(s) <= TextRank(t)
  PROVE  Second(s) <= Second(t)
<1> DEFINE First(n) == Second(n) * TicksPerSecond
<1>0. TicksPerSecond \in Nat \ {0}
  BY RecoveryAssumptions
<1>1. ASSUME NEW n \in Nat
      PROVE  /\ Second(n) \in Nat /\ First(n) \in Nat /\ TextRank(n) \in Int
             /\ First(n) <= TextRank(n) /\ TextRank(n) < First(n) + TicksPerSecond
  <2>1. Second(n) \in Nat /\ n % TicksPerSecond \in 0..(TicksPerSecond - 1)
    BY <1>0 DEF Second
  <2>2. First(n) \in Nat
    BY <1>0, <2>1
  <2> HIDE DEF First
  <2>3. TextRank(n) = First(n) + (IF n % TicksPerSecond = 0 THEN TicksPerSecond ELSE n % TicksPerSecond) - 1
    BY DEF TextRank, First
  <2> QED
    BY <1>0, <2>1, <2>2, <2>3
<1>2. ASSUME NEW m \in Nat, NEW n \in Nat, m > n
      PROVE  m * TicksPerSecond >= n * TicksPerSecond + TicksPerSecond
  BY <1>0, <1>2
<1>3. SUFFICES ASSUME Second(s) > Second(t) PROVE FALSE
  BY <1>1
<1>4. First(s) >= First(t) + TicksPerSecond
  BY <1>1, <1>2, <1>3
<1> HIDE DEF First
<1> QED
  BY <1>0, <1>1, <1>4

LEMMA UploadReadsInv ==
  ASSUME RecoveryIInv, clock \in 0..MaxTime, NEW u \in Uploads \cap DOMAIN request, UploadReads(u)
  PROVE  RecoveryIInv'
<1> USE DEF UploadReads, Accept, recoveryVars, StoredAnswer
<1>1. RecoveryTypeOK'
  BY DEF RecoveryIInv, RecoveryTypeOK
<1>2. AnsweredIsStored'
  <2>1. CASE u.id \in Stored
    <3>1. PICK v \in Uploads, created \in 0..MaxTime : backups[u.id] = Row(v, created)
      BY <2>1 DEF RecoveryIInv, RecoveryTypeOK, Stored, BackupRow
    <3>2. Row(u, backups[u.id].created) = backups[u.id]
      BY <2>1, <3>1 DEF SameBackup, Row
    <3> QED
      BY <2>1, <3>2 DEF RecoveryIInv, AnsweredIsStored, Stored
  <2>2. CASE u.id \notin Stored
    BY <2>2 DEF RecoveryIInv, AnsweredIsStored, Stored
  <2> QED
    BY <2>1, <2>2
<1>3. LatestWithinSecond'
  BY DEF RecoveryIInv, LatestWithinSecond
<1> QED
  BY <1>1, <1>2, <1>3 DEF RecoveryIInv, Stored

LEMMA UploadStoresInv ==
  ASSUME RecoveryIInv, NEW u \in Uploads \cap DOMAIN request, UploadStores(u)
  PROVE  RecoveryIInv'
<1> DEFINE row == Row(u, request[u].now)
<1> USE DEF UploadStores, Continue, Insertable, StoredAnswer, Lost
<1>1. row \in BackupRow /\ row # NoRow /\ u.id \in BackupIds /\ u.client \in Clients
  BY NoRowIsNoRow, RecoveryAssumptions DEF RecoveryIInv, BackupRow, BackupIds
<1>2. /\ Stored' = Stored \cup {u.id}
      /\ \A id \in Stored : backups'[id] = backups[id]
      /\ backups'[u.id] = row
  BY <1>1 DEF RecoveryIInv, RecoveryTypeOK, Stored
<1>3. /\ Len(stored') = Len(stored) + 1 /\ Len(stored) \in Nat
      /\ \A n \in 1..Len(stored) : stored'[n] = stored[n] /\ stored[n].id \in Stored
      /\ stored'[Len(stored) + 1].id = u.id
      /\ DOMAIN stored = 1..Len(stored) /\ DOMAIN stored' = 1..Len(stored')
  BY DEF RecoveryIInv, RecoveryTypeOK, AnsweredIsStored
<1>4. RecoveryTypeOK'
  BY <1>1 DEF RecoveryIInv, RecoveryTypeOK
<1>5. AnsweredIsStored'
  <2>1. ASSUME NEW v \in Uploads \cap DOMAIN request, request'[v].op = "stored"
        PROVE  /\ backups'[v.id] = request'[v].row
               /\ Row(v, request'[v].row.created) = request'[v].row
    <3>1. CASE v = u
      BY <2>1, <3>1, <1>2 DEF Row
    <3>2. CASE v # u
      BY <2>1, <3>2, <1>2 DEF RecoveryIInv, AnsweredIsStored
    <3> QED
      BY <3>1, <3>2
  <2>2. Stored' = {stored'[n].id : n \in DOMAIN stored'}
    BY <1>2, <1>3 DEF RecoveryIInv, AnsweredIsStored
  <2>3. \A m, n \in DOMAIN stored' : stored'[m].id = stored'[n].id => m = n
    BY <1>3 DEF RecoveryIInv, AnsweredIsStored
  <2> QED
    BY <2>1, <2>2, <2>3 DEF AnsweredIsStored
<1>6. LatestWithinSecond'
  <2> SUFFICES ASSUME NEW q \in Queries \cap DOMAIN request, request'[q].op = "latest"
      PROVE  LET r == backups'[request'[q].id] IN
             /\ r.inst = q.inst /\ r.controller = q.controller /\ r.kind = q.kind
             /\ \A n \in 1..request'[q].seen :
                  LET other == backups'[stored'[n].id] IN
                  other.inst = q.inst /\ other.controller = q.controller /\ other.kind = q.kind
                    => Second(other.created) <= Second(r.created)
    BY DEF LatestWithinSecond, Second
  <2>1. request'[q] = request[q] /\ request[q].op = "latest"
    OBVIOUS
  <2>2. request[q].id \in Stored /\ request[q].seen \in 0..Len(stored)
    BY <2>1 DEF RecoveryIInv
  <2>3. \A n \in 1..request[q].seen : backups'[stored'[n].id] = backups[stored[n].id]
    BY <2>2, <1>2, <1>3
  <2>4. backups'[request'[q].id] = backups[request[q].id] /\ request'[q].seen = request[q].seen
    BY <2>1, <2>2, <1>2
  <2>5. LET r == backups[request[q].id] IN
        /\ r.inst = q.inst /\ r.controller = q.controller /\ r.kind = q.kind
        /\ \A n \in 1..request[q].seen :
             LET other == backups[stored[n].id] IN
             other.inst = q.inst /\ other.controller = q.controller /\ other.kind = q.kind
               => Second(other.created) <= Second(r.created)
    BY <2>1 DEF RecoveryIInv, LatestWithinSecond
  <2> QED
    BY <2>3, <2>4, <2>5
<1> QED
  BY <1>2, <1>3, <1>4, <1>5, <1>6 DEF RecoveryIInv

LEMMA LatestAnswersInv ==
  ASSUME RecoveryIInv, NEW q \in Queries \cap DOMAIN request, LatestAnswers(q)
  PROVE  RecoveryIInv'
<1>1. PICK id \in LatestRows(q) :
        /\ Accept(q, [op |-> "latest", id |-> id, seen |-> Len(stored)])
        /\ UNCHANGED recoveryVars
  BY DEF LatestAnswers
<1> USE DEF Accept, recoveryVars
<1>2. RecoveryTypeOK' /\ AnsweredIsStored'
  BY <1>1 DEF RecoveryIInv, RecoveryTypeOK, AnsweredIsStored, Stored
<1>3. id \in Stored /\ id \in BackupsFor(q)
  BY <1>1 DEF LatestRows, BackupsFor
<1>4. \A other \in Stored : backups[other].created \in Nat
  BY RecoveryAssumptions, StartupAssumptions DEF RecoveryIInv, RecoveryTypeOK, Stored, BackupRow, Row
<1>5. \A n \in 1..Len(stored) : stored[n].id \in Stored
  BY DEF RecoveryIInv, RecoveryTypeOK, AnsweredIsStored
<1>6. \A other \in BackupsFor(q) : Second(backups[other].created) <= Second(backups[id].created)
  BY <1>1, <1>3, <1>4, TextKeepsSeconds DEF LatestRows, BackupsFor
<1>7. \A n \in 1..Len(stored) :
        LET other == backups[stored[n].id] IN
        other.inst = q.inst /\ other.controller = q.controller /\ other.kind = q.kind
          => Second(other.created) <= Second(backups[id].created)
  BY <1>5, <1>6 DEF BackupsFor
<1>8. LatestWithinSecond'
  BY <1>1, <1>3, <1>7 DEF RecoveryIInv, LatestWithinSecond, BackupsFor, Second
<1> QED
  BY <1>1, <1>2, <1>3, <1>8 DEF RecoveryIInv, RecoveryTypeOK, Stored

LEMMA OperatorRevokesInv ==
  ASSUME RecoveryIInv, OperatorRevokes
  PROVE  RecoveryIInv'
<1>1. PICK m \in members : ~m.revoked /\ members' = (members \ {m}) \cup {Revoked(m)}
  BY DEF OperatorRevokes
<1>2. members' \subseteq Member /\ SchemaAllows(members')
  <2>1. m \in Member
    BY DEF RecoveryIInv, RecoveryTypeOK
  <2>2. /\ Revoked(m) \in Member /\ Revoked(m).inst = m.inst /\ Revoked(m).key = m.key
        /\ Revoked(m).kind = m.kind /\ Revoked(m).subject = m.subject
    BY <2>1 DEF Revoked, Member
  <2> QED
    BY <1>1, <2>1, <2>2 DEF RecoveryIInv, RecoveryTypeOK, SchemaAllows
<1> QED
  BY <1>2 DEF OperatorRevokes, RecoveryIInv, RecoveryTypeOK, Stored, AnsweredIsStored, LatestWithinSecond

LEMMA PushNextInv ==
  ASSUME PushIInv, clock \in 0..MaxTime, NEW p \in Pushes \cap DOMAIN request,
         PushSends(p) \/ PushRecorded(p) \/ PushRaises(p)
  PROVE  PushIInv'
<1> USE StartupAssumptions, PushAssumptions DEF Accept, Continue
<1>1. CASE PushSends(p)
  <2>1. /\ ProviderToken \in 0..MaxTime /\ ProviderToken <= clock /\ clock - ProviderToken < TTL
        /\ ProviderToken # NoToken
    BY DEF ProviderToken, Fresh, PushIInv, PushTypeOK
  <2> QED
    BY <1>1, <2>1 DEF PushSends, PushIInv, PushTypeOK
<1>2. CASE PushRecorded(p)
  <2>1. PICK outcome \in Outcome :
          /\ events' = Append(events, [push |-> p, outcome |-> outcome])
          /\ \E answer \in {[op |-> "pushed", id |-> LastRowId(events'), outcome |-> outcome], Lost} :
               Continue(p, answer)
    BY <1>2 DEF PushRecorded
  <2>2. events' \in Seq([push: Pushes, outcome: Outcome])
    BY <2>1 DEF PushIInv, PushTypeOK
  <2> QED
    BY <1>2, <2>1, <2>2 DEF PushRecorded, PushIInv, PushTypeOK, Lost
<1>3. CASE PushRaises(p)
  BY <1>3 DEF PushRaises, PushIInv, PushTypeOK, pushVars
<1> QED
  BY <1>1, <1>2, <1>3

LEMMA CrashKeepsRest ==
  ASSUME StartupTypeOK, RecoveryIInv, PushIInv, Dies
  PROVE  RecoveryIInv' /\ PushIInv'
<1>1. RecoveryIInv'
  BY RecoveryFrame DEF Dies, Crash, Lost
<1>2. PushIInv'
  BY DEF Dies, Crash, PushCrash, database, Lost, PushIInv, PushTypeOK
<1> QED
  BY <1>1, <1>2

LEMMA TickKeepsPushes ==
  ASSUME StartupTypeOK, PushIInv, Tick
  PROVE  PushIInv'
BY StartupAssumptions, PushAssumptions
   DEF Tick, InTime, StartupTypeOK, pushVars, PushIInv, PushTypeOK

-----------------------------------------------------------------------------
LEMMA ServiceInitInv == ServiceInit => ServiceIInv
BY StartupInitInv, RecoveryInitInv, PushInitInv DEF ServiceInit, ServiceIInv

LEMMA RecoversInv ==
  ASSUME ServiceIInv, Recovers
  PROVE  ServiceIInv'
<1> USE DEF Recovers, ServiceIInv
<1>0. clock \in 0..MaxTime /\ edits \in 0..MaxEdits
  BY DEF StartupIInv, StartupTypeOK
<1>1. ASSUME NEW u \in Uploads \cap DOMAIN request, UploadReads(u) \/ UploadStores(u) \/ UploadRaises(u)
      PROVE  ServiceIInv'
  <2> USE DEF Accept, Continue, StoredAnswer, Lost, Failed
  <2>1. /\ UNCHANGED <<stage, database, clock, edits>> /\ DOMAIN request' = DOMAIN request
        /\ \A r \in DOMAIN request : request'[r] = request[r] \/ request'[r].op \notin {"push", "pushed"}
    BY <1>1 DEF UploadReads, UploadStores, UploadRaises
  <2>2. StartupIInv' /\ PushIInv'
    BY <1>0, <2>1, StartupFrame, PushFrame
  <2>3. CASE UploadReads(u) BY <1>0, <2>2, <2>3, UploadReadsInv
  <2>4. CASE UploadStores(u) BY <2>2, <2>4, UploadStoresInv
  <2>5. CASE UploadRaises(u)
    BY <2>1, <2>2, <2>5, RecoveryFrame DEF UploadRaises
  <2> QED
    BY <1>1, <2>3, <2>4, <2>5
<1>2. ASSUME NEW q \in Queries \cap DOMAIN request, LatestAnswers(q)
      PROVE  ServiceIInv'
  <2>1. /\ UNCHANGED <<stage, database, clock, edits>> /\ DOMAIN request' = DOMAIN request
        /\ \A r \in DOMAIN request : request'[r] = request[r] \/ request'[r].op \notin {"push", "pushed"}
    BY <1>2 DEF LatestAnswers, Accept
  <2> QED
    BY <1>0, <1>2, <2>1, StartupFrame, PushFrame, LatestAnswersInv
<1>3. CASE OperatorRevokes
  <2>1. /\ UNCHANGED <<stage, database, clock, request>> /\ edits' \in 0..MaxEdits
        /\ edits' = 0 => edits = 0
    BY <1>0, <1>3, StartupAssumptions DEF OperatorRevokes
  <2> QED
    BY <1>0, <1>3, <2>1, StartupFrame, PushFrame, OperatorRevokesInv
<1> QED
  BY <1>1, <1>2, <1>3 DEF RecoveryNext

LEMMA SendsInv ==
  ASSUME ServiceIInv, Sends
  PROVE  ServiceIInv'
<1> USE DEF Sends, ServiceIInv
<1>0. clock \in 0..MaxTime /\ edits \in 0..MaxEdits
  BY DEF StartupIInv, StartupTypeOK
<1>1. PICK p \in Pushes \cap DOMAIN request : PushSends(p) \/ PushRecorded(p) \/ PushRaises(p)
  BY DEF PushNext
<1>2. /\ UNCHANGED <<stage, database, clock, edits>> /\ DOMAIN request' = DOMAIN request
      /\ \A r \in DOMAIN request :
           request'[r] = request[r] \/ request'[r].op \notin {"upload", "stored", "latest"}
  <2> USE DEF Accept, Continue, Lost
  <2>1. CASE PushSends(p) BY <2>1 DEF PushSends
  <2>2. CASE PushRecorded(p)
    <3>0. PICK outcome \in Outcome :
            \E answer \in {[op |-> "pushed", id |-> LastRowId(events'), outcome |-> outcome], Lost} :
              Continue(p, answer)
      BY <2>2 DEF PushRecorded
    <3>1. PICK answer \in {[op |-> "pushed", id |-> LastRowId(events'), outcome |-> outcome], Lost} :
            Continue(p, answer)
      BY <3>0
    <3>2. answer.op \in {"pushed", "lost"}
      OBVIOUS
    <3> QED
      BY <3>1, <3>2
  <2>3. CASE PushRaises(p) BY <2>3 DEF PushRaises
  <2> QED BY <1>1, <2>1, <2>2, <2>3
<1> QED
  BY <1>0, <1>1, <1>2, StartupFrame, RecoveryFrame, PushNextInv

LEMMA ServiceStepInv ==
  ASSUME ServiceIInv, [ServiceNext]_vars
  PROVE  ServiceIInv'
<1> USE DEF ServiceIInv
<1>1. CASE Starts
  <2>1. UNCHANGED <<clock, request>>
    BY <1>1 DEF Starts, Boot, StartProcess, CreateTables, CreateIndexes, AddProofMethod, DropIndex,
       RenameTable, RecreateTable, CopyAndDrop, AddGrantColumn, Serve, Reach
  <2> QED
    BY <1>1, <2>1, BootInv, RecoveryFrame, PushFrame DEF Starts
<1>2. CASE Dies
  BY <1>2, CrashInv, CrashKeepsRest DEF Dies, StartupIInv
<1>3. CASE Recovers BY <1>3, RecoversInv
<1>4. CASE Sends BY <1>4, SendsInv
<1>5. CASE Tick
  <2>1. clock' \in 0..MaxTime /\ edits' \in 0..MaxEdits /\ edits' = edits
    BY <1>5, StartupAssumptions DEF Tick, StartupIInv, StartupTypeOK
  <2> QED
    BY <1>5, <2>1, StartupFrame, RecoveryFrame, TickKeepsPushes DEF Tick, StartupIInv
<1>6. CASE UNCHANGED vars
  <2>1. edits \in 0..MaxEdits /\ clock \in 0..MaxTime
    BY DEF StartupIInv, StartupTypeOK
  <2> QED
    BY <1>6, <2>1, StartupFrame, RecoveryFrame, PushFrame DEF vars, startupVars
<1> QED
  BY <1>1, <1>2, <1>3, <1>4, <1>5, <1>6 DEF ServiceNext

\* What the inductive invariant has as parts is what holds in every reachable state.
LEMMA ServiceIInvHolds == ServiceSpec => []ServiceIInv
<1>1. ServiceInit => ServiceIInv
  BY ServiceInitInv
<1>2. ServiceIInv /\ [ServiceNext]_vars => ServiceIInv'
  BY ServiceStepInv
<1> QED
  BY <1>1, <1>2, PTL DEF ServiceSpec

\* Whatever release wrote the file, and however often the start is cut off, init_db
\* (src/app/db.py) loses no challenge, has none twice, and courier serves with the
\* current schema only.
THEOREM ServiceKeepsDatabase == ServiceSpec => []ServiceInv
<1>1. ServiceIInv => ServiceInv
  BY StartupCurrent DEF ServiceIInv, ServiceInv, ServiceTypeOK, StartupIInv, RecoveryIInv, PushIInv
<1> QED
  BY <1>1, ServiceIInvHolds, PTL

\* However many uploads of one id, retries and crashes there are, an upload that
\* was answered (store_recovery_backup) is there, with its content, and has its
\* one audit event.
THEOREM UploadsAreStored == ServiceSpec => []AnsweredIsStored
<1>1. ServiceIInv => AnsweredIsStored
  BY DEF ServiceIInv, RecoveryIInv
<1> QED
  BY <1>1, ServiceIInvHolds, PTL

\* With created_at ordered as text, the latest backup is answered to the second
\* (get_latest_recovery_backup), whatever the clock's resolution.
THEOREM LatestToTheSecond == ServiceSpec => []LatestWithinSecond
<1>1. ServiceIInv => LatestWithinSecond
  BY DEF ServiceIInv, RecoveryIInv
<1> QED
  BY <1>1, ServiceIInvHolds, PTL

\* A token cached for TTL and sent for SendTimeout at most (ApnsClient) is one APNs
\* still takes, for any such times that fit its lifetime.
THEOREM TokensAreTaken == ServiceSpec => []ProviderAccepts
<1>1. ServiceIInv => ProviderAccepts
  BY StartupAssumptions, PushAssumptions DEF ServiceIInv, StartupIInv, StartupTypeOK, PushIInv, ProviderAccepts
<1> QED
  BY <1>1, ServiceIInvHolds, PTL
=============================================================================
