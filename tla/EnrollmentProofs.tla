------------------------- MODULE EnrollmentProofs -------------------------
(* Theorems about Enrollment, for every value of its constants. *)
EXTENDS Enrollment, FiniteSetTheorems, TLAPS

\* What a request in flight carries, by the operation it is at.
LEMMA RequestKinds ==
  ASSUME NEW r \in Request
  PROVE  /\ r.op = "register" => r.row \in Bootstrap
         /\ r.op = "grant" => r.row \in Grant
         /\ r.op = "begin" => r.row \in Challenge
         /\ r.op = "authorize" => r.id \in Grants
         /\ r.op = "complete" => r.id \in Challenges
BY DEF Request, Idle

LEMMA KeepTyped ==
  ASSUME TypeOK, NEW t \in Threads, NEW r \in Request, Keep(t, r)
  PROVE  TypeOK'
BY DEF TypeOK, Keep, tables

LEMMA AnswerTyped ==
  ASSUME TypeOK, NEW t \in Threads, Answer(t)
  PROVE  /\ clock' \in 0..MaxTime /\ edits' \in 0..MaxEdits
         /\ thread' \in [Threads -> Request]
BY DEF TypeOK, Answer, Request

\* The rows an enrollment writes are member rows.
LEMMA RowsTyped ==
  ASSUME members \subseteq Member, NEW ch \in Challenge, NEW i \in Installations
  PROVE  MembersAfter(ch, i) \subseteq Member
<1>1. ControllerRow(i, ch.controller, ch.key) \in Member
  BY DEF ControllerRow, Member, Challenge
<1>2. ClientRow(i, ch.client) \in Member
  BY DEF ClientRow, Member, Challenge
<1> QED
  BY <1>1, <1>2 DEF MembersAfter

LEMMA BootstrapsTyped ==
  ASSUME bootstraps \subseteq Bootstrap, NEW ch \in Challenge
  PROVE  BootstrapsAfter(ch) \subseteq Bootstrap
<1> DEFINE row == [controller |-> ch.controller, tag |-> ch.tag, key |-> ch.key,
                   origin |-> "enrolled", active |-> TRUE]
<1>1. row \in Bootstrap
  BY DEF Bootstrap, Challenge
<1>2. BootstrapsAfter(ch) = bootstraps \/ BootstrapsAfter(ch) = bootstraps \cup {row}
  BY DEF BootstrapsAfter
<1> HIDE DEF row
<1> QED
  BY <1>1, <1>2

LEMMA HomesTyped ==
  ASSUME TypeOK, NEW ch \in Challenge, ch.grant # NoRow => grants[ch.grant] # NoRow,
         NEW i \in Homes(ch)
  PROVE  i \in Installations
<1>1. CASE ch.grant # NoRow
  BY <1>1 DEF Homes, TypeOK, Grant, Challenge
<1>2. CASE ch.grant = NoRow
  BY <1>2 DEF Homes, ControllerMembers, TypeOK, Member
<1> QED
  BY <1>1, <1>2

\* What CompleteEnrollmentWrite does when its transaction commits.
Commits(t, h, i) ==
  LET ch == challenges[h]
  IN /\ i \in Homes(ch)
     /\ Completable(h, i)
     /\ bootstraps' = BootstrapsAfter(ch)
     /\ installations' = IF CreatesInstallation(ch)
                         THEN [installations EXCEPT ![i] = "active"]
                         ELSE installations
     /\ members' = MembersAfter(ch, i)
     /\ grants' = IF ch.grant # NoRow
                  THEN [grants EXCEPT ![ch.grant].consumed = TRUE]
                  ELSE grants
     /\ challenges' = [challenges EXCEPT ![h].consumed = TRUE]
     /\ audit' = Append(audit, [type |-> EventType(ch), inst |-> i,
                                challenge |-> h, grant |-> ch.grant])

\* The write either rolls back or commits one challenge.
LEMMA CompleteCases ==
  ASSUME TypeOK, NEW t \in Threads, CompleteEnrollmentWrite(t)
  PROVE  \/ UNCHANGED tables
         \/ \E i \in Installations :
              /\ Commits(t, thread[t].id, i)
              /\ thread[t].id \in Challenges
              /\ challenges[thread[t].id] \in Challenge
<1> DEFINE h == thread[t].id
           ch == challenges[h]
<1>1. h \in Challenges
  BY RequestKinds DEF TypeOK, CompleteEnrollmentWrite
<1>2. PICK i \in Homes(ch) : UNCHANGED tables \/ Commits(t, h, i)
  BY DEF CompleteEnrollmentWrite, Commits
<1>3. CASE Commits(t, h, i)
  <2>1. ch \in Challenge
    BY <1>1, <1>3 DEF Commits, Completable, Open, TypeOK
  <2>2. ch.grant # NoRow => grants[ch.grant] # NoRow
    BY <1>3 DEF Commits, Completable, GrantStillFits, GrantUsable
  <2>3. i \in Installations
    BY <2>1, <2>2, HomesTyped
  <2> QED
    BY <1>1, <1>3, <2>1, <2>3
<1> QED
  BY <1>2, <1>3

LEMMA CommitTyped ==
  ASSUME TypeOK, NEW t \in Threads, NEW h \in Challenges, NEW i \in Installations,
         challenges[h] \in Challenge, Commits(t, h, i)
  PROVE  /\ bootstraps' \subseteq Bootstrap
         /\ installations' \in [Installations -> InstallationStatus]
         /\ members' \subseteq Member
         /\ grants' \in [Grants -> Grant \cup {NoRow}]
         /\ challenges' \in [Challenges -> Challenge \cup {NoRow}]
         /\ audit' \in Seq(AuditEvent)
<1> DEFINE ch == challenges[h]
<1>1. bootstraps' \subseteq Bootstrap
  BY BootstrapsTyped DEF Commits, TypeOK
<1>2. installations' \in [Installations -> InstallationStatus]
  BY DEF Commits, TypeOK, InstallationStatus
<1>3. members' \subseteq Member
  BY RowsTyped DEF Commits, TypeOK
<1>4. grants' \in [Grants -> Grant \cup {NoRow}]
  <2>1. ch.grant # NoRow => ch.grant \in Grants /\ grants[ch.grant] \in Grant
    BY DEF Commits, Completable, GrantStillFits, GrantUsable, TypeOK, Challenge
  <2> QED
    BY <2>1 DEF Commits, TypeOK, Grant
<1>5. challenges' \in [Challenges -> Challenge \cup {NoRow}]
  BY DEF Commits, TypeOK, Challenge
<1>6. audit' \in Seq(AuditEvent)
  <2>1. EventType(ch) \in {"installation_created", "client_enrolled",
                           "controller_added", "controller_recovered"}
    BY DEF EventType
  <2>2. [type |-> EventType(ch), inst |-> i, challenge |-> h, grant |-> ch.grant]
          \in AuditEvent
    BY <2>1 DEF AuditEvent, Challenge
  <2> QED
    BY <2>2 DEF Commits, TypeOK
<1> QED
  BY <1>1, <1>2, <1>3, <1>4, <1>5, <1>6

LEMMA InitTyped == Init => TypeOK
BY EnrollmentAssumptions, NoRowIsNoRow DEF Init, TypeOK, InstallationStatus, Request

LEMMA HandlerTyped ==
  ASSUME TypeOK, NEW t \in Threads, Handler(t)
  PROVE  TypeOK'
<1> USE EnrollmentAssumptions, NoRowIsNoRow
<1>1. CASE Abandon(t)
  BY <1>1, AnswerTyped DEF Abandon, tables, TypeOK
<1>2. CASE RegisterBootstrapRead(t)
  <2>1. PICK p \in Registered :
          Keep(t, [op |-> "register",
                   row |-> [controller |-> p.controller, tag |-> p.tag, key |-> p.key,
                            origin |-> "registered", active |-> TRUE]])
    BY <1>2 DEF RegisterBootstrapRead
  <2>2. p \in Identity
    OBVIOUS
  <2>3. [op |-> "register",
         row |-> [controller |-> p.controller, tag |-> p.tag, key |-> p.key,
                  origin |-> "registered", active |-> TRUE]] \in Request
    BY <2>2 DEF Request, Bootstrap, Identity
  <2> QED
    BY <2>1, <2>3, KeepTyped
<1>3. CASE RegisterBootstrapInsert(t)
  <2>1. thread[t].row \in Bootstrap
    BY <1>3, RequestKinds DEF RegisterBootstrapInsert, TypeOK
  <2> QED
    BY <1>3, <2>1, AnswerTyped DEF RegisterBootstrapInsert, TypeOK
<1>4. CASE CreateGrantRead(t)
  <2>1. PICK p \in Presented, i \in Installations, k \in Clients :
          Keep(t, [op |-> "grant",
                   row |-> [inst |-> i, authorizer |-> k, client |-> k,
                            controller |-> p.controller, tag |-> p.tag, key |-> p.key,
                            expires |-> clock + GrantLife,
                            authorized |-> FALSE, consumed |-> FALSE]])
    BY <1>4 DEF CreateGrantRead
  <2>2. p \in Identity /\ clock + GrantLife \in Nat
    BY DEF TypeOK
  <2>3. [op |-> "grant",
         row |-> [inst |-> i, authorizer |-> k, client |-> k,
                  controller |-> p.controller, tag |-> p.tag, key |-> p.key,
                  expires |-> clock + GrantLife,
                  authorized |-> FALSE, consumed |-> FALSE]] \in Request
    BY <2>2 DEF Request, Grant, Identity
  <2> QED
    BY <2>1, <2>3, KeepTyped
<1>5. CASE CreateGrantInsert(t)
  <2>1. thread[t].row \in Grant
    BY <1>5, RequestKinds DEF CreateGrantInsert, TypeOK
  <2> QED
    BY <1>5, <2>1, AnswerTyped DEF CreateGrantInsert, TypeOK
<1>6. CASE AuthorizeGrantRead(t)
  BY <1>6, KeepTyped DEF AuthorizeGrantRead, Request
<1>7. CASE AuthorizeGrantWrite(t)
  <2>1. thread[t].id \in Grants
    BY <1>7, RequestKinds DEF AuthorizeGrantWrite, TypeOK
  <2>2. Authorizable(thread[t].id) => grants[thread[t].id] \in Grant
    BY <2>1 DEF Authorizable, TypeOK
  <2>3. grants' \in [Grants -> Grant \cup {NoRow}]
    BY <1>7, <2>1, <2>2 DEF AuthorizeGrantWrite, TypeOK, Grant
  <2> QED
    BY <1>7, <2>3, AnswerTyped DEF AuthorizeGrantWrite, TypeOK
<1>8. CASE BeginEnrollmentRead(t)
  <2>1. PICK p \in Presented, k \in Clients, g \in Grants \cup {NoRow} :
          Keep(t, [op |-> "begin",
                   row |-> [controller |-> p.controller, tag |-> p.tag, key |-> p.key,
                            client |-> k, retrofit |-> BootstrapsNaming(p) = {},
                            grant |-> g, expires |-> clock + ChallengeLife,
                            consumed |-> FALSE]])
    BY <1>8 DEF BeginEnrollmentRead
  <2>2. p \in Identity /\ clock + ChallengeLife \in Nat
    BY DEF TypeOK
  <2>3. [op |-> "begin",
         row |-> [controller |-> p.controller, tag |-> p.tag, key |-> p.key,
                  client |-> k, retrofit |-> BootstrapsNaming(p) = {},
                  grant |-> g, expires |-> clock + ChallengeLife,
                  consumed |-> FALSE]] \in Request
    BY <2>2 DEF Request, Challenge, Identity
  <2> QED
    BY <2>1, <2>3, KeepTyped
<1>9. CASE BeginEnrollmentInsert(t)
  <2>1. thread[t].row \in Challenge
    BY <1>9, RequestKinds DEF BeginEnrollmentInsert, TypeOK
  <2> QED
    BY <1>9, <2>1, AnswerTyped DEF BeginEnrollmentInsert, TypeOK
<1>10. CASE CompleteEnrollmentRead(t)
  BY <1>10, KeepTyped DEF CompleteEnrollmentRead, Request
<1>11. CASE CompleteEnrollmentWrite(t)
  <2>1. clock' \in 0..MaxTime /\ edits' \in 0..MaxEdits /\ thread' \in [Threads -> Request]
    BY <1>11, AnswerTyped DEF CompleteEnrollmentWrite
  <2>2. CASE UNCHANGED tables
    BY <2>1, <2>2 DEF TypeOK, tables
  <2>3. CASE ~UNCHANGED tables
    BY <1>11, <2>1, <2>3, CompleteCases, CommitTyped DEF TypeOK
  <2> QED
    BY <2>2, <2>3
<1> QED
  BY <1>1, <1>2, <1>3, <1>4, <1>5, <1>6, <1>7, <1>8, <1>9, <1>10, <1>11 DEF Handler

LEMMA EditsTyped ==
  ASSUME TypeOK, OperatorEdits
  PROVE  TypeOK'
<1>1. edits' \in 0..MaxEdits
  BY EnrollmentAssumptions DEF OperatorEdits, TypeOK
<1>2. CASE OperatorRevokes
  <2>1. members' \subseteq Member
    BY <1>2 DEF OperatorRevokes, Revoked, Member, TypeOK
  <2> QED
    BY <1>1, <1>2, <2>1 DEF OperatorEdits, OperatorRevokes, TypeOK
<1>3. CASE OperatorDeactivates
  BY <1>1, <1>3 DEF OperatorEdits, OperatorDeactivates, TypeOK, InstallationStatus
<1>5. CASE OperatorDemotes
  <2>1. members' \subseteq Member
    BY <1>5 DEF OperatorDemotes, Demoted, Member, TypeOK
  <2> QED
    BY <1>1, <1>5, <2>1 DEF OperatorEdits, OperatorDemotes, TypeOK
<1>4. CASE OperatorRetires
  <2>1. bootstraps' \subseteq Bootstrap
    BY <1>4 DEF OperatorRetires, Bootstrap, TypeOK
  <2> QED
    BY <1>1, <1>4, <2>1 DEF OperatorEdits, OperatorRetires, TypeOK
<1> QED
  BY <1>2, <1>3, <1>4, <1>5 DEF OperatorEdits

LEMMA StepTyped == TypeOK /\ [Next]_vars => TypeOK'
<1> SUFFICES ASSUME TypeOK, [Next]_vars PROVE TypeOK'
  OBVIOUS
<1>1. CASE \E t \in Threads : Handler(t)
  BY <1>1, HandlerTyped
<1>2. CASE OperatorEdits
  BY <1>2, EditsTyped
<1>3. CASE Tick
  BY <1>3, EnrollmentAssumptions DEF Tick, tables, TypeOK
<1>4. CASE UNCHANGED vars
  BY <1>4 DEF vars, tables, TypeOK
<1> QED
  BY <1>1, <1>2, <1>3, <1>4 DEF Next

\* Every table, and every request in flight, holds what its columns may hold,
\* however requests, operators and the clock interleave.
THEOREM TypeCorrect == Spec => []TypeOK
BY InitTyped, StepTyped, PTL DEF Spec
-----------------------------------------------------------------------------
\* What holds of a request past its read: a completion carries a challenge whose
\* key has signed, and a row about to be inserted is not yet spent.
InFlight ==
  \A t \in Threads :
    /\ thread[t].op = "complete" =>
         /\ challenges[thread[t].id] # NoRow
         /\ challenges[thread[t].id].key \in HeldKeys
    /\ thread[t].op \in {"grant", "begin"} => ~thread[t].row.consumed
    /\ thread[t].op = "register" => thread[t].row.origin = "registered"

\* A spent grant's controller has joined, and GrantKeepsHome says where.
GrantOwned ==
  \A g \in Grants :
    grants[g] # NoRow /\ grants[g].consumed =>
      ControllerMembers(members, grants[g].controller) # {}

IInv ==
  /\ TypeOK
  /\ InFlight
  /\ SchemaAllows(members)
  /\ ControllerKeyAgrees
  /\ KeyPossessed
  /\ GrantOwned
  /\ GrantKeepsHome

SameGrant(g) ==
  /\ grants[g] # NoRow /\ grants'[g] # NoRow
  /\ grants'[g].consumed = grants[g].consumed
  /\ grants'[g].controller = grants[g].controller
  /\ grants'[g].inst = grants[g].inst
  /\ grants'[g].key = grants[g].key

\* Any handler but the write of a completion leaves members, installations and
\* the audit trail alone, adds at most a registered bootstrap, and inserts or
\* authorizes grants and challenges without spending one.
OnlyPrepares ==
  /\ UNCHANGED <<installations, members, audit>>
  /\ \/ bootstraps' = bootstraps
     \/ \E b \in Bootstrap : b.origin = "registered" /\ bootstraps' = bootstraps \cup {b}
  /\ \A g \in Grants :
       \/ grants'[g] = grants[g]
       \/ grants[g] = NoRow /\ ~grants'[g].consumed
       \/ SameGrant(g)
  /\ \A h \in Challenges :
       \/ challenges'[h] = challenges[h]
       \/ challenges[h] = NoRow /\ ~challenges'[h].consumed

LEMMA OtherHandlersPrepare ==
  ASSUME TypeOK, InFlight, NEW t \in Threads, Handler(t)
  PROVE  CompleteEnrollmentWrite(t) \/ OnlyPrepares
<1>1. CASE UNCHANGED tables
  BY <1>1 DEF OnlyPrepares, tables
<1>2. CASE RegisterBootstrapInsert(t)
  <2>1. thread[t].row \in Bootstrap /\ thread[t].row.origin = "registered"
    BY <1>2, RequestKinds DEF RegisterBootstrapInsert, TypeOK, InFlight
  <2> QED
    BY <1>2, <2>1 DEF RegisterBootstrapInsert, OnlyPrepares
<1>3. CASE CreateGrantInsert(t)
  <2>1. ~thread[t].row.consumed
    BY <1>3 DEF CreateGrantInsert, InFlight
  <2> QED
    BY <1>3, <2>1 DEF CreateGrantInsert, OnlyPrepares, TypeOK
<1>4. CASE AuthorizeGrantWrite(t)
  <2> DEFINE g == thread[t].id
  <2>1. g \in Grants
    BY <1>4, RequestKinds DEF AuthorizeGrantWrite, TypeOK
  <2>2. CASE grants' = grants
    BY <1>4, <2>2 DEF AuthorizeGrantWrite, OnlyPrepares
  <2>3. CASE grants' # grants
    <3>1. grants[g] \in Grant /\ grants[g] # NoRow
      BY <1>4, <2>1, <2>3 DEF AuthorizeGrantWrite, Authorizable, TypeOK
    <3>2. grants' = [grants EXCEPT ![g].authorized = TRUE]
      BY <1>4, <2>3 DEF AuthorizeGrantWrite
    <3>3. grants'[g] \in Grant /\ grants'[g] # NoRow
      BY <2>1, <3>1, <3>2, NoRowIsNoRow DEF Grant, TypeOK
    <3>4. SameGrant(g)
      BY <2>1, <3>1, <3>2, <3>3 DEF SameGrant, Grant, TypeOK
    <3> QED
      BY <1>4, <3>2, <3>4 DEF AuthorizeGrantWrite, OnlyPrepares, TypeOK
  <2> QED
    BY <2>2, <2>3
<1>5. CASE BeginEnrollmentInsert(t)
  <2>1. ~thread[t].row.consumed
    BY <1>5 DEF BeginEnrollmentInsert, InFlight
  <2> QED
    BY <1>5, <2>1 DEF BeginEnrollmentInsert, OnlyPrepares, TypeOK
<1>6. \/ CompleteEnrollmentWrite(t) \/ UNCHANGED tables
      \/ RegisterBootstrapInsert(t) \/ CreateGrantInsert(t)
      \/ AuthorizeGrantWrite(t) \/ BeginEnrollmentInsert(t)
  BY DEF Handler, Abandon, RegisterBootstrapRead, CreateGrantRead, AuthorizeGrantRead,
         BeginEnrollmentRead, CompleteEnrollmentRead, Keep
<1> QED
  BY <1>1, <1>2, <1>3, <1>4, <1>5, <1>6

\* A challenge row never goes away and keeps its key.
LEMMA ChallengesStay ==
  ASSUME TypeOK, InFlight, [Next]_vars, NEW h \in Challenges, challenges[h] # NoRow
  PROVE  challenges'[h] # NoRow /\ challenges'[h].key = challenges[h].key
<1>1. CASE challenges' = challenges
  BY <1>1
<1>2. ASSUME NEW t \in Threads, Handler(t), ~CompleteEnrollmentWrite(t)
      PROVE  challenges'[h] = challenges[h]
  BY <1>2, OtherHandlersPrepare DEF OnlyPrepares
<1>3. ASSUME NEW t \in Threads, CompleteEnrollmentWrite(t), challenges' # challenges
      PROVE  challenges'[h] # NoRow /\ challenges'[h].key = challenges[h].key
  <2>1. PICK d \in Challenges :
          /\ challenges[d] \in Challenge
          /\ challenges' = [challenges EXCEPT ![d].consumed = TRUE]
    BY <1>3, CompleteCases DEF Commits, tables
  <2>2. challenges'[d] \in Challenge
    BY <2>1 DEF Challenge, TypeOK
  <2> QED
    BY <2>1, <2>2, NoRowIsNoRow DEF TypeOK, Challenge
<1> QED
  BY <1>1, <1>2, <1>3 DEF Next, OperatorEdits, Tick, tables, vars

LEMMA InFlightStep ==
  ASSUME TypeOK, InFlight, [Next]_vars
  PROVE  InFlight'
<1> SUFFICES ASSUME NEW t \in Threads
             PROVE  /\ thread'[t].op = "complete" =>
                         /\ challenges'[thread'[t].id] # NoRow
                         /\ challenges'[thread'[t].id].key \in HeldKeys
                    /\ thread'[t].op \in {"grant", "begin"} => ~thread'[t].row.consumed
                    /\ thread'[t].op = "register" => thread'[t].row.origin = "registered"
  BY DEF InFlight
<1>1. CASE thread'[t] = thread[t]
  <2>1. thread[t].op = "complete" => thread[t].id \in Challenges
    BY RequestKinds DEF TypeOK
  <2> QED
    BY <1>1, <2>1, ChallengesStay DEF InFlight
<1>2. CASE thread'[t] = Idle
  BY <1>2 DEF Idle
<1>3. ASSUME NEW r, Keep(t, r), Handler(t),
             /\ r.op = "complete" => challenges[r.id] # NoRow /\ challenges[r.id].key \in HeldKeys
             /\ r.op \in {"grant", "begin"} => ~r.row.consumed
             /\ r.op = "register" => r.row.origin = "registered"
      PROVE  /\ thread'[t].op = "complete" =>
                  /\ challenges'[thread'[t].id] # NoRow
                  /\ challenges'[thread'[t].id].key \in HeldKeys
             /\ thread'[t].op \in {"grant", "begin"} => ~thread'[t].row.consumed
             /\ thread'[t].op = "register" => thread'[t].row.origin = "registered"
  <2>1. thread'[t] = r /\ challenges' = challenges
    BY <1>3 DEF Keep, tables, TypeOK
  <2> QED
    BY <1>3, <2>1
<1>4. CASE Handler(t)
  <2>1. CASE RegisterBootstrapRead(t)
    BY <1>3, <1>4, <2>1 DEF RegisterBootstrapRead
  <2>2. CASE CreateGrantRead(t)
    BY <1>3, <1>4, <2>2 DEF CreateGrantRead
  <2>3. CASE BeginEnrollmentRead(t)
    BY <1>3, <1>4, <2>3 DEF BeginEnrollmentRead
  <2>4. CASE AuthorizeGrantRead(t)
    BY <1>3, <1>4, <2>4 DEF AuthorizeGrantRead
  <2>5. CASE CompleteEnrollmentRead(t)
    BY <1>3, <1>4, <2>5 DEF CompleteEnrollmentRead, Open
  <2>6. CASE Answer(t)
    BY <1>2, <2>6 DEF Answer, TypeOK
  <2> QED
    BY <1>4, <2>1, <2>2, <2>3, <2>4, <2>5, <2>6
    DEF Handler, Abandon, RegisterBootstrapInsert, CreateGrantInsert, AuthorizeGrantWrite,
        BeginEnrollmentInsert, CompleteEnrollmentWrite
<1>5. ASSUME NEW s \in Threads, s # t, Handler(s)
      PROVE  thread'[t] = thread[t]
  BY <1>5 DEF Handler, Abandon, RegisterBootstrapRead, RegisterBootstrapInsert,
    CreateGrantRead, CreateGrantInsert, AuthorizeGrantRead, AuthorizeGrantWrite,
    BeginEnrollmentRead, BeginEnrollmentInsert, CompleteEnrollmentRead,
    CompleteEnrollmentWrite, Keep, Answer, TypeOK
<1>6. CASE OperatorEdits \/ Tick \/ UNCHANGED vars
  BY <1>1, <1>6 DEF OperatorEdits, Tick, vars
<1> QED
  BY <1>1, <1>4, <1>5, <1>6 DEF Next

-----------------------------------------------------------------------------
\* The safety part of the invariant, and its parts about members.
Safe ==
  /\ SchemaAllows(members)
  /\ ControllerKeyAgrees
  /\ KeyPossessed
  /\ GrantOwned
  /\ GrantKeepsHome

LEMMA PrepareSafe ==
  ASSUME TypeOK, Safe, OnlyPrepares
  PROVE  Safe'
<1>1. members' = members /\ bootstraps \subseteq bootstraps'
  BY DEF OnlyPrepares
<1>2. SchemaAllows(members)' /\ ControllerKeyAgrees'
  BY <1>1 DEF Safe, SchemaAllows, ControllerKeyAgrees
<1>3. KeyPossessed'
  BY <1>1 DEF Safe, KeyPossessed, OnlyPrepares
<1>4. ASSUME NEW g \in Grants, grants'[g] # NoRow, grants'[g].consumed
      PROVE  /\ grants[g] # NoRow /\ grants[g].consumed
             /\ grants'[g].controller = grants[g].controller
             /\ grants'[g].inst = grants[g].inst
             /\ grants'[g].key = grants[g].key
  BY <1>4 DEF OnlyPrepares, SameGrant
<1>5. GrantOwned' /\ GrantKeepsHome'
  BY <1>1, <1>4 DEF Safe, GrantOwned, GrantKeepsHome, ControllerMembers
<1> QED
  BY <1>2, <1>3, <1>5 DEF Safe

LEMMA CommitSafe ==
  ASSUME TypeOK, InFlight, Safe, NEW t \in Threads, thread[t].op = "complete",
         NEW h \in Challenges, h = thread[t].id, NEW i \in Installations,
         challenges[h] \in Challenge, Commits(t, h, i)
  PROVE  Safe'
<1> DEFINE ch == challenges[h]
           mine == ControllerMembers(members, ch.controller)
           row == ControllerRow(i, ch.controller, ch.key)
           client == ClientRow(i, ch.client)
<1>1. /\ members' = MembersAfter(ch, i) /\ bootstraps' = BootstrapsAfter(ch)
      /\ IdentityUnchanged(ch) /\ GrantStillFits(ch, i) /\ SchemaAllows(MembersAfter(ch, i))
  BY DEF Commits, Completable
<1>2. ch.key \in HeldKeys
  BY DEF InFlight
<1>3. \A m \in members' : m.kind = "controller" => m \in members \/ (m = row /\ mine = {})
  BY <1>1 DEF MembersAfter, ClientRow
<1>4. members \subseteq members' /\ (mine = {} => row \in members')
  BY <1>1 DEF MembersAfter
<1>5. row.kind = "controller" /\ row.subject = ch.controller /\ row.key = ch.key /\ row.inst = i
  BY DEF ControllerRow
<1>6. SchemaAllows(members)'
  BY <1>1 DEF SchemaAllows
<1>7. bootstraps \subseteq bootstraps'
  BY <1>1 DEF BootstrapsAfter
<1>8. ControllerKeyAgrees'
  <2>1. \E b \in bootstraps' : b.controller = ch.controller /\ b.key = ch.key
    BY <1>1 DEF IdentityUnchanged
  <2> QED
    BY <1>3, <1>5, <1>7, <2>1 DEF Safe, ControllerKeyAgrees
<1>9. KeyPossessed'
  <2>1. \A b \in bootstraps' : b \in bootstraps \/ b.key = ch.key
    BY <1>1 DEF BootstrapsAfter
  <2> QED
    BY <1>2, <1>3, <1>5, <2>1 DEF Safe, KeyPossessed
<1>10. ASSUME NEW g \in Grants, grants'[g] # NoRow, grants'[g].consumed
       PROVE  /\ grants[g] # NoRow
              /\ grants'[g].controller = grants[g].controller
              /\ grants'[g].inst = grants[g].inst
              /\ grants'[g].key = grants[g].key
              /\ grants[g].consumed \/ (g = ch.grant /\ ch.grant # NoRow)
  <2>1. CASE g = ch.grant /\ ch.grant # NoRow
    <3>1. grants[g] \in Grant /\ grants[g] # NoRow
      BY <1>1, <2>1 DEF GrantStillFits, GrantUsable, TypeOK
    <3>2. grants' = [grants EXCEPT ![g].consumed = TRUE]
      BY <2>1 DEF Commits
    <3> QED
      BY <2>1, <3>1, <3>2 DEF TypeOK, Grant
  <2>2. CASE ~(g = ch.grant /\ ch.grant # NoRow)
    <3>1. grants'[g] = grants[g]
      BY <2>2 DEF Commits, TypeOK
    <3> QED
      BY <1>10, <3>1
  <2> QED
    BY <2>1, <2>2
<1>11. \A c \in Controllers :
         ControllerMembers(members', c) =
           IF mine = {} /\ c = ch.controller THEN {row} ELSE ControllerMembers(members, c)
  <2> SUFFICES ASSUME NEW c \in Controllers
               PROVE  ControllerMembers(members', c) =
                        IF mine = {} /\ c = ch.controller THEN {row}
                        ELSE ControllerMembers(members, c)
    OBVIOUS
  <2>1. CASE mine = {} /\ c = ch.controller
    BY <1>3, <1>4, <1>5, <2>1 DEF ControllerMembers
  <2>2. CASE ~(mine = {} /\ c = ch.controller)
    BY <1>3, <1>4, <1>5, <2>2 DEF ControllerMembers
  <2> QED
    BY <2>1, <2>2
<1>12. ASSUME NEW g \in Grants, grants'[g] # NoRow, grants'[g].consumed
       PROVE  /\ ControllerMembers(members', grants'[g].controller) # {}
              /\ \A m \in ControllerMembers(members', grants'[g].controller) :
                   m.inst = grants'[g].inst /\ m.key = grants'[g].key
  <2>1. /\ grants[g] \in Grant /\ grants[g] # NoRow
        /\ grants[g].controller \in Controllers
    BY <1>10, <1>12 DEF TypeOK, Grant
  <2>2. CASE grants[g].consumed
    <3>1. ControllerMembers(members, grants[g].controller) # {}
      BY <2>1, <2>2 DEF Safe, GrantOwned
    <3>2. ControllerMembers(members', grants[g].controller)
            = ControllerMembers(members, grants[g].controller)
      BY <1>11, <2>1, <3>1
    <3> QED
      BY <1>10, <1>12, <2>1, <2>2, <3>1, <3>2 DEF Safe, GrantKeepsHome
  <2>3. CASE g = ch.grant /\ ch.grant # NoRow
    <3>1. /\ grants[g].controller = ch.controller /\ grants[g].key = ch.key
          /\ \A m \in mine : m.inst = i /\ m.key = ch.key
      BY <1>1, <2>3 DEF GrantStillFits, GrantMatches
    <3>2. i = grants[g].inst
      BY <2>3 DEF Commits, Homes
    <3>3. /\ ControllerMembers(members', ch.controller) # {}
          /\ \A m \in ControllerMembers(members', ch.controller) : m.inst = i /\ m.key = ch.key
      BY <1>5, <1>11, <2>1, <3>1
    <3> QED
      BY <1>10, <1>12, <3>1, <3>2, <3>3
  <2> QED
    BY <1>10, <1>12, <2>2, <2>3
<1>13. GrantOwned' /\ GrantKeepsHome'
  BY <1>12 DEF GrantOwned, GrantKeepsHome
<1> QED
  BY <1>6, <1>8, <1>9, <1>13 DEF Safe

\* An edit of a member row that keeps who the member is keeps the invariant.
LEMMA MemberEditSafe ==
  ASSUME TypeOK, Safe, NEW m \in members, NEW r, r.inst = m.inst, r.kind = m.kind,
         r.subject = m.subject, r.key = m.key, members' = (members \ {m}) \cup {r},
         UNCHANGED <<bootstraps, grants>>
  PROVE  Safe'
<1>1. members' = (members \ {m}) \cup {r}
  OBVIOUS
<1>2. \A n \in members' : \E d \in members :
        /\ n.inst = d.inst /\ n.kind = d.kind /\ n.subject = d.subject /\ n.key = d.key
        /\ n = d \/ (d = m /\ n = r)
  BY <1>1
<1>3. SchemaAllows(members)'
  <2> SUFFICES ASSUME NEW n \in members', NEW o \in members', n # o
               PROVE  /\ ~(n.inst = o.inst /\ n.key = o.key)
                      /\ ~(n.inst = o.inst /\ n.kind = o.kind /\ n.subject = o.subject)
                      /\ ~(n.kind = "controller" /\ o.kind = "controller" /\ n.subject = o.subject)
    BY DEF SchemaAllows
  <2>1. PICK d \in members : /\ n.inst = d.inst /\ n.kind = d.kind
                             /\ n.subject = d.subject /\ n.key = d.key
                             /\ (n = d /\ n # m) \/ (d = m /\ n = r)
    BY <1>1
  <2>2. PICK e \in members : /\ o.inst = e.inst /\ o.kind = e.kind
                             /\ o.subject = e.subject /\ o.key = e.key
                             /\ (o = e /\ o # m) \/ (e = m /\ o = r)
    BY <1>1
  <2>3. d # e
    BY <2>1, <2>2
  <2> QED
    BY <2>1, <2>2, <2>3 DEF Safe, SchemaAllows
<1>4. ControllerKeyAgrees' /\ KeyPossessed'
  BY <1>2 DEF Safe, ControllerKeyAgrees, KeyPossessed
<1>5. ASSUME NEW g \in Grants, grants[g] # NoRow, grants[g].consumed
      PROVE  /\ ControllerMembers(members', grants[g].controller) # {}
             /\ \A n \in ControllerMembers(members', grants[g].controller) :
                  n.inst = grants[g].inst /\ n.key = grants[g].key
  <2>1. PICK d \in members : d.kind = "controller" /\ d.subject = grants[g].controller
    BY <1>5 DEF Safe, GrantOwned, ControllerMembers
  <2>2. \E n \in members' : n.kind = "controller" /\ n.subject = grants[g].controller
    BY <1>1, <2>1
  <2> QED
    BY <1>2, <1>5, <2>2 DEF Safe, GrantKeepsHome, ControllerMembers
<1>6. GrantOwned' /\ GrantKeepsHome'
  BY <1>5 DEF GrantOwned, GrantKeepsHome
<1> QED
  BY <1>3, <1>4, <1>6 DEF Safe

LEMMA RetireSafe ==
  ASSUME Safe, TypeOK, NEW b \in bootstraps,
         bootstraps' = (bootstraps \ {b}) \cup {[b EXCEPT !.active = FALSE]},
         UNCHANGED <<members, grants>>
  PROVE  Safe'
<1> DEFINE r == [b EXCEPT !.active = FALSE]
<1>1. r.controller = b.controller /\ r.key = b.key /\ r.origin = b.origin
  BY DEF TypeOK, Bootstrap
<1>2. ControllerKeyAgrees' /\ KeyPossessed'
  <2>1. bootstraps' = (bootstraps \ {b}) \cup {r}
    OBVIOUS
  <2> HIDE DEF r
  <2>2. ControllerKeyAgrees'
    BY <1>1, <2>1 DEF Safe, ControllerKeyAgrees
  <2>3. KeyPossessed'
    BY <1>1, <2>1 DEF Safe, KeyPossessed
  <2> QED
    BY <2>2, <2>3
<1>3. GrantOwned' /\ GrantKeepsHome' /\ SchemaAllows(members)'
  BY DEF Safe, GrantOwned, GrantKeepsHome, ControllerMembers, SchemaAllows
<1> QED
  BY <1>2, <1>3 DEF Safe

LEMMA UnchangedSafe ==
  ASSUME Safe, UNCHANGED <<bootstraps, members, grants>>
  PROVE  Safe'
BY DEF Safe, SchemaAllows, ControllerKeyAgrees, KeyPossessed, GrantOwned, GrantKeepsHome,
       ControllerMembers

LEMMA SafeStep ==
  ASSUME TypeOK, InFlight, Safe, [Next]_vars
  PROVE  Safe'
<1>1. ASSUME NEW t \in Threads, Handler(t)
      PROVE  Safe'
  <2>1. CASE OnlyPrepares
    BY <2>1, PrepareSafe
  <2>2. CASE UNCHANGED tables
    BY <2>2, UnchangedSafe DEF tables
  <2>3. CASE CompleteEnrollmentWrite(t) /\ ~UNCHANGED tables
    <3>1. PICK i \in Installations :
            /\ Commits(t, thread[t].id, i)
            /\ thread[t].id \in Challenges
            /\ challenges[thread[t].id] \in Challenge
      BY <2>3, CompleteCases
    <3>2. thread[t].op = "complete"
      BY <2>3 DEF CompleteEnrollmentWrite
    <3> QED
      BY <3>1, <3>2, CommitSafe
  <2> QED
    BY <1>1, <2>1, <2>2, <2>3, OtherHandlersPrepare
<1>2. CASE OperatorEdits
  <2>1. CASE OperatorRevokes
    <3>1. PICK m \in members : members' = (members \ {m}) \cup {Revoked(m)}
      BY <2>1 DEF OperatorRevokes
    <3>2. /\ Revoked(m).inst = m.inst /\ Revoked(m).kind = m.kind
          /\ Revoked(m).subject = m.subject /\ Revoked(m).key = m.key
      BY DEF Revoked, TypeOK, Member
    <3> QED
      BY <1>2, <2>1, <3>1, <3>2, MemberEditSafe DEF OperatorRevokes, OperatorEdits
  <2>4. CASE OperatorDemotes
    <3>1. PICK m \in members : members' = (members \ {m}) \cup {Demoted(m)}
      BY <2>4 DEF OperatorDemotes
    <3>2. /\ Demoted(m).inst = m.inst /\ Demoted(m).kind = m.kind
          /\ Demoted(m).subject = m.subject /\ Demoted(m).key = m.key
      BY DEF Demoted, TypeOK, Member
    <3> QED
      BY <1>2, <2>4, <3>1, <3>2, MemberEditSafe DEF OperatorDemotes, OperatorEdits
  <2>2. CASE OperatorDeactivates
    BY <1>2, <2>2, UnchangedSafe DEF OperatorDeactivates, OperatorEdits
  <2>3. CASE OperatorRetires
    BY <1>2, <2>3, RetireSafe DEF OperatorRetires, OperatorEdits
  <2> QED
    BY <1>2, <2>1, <2>2, <2>3, <2>4 DEF OperatorEdits
<1>3. CASE Tick \/ UNCHANGED vars
  BY <1>3, UnchangedSafe DEF Tick, vars, tables
<1> QED
  BY <1>1, <1>2, <1>3 DEF Next

LEMMA InitSafe == Init => InFlight /\ Safe
BY DEF Init, InFlight, Idle, Safe, SchemaAllows, ControllerKeyAgrees, KeyPossessed,
       GrantOwned, GrantKeepsHome

LEMMA InvStep == IInv /\ [Next]_vars => IInv'
<1> SUFFICES ASSUME IInv, [Next]_vars PROVE IInv'
  OBVIOUS
<1>1. TypeOK /\ InFlight /\ Safe
  BY DEF IInv, Safe
<1>2. TypeOK' /\ InFlight' /\ Safe'
  BY <1>1, StepTyped, InFlightStep, SafeStep
<1> QED
  BY <1>2 DEF IInv, Safe

LEMMA Invariance == Spec => []IInv
<1>1. Init => IInv
  BY InitTyped, InitSafe DEF IInv, Safe
<1> QED
  BY <1>1, InvStep, PTL DEF Spec

\* A controller member is always the controller its bootstrap pins: retrofit
\* enrollments with different keys, registrations and grants cannot leave a
\* member whose key its bootstrap does not name.
THEOREM IdentityPinned == Spec => []ControllerKeyAgrees
BY Invariance, PTL DEF IInv

\* Only a key that can sign becomes a controller member or is pinned by an enrollment.
THEOREM SignedIdentity == Spec => []KeyPossessed
BY Invariance, PTL DEF IInv

\* A spent grant's controller is a member of the grant's installation, with the
\* key the authorizer approved, for as long as the database lives.
THEOREM GrantHome == Spec => []GrantKeepsHome
BY Invariance, PTL DEF IInv

-----------------------------------------------------------------------------
(* What one step may do, and that Enrollment implements Membership. *)

\* A step either commits one completion or spends nothing and leaves the member
\* table and the audit trail to the operator.
LEMMA StepCases ==
  ASSUME IInv, [Next]_vars
  PROVE  \/ \E t \in Threads, h \in Challenges, i \in Installations :
              challenges[h] \in Challenge /\ Commits(t, h, i) /\ UNCHANGED clock
         \/ OnlyPrepares
         \/ OperatorEdits
         \/ UNCHANGED tables
<1>1. ASSUME NEW t \in Threads, Handler(t), ~OnlyPrepares
      PROVE  \/ \E h \in Challenges, i \in Installations :
                  challenges[h] \in Challenge /\ Commits(t, h, i) /\ UNCHANGED clock
             \/ UNCHANGED tables
  <2>1. CompleteEnrollmentWrite(t)
    BY <1>1, OtherHandlersPrepare DEF IInv
  <2>2. UNCHANGED clock
    BY <2>1 DEF CompleteEnrollmentWrite, Answer
  <2> QED
    BY <2>1, <2>2, CompleteCases DEF IInv
<1> QED
  BY <1>1 DEF Next, Tick, vars

\* The member table a commit leaves holds a live controller and a live client.
LEMMA CommitEnrollsLive ==
  ASSUME IInv, NEW t \in Threads, NEW h \in Challenges, NEW i \in Installations,
         challenges[h] \in Challenge, Commits(t, h, i)
  PROVE  /\ clock < challenges[h].expires
         /\ installations'[i] = "active"
         /\ \E m \in ControllerMembers(members', challenges[h].controller) :
              m.inst = i /\ ~m.revoked
         /\ \E m \in ClientMembers(members', i, challenges[h].client) : ~m.revoked
<1> DEFINE ch == challenges[h]
           mine == ControllerMembers(members, ch.controller)
<1>1. /\ members' = MembersAfter(ch, i) /\ i \in Homes(ch)
      /\ Open(h) /\ GrantStillFits(ch, i) /\ NobodyRevoked(ch, i)
      /\ installations' = IF CreatesInstallation(ch)
                          THEN [installations EXCEPT ![i] = "active"] ELSE installations
  BY DEF Commits, Completable
<1>2. installations'[i] = "active"
  <2>1. CASE mine # {}
    BY <1>1, <2>1 DEF CreatesInstallation, NobodyRevoked
  <2>2. CASE mine = {} /\ ch.grant = NoRow
    BY <1>1, <2>2 DEF CreatesInstallation, IInv, TypeOK
  <2>3. CASE mine = {} /\ ch.grant # NoRow
    <3>1. i = grants[ch.grant].inst
      BY <1>1, <2>3 DEF Homes
    <3>2. installations[i] = "active"
      BY <1>1, <2>3, <3>1 DEF GrantStillFits, GrantUsable, ActiveAdmin, ActiveAdminMember
    <3> QED
      BY <1>1, <2>3, <3>2 DEF CreatesInstallation
  <2> QED
    BY <2>1, <2>2, <2>3
<1>3. \E m \in ControllerMembers(members', ch.controller) : m.inst = i /\ ~m.revoked
  <2>1. CASE mine = {}
    <3> DEFINE row == ControllerRow(i, ch.controller, ch.key)
    <3>1. row \in members'
      BY <1>1, <2>1 DEF MembersAfter
    <3>2. row.kind = "controller" /\ row.subject = ch.controller /\ row.inst = i /\ ~row.revoked
      BY DEF ControllerRow
    <3> QED
      BY <3>1, <3>2 DEF ControllerMembers
  <2>2. CASE mine # {}
    <3>1. \E m \in mine : m.inst = i
      BY <1>1, <2>2 DEF Homes, CreatesInstallation, GrantStillFits
    <3> QED
      BY <1>1, <3>1 DEF NobodyRevoked, ControllerMembers, MembersAfter
  <2> QED
    BY <2>1, <2>2
<1>4. \E m \in ClientMembers(members', i, ch.client) : ~m.revoked
  <2>1. CASE ClientMembers(members, i, ch.client) = {}
    <3> DEFINE row == ClientRow(i, ch.client)
    <3>1. row \in members'
      BY <1>1, <2>1 DEF MembersAfter
    <3>2. row.kind = "client" /\ row.inst = i /\ row.key = ch.client /\ ~row.revoked
      BY DEF ClientRow
    <3> QED
      BY <3>1, <3>2 DEF ClientMembers
  <2>2. CASE ClientMembers(members, i, ch.client) # {}
    BY <1>1, <2>2 DEF NobodyRevoked, ClientMembers, MembersAfter
  <2> QED
    BY <2>1, <2>2
<1> QED
  BY <1>1, <1>2, <1>3, <1>4 DEF Open

\* Only a commit of its own spends a challenge or a grant.
LEMMA SpendersCommit ==
  ASSUME IInv, [Next]_vars
  PROVE  /\ \A d \in Challenges : Spends(d) =>
              \E t \in Threads, i \in Installations :
                challenges[d] \in Challenge /\ Commits(t, d, i)
         /\ \A g \in Grants : SpendsGrant(g) =>
              \E t \in Threads, h \in Challenges, i \in Installations :
                Commits(t, h, i) /\ challenges[h].grant = g
<1>1. CASE OnlyPrepares
  BY <1>1 DEF OnlyPrepares, SameGrant, Spends, SpendsGrant
<1>2. CASE OperatorEdits \/ UNCHANGED tables
  BY <1>2 DEF OperatorEdits, tables, Spends, SpendsGrant
<1>3. ASSUME NEW t \in Threads, NEW h \in Challenges, NEW i \in Installations,
             challenges[h] \in Challenge, Commits(t, h, i)
      PROVE  /\ \A d \in Challenges : Spends(d) => d = h
             /\ \A g \in Grants : SpendsGrant(g) => challenges[h].grant = g
  BY <1>3 DEF Commits, Spends, SpendsGrant, IInv, TypeOK
<1> QED
  BY <1>1, <1>2, <1>3, StepCases

\* Every completed enrollment names a live controller and a live client of an
\* active installation, in time, at the step that commits it.
THEOREM EnrollsLive == Spec => EnrollsLiveMembers
<1>1. ASSUME IInv, [Next]_vars, NEW d \in Challenges, Spends(d)
      PROVE  /\ clock < challenges[d].expires
             /\ \E i \in Installations :
                  /\ installations'[i] = "active"
                  /\ \E m \in ControllerMembers(members', challenges[d].controller) :
                       m.inst = i /\ ~m.revoked
                  /\ \E m \in ClientMembers(members', i, challenges[d].client) : ~m.revoked
  BY <1>1, SpendersCommit, CommitEnrollsLive
<1>2. IInv /\ [Next]_vars =>
        [\A h \in Challenges : Spends(h) =>
           /\ clock < challenges[h].expires
           /\ \E i \in Installations :
                /\ installations'[i] = "active"
                /\ \E m \in ControllerMembers(members', challenges[h].controller) :
                     m.inst = i /\ ~m.revoked
                /\ \E m \in ClientMembers(members', i, challenges[h].client) : ~m.revoked]_vars
  BY <1>1
<1> QED
  BY <1>2, Invariance, PTL DEF Spec, EnrollsLiveMembers

\* A grant is spent in its time, approved, by a client still an administrator.
THEOREM GrantSpent == Spec => GrantSpentByAdmin
<1>1. ASSUME IInv, [Next]_vars, NEW g \in Grants, SpendsGrant(g)
      PROVE  /\ grants[g].authorized /\ clock < grants[g].expires
             /\ ActiveAdmin(grants[g].inst, grants[g].authorizer)
  <2>1. PICK t \in Threads, h \in Challenges, i \in Installations :
          Commits(t, h, i) /\ challenges[h].grant = g
    BY <1>1, SpendersCommit
  <2>2. GrantUsable(g)
    BY <1>1, <2>1, NoRowIsNoRow DEF Commits, Completable, GrantStillFits
  <2> QED
    BY <2>2 DEF GrantUsable
<1>2. IInv /\ [Next]_vars =>
        [\A g \in Grants : SpendsGrant(g) =>
           /\ grants[g].authorized /\ clock < grants[g].expires
           /\ ActiveAdmin(grants[g].inst, grants[g].authorizer)]_vars
  BY <1>1
<1> QED
  BY <1>2, Invariance, PTL DEF Spec, GrantSpentByAdmin
-----------------------------------------------------------------------------
ChallengeMarks(h) == {n \in DOMAIN audit : audit[n].challenge = h}
GrantMarks(g) == {n \in DOMAIN audit : audit[n].grant = g}

\* The audit entry of a commit counts once for its challenge and its grant.
LEMMA MarksAppend ==
  ASSUME audit \in Seq(AuditEvent), NEW e \in AuditEvent, audit' = Append(audit, e)
  PROVE  /\ \A h \in Challenges :
              Cardinality(ChallengeMarks(h)') =
                Cardinality(ChallengeMarks(h)) + (IF e.challenge = h THEN 1 ELSE 0)
         /\ \A g \in Grants :
              Cardinality(GrantMarks(g)') =
                Cardinality(GrantMarks(g)) + (IF e.grant = g THEN 1 ELSE 0)
<1> DEFINE k == Len(audit) + 1
<1>1. /\ Len(audit) \in Nat /\ DOMAIN audit = 1..Len(audit) /\ DOMAIN audit' = 1..k
      /\ \A n \in 1..Len(audit) : audit'[n] = audit[n]
      /\ audit'[k] = e
  OBVIOUS
<1>2. IsFiniteSet(1..Len(audit)) /\ k \notin 1..Len(audit)
  BY <1>1, FS_Interval
<1>3. ASSUME NEW h \in Challenges
      PROVE  Cardinality(ChallengeMarks(h)') =
               Cardinality(ChallengeMarks(h)) + (IF e.challenge = h THEN 1 ELSE 0)
  <2>1. ChallengeMarks(h) \subseteq 1..Len(audit)
    BY <1>1 DEF ChallengeMarks
  <2>2. /\ IsFiniteSet(ChallengeMarks(h)) /\ k \notin ChallengeMarks(h)
        /\ Cardinality(ChallengeMarks(h)) \in Nat
    BY <1>2, <2>1, FS_Subset, FS_CardinalityType
  <2>3. ChallengeMarks(h)' =
          IF e.challenge = h THEN ChallengeMarks(h) \cup {k} ELSE ChallengeMarks(h)
    BY <1>1 DEF ChallengeMarks
  <2> HIDE DEF k
  <2>4. CASE e.challenge = h
    BY <2>2, <2>3, <2>4, FS_AddElement
  <2>5. CASE e.challenge # h
    BY <2>2, <2>3, <2>5
  <2> QED
    BY <2>4, <2>5
<1>4. ASSUME NEW g \in Grants
      PROVE  Cardinality(GrantMarks(g)') =
               Cardinality(GrantMarks(g)) + (IF e.grant = g THEN 1 ELSE 0)
  <2>1. GrantMarks(g) \subseteq 1..Len(audit)
    BY <1>1 DEF GrantMarks
  <2>2. /\ IsFiniteSet(GrantMarks(g)) /\ k \notin GrantMarks(g)
        /\ Cardinality(GrantMarks(g)) \in Nat
    BY <1>2, <2>1, FS_Subset, FS_CardinalityType
  <2>3. GrantMarks(g)' = IF e.grant = g THEN GrantMarks(g) \cup {k} ELSE GrantMarks(g)
    BY <1>1 DEF GrantMarks
  <2> HIDE DEF k
  <2>4. CASE e.grant = g
    BY <2>2, <2>3, <2>4, FS_AddElement
  <2>5. CASE e.grant # g
    BY <2>2, <2>3, <2>5
  <2> QED
    BY <2>4, <2>5
<1> QED
  BY <1>3, <1>4

SpentChallenge(h) == challenges[h] # NoRow /\ challenges[h].consumed
SpentGrant(g) == grants[g] # NoRow /\ grants[g].consumed

Counted ==
  /\ \A h \in Challenges :
       Cardinality(ChallengeMarks(h)) = IF SpentChallenge(h) THEN 1 ELSE 0
  /\ \A g \in Grants :
       Cardinality(GrantMarks(g)) = IF SpentGrant(g) THEN 1 ELSE 0

LEMMA CommitCounted ==
  ASSUME IInv, Counted, NEW t \in Threads, NEW h \in Challenges, NEW i \in Installations,
         challenges[h] \in Challenge, Commits(t, h, i)
  PROVE  Counted'
<1> DEFINE ch == challenges[h]
           e == [type |-> EventType(ch), inst |-> i, challenge |-> h, grant |-> ch.grant]
<1>1. e \in AuditEvent
  BY DEF AuditEvent, Challenge, EventType
<1>2. audit' = Append(audit, e) /\ audit \in Seq(AuditEvent)
  BY DEF Commits, IInv, TypeOK
<1>3. e.challenge = h /\ e.grant = ch.grant
  OBVIOUS
<1>4. ~SpentChallenge(h) /\ Open(h) /\ GrantStillFits(ch, i)
  BY DEF Commits, Completable, Open, SpentChallenge
<1>5. \A d \in Challenges :
        SpentChallenge(d)' = IF d = h THEN TRUE ELSE SpentChallenge(d)
  <2>1. challenges'[h] \in Challenge /\ challenges'[h].consumed
    BY DEF Commits, IInv, TypeOK, Challenge
  <2> QED
    BY <2>1, NoRowIsNoRow DEF Commits, IInv, TypeOK, SpentChallenge
<1>6. ch.grant # NoRow => ~SpentGrant(ch.grant)
  BY <1>4 DEF GrantStillFits, GrantUsable, SpentGrant
<1>7. \A g \in Grants :
        SpentGrant(g)' = IF g = ch.grant THEN TRUE ELSE SpentGrant(g)
  <2>1. CASE ch.grant = NoRow
    BY <2>1, NoRowIsNoRow DEF Commits, SpentGrant
  <2>2. CASE ch.grant # NoRow
    <3>1. ch.grant \in Grants /\ grants[ch.grant] \in Grant
      BY <1>4, <2>2 DEF GrantStillFits, GrantUsable, IInv, TypeOK, Challenge
    <3>2. grants'[ch.grant] \in Grant /\ grants'[ch.grant].consumed
      BY <2>2, <3>1 DEF Commits, IInv, TypeOK, Grant
    <3> QED
      BY <2>2, <3>2, NoRowIsNoRow DEF Commits, IInv, TypeOK, SpentGrant
  <2> QED
    BY <2>1, <2>2
<1> HIDE DEF e
<1>8. /\ \A d \in Challenges : Cardinality(ChallengeMarks(d)') =
            Cardinality(ChallengeMarks(d)) + (IF h = d THEN 1 ELSE 0)
      /\ \A g \in Grants : Cardinality(GrantMarks(g)') =
            Cardinality(GrantMarks(g)) + (IF ch.grant = g THEN 1 ELSE 0)
  BY <1>1, <1>2, <1>3, MarksAppend
<1>9. ASSUME NEW d \in Challenges
      PROVE  Cardinality(ChallengeMarks(d)') = IF SpentChallenge(d)' THEN 1 ELSE 0
  <2>1. CASE d = h
    <3>1. ~SpentChallenge(d) /\ SpentChallenge(d)'
      BY <1>4, <1>5, <2>1
    <3> QED
      BY <1>8, <2>1, <3>1 DEF Counted
  <2>2. CASE d # h
    <3>1. SpentChallenge(d)' = SpentChallenge(d)
      BY <1>5, <2>2
    <3>2. CASE SpentChallenge(d)
      BY <1>8, <2>2, <3>1, <3>2 DEF Counted
    <3>3. CASE ~SpentChallenge(d)
      BY <1>8, <2>2, <3>1, <3>3 DEF Counted
    <3> QED
      BY <3>2, <3>3
  <2> QED
    BY <2>1, <2>2
<1>10. ASSUME NEW g \in Grants
       PROVE  Cardinality(GrantMarks(g)') = IF SpentGrant(g)' THEN 1 ELSE 0
  <2>1. CASE g = ch.grant
    <3>1. ~SpentGrant(g) /\ SpentGrant(g)'
      BY <1>6, <1>7, <2>1, NoRowIsNoRow
    <3> QED
      BY <1>8, <2>1, <3>1 DEF Counted
  <2>2. CASE g # ch.grant
    <3>1. SpentGrant(g)' = SpentGrant(g)
      BY <1>7, <2>2
    <3>2. CASE SpentGrant(g)
      BY <1>8, <2>2, <3>1, <3>2 DEF Counted
    <3>3. CASE ~SpentGrant(g)
      BY <1>8, <2>2, <3>1, <3>3 DEF Counted
    <3> QED
      BY <3>2, <3>3
  <2> QED
    BY <2>1, <2>2
<1> QED
  BY <1>9, <1>10 DEF Counted

LEMMA CountedStep ==
  ASSUME IInv, Counted, [Next]_vars
  PROVE  Counted'
<1>1. CASE OnlyPrepares
  <2>1. \A h \in Challenges : SpentChallenge(h)' = SpentChallenge(h)
    BY <1>1 DEF OnlyPrepares, SpentChallenge
  <2>2. \A g \in Grants : SpentGrant(g)' = SpentGrant(g)
    BY <1>1 DEF OnlyPrepares, SpentGrant, SameGrant
  <2> QED
    BY <1>1, <2>1, <2>2 DEF OnlyPrepares, Counted, ChallengeMarks, GrantMarks
<1>2. CASE UNCHANGED <<challenges, grants, audit>>
  BY <1>2 DEF Counted, ChallengeMarks, GrantMarks, SpentChallenge, SpentGrant
<1> QED
  BY <1>1, <1>2, StepCases, CommitCounted DEF OperatorEdits, tables

\* A challenge or grant is spent at most once, and the audit trail says so.
THEOREM SingleUse == Spec => []SpentOnce
<1>1. Init => Counted
  <2> SUFFICES ASSUME Init PROVE Counted
    OBVIOUS
  <2>1. \A h \in Challenges : ChallengeMarks(h) = {} /\ ~SpentChallenge(h)
    BY DEF Init, ChallengeMarks, SpentChallenge
  <2>2. \A g \in Grants : GrantMarks(g) = {} /\ ~SpentGrant(g)
    BY DEF Init, GrantMarks, SpentGrant
  <2> QED
    BY <2>1, <2>2, FS_EmptySet DEF Counted
<1>2. Counted => SpentOnce
  BY DEF Counted, SpentOnce, ChallengeMarks, GrantMarks, SpentChallenge, SpentGrant
<1>3. IInv /\ Counted /\ [Next]_vars => Counted'
  BY CountedStep
<1> QED
  BY <1>1, <1>2, <1>3, Invariance, PTL DEF Spec

-----------------------------------------------------------------------------
\* What the mapping to Membership rests on beside IInv: an installation id not
\* yet used has no members, one that was used has a controller.
Founded ==
  /\ \A m \in members : installations[m.inst] # "absent"
  /\ \A i \in Installations : installations[i] # "absent" =>
       \E m \in members : m.kind = "controller" /\ m.inst = i

LEMMA OwnerIs ==
  ASSUME SchemaAllows(members), NEW m \in members, m.kind = "controller"
  PROVE  OwnerOf(m.subject) = m.inst
<1>1. m \in ControllerMembers(members, m.subject)
  BY DEF ControllerMembers
<1>2. \A n \in ControllerMembers(members, m.subject) : n = m
  BY DEF ControllerMembers, SchemaAllows
<1> QED
  BY <1>1, <1>2 DEF OwnerOf, HomeOf

\* OwnerOf, PairsOf and the revoked rows before and after a commit.
LEMMA CommitMaps ==
  ASSUME IInv, Founded, NEW t \in Threads, NEW h \in Challenges, NEW i \in Installations,
         challenges[h] \in Challenge, Commits(t, h, i)
  PROVE  LET c == challenges[h].controller
             k == challenges[h].client
             mine == ControllerMembers(members, c)
         IN /\ \A d \in Controllers :
                 OwnerOf(d)' = IF mine = {} /\ d = c THEN i ELSE OwnerOf(d)
            /\ mine = {} => OwnerOf(c) = NoRow
            /\ mine # {} => OwnerOf(c) = i
            /\ PairsOf(members)' = PairsOf(members) \cup {<<i, k>>}
            /\ RevokedRows' = RevokedRows
            /\ \A n \in RevokedRows : ~(n.kind = "controller" /\ n.subject = c)
            /\ <<i, k>> \notin PairsOf(RevokedRows)
<1> DEFINE ch == challenges[h]
           c == ch.controller
           k == ch.client
           mine == ControllerMembers(members, c)
           row == ControllerRow(i, c, ch.key)
           client == ClientRow(i, k)
<1>1. /\ members' = MembersAfter(ch, i) /\ i \in Homes(ch)
      /\ GrantStillFits(ch, i) /\ NobodyRevoked(ch, i)
  BY DEF Commits, Completable
<1>2. SchemaAllows(members) /\ SchemaAllows(members)'
  BY InvStep DEF IInv, Commits, Completable, SchemaAllows
<1>3. /\ row.kind = "controller" /\ row.subject = c /\ row.inst = i /\ ~row.revoked
      /\ client.kind = "client" /\ client.inst = i /\ client.key = k /\ ~client.revoked
  BY DEF ControllerRow, ClientRow
<1> HIDE DEF row, client
<1>4. members' = members \cup (IF mine = {} THEN {row} ELSE {})
                         \cup (IF ClientMembers(members, i, k) = {} THEN {client} ELSE {})
  BY <1>1 DEF MembersAfter, row, client
<1>5. ASSUME NEW d \in Controllers
      PROVE  ControllerMembers(members', d) =
               IF mine = {} /\ d = c THEN {row} ELSE ControllerMembers(members, d)
  <2>1. CASE mine = {} /\ d = c
    BY <1>3, <1>4, <2>1 DEF ControllerMembers
  <2>2. CASE ~(mine = {} /\ d = c)
    BY <1>3, <1>4, <2>2 DEF ControllerMembers
  <2> QED
    BY <2>1, <2>2
<1>6. ASSUME NEW d \in Controllers
      PROVE  OwnerOf(d)' = IF mine = {} /\ d = c THEN i ELSE OwnerOf(d)
  <2>1. CASE mine = {} /\ d = c
    <3>1. HomeOf({row}) = i
      BY <1>3 DEF HomeOf
    <3> QED
      BY <1>5, <2>1, <3>1 DEF OwnerOf
  <2>2. CASE ~(mine = {} /\ d = c)
    BY <1>5, <2>2 DEF OwnerOf
  <2> QED
    BY <2>1, <2>2
<1>7. (mine = {} => OwnerOf(c) = NoRow) /\ (mine # {} => OwnerOf(c) = i)
  <2>1. CASE mine = {}
    BY <2>1 DEF OwnerOf, HomeOf
  <2>2. CASE mine # {}
    <3>1. PICK m \in mine : m.inst = i
      BY <1>1, <2>2 DEF Homes, CreatesInstallation, GrantStillFits
    <3>2. m \in members /\ m.kind = "controller" /\ m.subject = c
      BY DEF ControllerMembers
    <3> QED
      BY <1>2, <2>2, <3>1, <3>2, OwnerIs
  <2> QED
    BY <2>1, <2>2
<1>8. PairsOf(members)' = PairsOf(members) \cup {<<i, k>>}
  <2>1. CASE ClientMembers(members, i, k) = {}
    BY <1>3, <1>4, <2>1 DEF PairsOf
  <2>2. CASE ClientMembers(members, i, k) # {}
    <3>1. <<i, k>> \in PairsOf(members)
      BY <2>2 DEF PairsOf, ClientMembers
    <3> QED
      BY <1>3, <1>4, <2>2, <3>1 DEF PairsOf
  <2> QED
    BY <2>1, <2>2
<1>9. RevokedRows' = RevokedRows
  BY <1>3, <1>4 DEF RevokedRows
<1>10. \A n \in RevokedRows : ~(n.kind = "controller" /\ n.subject = c)
  BY <1>1 DEF NobodyRevoked, RevokedRows, ControllerMembers
<1>11. <<i, k>> \notin PairsOf(RevokedRows)
  BY <1>1 DEF NobodyRevoked, PairsOf, RevokedRows, ClientMembers
<1> QED
  BY <1>6, <1>7, <1>8, <1>9, <1>10, <1>11

LEMMA FoundedInit == Init => Founded
BY DEF Init, Founded

LEMMA FoundedStep ==
  ASSUME IInv, Founded, [Next]_vars
  PROVE  Founded'
<1>1. ASSUME NEW t \in Threads, NEW h \in Challenges, NEW i \in Installations,
             challenges[h] \in Challenge, Commits(t, h, i)
      PROVE  Founded'
  <2> DEFINE ch == challenges[h]
  <2>1. /\ members' = MembersAfter(ch, i)
        /\ installations' = IF CreatesInstallation(ch)
                            THEN [installations EXCEPT ![i] = "active"] ELSE installations
        /\ installations \in [Installations -> InstallationStatus]
    BY <1>1 DEF Commits, IInv, TypeOK
  <2>2. installations'[i] = "active"
    BY <1>1, CommitEnrollsLive
  <2>3. \A m \in members' : m \in members \/ m.inst = i
    BY <2>1 DEF MembersAfter, ControllerRow, ClientRow
  <2>4. \A j \in Installations :
          installations'[j] # installations[j] =>
            j = i /\ ControllerMembers(members, ch.controller) = {}
    BY <2>1 DEF CreatesInstallation
  <2>5. ControllerMembers(members, ch.controller) = {} =>
          \E m \in members' : m.kind = "controller" /\ m.inst = i
    <3> DEFINE row == ControllerRow(i, ch.controller, ch.key)
    <3>1. row.kind = "controller" /\ row.inst = i
      BY DEF ControllerRow
    <3>2. ControllerMembers(members, ch.controller) = {} => row \in members'
      BY <2>1 DEF MembersAfter
    <3> QED
      BY <3>1, <3>2
  <2>6. members \subseteq members' /\ members \subseteq Member
    BY <2>1 DEF MembersAfter, IInv, TypeOK
  <2>7. \A m \in members' : installations'[m.inst] # "absent"
    <3> SUFFICES ASSUME NEW m \in members' PROVE installations'[m.inst] # "absent"
      OBVIOUS
    <3>1. CASE m \in members /\ m.inst # i
      BY <2>1, <2>4, <2>6, <3>1 DEF Founded, Member
    <3>2. CASE m.inst = i
      BY <2>2, <3>2
    <3> QED
      BY <2>3, <3>1, <3>2
  <2>8. \A j \in Installations : installations'[j] # "absent" =>
          \E m \in members' : m.kind = "controller" /\ m.inst = j
    BY <2>4, <2>5, <2>6 DEF Founded
  <2> QED
    BY <2>7, <2>8 DEF Founded
<1>2. CASE UNCHANGED <<installations, members>>
  BY <1>2 DEF Founded
<1>3. CASE OperatorEdits
  <2>1. CASE OperatorRevokes
    <3>1. PICK m \in members : members' = (members \ {m}) \cup {Revoked(m)}
      BY <2>1 DEF OperatorRevokes
    <3>2. Revoked(m).inst = m.inst /\ Revoked(m).kind = m.kind
      BY DEF Revoked, IInv, TypeOK, Member
    <3>3. installations' = installations
      BY <2>1 DEF OperatorRevokes
    <3> QED
      BY <3>1, <3>2, <3>3 DEF Founded
  <2>2. CASE OperatorDeactivates
    <3>1. \A j \in Installations : (installations'[j] = "absent") <=> (installations[j] = "absent")
      BY <2>2 DEF OperatorDeactivates, IInv, TypeOK
    <3>2. members' = members
      BY <2>2 DEF OperatorDeactivates
    <3>3. \A m \in members : m.inst \in Installations
      BY DEF IInv, TypeOK, Member
    <3> QED
      BY <3>1, <3>2, <3>3 DEF Founded
  <2>3. CASE OperatorRetires
    BY <1>2, <2>3 DEF OperatorRetires
  <2>4. CASE OperatorDemotes
    <3>1. PICK m \in members : members' = (members \ {m}) \cup {Demoted(m)}
      BY <2>4 DEF OperatorDemotes
    <3>2. Demoted(m).inst = m.inst /\ Demoted(m).kind = m.kind
      BY DEF Demoted, IInv, TypeOK, Member
    <3>3. installations' = installations
      BY <2>4 DEF OperatorDemotes
    <3> QED
      BY <3>1, <3>2, <3>3 DEF Founded
  <2> QED
    BY <1>3, <2>1, <2>2, <2>3, <2>4 DEF OperatorEdits
<1> QED
  BY <1>1, <1>2, <1>3, StepCases DEF OnlyPrepares, tables

-----------------------------------------------------------------------------
aowner == [c \in Controllers |-> OwnerOf(c)]
aexpelled == {m.subject : m \in {n \in RevokedRows : n.kind = "controller"}}
asuspended == {i \in Installations : installations[i] = "inactive"}
aclients == PairsOf(members)
abarred == PairsOf(RevokedRows)

LEMMA InitMaps == Init => Promise!AInit
<1> SUFFICES ASSUME Init PROVE Promise!AInit
  OBVIOUS
<1>1. members = {} /\ RevokedRows = {}
  BY DEF Init, RevokedRows
<1>2. PairsOf(members) = {} /\ PairsOf(RevokedRows) = {}
  BY <1>1 DEF PairsOf
<1>3. \A c \in Controllers : OwnerOf(c) = NoRow
  BY <1>1 DEF OwnerOf, HomeOf, ControllerMembers
<1>4. asuspended = {} /\ aexpelled = {}
  BY <1>1 DEF Init, asuspended, aexpelled
<1> QED
  BY <1>2, <1>3, <1>4 DEF Promise!AInit, asuspended, aexpelled

\* A commit founds an installation, adds a controller, or admits a client.
LEMMA CommitKeeps ==
  ASSUME IInv, Founded, NEW t \in Threads, NEW h \in Challenges, NEW i \in Installations,
         challenges[h] \in Challenge, Commits(t, h, i)
  PROVE  Promise!ANext
<1> DEFINE ch == challenges[h]
           c == ch.controller
           k == ch.client
           mine == ControllerMembers(members, c)
<1>1. /\ \A d \in Controllers : OwnerOf(d)' = IF mine = {} /\ d = c THEN i ELSE OwnerOf(d)
      /\ mine = {} => OwnerOf(c) = NoRow
      /\ mine # {} => OwnerOf(c) = i
      /\ PairsOf(members)' = PairsOf(members) \cup {<<i, k>>}
      /\ RevokedRows' = RevokedRows
      /\ \A n \in RevokedRows : ~(n.kind = "controller" /\ n.subject = c)
      /\ <<i, k>> \notin PairsOf(RevokedRows)
  BY CommitMaps
<1>2. c \in Controllers /\ k \in Clients /\ i # NoRow
  BY NoRowIsNoRow DEF Challenge
<1>3. c \notin aexpelled /\ aexpelled' = aexpelled /\ abarred' = abarred
  BY <1>1 DEF aexpelled, abarred, PairsOf
<1>4. /\ i \in Homes(ch) /\ GrantStillFits(ch, i) /\ NobodyRevoked(ch, i)
      /\ installations' = IF CreatesInstallation(ch)
                          THEN [installations EXCEPT ![i] = "active"] ELSE installations
  BY DEF Commits, Completable
<1>5. asuspended' = asuspended
  <2>1. CreatesInstallation(ch) => installations[i] = "absent"
    BY <1>4 DEF Homes, CreatesInstallation
  <2>2. \A j \in Installations : (installations'[j] = "inactive") <=> (installations[j] = "inactive")
    BY <1>4, <2>1 DEF IInv, TypeOK
  <2> QED
    BY <2>2 DEF asuspended
<1>6. CASE mine = {}
  <2>1. aowner[c] = NoRow /\ aowner' = [aowner EXCEPT ![c] = i]
    BY <1>1, <1>2, <1>6 DEF aowner
  <2>2. CASE ch.grant = NoRow
    <3>1. installations[i] = "absent"
      BY <1>4, <1>6, <2>2 DEF Homes, CreatesInstallation
    <3>2. \A m \in members : m.inst # i
      BY <3>1 DEF Founded
    <3>3. \A d \in Controllers : aowner[d] # i
      BY <3>2, <1>2 DEF aowner, OwnerOf, HomeOf, ControllerMembers
    <3>4. Promise!Found(c, i, k)
      BY <1>1, <1>3, <1>5, <2>1, <3>3
      DEF Promise!Found, aowner, aexpelled, abarred, asuspended
    <3> QED
      BY <1>2, <3>4 DEF Promise!ANext
  <2>3. CASE ch.grant # NoRow
    <3>1. /\ i = grants[ch.grant].inst
          /\ ActiveAdmin(i, k)
      BY <1>4, <2>3 DEF Homes, GrantStillFits, GrantUsable
    <3>2. <<i, k>> \in PairsOf(members)
      BY <3>1 DEF ActiveAdmin, ActiveAdminMember, ClientMembers, PairsOf
    <3>3. PairsOf(members)' = PairsOf(members) /\ installations[i] = "active"
      BY <1>1, <3>1, <3>2 DEF ActiveAdmin, ActiveAdminMember
    <3>4. Promise!Add(c, i, k)
      BY <1>1, <1>3, <1>5, <2>1, <3>2, <3>3
      DEF Promise!Add, aowner, aexpelled, abarred, asuspended
    <3> QED
      BY <1>2, <3>4 DEF Promise!ANext
  <2> QED
    BY <2>2, <2>3
<1>7. CASE mine # {}
  <2>1. aowner[c] = i /\ aowner' = aowner
    BY <1>1, <1>2, <1>7 DEF aowner
  <2>2. installations[i] = "active"
    BY <1>4, <1>7 DEF NobodyRevoked
  <2>3. Promise!Admit(c, k)
    BY <1>1, <1>2, <1>3, <1>5, <2>1, <2>2
    DEF Promise!Admit, Promise!InGoodStanding, aowner, aexpelled, abarred, asuspended
  <2> QED
    BY <1>2, <2>3 DEF Promise!ANext
<1> QED
  BY <1>6, <1>7

\* An edit of a member row that keeps who the member is leaves every owner and
\* every admitted client where it was.
LEMMA MemberEditMaps ==
  ASSUME IInv, NEW m \in members, NEW r, r.inst = m.inst, r.kind = m.kind,
         r.subject = m.subject, r.key = m.key, members' = (members \ {m}) \cup {r},
         UNCHANGED installations
  PROVE  PairsOf(members)' = PairsOf(members) /\ asuspended' = asuspended /\ aowner' = aowner
<1>1. r.inst = m.inst /\ r.kind = m.kind /\ r.subject = m.subject /\ r.key = m.key
  OBVIOUS
<1>2. members' = (members \ {m}) \cup {r}
  OBVIOUS
<1>3. PairsOf(members)' = PairsOf(members)
  <2>1. \A p : p \in PairsOf(members') <=> p \in PairsOf(members)
    BY <1>1, <1>2 DEF PairsOf
  <2> QED
    BY <2>1 DEF PairsOf
<1>4. asuspended' = asuspended
  BY DEF asuspended
<1>5. ASSUME NEW c \in Controllers
      PROVE  OwnerOf(c)' = OwnerOf(c)
  <2>1. CASE ControllerMembers(members, c) = {}
    <3>1. ControllerMembers(members', c) = {}
      BY <1>1, <1>2, <2>1 DEF ControllerMembers
    <3> QED
      BY <2>1, <3>1 DEF OwnerOf, HomeOf
  <2>2. CASE ControllerMembers(members, c) # {}
    <3>1. PICK n \in members : n.kind = "controller" /\ n.subject = c
      BY <2>2 DEF ControllerMembers
    <3>2. OwnerOf(c) = n.inst
      BY <3>1, OwnerIs DEF IInv
    <3>3. PICK o \in members' : o.kind = "controller" /\ o.subject = c /\ o.inst = n.inst
      BY <1>1, <1>2, <3>1
    <3>4. \A q \in members' : q.kind = "controller" /\ q.subject = c => q.inst = n.inst
      BY <1>1, <1>2, <3>1 DEF IInv, SchemaAllows
    <3>5. \A S : S # {} /\ (\A q \in S : q.inst = n.inst) => HomeOf(S) = n.inst
      BY DEF HomeOf
    <3>6. HomeOf(ControllerMembers(members', c)) = n.inst
      BY <3>3, <3>4, <3>5 DEF ControllerMembers
    <3> QED
      BY <3>2, <3>6 DEF OwnerOf
  <2> QED
    BY <2>1, <2>2
<1>6. aowner' = aowner
  BY <1>5 DEF aowner
<1> QED
  BY <1>3, <1>4, <1>6

LEMMA RevokeKeeps ==
  ASSUME IInv, NEW m \in members, ~m.revoked,
         members' = (members \ {m}) \cup {Revoked(m)}, UNCHANGED installations
  PROVE  Promise!Bar \/ Promise!Expel
<1> DEFINE r == Revoked(m)
<1>1. /\ r.inst = m.inst /\ r.kind = m.kind /\ r.subject = m.subject /\ r.key = m.key
      /\ r.revoked /\ m \in Member
  BY DEF Revoked, IInv, TypeOK, Member
<1>2. members' = (members \ {m}) \cup {r}
  OBVIOUS
<1> HIDE DEF r
<1>3. PairsOf(members)' = PairsOf(members) /\ asuspended' = asuspended /\ aowner' = aowner
  BY <1>1, <1>2, MemberEditMaps
<1>4. RevokedRows' = RevokedRows \cup {r}
  BY <1>1, <1>2 DEF RevokedRows
<1>7. CASE m.kind = "client"
  <2>1. PairsOf(RevokedRows)' = PairsOf(RevokedRows) \cup {<<m.inst, m.key>>}
    BY <1>1, <1>4, <1>7 DEF PairsOf
  <2>2. <<m.inst, m.key>> \in PairsOf(members)
    BY <1>7 DEF PairsOf
  <2>3. aexpelled' = aexpelled
    BY <1>1, <1>4, <1>7 DEF aexpelled
  <2>4. Promise!Bar
    BY <1>3, <2>1, <2>2, <2>3 DEF Promise!Bar, aowner, aexpelled, asuspended
  <2> QED
    BY <2>4
<1>8. CASE m.kind = "controller"
  <2>1. aexpelled' = aexpelled \cup {m.subject}
    BY <1>1, <1>4, <1>8 DEF aexpelled
  <2>2. PairsOf(RevokedRows)' = PairsOf(RevokedRows)
    BY <1>1, <1>4, <1>8 DEF PairsOf
  <2>3. OwnerOf(m.subject) = m.inst /\ m.inst \in Installations
    BY <1>1, <1>8, OwnerIs DEF IInv, Member
  <2>4. CASE m.subject \in Controllers
    <3>1. aowner[m.subject] # NoRow
      BY <2>3, <2>4, NoRowIsNoRow DEF aowner
    <3>2. Promise!Expel
      BY <1>3, <2>1, <2>2, <2>4, <3>1
      DEF Promise!Expel, aowner, aexpelled, asuspended
    <3> QED
      BY <3>2
  <2>5. m.subject \in Controllers
    BY <1>8 DEF IInv, ControllerKeyAgrees, TypeOK, Bootstrap
  <2> QED
    BY <2>4, <2>5
<1> QED
  BY <1>1, <1>7, <1>8 DEF Member

LEMMA DemoteKeeps ==
  ASSUME IInv, NEW m \in members,
         members' = (members \ {m}) \cup {Demoted(m)}, UNCHANGED installations
  PROVE  UNCHANGED Promise!avars
<1> DEFINE r == Demoted(m)
<1>1. /\ r.inst = m.inst /\ r.kind = m.kind /\ r.subject = m.subject /\ r.key = m.key
      /\ r.revoked = m.revoked
  BY DEF Demoted, IInv, TypeOK, Member
<1>2. members' = (members \ {m}) \cup {r}
  OBVIOUS
<1> HIDE DEF r
<1>3. PairsOf(members)' = PairsOf(members) /\ asuspended' = asuspended /\ aowner' = aowner
  BY <1>1, <1>2, MemberEditMaps
<1>4. RevokedRows' = IF m.revoked THEN (RevokedRows \ {m}) \cup {r} ELSE RevokedRows
  BY <1>1, <1>2 DEF RevokedRows
<1>5. PairsOf(RevokedRows)' = PairsOf(RevokedRows)
  <2>1. \A p : p \in PairsOf(RevokedRows)' <=> p \in PairsOf(RevokedRows)
    BY <1>1, <1>4 DEF PairsOf, RevokedRows
  <2> QED
    BY <2>1 DEF PairsOf
<1>6. aexpelled' = aexpelled
  <2>1. \A s : s \in aexpelled' <=> s \in aexpelled
    BY <1>1, <1>4 DEF aexpelled, RevokedRows
  <2> QED
    BY <2>1 DEF aexpelled
<1> QED
  BY <1>3, <1>5, <1>6 DEF Promise!avars, aowner, aexpelled, asuspended

LEMMA DeactivateKeeps ==
  ASSUME IInv, Founded, OperatorDeactivates
  PROVE  Promise!Suspend
<1>1. PICK i \in Installations :
        installations[i] = "active" /\ installations' = [installations EXCEPT ![i] = "inactive"]
  BY DEF OperatorDeactivates
<1>2. PICK m \in members : m.kind = "controller" /\ m.inst = i
  BY <1>1 DEF Founded
<1>3. m.subject \in Controllers /\ OwnerOf(m.subject) = i
  BY <1>2, OwnerIs DEF IInv, ControllerKeyAgrees, TypeOK, Bootstrap
<1>4. asuspended' = asuspended \cup {i}
  BY <1>1 DEF asuspended, IInv, TypeOK
<1>5. members' = members
  BY DEF OperatorDeactivates
<1>6. aowner' = aowner /\ aexpelled' = aexpelled /\ RevokedRows' = RevokedRows
  BY <1>5 DEF aowner, OwnerOf, HomeOf, aexpelled, RevokedRows, ControllerMembers
<1>7. PairsOf(members)' = PairsOf(members) /\ PairsOf(RevokedRows)' = PairsOf(RevokedRows)
  BY <1>5, <1>6 DEF PairsOf
<1>8. aowner[m.subject] = i /\ i # NoRow
  BY <1>3, NoRowIsNoRow DEF aowner
<1> QED
  BY <1>3, <1>4, <1>6, <1>7, <1>8 DEF Promise!Suspend, aowner, aexpelled, asuspended

LEMMA StutterKeeps ==
  ASSUME UNCHANGED <<members, installations>>
  PROVE  UNCHANGED Promise!avars
<1>1. RevokedRows' = RevokedRows /\ asuspended' = asuspended
  BY DEF RevokedRows, asuspended
<1>2. aowner' = aowner /\ aexpelled' = aexpelled
  BY <1>1 DEF aowner, OwnerOf, HomeOf, ControllerMembers, aexpelled
<1>3. PairsOf(members)' = PairsOf(members) /\ PairsOf(RevokedRows)' = PairsOf(RevokedRows)
  BY <1>1 DEF PairsOf
<1> QED
  BY <1>1, <1>2, <1>3 DEF Promise!avars, aowner, aexpelled, asuspended

\* Enrollment implements Membership: whatever the number of requests, challenges
\* and grants, every run of it is a run of the abstract specification.
THEOREM Implements == Spec => KeepsPromise
<1>1. IInv /\ Founded /\ [Next]_vars => [Promise!ANext]_Promise!avars
  <2> SUFFICES ASSUME IInv, Founded, [Next]_vars
               PROVE  Promise!ANext \/ UNCHANGED Promise!avars
    OBVIOUS
  <2>1. CASE UNCHANGED <<members, installations>>
    BY <2>1, StutterKeeps
  <2>2. ASSUME NEW t \in Threads, NEW h \in Challenges, NEW i \in Installations,
               challenges[h] \in Challenge, Commits(t, h, i)
        PROVE  Promise!ANext
    BY <2>2, CommitKeeps
  <2>3. CASE OperatorEdits
    <3>1. CASE OperatorRevokes
      BY <3>1, RevokeKeeps DEF OperatorRevokes, Promise!ANext
    <3>2. CASE OperatorDeactivates
      BY <3>2, DeactivateKeeps DEF Promise!ANext
    <3>3. CASE OperatorRetires
      BY <2>1, <3>3 DEF OperatorRetires
    <3>4. CASE OperatorDemotes
      BY <3>4, DemoteKeeps DEF OperatorDemotes
    <3> QED
      BY <2>3, <3>1, <3>2, <3>3, <3>4 DEF OperatorEdits
  <2> QED
    BY <2>1, <2>2, <2>3, StepCases DEF OnlyPrepares, tables
<1>2. IInv /\ Founded /\ [Next]_vars => Founded'
  BY FoundedStep
<1> QED
  BY <1>1, <1>2, FoundedInit, InitMaps, Invariance, PTL DEF Spec, KeepsPromise, Promise!ASpec
=============================================================================
