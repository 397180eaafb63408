------------------------- MODULE OnboardingProofs -------------------------
(* Theorems about Onboarding, for every value of its constants: what a     *)
(* step may do, the invariant it keeps, and that Onboarding implements     *)
(* Membership while enrollments and an operator change the member table.   *)
EXTENDS Onboarding, FiniteSetTheorems, TLAPS

LEMMA RequestKinds ==
  ASSUME NEW r \in Request
  PROVE  /\ r.op = "join" => r.row \in Join
         /\ r.op = "decide" => r.id \in Joins /\ r.by \in Clients /\ r.approve \in BOOLEAN
         /\ r.op = "invite" => r.row \in Invitation
         /\ r.op = "authorize" => r.id \in Invitations
BY DEF Request, Idle

LEMMA KeepTyped ==
  ASSUME TypeOK, NEW t \in Threads, NEW r \in Request, Keep(t, r)
  PROVE  TypeOK'
BY DEF TypeOK, Keep, tables

LEMMA AnswerTyped ==
  ASSUME TypeOK, NEW t \in Threads, Answer(t)
  PROVE  /\ clock' \in 0..MaxTime /\ edits' \in 0..MaxEdits
         /\ thread' \in [Threads -> Request]
BY DEF TypeOK, Answer, Request

LEMMA RowsTyped ==
  /\ \A i \in Installations, c \in Controllers, k \in ControllerKeys :
       ControllerRow(i, c, k) \in Member
  /\ \A i \in Installations, k \in Clients : ClientRow(i, k) \in Member
BY DEF ControllerRow, ClientRow, Member

LEMMA InitTyped == Init => TypeOK
<1> SUFFICES ASSUME Init PROVE TypeOK
  OBVIOUS
<1>1. members \subseteq Member
  BY RowsTyped, OnboardingAssumptions DEF Init
<1>2. audit \in Seq(AuditEvent) /\ thread \in [Threads -> Request]
  BY DEF Init, Request
<1> QED
  BY <1>1, <1>2, OnboardingAssumptions DEF Init, TypeOK, InstallationStatus

-----------------------------------------------------------------------------
\* What DecideWrite does when it finds the request still decidable.
Decides(j, k, approve) ==
  /\ Decidable(j, k)
  /\ joins' = [joins EXCEPT ![j].status = IF approve THEN "approved" ELSE "denied"]
  /\ members' = IF approve THEN InsertClientMember(joins[j].inst, joins[j].candidate)
                ELSE members
  /\ Record(IF approve THEN "client_join_approved" ELSE "client_join_denied",
            joins[j].inst, k, j)
  /\ UNCHANGED <<clock, edits, installations, invitations>>

\* Any other handler leaves members, installations and the audit trail alone; it
\* inserts a pending request or a fresh invitation, or approves one.
SameInvitation(v) ==
  /\ invitations[v] # NoRow /\ invitations'[v] # NoRow
  /\ invitations'[v].consumed = invitations[v].consumed

OnlyPrepares ==
  /\ UNCHANGED <<clock, edits, installations, members, audit>>
  /\ joins' \in [Joins -> Join \cup {NoRow}]
  /\ invitations' \in [Invitations -> Invitation \cup {NoRow}]
  /\ \A j \in Joins :
       joins'[j] = joins[j] \/ (joins[j] = NoRow /\ joins'[j].status = "pending")
  /\ \A v \in Invitations :
       \/ invitations'[v] = invitations[v]
       \/ invitations[v] = NoRow /\ ~invitations'[v].consumed
       \/ SameInvitation(v)

\* What a request in flight is about to insert is neither decided nor spent.
InFlight ==
  \A t \in Threads :
    /\ thread[t].op = "join" => thread[t].row.status = "pending"
    /\ thread[t].op = "invite" => ~thread[t].row.consumed

LEMMA ReadsKeep ==
  ASSUME TypeOK, NEW t \in Threads,
         \/ CreateJoinRead(t) \/ DecideRead(t)
         \/ CreateInvitationRead(t) \/ AuthorizeInvitationRead(t)
  PROVE  \E r \in Request :
           /\ Keep(t, r)
           /\ r.op = "join" => r.row.status = "pending"
           /\ r.op = "invite" => ~r.row.consumed
<1>1. CASE CreateJoinRead(t)
  <2>1. PICK c \in Controllers, k \in Clients : \E m \in ControllerInstallation(c) :
          Keep(t, [op |-> "join", row |-> [inst |-> m.inst, candidate |-> k,
                                           expires |-> clock + JoinLife,
                                           status |-> "pending"]])
    BY <1>1 DEF CreateJoinRead
  <2>2. PICK m \in ControllerInstallation(c) :
          Keep(t, [op |-> "join", row |-> [inst |-> m.inst, candidate |-> k,
                                           expires |-> clock + JoinLife,
                                           status |-> "pending"]])
    BY <2>1
  <2>3. m.inst \in Installations
    BY DEF ControllerInstallation, ControllerMembers, TypeOK, Member
  <2>4. clock + JoinLife \in Nat
    BY OnboardingAssumptions DEF TypeOK
  <2>5. [op |-> "join", row |-> [inst |-> m.inst, candidate |-> k,
                                 expires |-> clock + JoinLife,
                                 status |-> "pending"]] \in Request
    BY <2>3, <2>4 DEF Request, Join
  <2> QED
    BY <2>2, <2>5
<1>2. CASE DecideRead(t)
  BY <1>2 DEF DecideRead, Request
<1>3. CASE CreateInvitationRead(t)
  <2>1. PICK i \in Installations, k \in Clients :
          Keep(t, [op |-> "invite", row |-> [inst |-> i, authorizer |-> k,
                                             expires |-> clock + InvitationLife,
                                             authorized |-> FALSE, consumed |-> FALSE]])
    BY <1>3 DEF CreateInvitationRead
  <2>2. clock + InvitationLife \in Nat
    BY OnboardingAssumptions DEF TypeOK
  <2>3. [op |-> "invite", row |-> [inst |-> i, authorizer |-> k,
                                   expires |-> clock + InvitationLife,
                                   authorized |-> FALSE, consumed |-> FALSE]] \in Request
    BY <2>2 DEF Request, Invitation
  <2> QED
    BY <2>1, <2>3
<1>4. CASE AuthorizeInvitationRead(t)
  BY <1>4 DEF AuthorizeInvitationRead, Request
<1> QED
  BY <1>1, <1>2, <1>3, <1>4

LEMMA HandlerCases ==
  ASSUME TypeOK, InFlight, NEW t \in Threads, Handler(t)
  PROVE  \/ /\ OnlyPrepares
            /\ \/ thread'[t] = Idle
               \/ /\ thread'[t] \in Request
                  /\ thread'[t].op = "join" => thread'[t].row.status = "pending"
                  /\ thread'[t].op = "invite" => ~thread'[t].row.consumed
            /\ thread' = [thread EXCEPT ![t] = thread'[t]]
         \/ /\ Answer(t)
            /\ \E j \in Joins, k \in Clients, approve \in BOOLEAN : Decides(j, k, approve)
<1> USE DEF Answer
<1>1. ASSUME UNCHANGED <<clock, edits, tables>>
      PROVE  OnlyPrepares
  BY <1>1 DEF OnlyPrepares, tables, TypeOK
<1>2. CASE \/ CreateJoinRead(t) \/ DecideRead(t)
           \/ CreateInvitationRead(t) \/ AuthorizeInvitationRead(t)
  BY <1>1, <1>2, ReadsKeep DEF Keep, TypeOK
<1>3. CASE CreateJoinInsert(t)
  <2>1. thread[t].row \in Join /\ thread[t].row.status = "pending"
    BY <1>3, RequestKinds DEF CreateJoinInsert, TypeOK, InFlight
  <2> QED
    BY <1>3, <2>1 DEF CreateJoinInsert, OnlyPrepares, TypeOK
<1>4. CASE CreateInvitationInsert(t)
  <2>1. thread[t].row \in Invitation /\ ~thread[t].row.consumed
    BY <1>4, RequestKinds DEF CreateInvitationInsert, TypeOK, InFlight
  <2> QED
    BY <1>4, <2>1 DEF CreateInvitationInsert, OnlyPrepares, TypeOK
<1>5. CASE AuthorizeInvitationWrite(t)
  <2> DEFINE v == thread[t].id
  <2>1. v \in Invitations
    BY <1>5, RequestKinds DEF AuthorizeInvitationWrite, TypeOK
  <2>2. CASE ~Unused(v)
    BY <1>1, <1>5, <2>2 DEF AuthorizeInvitationWrite, tables, TypeOK
  <2>3. CASE Unused(v)
    <3>1. invitations[v] \in Invitation
      BY <2>1, <2>3 DEF Unused, TypeOK
    <3>2. invitations' = [invitations EXCEPT ![v].authorized = TRUE]
      BY <1>5, <2>3 DEF AuthorizeInvitationWrite
    <3>3. /\ invitations'[v] \in Invitation
          /\ invitations'[v].consumed = invitations[v].consumed
      BY <2>1, <3>1, <3>2 DEF TypeOK, Invitation
    <3>4. SameInvitation(v)
      BY <3>1, <3>3, NoRowIsNoRow DEF SameInvitation
    <3> QED
      BY <1>5, <2>1, <3>2, <3>3, <3>4 DEF AuthorizeInvitationWrite, OnlyPrepares, TypeOK
  <2> QED
    BY <2>2, <2>3
<1>6. CASE DecideWrite(t)
  <2>1. thread[t].id \in Joins /\ thread[t].by \in Clients /\ thread[t].approve \in BOOLEAN
    BY <1>6, RequestKinds DEF DecideWrite, TypeOK
  <2>2. CASE ~Decidable(thread[t].id, thread[t].by)
    BY <1>1, <1>6, <2>2 DEF DecideWrite, TypeOK
  <2>3. CASE Decidable(thread[t].id, thread[t].by)
    BY <1>6, <2>1, <2>3 DEF DecideWrite, Decides
  <2> QED
    BY <2>2, <2>3
<1>7. CASE Abandon(t)
  BY <1>1, <1>7 DEF Abandon, TypeOK
<1> QED
  BY <1>2, <1>3, <1>4, <1>5, <1>6, <1>7 DEF Handler

-----------------------------------------------------------------------------
\* What a row of the member table is, by its kind: what keeps a client's key
\* from colliding with a controller's under UNIQUE (installation_id, key_thumbprint).
RowsNamed ==
  \A m \in members :
    /\ m.kind = "client" => m.subject = m.key /\ m.key \in Clients
    /\ m.kind = "controller" => m.subject \in Controllers /\ m.key \in ControllerKeys

\* An installation in use has a controller, and only a founded one has members.
Owned ==
  /\ \A i \in Installations : installations[i] = "active" =>
       \E m \in members : m.kind = "controller" /\ m.inst = i
  /\ \A m \in members : installations[m.inst] # "absent"

Safe == SchemaAllows(members) /\ RowsNamed /\ Owned /\ ApprovedIsMember

IInv == TypeOK /\ InFlight /\ Safe

\* A client row written where the client has none, on either path in.
Inserts(i, k) ==
  members' = IF ClientMembers(members, i, k) = {} THEN members \cup {ClientRow(i, k)}
             ELSE members

LEMMA InsertSafe ==
  ASSUME TypeOK, Safe, NEW i \in Installations, NEW k \in Clients, Inserts(i, k)
  PROVE  /\ members' \subseteq Member /\ members \subseteq members'
         /\ \A m \in members' \ members : m.inst = i
         /\ ClientMembers(members', i, k) # {}
         /\ SchemaAllows(members') /\ RowsNamed'
<1> DEFINE row == ClientRow(i, k)
<1>1. /\ row \in Member /\ row.kind = "client" /\ row.inst = i /\ row.key = k
      /\ row.subject = k
  BY RowsTyped DEF ClientRow
<1> HIDE DEF row
<1>2. members' = IF ClientMembers(members, i, k) = {} THEN members \cup {row} ELSE members
  BY DEF Inserts, row
<1>3. /\ members' \subseteq Member /\ members \subseteq members' /\ RowsNamed'
      /\ \A m \in members' \ members : m.inst = i
  BY <1>1, <1>2 DEF TypeOK, Safe, RowsNamed
<1>4. ClientMembers(members', i, k) # {}
  BY <1>1, <1>2 DEF ClientMembers
<1>5. SchemaAllows(members')
  <2>1. CASE ClientMembers(members, i, k) # {}
    BY <1>2, <2>1 DEF Safe
  <2>2. CASE ClientMembers(members, i, k) = {}
    <3>1. \A m \in members : ~(m.inst = i /\ m.key = k)
      <4> SUFFICES ASSUME NEW m \in members, m.inst = i, m.key = k PROVE FALSE
        OBVIOUS
      <4>1. m.kind = "controller" \/ m.kind = "client"
        BY DEF TypeOK, Member
      <4>2. m.kind # "client"
        BY <2>2 DEF ClientMembers
      <4>3. m.kind # "controller"
        BY KeysDisjoint DEF Safe, RowsNamed
      <4> QED
        BY <4>1, <4>2, <4>3
    <3>2. \A m \in members :
            /\ ~(m.inst = row.inst /\ m.key = row.key)
            /\ ~(m.inst = row.inst /\ m.kind = row.kind /\ m.subject = row.subject)
      BY <1>1, <3>1 DEF Safe, RowsNamed
    <3>3. members' = members \cup {row}
      BY <1>2, <2>2
    <3>4. ASSUME NEW m \in members', NEW n \in members', m # n
          PROVE  /\ ~(m.inst = n.inst /\ m.key = n.key)
                 /\ ~(m.inst = n.inst /\ m.kind = n.kind /\ m.subject = n.subject)
                 /\ ~(m.kind = "controller" /\ n.kind = "controller" /\ m.subject = n.subject)
      <4>1. CASE m \in members /\ n \in members
        BY <3>4, <4>1 DEF Safe, SchemaAllows
      <4>2. CASE m = row
        BY <1>1, <3>2, <3>3, <3>4, <4>2
      <4>3. CASE n = row
        BY <1>1, <3>2, <3>3, <3>4, <4>3
      <4> QED
        BY <3>3, <4>1, <4>2, <4>3
    <3> QED
      BY <3>4 DEF SchemaAllows
  <2> QED
    BY <2>1, <2>2
<1> QED
  BY <1>3, <1>4, <1>5

\* Rows that stay rows keep an approved request's member and an installation's owner.
LEMMA GrowthSafe ==
  ASSUME TypeOK, Safe, members \subseteq members', installations' = installations,
         \A m \in members' \ members : installations[m.inst] # "absent",
         \A j \in Joins : joins'[j] # NoRow /\ joins'[j].status = "approved" =>
           \/ joins'[j] = joins[j]
           \/ ClientMembers(members', joins'[j].inst, joins'[j].candidate) # {}
  PROVE  Owned' /\ ApprovedIsMember'
BY DEF Safe, Owned, ApprovedIsMember, ClientMembers

LEMMA PrepareSafe ==
  ASSUME TypeOK, Safe, OnlyPrepares, thread' \in [Threads -> Request]
  PROVE  TypeOK' /\ Safe'
<1>1. SchemaAllows(members)' /\ RowsNamed'
  BY DEF Safe, SchemaAllows, RowsNamed, OnlyPrepares
<1>2. Owned' /\ ApprovedIsMember'
  BY GrowthSafe DEF OnlyPrepares
<1>3. TypeOK'
  BY DEF OnlyPrepares, TypeOK
<1> QED
  BY <1>1, <1>2, <1>3 DEF Safe

LEMMA DecideSafe ==
  ASSUME TypeOK, Safe, NEW j \in Joins, NEW k \in Clients, NEW approve \in BOOLEAN,
         Decides(j, k, approve), thread' \in [Threads -> Request]
  PROVE  TypeOK' /\ Safe'
<1> DEFINE i == joins[j].inst
           c == joins[j].candidate
           status == IF approve THEN "approved" ELSE "denied"
<1>1. /\ joins[j] \in Join /\ i \in Installations /\ c \in Clients
      /\ installations[i] = "active"
  BY DEF Decides, Decidable, Pending, TypeOK, Join, ActiveAdmin, ActiveAdminMember
<1>2. /\ joins' = [joins EXCEPT ![j].status = status]
      /\ status \in {"approved", "denied"} /\ (status = "approved" => approve)
  BY DEF Decides
<1> HIDE DEF status
<1>3. joins' \in [Joins -> Join \cup {NoRow}]
  BY <1>1, <1>2 DEF TypeOK, Join
<1>4. audit' \in Seq(AuditEvent)
  <2>1. \A type \in {"client_join_approved", "client_join_denied"} :
          [type |-> type, inst |-> i, actor |-> k, of |-> j] \in AuditEvent
    BY <1>1 DEF AuditEvent
  <2> QED
    BY <2>1 DEF Decides, Record, TypeOK
<1>5. approve => Inserts(i, c)
  BY DEF Decides, Inserts, InsertClientMember
<1>6. /\ members' \subseteq Member /\ members \subseteq members'
      /\ \A m \in members' \ members : m.inst = i
      /\ SchemaAllows(members') /\ RowsNamed'
      /\ approve => ClientMembers(members', i, c) # {}
  <2>1. CASE approve
    BY <1>1, <1>5, <2>1, InsertSafe
  <2>2. CASE ~approve
    <3>1. members' = members
      BY <2>2 DEF Decides
    <3> QED
      BY <2>2, <3>1 DEF TypeOK, Safe, RowsNamed
  <2> QED
    BY <2>1, <2>2
<1>7. Owned' /\ ApprovedIsMember'
  <2>1. \A n \in Joins : joins'[n] # NoRow /\ joins'[n].status = "approved" =>
          \/ joins'[n] = joins[n]
          \/ ClientMembers(members', joins'[n].inst, joins'[n].candidate) # {}
    BY <1>1, <1>2, <1>6 DEF TypeOK, Join
  <2> QED
    BY <1>1, <1>6, <2>1, GrowthSafe DEF Decides
<1>8. TypeOK'
  BY <1>3, <1>4, <1>6 DEF Decides, TypeOK
<1> QED
  BY <1>6, <1>7, <1>8 DEF Safe, SchemaAllows

LEMMA RedeemSafe ==
  ASSUME TypeOK, Safe, NEW v \in Invitations, NEW k \in Clients, RedeemInvitation(v, k)
  PROVE  TypeOK' /\ Safe'
<1>1. invitations[v] \in Invitation
  BY DEF RedeemInvitation, Redeemable, TypeOK
<1>2. /\ Inserts(invitations[v].inst, k) /\ invitations[v].inst \in Installations
      /\ installations[invitations[v].inst] = "active"
  BY <1>1 DEF RedeemInvitation, Redeemable, ActiveAdmin, ActiveAdminMember,
              InsertClientMember, Inserts, Invitation
<1>3. /\ members' \subseteq Member /\ members \subseteq members'
      /\ \A m \in members' \ members : m.inst = invitations[v].inst
      /\ SchemaAllows(members') /\ RowsNamed'
  BY <1>2, InsertSafe
<1>4. Owned' /\ ApprovedIsMember'
  BY <1>2, <1>3, GrowthSafe DEF RedeemInvitation
<1>5. invitations' \in [Invitations -> Invitation \cup {NoRow}]
  BY <1>1 DEF RedeemInvitation, TypeOK, Invitation
<1>6. audit' \in Seq(AuditEvent)
  <2>1. [type |-> "client_invitation_redeemed", inst |-> invitations[v].inst,
         actor |-> invitations[v].authorizer, of |-> v] \in AuditEvent
    BY <1>1 DEF AuditEvent, Invitation
  <2> QED
    BY <2>1 DEF RedeemInvitation, Record, TypeOK
<1>7. TypeOK'
  BY <1>3, <1>5, <1>6 DEF RedeemInvitation, TypeOK
<1> QED
  BY <1>3, <1>4, <1>7 DEF Safe, SchemaAllows

\* An edit of a member row that keeps who the member is.
LEMMA MemberEditSafe ==
  ASSUME TypeOK, Safe, NEW m \in members, NEW r, r.inst = m.inst, r.kind = m.kind,
         r.subject = m.subject, r.key = m.key, members' = (members \ {m}) \cup {r},
         UNCHANGED <<installations, joins>>
  PROVE  Safe'
<1>1. members' = (members \ {m}) \cup {r}
  OBVIOUS
<1>2. SchemaAllows(members)'
  <2> SUFFICES ASSUME NEW n \in members', NEW o \in members', n # o
               PROVE  /\ ~(n.inst = o.inst /\ n.key = o.key)
                      /\ ~(n.inst = o.inst /\ n.kind = o.kind /\ n.subject = o.subject)
                      /\ ~(n.kind = "controller" /\ o.kind = "controller" /\ n.subject = o.subject)
    BY DEF SchemaAllows
  <2>1. PICK d \in members : /\ n.inst = d.inst /\ n.kind = d.kind
                             /\ n.subject = d.subject /\ n.key = d.key
                             /\ (n = d /\ n # m) \/ (d = m /\ n = r)
    BY <1>1
  <2>2. PICK e \in members : /\ o.inst = e.inst /\ o.kind = e.kind
                             /\ o.subject = e.subject /\ o.key = e.key
                             /\ (o = e /\ o # m) \/ (e = m /\ o = r)
    BY <1>1
  <2>3. d # e
    BY <2>1, <2>2
  <2> QED
    BY <2>1, <2>2, <2>3 DEF Safe, SchemaAllows
<1>3. RowsNamed'
  BY <1>1 DEF Safe, RowsNamed
<1>4. Owned'
  BY <1>1 DEF Safe, Owned
<1>5. ApprovedIsMember'
  BY <1>1 DEF Safe, ApprovedIsMember, ClientMembers
<1> QED
  BY <1>2, <1>3, <1>4, <1>5 DEF Safe

LEMMA EditKeepsWho ==
  ASSUME NEW m \in Member, NEW r \in {Revoked(m), Demoted(m)}
  PROVE  /\ r \in Member /\ r.inst = m.inst /\ r.kind = m.kind
         /\ r.subject = m.subject /\ r.key = m.key
BY DEF Revoked, Demoted, Member

\* A client let in elsewhere: a row in an installation in use.
LEMMA AdmitSafe ==
  ASSUME TypeOK, Safe, NEW c \in Controllers, NEW k \in Clients, AdmitElsewhere(c, k),
         UNCHANGED joins
  PROVE  members' \subseteq Member /\ Safe'
<1>1. PICK m \in ControllerInstallation(c) :
        ClientMembers(members, m.inst, k) = {} /\ members' = members \cup {ClientRow(m.inst, k)}
  BY DEF AdmitElsewhere
<1>2. m.inst \in Installations /\ installations[m.inst] = "active" /\ Inserts(m.inst, k)
  BY <1>1 DEF ControllerInstallation, ControllerMembers, TypeOK, Member, Inserts
<1>3. /\ members' \subseteq Member /\ members \subseteq members'
      /\ \A n \in members' \ members : n.inst = m.inst
      /\ SchemaAllows(members') /\ RowsNamed'
  BY <1>2, InsertSafe
<1>4. Owned' /\ ApprovedIsMember'
  BY <1>2, <1>3, GrowthSafe DEF AdmitElsewhere
<1> QED
  BY <1>3, <1>4 DEF Safe, SchemaAllows

\* A controller added elsewhere: a row in the installation of an administrator.
LEMMA AddSafe ==
  ASSUME TypeOK, Safe, NEW c \in Controllers, NEW i \in Installations,
         NEW key \in ControllerKeys, NEW k \in Clients, AddElsewhere(c, i, key, k),
         UNCHANGED joins
  PROVE  members' \subseteq Member /\ Safe'
<1> DEFINE row == ControllerRow(i, c, key)
<1>1. /\ row \in Member /\ row.kind = "controller" /\ row.inst = i /\ row.key = key
      /\ row.subject = c
  BY RowsTyped DEF ControllerRow
<1>2. members' = members \cup {row} /\ SchemaAllows(members \cup {row})
  BY DEF AddElsewhere
<1> HIDE DEF row
<1>3. members' \subseteq Member /\ members \subseteq members' /\ RowsNamed'
  BY <1>1, <1>2 DEF TypeOK, Safe, RowsNamed
<1>4. \A m \in members' \ members : installations[m.inst] # "absent"
  BY <1>1, <1>2 DEF AddElsewhere, ActiveAdmin, ActiveAdminMember
<1>5. Owned' /\ ApprovedIsMember'
  BY <1>3, <1>4, GrowthSafe DEF AddElsewhere
<1>6. SchemaAllows(members)'
  BY <1>2 DEF SchemaAllows
<1> QED
  BY <1>3, <1>5, <1>6 DEF Safe

\* An installation founded elsewhere had no rows, and its controller had none.
LEMMA FoundSafe ==
  ASSUME TypeOK, Safe, NEW c \in Controllers, NEW i \in Installations,
         NEW key \in ControllerKeys, NEW k \in Clients, FoundElsewhere(c, i, key, k),
         UNCHANGED joins
  PROVE  members' \subseteq Member /\ Safe' /\ installations' \in [Installations -> InstallationStatus]
<1> DEFINE core == ControllerRow(i, c, key)
           row == ClientRow(i, k)
<1>1. /\ core \in Member /\ core.kind = "controller" /\ core.inst = i /\ core.key = key
      /\ core.subject = c
      /\ row \in Member /\ row.kind = "client" /\ row.inst = i /\ row.key = k
      /\ row.subject = k
  BY RowsTyped DEF ControllerRow, ClientRow
<1>2. members' = members \cup {core, row}
  BY DEF FoundElsewhere
<1> HIDE DEF core, row
<1>3. key # k
  BY KeysDisjoint
<1>4. \A m \in members : m.inst # i /\ ~(m.kind = "controller" /\ m.subject = c)
  BY DEF FoundElsewhere, ControllerMembers, Safe, Owned
<1>5. /\ installations' = [installations EXCEPT ![i] = "active"]
      /\ installations' \in [Installations -> InstallationStatus]
  BY DEF FoundElsewhere, TypeOK, InstallationStatus
<1>6. members' \subseteq Member /\ RowsNamed'
  BY <1>1, <1>2 DEF TypeOK, Safe, RowsNamed
<1>7. SchemaAllows(members)'
  <2> SUFFICES ASSUME NEW m \in members', NEW n \in members', m # n
               PROVE  /\ ~(m.inst = n.inst /\ m.key = n.key)
                      /\ ~(m.inst = n.inst /\ m.kind = n.kind /\ m.subject = n.subject)
                      /\ ~(m.kind = "controller" /\ n.kind = "controller" /\ m.subject = n.subject)
    BY DEF SchemaAllows
  <2>1. CASE m \in members /\ n \in members
    BY <2>1 DEF Safe, SchemaAllows
  <2>2. CASE m \in {core, row} /\ n \in members
    BY <1>1, <1>4, <2>2
  <2>3. CASE m \in members /\ n \in {core, row}
    BY <1>1, <1>4, <2>3
  <2>4. CASE m \in {core, row} /\ n \in {core, row}
    BY <1>1, <1>3, <2>4
  <2> QED
    BY <1>2, <2>1, <2>2, <2>3, <2>4
<1>8. Owned'
  <2>1. ASSUME NEW h \in Installations, installations'[h] = "active"
        PROVE  \E m \in members' : m.kind = "controller" /\ m.inst = h
    <3>1. CASE h = i
      BY <1>1, <1>2, <3>1
    <3>2. CASE h # i
      BY <1>2, <1>5, <2>1, <3>2 DEF TypeOK, Safe, Owned
    <3> QED
      BY <3>1, <3>2
  <2>2. ASSUME NEW m \in members'
        PROVE  installations'[m.inst] # "absent"
    <3>1. m.inst \in Installations
      BY <1>6 DEF Member
    <3>2. CASE m \in members
      BY <1>4, <1>5, <3>1, <3>2 DEF TypeOK, Safe, Owned
    <3>3. CASE m \in {core, row}
      BY <1>1, <1>5, <3>3 DEF TypeOK
    <3> QED
      BY <1>2, <3>2, <3>3
  <2> QED
    BY <2>1, <2>2 DEF Owned
<1>9. ApprovedIsMember'
  BY <1>2 DEF Safe, ApprovedIsMember, ClientMembers
<1> QED
  BY <1>5, <1>6, <1>7, <1>8, <1>9 DEF Safe

LEMMA EnrollSafe ==
  ASSUME TypeOK, Safe, EnrollElsewhere, edits' \in 0..MaxEdits,
         UNCHANGED <<clock, joins, invitations, audit, thread>>
  PROVE  TypeOK' /\ Safe'
<1>1. PICK c \in Controllers, k \in Clients :
        \/ AdmitElsewhere(c, k)
        \/ \E i \in Installations, key \in ControllerKeys :
             FoundElsewhere(c, i, key, k) \/ AddElsewhere(c, i, key, k)
  BY DEF EnrollElsewhere
<1>2. CASE AdmitElsewhere(c, k)
  <2>1. members' \subseteq Member /\ Safe' /\ installations' = installations
    BY <1>2, AdmitSafe DEF AdmitElsewhere
  <2> QED
    BY <2>1 DEF TypeOK
<1>3. ASSUME NEW i \in Installations, NEW key \in ControllerKeys, FoundElsewhere(c, i, key, k)
      PROVE  TypeOK' /\ Safe'
  BY <1>3, FoundSafe DEF TypeOK
<1>4. ASSUME NEW i \in Installations, NEW key \in ControllerKeys, AddElsewhere(c, i, key, k)
      PROVE  TypeOK' /\ Safe'
  <2>1. members' \subseteq Member /\ Safe' /\ installations' = installations
    BY <1>4, AddSafe DEF AddElsewhere
  <2> QED
    BY <2>1 DEF TypeOK
<1> QED
  BY <1>1, <1>2, <1>3, <1>4

LEMMA ElsewhereSafe ==
  ASSUME TypeOK, Safe, Elsewhere
  PROVE  TypeOK' /\ Safe'
<1>1. edits' \in 0..MaxEdits /\ UNCHANGED <<clock, joins, invitations, audit, thread>>
  BY OnboardingAssumptions DEF Elsewhere, TypeOK
<1>2. CASE EnrollElsewhere
  BY <1>1, <1>2, EnrollSafe
<1>3. CASE OperatorChangesMember
  <2>1. PICK m \in members : \E r \in {Revoked(m), Demoted(m)} :
          members' = (members \ {m}) \cup {r}
    BY <1>3 DEF OperatorChangesMember
  <2>2. PICK r \in {Revoked(m), Demoted(m)} : members' = (members \ {m}) \cup {r}
    BY <2>1
  <2>3. m \in Member
    BY DEF TypeOK
  <2>4. Safe'
    BY <1>1, <1>3, <2>2, <2>3, EditKeepsWho, MemberEditSafe DEF OperatorChangesMember
  <2>5. TypeOK'
    BY <1>1, <1>3, <2>2, <2>3, EditKeepsWho DEF OperatorChangesMember, TypeOK
  <2> QED
    BY <2>4, <2>5
<1>4. CASE OperatorDeactivates
  <2>1. PICK i \in Installations :
          installations' = [installations EXCEPT ![i] = "inactive"] /\ members' = members
    BY <1>4 DEF OperatorDeactivates
  <2>2. TypeOK' /\ Owned'
    BY <1>1, <2>1 DEF TypeOK, InstallationStatus, Safe, Owned
  <2>3. SchemaAllows(members)' /\ RowsNamed' /\ ApprovedIsMember'
    BY <1>1, <2>1 DEF Safe, SchemaAllows, RowsNamed, ApprovedIsMember
  <2> QED
    BY <2>2, <2>3 DEF Safe
<1> QED
  BY <1>2, <1>3, <1>4 DEF Elsewhere

LEMMA InitSafe == Init => InFlight /\ Safe
<1> SUFFICES ASSUME Init PROVE InFlight /\ Safe
  OBVIOUS
<1>1. InFlight
  BY DEF Init, InFlight, Idle
<1>2. \A m \in members : \E f \in Founders :
        \/ m = ControllerRow(f.inst, f.controller, f.key)
        \/ m = ClientRow(f.inst, f.client)
  BY DEF Init
<1>3. \A f \in Founders : /\ f.inst \in Installations /\ f.controller \in Controllers
                          /\ f.key \in ControllerKeys /\ f.client \in Clients
  BY OnboardingAssumptions
<1>4. RowsNamed
  BY <1>2, <1>3 DEF RowsNamed, ControllerRow, ClientRow
<1>5. SchemaAllows(members)
  <2> SUFFICES ASSUME NEW m \in members, NEW n \in members, m # n
               PROVE  /\ ~(m.inst = n.inst /\ m.key = n.key)
                      /\ ~(m.inst = n.inst /\ m.kind = n.kind /\ m.subject = n.subject)
                      /\ ~(m.kind = "controller" /\ n.kind = "controller" /\ m.subject = n.subject)
    BY DEF SchemaAllows
  <2>1. PICK f \in Founders : \/ m = ControllerRow(f.inst, f.controller, f.key)
                              \/ m = ClientRow(f.inst, f.client)
    BY <1>2
  <2>2. PICK g \in Founders : \/ n = ControllerRow(g.inst, g.controller, g.key)
                              \/ n = ClientRow(g.inst, g.client)
    BY <1>2
  <2>3. m.inst = f.inst /\ n.inst = g.inst
    BY <2>1, <2>2 DEF ControllerRow, ClientRow
  <2>4. CASE f # g
    <3>1. f.inst # g.inst /\ f.controller # g.controller
      BY <2>4, OnboardingAssumptions
    <3>2. m.kind = "controller" /\ n.kind = "controller" => m.subject # n.subject
      BY <2>1, <2>2, <3>1 DEF ControllerRow, ClientRow
    <3> QED
      BY <2>3, <3>1, <3>2
  <2>5. CASE f = g
    <3>1. \/ /\ m = ControllerRow(f.inst, f.controller, f.key)
             /\ n = ClientRow(f.inst, f.client)
          \/ /\ n = ControllerRow(f.inst, f.controller, f.key)
             /\ m = ClientRow(f.inst, f.client)
      BY <2>1, <2>2, <2>5
    <3>2. f.key # f.client
      BY <1>3, KeysDisjoint
    <3> QED
      BY <3>1, <3>2 DEF ControllerRow, ClientRow
  <2> QED
    BY <2>4, <2>5
<1>6. Owned
  <2>1. ASSUME NEW i \in Installations, installations[i] = "active"
        PROVE  \E m \in members : m.kind = "controller" /\ m.inst = i
    <3>1. PICK f \in Founders : f.inst = i
      BY <2>1 DEF Init
    <3>2. ControllerRow(f.inst, f.controller, f.key) \in members
      BY DEF Init
    <3> QED
      BY <3>1, <3>2 DEF ControllerRow
  <2>2. ASSUME NEW m \in members
        PROVE  installations[m.inst] # "absent"
    <3>1. PICK f \in Founders : m.inst = f.inst
      BY <1>2 DEF ControllerRow, ClientRow
    <3> QED
      BY <1>3, <3>1 DEF Init
  <2> QED
    BY <2>1, <2>2 DEF Owned
<1>7. ApprovedIsMember
  BY DEF Init, ApprovedIsMember
<1> QED
  BY <1>1, <1>4, <1>5, <1>6, <1>7 DEF Safe

LEMMA InvStep == IInv /\ [Next]_vars => IInv'
<1> SUFFICES ASSUME IInv, [Next]_vars PROVE IInv'
  OBVIOUS
<1>1. TypeOK /\ InFlight /\ Safe
  BY DEF IInv
<1>2. Idle \in Request /\ Idle.op = "idle"
  BY DEF Request, Idle
<1>3. ASSUME NEW t \in Threads, Handler(t)
      PROVE  IInv'
  <2>1. CASE /\ OnlyPrepares
             /\ \/ thread'[t] = Idle
                \/ /\ thread'[t] \in Request
                   /\ thread'[t].op = "join" => thread'[t].row.status = "pending"
                   /\ thread'[t].op = "invite" => ~thread'[t].row.consumed
             /\ thread' = [thread EXCEPT ![t] = thread'[t]]
    <3>1. thread' \in [Threads -> Request] /\ InFlight'
      BY <1>1, <1>2, <2>1 DEF InFlight, TypeOK
    <3> QED
      BY <1>1, <2>1, <3>1, PrepareSafe DEF IInv
  <2>2. CASE Answer(t) /\ \E j \in Joins, k \in Clients, approve \in BOOLEAN : Decides(j, k, approve)
    <3>1. thread' \in [Threads -> Request] /\ InFlight'
      BY <1>1, <1>2, <2>2 DEF InFlight, TypeOK, Answer
    <3> QED
      BY <1>1, <2>2, <3>1, DecideSafe DEF IInv
  <2> QED
    BY <1>1, <1>3, <2>1, <2>2, HandlerCases
<1>4. ASSUME thread' = thread
      PROVE  InFlight'
  BY <1>1, <1>4 DEF InFlight
<1>5. ASSUME NEW v \in Invitations, NEW k \in Clients, RedeemInvitation(v, k)
      PROVE  IInv'
  BY <1>1, <1>4, <1>5, RedeemSafe DEF IInv, RedeemInvitation
<1>6. CASE Elsewhere
  BY <1>1, <1>4, <1>6, ElsewhereSafe DEF IInv, Elsewhere
<1>7. CASE Tick \/ UNCHANGED vars
  <2>1. UNCHANGED <<tables, thread, edits>> /\ clock' \in 0..MaxTime
    BY <1>1, <1>7, OnboardingAssumptions DEF Tick, vars, TypeOK
  <2>2. TypeOK'
    BY <1>1, <2>1 DEF TypeOK, tables
  <2>3. Safe'
    BY <1>1, <2>1 DEF tables, Safe, SchemaAllows, RowsNamed, Owned, ApprovedIsMember
  <2> QED
    BY <1>4, <2>1, <2>2, <2>3 DEF IInv
<1> QED
  BY <1>3, <1>5, <1>6, <1>7 DEF Next

LEMMA Invariance == Spec => []IInv
<1>1. Init => IInv
  BY InitTyped, InitSafe DEF IInv
<1> QED
  BY <1>1, InvStep, PTL DEF Spec

\* Every table and every request in flight is of its type, and whoever a request
\* approved has a member row ever after, whatever races with the approval.
THEOREM ApprovalGrants == Spec => []OnboardingInv
<1>1. IInv => OnboardingInv
  BY DEF IInv, Safe, OnboardingInv
<1> QED
  BY <1>1, Invariance, PTL

-----------------------------------------------------------------------------
\* A step prepares, decides one request, redeems one invitation, changes what is
\* changed elsewhere, or leaves the tables alone.
LEMMA StepCases ==
  ASSUME IInv, [Next]_vars
  PROVE  \/ OnlyPrepares
         \/ \E j \in Joins, k \in Clients, approve \in BOOLEAN : Decides(j, k, approve)
         \/ \E v \in Invitations, k \in Clients : RedeemInvitation(v, k)
         \/ Elsewhere
         \/ UNCHANGED tables
BY HandlerCases DEF IInv, Next, Tick, vars

LEMMA DecidesOne ==
  ASSUME IInv, NEW j \in Joins, NEW k \in Clients, NEW approve \in BOOLEAN,
         Decides(j, k, approve)
  PROVE  /\ ~Decided(j) /\ Decided(j)'
         /\ \A n \in Joins \ {j} : joins'[n] = joins[n]
<1>1. joins[j] \in Join /\ ~Decided(j)
  BY DEF Decides, Decidable, Pending, Decided, IInv, TypeOK
<1>2. joins' = [joins EXCEPT ![j].status = IF approve THEN "approved" ELSE "denied"]
  BY DEF Decides
<1>3. joins'[j] \in Join /\ joins'[j].status # "pending"
  BY <1>1, <1>2 DEF IInv, TypeOK, Join
<1> QED
  BY <1>1, <1>2, <1>3, NoRowIsNoRow DEF Decided

LEMMA RedeemsOne ==
  ASSUME IInv, NEW v \in Invitations, NEW k \in Clients, RedeemInvitation(v, k)
  PROVE  /\ ~Consumed(v) /\ Consumed(v)'
         /\ \A n \in Invitations \ {v} : invitations'[n] = invitations[n]
<1>1. invitations[v] \in Invitation /\ ~Consumed(v)
  BY DEF RedeemInvitation, Redeemable, Consumed, IInv, TypeOK
<1>2. invitations' = [invitations EXCEPT ![v].consumed = TRUE]
  BY DEF RedeemInvitation
<1>3. invitations'[v] \in Invitation /\ invitations'[v].consumed
  BY <1>1, <1>2 DEF IInv, TypeOK, Invitation
<1>4. Consumed(v)'
  BY <1>3, NoRowIsNoRow DEF Consumed
<1>5. \A n \in Invitations \ {v} : invitations'[n] = invitations[n]
  BY <1>2 DEF IInv, TypeOK
<1> QED
  BY <1>1, <1>4, <1>5

LEMMA PreparesNone ==
  ASSUME OnlyPrepares
  PROVE  /\ \A j \in Joins : Decided(j)' = Decided(j)
         /\ \A j \in Joins : Decided(j) => joins'[j] = joins[j]
         /\ \A v \in Invitations : Consumed(v)' = Consumed(v)
BY DEF OnlyPrepares, Decided, Consumed, SameInvitation

\* Nobody is let in but by a client that is an administrator at that moment, and a
\* decision stands: the write of a decision looks again, and redeem looks itself.
THEOREM OnlyAdminsAdmit == Spec => AdmittedByAdmin
<1> DEFINE A == /\ \A j \in Joins : IF Decided(j) THEN joins'[j] = joins[j]
                                    ELSE Decided(j)' => DecidedBy(j)
                /\ \A v \in Invitations : Consumed(v)' /\ ~Consumed(v) => InTimeByAdmin(v)
<1>1. ASSUME IInv, [Next]_vars PROVE A
  <2>1. CASE OnlyPrepares
    BY <2>1, PreparesNone
  <2>2. ASSUME NEW j \in Joins, NEW k \in Clients, NEW approve \in BOOLEAN,
               Decides(j, k, approve)
        PROVE  A
    <3> DEFINE e == [type |-> IF approve THEN "client_join_approved" ELSE "client_join_denied",
                     inst |-> joins[j].inst, actor |-> k, of |-> j]
    <3>1. /\ ~Decided(j) /\ Decided(j)'
          /\ \A n \in Joins \ {j} : joins'[n] = joins[n]
      BY <1>1, <2>2, DecidesOne
    <3>2. audit' = Append(audit, e) /\ audit \in Seq(AuditEvent)
      BY <1>1, <2>2 DEF Decides, Record, IInv, TypeOK
    <3>3. e.of = j /\ e.inst = joins[j].inst /\ e.actor = k
      OBVIOUS
    <3> HIDE DEF e
    <3>4. /\ Len(audit) + 1 \in DOMAIN audit' \ DOMAIN audit
          /\ audit'[Len(audit) + 1] = e
      BY <3>2
    <3>5. ActiveAdmin(joins[j].inst, k)
      BY <2>2 DEF Decides, Decidable
    <3>6. DecidedBy(j)
      BY <3>3, <3>4, <3>5 DEF DecidedBy
    <3>7. \A v \in Invitations : Consumed(v)' = Consumed(v)
      BY <2>2 DEF Decides, Consumed
    <3>8. \A n \in Joins \ {j} : Decided(n)' = Decided(n)
      BY <3>1 DEF Decided
    <3> QED
      BY <3>1, <3>6, <3>7, <3>8
  <2>3. ASSUME NEW v \in Invitations, NEW k \in Clients, RedeemInvitation(v, k)
        PROVE  A
    <3>1. \A n \in Invitations \ {v} : Consumed(n)' = Consumed(n)
      BY <1>1, <2>3, RedeemsOne DEF Consumed
    <3>2. InTimeByAdmin(v)
      BY <2>3 DEF RedeemInvitation, Redeemable, InTimeByAdmin
    <3>3. \A j \in Joins : joins'[j] = joins[j] /\ Decided(j)' = Decided(j)
      BY <2>3 DEF RedeemInvitation, Decided
    <3> QED
      BY <3>1, <3>2, <3>3
  <2>4. CASE Elsewhere \/ UNCHANGED tables
    BY <2>4 DEF Elsewhere, tables, Decided, Consumed
  <2> QED
    BY <1>1, <2>1, <2>2, <2>3, <2>4, StepCases
<1>2. IInv /\ [Next]_vars => [A]_vars
  BY <1>1
<1> QED
  BY <1>2, Invariance, PTL DEF Spec, AdmittedByAdmin

-----------------------------------------------------------------------------
Marks(x) == {n \in DOMAIN audit : audit[n].of = x}

\* An audit entry counts once for the request or invitation it names.
LEMMA MarksAppend ==
  ASSUME audit \in Seq(AuditEvent), NEW e \in AuditEvent, audit' = Append(audit, e), NEW x
  PROVE  /\ Cardinality(Marks(x)) \in Nat
         /\ Cardinality(Marks(x)') = Cardinality(Marks(x)) + (IF e.of = x THEN 1 ELSE 0)
<1> DEFINE k == Len(audit) + 1
<1>1. /\ Len(audit) \in Nat /\ DOMAIN audit = 1..Len(audit) /\ DOMAIN audit' = 1..k
      /\ \A n \in 1..Len(audit) : audit'[n] = audit[n]
      /\ audit'[k] = e
  OBVIOUS
<1>2. IsFiniteSet(1..Len(audit)) /\ k \notin 1..Len(audit)
  BY <1>1, FS_Interval
<1>3. Marks(x) \subseteq 1..Len(audit)
  BY <1>1 DEF Marks
<1>4. /\ IsFiniteSet(Marks(x)) /\ k \notin Marks(x) /\ Cardinality(Marks(x)) \in Nat
  BY <1>2, <1>3, FS_Subset, FS_CardinalityType
<1>5. Marks(x)' = IF e.of = x THEN Marks(x) \cup {k} ELSE Marks(x)
  BY <1>1 DEF Marks
<1> HIDE DEF k
<1>6. CASE e.of = x
  BY <1>4, <1>5, <1>6, FS_AddElement
<1>7. CASE e.of # x
  BY <1>4, <1>5, <1>7
<1> QED
  BY <1>4, <1>6, <1>7

Counted ==
  /\ \A j \in Joins : Cardinality(Marks(j)) = IF Decided(j) THEN 1 ELSE 0
  /\ \A v \in Invitations : Cardinality(Marks(v)) = IF Consumed(v) THEN 1 ELSE 0

LEMMA CountedStep ==
  ASSUME IInv, Counted, [Next]_vars
  PROVE  Counted'
<1>1. CASE OnlyPrepares
  BY <1>1, PreparesNone DEF OnlyPrepares, Counted, Marks
<1>2. CASE Elsewhere \/ UNCHANGED tables
  BY <1>2 DEF Elsewhere, tables, Counted, Marks, Decided, Consumed
<1>3. ASSUME NEW j \in Joins, NEW k \in Clients, NEW approve \in BOOLEAN,
             Decides(j, k, approve)
      PROVE  Counted'
  <2> DEFINE e == [type |-> IF approve THEN "client_join_approved" ELSE "client_join_denied",
                   inst |-> joins[j].inst, actor |-> k, of |-> j]
  <2>1. joins[j].inst \in Installations
    BY <1>3 DEF Decides, Decidable, Pending, IInv, TypeOK, Join
  <2>2. e \in AuditEvent /\ e.of = j
    BY <2>1 DEF AuditEvent
  <2>3. audit' = Append(audit, e) /\ audit \in Seq(AuditEvent)
    BY <1>3 DEF Decides, Record, IInv, TypeOK
  <2> HIDE DEF e
  <2>4. \A x : /\ Cardinality(Marks(x)) \in Nat
               /\ Cardinality(Marks(x)') = Cardinality(Marks(x)) + (IF j = x THEN 1 ELSE 0)
    BY <2>2, <2>3, MarksAppend
  <2>5. /\ ~Decided(j) /\ Decided(j)'
        /\ \A n \in Joins \ {j} : joins'[n] = joins[n]
    BY <1>3, DecidesOne
  <2>6. \A n \in Joins \ {j} : Decided(n)' = Decided(n)
    BY <2>5 DEF Decided
  <2>7. \A v \in Invitations : Consumed(v)' = Consumed(v) /\ v # j
    BY <1>3, NoRowIsNoRow DEF Decides, Consumed
  <2>8. \A n \in Joins : Cardinality(Marks(n)') = IF Decided(n)' THEN 1 ELSE 0
    BY <2>4, <2>5, <2>6 DEF Counted
  <2>9. \A v \in Invitations : Cardinality(Marks(v)') = IF Consumed(v)' THEN 1 ELSE 0
    BY <2>4, <2>7 DEF Counted
  <2> QED
    BY <2>8, <2>9 DEF Counted
<1>4. ASSUME NEW v \in Invitations, NEW k \in Clients, RedeemInvitation(v, k)
      PROVE  Counted'
  <2> DEFINE e == [type |-> "client_invitation_redeemed", inst |-> invitations[v].inst,
                   actor |-> invitations[v].authorizer, of |-> v]
  <2>1. invitations[v] \in Invitation
    BY <1>4 DEF RedeemInvitation, Redeemable, IInv, TypeOK
  <2>2. e \in AuditEvent /\ e.of = v
    BY <2>1 DEF AuditEvent, Invitation
  <2>3. audit' = Append(audit, e) /\ audit \in Seq(AuditEvent)
    BY <1>4 DEF RedeemInvitation, Record, IInv, TypeOK
  <2> HIDE DEF e
  <2>4. \A x : /\ Cardinality(Marks(x)) \in Nat
               /\ Cardinality(Marks(x)') = Cardinality(Marks(x)) + (IF v = x THEN 1 ELSE 0)
    BY <2>2, <2>3, MarksAppend
  <2>5. /\ ~Consumed(v) /\ Consumed(v)'
        /\ \A n \in Invitations \ {v} : invitations'[n] = invitations[n]
    BY <1>4, RedeemsOne
  <2>6. \A n \in Invitations \ {v} : Consumed(n)' = Consumed(n)
    BY <2>5 DEF Consumed
  <2>7. \A j \in Joins : Decided(j)' = Decided(j) /\ v # j
    BY <1>4, NoRowIsNoRow DEF RedeemInvitation, Decided
  <2>8. \A n \in Invitations : Cardinality(Marks(n)') = IF Consumed(n)' THEN 1 ELSE 0
    BY <2>4, <2>5, <2>6 DEF Counted
  <2>9. \A j \in Joins : Cardinality(Marks(j)') = IF Decided(j)' THEN 1 ELSE 0
    BY <2>4, <2>7 DEF Counted
  <2> QED
    BY <2>8, <2>9 DEF Counted
<1> QED
  BY <1>1, <1>2, <1>3, <1>4, StepCases

\* A request is decided once and an invitation redeemed once, whoever races to do
\* it: the audit trail has one entry for each and none for any other.
THEOREM SingleDecision == Spec => []DecidedOnce
<1>1. Init => Counted
  <2> SUFFICES ASSUME Init PROVE Counted
    OBVIOUS
  <2>1. \A x : Marks(x) = {}
    BY DEF Init, Marks
  <2>2. (\A j \in Joins : ~Decided(j)) /\ (\A v \in Invitations : ~Consumed(v))
    BY DEF Init, Decided, Consumed
  <2> QED
    BY <2>1, <2>2, FS_EmptySet DEF Counted
<1>2. Counted => DecidedOnce
  BY DEF Counted, DecidedOnce, Marks
<1>3. IInv /\ Counted /\ [Next]_vars => Counted'
  BY CountedStep
<1> QED
  BY <1>1, <1>2, <1>3, Invariance, PTL DEF Spec

-----------------------------------------------------------------------------
\* The mapping to Membership, part by part.
OwnerOf(c) == HomeOf(ControllerMembers(members, c))
aowner == [c \in Controllers |-> OwnerOf(c)]
aexpelled == {m.subject : m \in {n \in RevokedRows : n.kind = "controller"}}
asuspended == {i \in Installations : installations[i] = "inactive"}

LEMMA OwnerIs ==
  ASSUME SchemaAllows(members), NEW m \in members, m.kind = "controller"
  PROVE  OwnerOf(m.subject) = m.inst
<1>1. m \in ControllerMembers(members, m.subject)
  BY DEF ControllerMembers
<1>2. \A n \in ControllerMembers(members, m.subject) : n = m
  BY DEF ControllerMembers, SchemaAllows
<1> QED
  BY <1>1, <1>2 DEF OwnerOf, HomeOf

\* A client row written where the client has none moves nothing but the clients.
LEMMA InsertMaps ==
  ASSUME NEW i \in Installations, NEW k \in Clients, Inserts(i, k)
  PROVE  /\ PairsOf(members)' = PairsOf(members) \cup {<<i, k>>}
         /\ RevokedRows' = RevokedRows /\ aowner' = aowner /\ aexpelled' = aexpelled
         /\ PairsOf(RevokedRows)' = PairsOf(RevokedRows)
<1> DEFINE row == ClientRow(i, k)
<1>1. row.kind = "client" /\ row.inst = i /\ row.key = k /\ ~row.revoked
  BY DEF ClientRow
<1> HIDE DEF row
<1>2. members' = IF ClientMembers(members, i, k) = {} THEN members \cup {row} ELSE members
  BY DEF Inserts, row
<1>3. PairsOf(members)' = PairsOf(members) \cup {<<i, k>>}
  <2>1. CASE ClientMembers(members, i, k) = {}
    BY <1>1, <1>2, <2>1 DEF PairsOf
  <2>2. CASE ClientMembers(members, i, k) # {}
    <3>1. <<i, k>> \in PairsOf(members)
      BY <2>2 DEF PairsOf, ClientMembers
    <3> QED
      BY <1>2, <2>2, <3>1 DEF PairsOf
  <2> QED
    BY <2>1, <2>2
<1>4. RevokedRows' = RevokedRows
  BY <1>1, <1>2 DEF RevokedRows
<1>5. \A c : ControllerMembers(members', c) = ControllerMembers(members, c)
  BY <1>1, <1>2 DEF ControllerMembers
<1>6. aowner' = aowner
  BY <1>5 DEF aowner, OwnerOf
<1>7. aexpelled' = aexpelled /\ PairsOf(RevokedRows)' = PairsOf(RevokedRows)
  BY <1>4 DEF aexpelled, PairsOf
<1> QED
  BY <1>3, <1>4, <1>6, <1>7

\* An administrator is a client the installation admitted and has not barred.
LEMMA AdminStands ==
  ASSUME IInv, NEW i, NEW by, ActiveAdmin(i, by)
  PROVE  /\ <<i, by>> \in PairsOf(members) /\ <<i, by>> \notin PairsOf(RevokedRows)
         /\ i \notin asuspended
<1>1. PICK m \in members : m.kind = "client" /\ m.inst = i /\ m.key = by /\ ~m.revoked
  BY DEF ActiveAdmin, ActiveAdminMember, ClientMembers
<1>2. <<i, by>> \in PairsOf(members)
  BY <1>1 DEF PairsOf
<1>3. <<i, by>> \notin PairsOf(RevokedRows)
  <2> SUFFICES ASSUME NEW n \in members, n.revoked, n.inst = i, n.key = by
               PROVE  FALSE
    BY DEF PairsOf, RevokedRows
  <2>1. n = m
    BY <1>1 DEF IInv, Safe, SchemaAllows
  <2> QED
    BY <1>1, <2>1
<1>4. i \notin asuspended
  BY DEF ActiveAdmin, ActiveAdminMember, asuspended
<1> QED
  BY <1>2, <1>3, <1>4

\* Who lets a client in for another is an administrator of the installation.
LEMMA VouchKeeps ==
  ASSUME IInv, NEW i \in Installations, NEW by \in Clients, NEW k \in Clients,
         ActiveAdmin(i, by), Inserts(i, k), UNCHANGED installations
  PROVE  Promise!Vouch(i, by, k)
<1>1. asuspended' = asuspended
  BY DEF asuspended
<1> QED
  BY <1>1, AdminStands, InsertMaps DEF Promise!Vouch, aowner, aexpelled, asuspended, OwnerOf

LEMMA DecideKeeps ==
  ASSUME IInv, NEW j \in Joins, NEW k \in Clients, NEW approve \in BOOLEAN,
         Decides(j, k, approve)
  PROVE  Promise!ANext \/ UNCHANGED <<members, installations>>
<1>1. CASE approve
  <2> DEFINE i == joins[j].inst
             c == joins[j].candidate
  <2>1. i \in Installations /\ c \in Clients
    BY DEF Decides, Decidable, Pending, IInv, TypeOK, Join
  <2>2. ActiveAdmin(i, k) /\ Inserts(i, c) /\ UNCHANGED installations
    BY <1>1 DEF Decides, Decidable, InsertClientMember, Inserts
  <2>3. Promise!Vouch(i, k, c)
    BY <2>1, <2>2, VouchKeeps
  <2> QED
    BY <2>1, <2>3 DEF Promise!ANext
<1>2. CASE ~approve
  BY <1>2 DEF Decides
<1> QED
  BY <1>1, <1>2

LEMMA RedeemKeeps ==
  ASSUME IInv, NEW v \in Invitations, NEW k \in Clients, RedeemInvitation(v, k)
  PROVE  Promise!ANext
<1> DEFINE i == invitations[v].inst
           by == invitations[v].authorizer
<1>1. i \in Installations /\ by \in Clients
  BY DEF RedeemInvitation, Redeemable, IInv, TypeOK, Invitation
<1>2. ActiveAdmin(i, by) /\ Inserts(i, k) /\ UNCHANGED installations
  BY DEF RedeemInvitation, Redeemable, InsertClientMember, Inserts
<1>3. Promise!Vouch(i, by, k)
  BY <1>1, <1>2, VouchKeeps
<1> QED
  BY <1>1, <1>3 DEF Promise!ANext

\* A client enrolled elsewhere is let in by a controller in good standing.
LEMMA AdmitKeeps ==
  ASSUME IInv, NEW c \in Controllers, NEW k \in Clients, AdmitElsewhere(c, k)
  PROVE  Promise!Admit(c, k)
<1>2. PICK m \in ControllerInstallation(c) :
        ClientMembers(members, m.inst, k) = {} /\ members' = members \cup {ClientRow(m.inst, k)}
  BY DEF AdmitElsewhere
<1>3. /\ m \in members /\ m.kind = "controller" /\ m.subject = c /\ ~m.revoked
      /\ m.inst \in Installations /\ installations[m.inst] = "active"
  BY DEF ControllerInstallation, ControllerMembers, IInv, TypeOK, Member
<1>4. aowner[c] = m.inst /\ m.inst # NoRow
  BY <1>3, OwnerIs, NoRowIsNoRow DEF aowner, IInv, Safe
<1>5. c \notin aexpelled
  <2> SUFFICES ASSUME NEW n \in members, n.revoked, n.kind = "controller", n.subject = c
               PROVE  FALSE
    BY DEF aexpelled, RevokedRows
  <2>1. n = m
    BY <1>3 DEF IInv, Safe, SchemaAllows
  <2> QED
    BY <1>3, <2>1
<1>6. <<m.inst, k>> \notin PairsOf(RevokedRows)
  BY <1>2 DEF PairsOf, RevokedRows, ClientMembers
<1>7. m.inst \notin asuspended /\ asuspended' = asuspended
  BY <1>3 DEF asuspended, AdmitElsewhere
<1>8. Inserts(m.inst, k)
  BY <1>2 DEF Inserts
<1> QED
  BY <1>3, <1>4, <1>5, <1>6, <1>7, <1>8, InsertMaps
  DEF Promise!Admit, Promise!InGoodStanding, aowner, aexpelled, asuspended, OwnerOf

\* A controller row of a controller that had none gives it a home and moves no other.
LEMMA HomeMaps ==
  ASSUME NEW c \in Controllers, NEW i \in Installations, ControllerMembers(members, c) = {},
         NEW row, row.kind = "controller", row.inst = i, row.subject = c, ~row.revoked,
         NEW rows, \A m \in rows : m.kind = "client" /\ ~m.revoked,
         members' = members \cup {row} \cup rows
  PROVE  /\ aowner[c] = NoRow /\ aowner' = [aowner EXCEPT ![c] = i]
         /\ RevokedRows' = RevokedRows /\ aexpelled' = aexpelled
         /\ PairsOf(RevokedRows)' = PairsOf(RevokedRows)
<1>1. members' = members \cup {row} \cup rows
  OBVIOUS
<1>2. RevokedRows' = RevokedRows
  BY <1>1 DEF RevokedRows
<1>3. aexpelled' = aexpelled /\ PairsOf(RevokedRows)' = PairsOf(RevokedRows)
  BY <1>2 DEF aexpelled, PairsOf
<1>4. ControllerMembers(members', c) = {row}
  BY <1>1 DEF ControllerMembers
<1>5. \A d : d # c => ControllerMembers(members', d) = ControllerMembers(members, d)
  BY <1>1 DEF ControllerMembers
<1>6. HomeOf({row}) = i /\ HomeOf({}) = NoRow
  BY DEF HomeOf
<1>7. OwnerOf(c) = NoRow /\ OwnerOf(c)' = i
  BY <1>4, <1>6 DEF OwnerOf
<1>8. \A d \in Controllers : d # c => OwnerOf(d)' = OwnerOf(d)
  BY <1>5 DEF OwnerOf
<1>9. aowner' = [d \in Controllers |-> OwnerOf(d)']
  BY DEF aowner
<1>10. aowner = [d \in Controllers |-> OwnerOf(d)]
  BY DEF aowner
<1> QED
  BY <1>2, <1>3, <1>7, <1>8, <1>9, <1>10

\* An installation founded elsewhere belonged to no controller.
LEMMA FoundKeeps ==
  ASSUME IInv, NEW c \in Controllers, NEW i \in Installations,
         NEW key \in ControllerKeys, NEW k \in Clients, FoundElsewhere(c, i, key, k)
  PROVE  Promise!Found(c, i, k)
<1> DEFINE core == ControllerRow(i, c, key)
           row == ClientRow(i, k)
<1>1. /\ core.kind = "controller" /\ core.inst = i /\ core.subject = c /\ ~core.revoked
      /\ row.kind = "client" /\ row.inst = i /\ row.key = k /\ ~row.revoked
  BY DEF ControllerRow, ClientRow
<1>2. members' = members \cup {core} \cup {row} /\ ControllerMembers(members, c) = {}
  BY DEF FoundElsewhere
<1> HIDE DEF core, row
<1>3. /\ aowner[c] = NoRow /\ aowner' = [aowner EXCEPT ![c] = i]
      /\ RevokedRows' = RevokedRows /\ aexpelled' = aexpelled
      /\ PairsOf(RevokedRows)' = PairsOf(RevokedRows)
  <2> DEFINE rows == {row}
  <2>1. \A m \in rows : m.kind = "client" /\ ~m.revoked
    BY <1>1
  <2>2. members' = members \cup {core} \cup rows
    BY <1>2
  <2> HIDE DEF rows
  <2> QED
    BY <1>1, <1>2, <2>1, <2>2, HomeMaps
<1>4. PairsOf(members)' = PairsOf(members) \cup {<<i, k>>}
  BY <1>1, <1>2 DEF PairsOf
<1>5. asuspended' = asuspended
  BY DEF FoundElsewhere, asuspended, IInv, TypeOK
<1>6. ASSUME NEW d \in Controllers
      PROVE  aowner[d] # i
  <2>1. CASE ControllerMembers(members, d) = {}
    BY <2>1, NoRowIsNoRow DEF aowner, OwnerOf, HomeOf
  <2>2. CASE ControllerMembers(members, d) # {}
    <3>1. PICK m \in members : m.kind = "controller" /\ m.subject = d
      BY <2>2 DEF ControllerMembers
    <3>2. m.inst # i
      BY DEF FoundElsewhere, IInv, Safe, Owned
    <3> QED
      BY <3>1, <3>2, OwnerIs DEF aowner, IInv, Safe
  <2> QED
    BY <2>1, <2>2
<1> QED
  BY <1>3, <1>4, <1>5, <1>6 DEF Promise!Found, aowner, aexpelled, asuspended, OwnerOf

\* A controller added elsewhere is let in by a client that is an administrator.
LEMMA AddKeeps ==
  ASSUME IInv, NEW c \in Controllers, NEW i \in Installations,
         NEW key \in ControllerKeys, NEW k \in Clients, AddElsewhere(c, i, key, k)
  PROVE  Promise!Add(c, i, k)
<1> DEFINE core == ControllerRow(i, c, key)
<1>1. core.kind = "controller" /\ core.inst = i /\ core.subject = c /\ ~core.revoked
  BY DEF ControllerRow
<1>2. members' = members \cup {core} \cup {} /\ ControllerMembers(members, c) = {}
  BY DEF AddElsewhere
<1> HIDE DEF core
<1>3. /\ aowner[c] = NoRow /\ aowner' = [aowner EXCEPT ![c] = i]
      /\ RevokedRows' = RevokedRows /\ aexpelled' = aexpelled
      /\ PairsOf(RevokedRows)' = PairsOf(RevokedRows)
  BY <1>1, <1>2, HomeMaps
<1>4. PairsOf(members)' = PairsOf(members)
  BY <1>1, <1>2 DEF PairsOf
<1>5. /\ <<i, k>> \in PairsOf(members) /\ <<i, k>> \notin PairsOf(RevokedRows)
      /\ i \notin asuspended
  BY AdminStands DEF AddElsewhere
<1>6. asuspended' = asuspended
  BY DEF AddElsewhere, asuspended
<1> QED
  BY <1>3, <1>4, <1>5, <1>6 DEF Promise!Add, aowner, aexpelled, asuspended, OwnerOf

LEMMA EnrollKeeps ==
  ASSUME IInv, EnrollElsewhere
  PROVE  Promise!ANext
<1>1. PICK c \in Controllers, k \in Clients :
        \/ AdmitElsewhere(c, k)
        \/ \E i \in Installations, key \in ControllerKeys :
             FoundElsewhere(c, i, key, k) \/ AddElsewhere(c, i, key, k)
  BY DEF EnrollElsewhere
<1>2. \/ Promise!Admit(c, k)
      \/ \E i \in Installations : Promise!Found(c, i, k) \/ Promise!Add(c, i, k)
  BY <1>1, AdmitKeeps, FoundKeeps, AddKeeps
<1> QED
  BY <1>2 DEF Promise!ANext

\* An edit of a member row that keeps who the member is leaves every owner and
\* every admitted client where it was.
LEMMA MemberEditMaps ==
  ASSUME IInv, NEW m \in members, NEW r, r.inst = m.inst, r.kind = m.kind,
         r.subject = m.subject, r.key = m.key, members' = (members \ {m}) \cup {r}
  PROVE  PairsOf(members)' = PairsOf(members) /\ aowner' = aowner
<1>1. members' = (members \ {m}) \cup {r}
  OBVIOUS
<1>2. PairsOf(members)' = PairsOf(members)
  <2>1. \A p : p \in PairsOf(members') <=> p \in PairsOf(members)
    BY <1>1 DEF PairsOf
  <2> QED
    BY <2>1 DEF PairsOf
<1>3. ASSUME NEW c \in Controllers
      PROVE  OwnerOf(c)' = OwnerOf(c)
  <2>1. CASE ControllerMembers(members, c) = {}
    <3>1. ControllerMembers(members', c) = {}
      BY <1>1, <2>1 DEF ControllerMembers
    <3> QED
      BY <2>1, <3>1 DEF OwnerOf, HomeOf
  <2>2. CASE ControllerMembers(members, c) # {}
    <3>1. PICK n \in members : n.kind = "controller" /\ n.subject = c
      BY <2>2 DEF ControllerMembers
    <3>2. OwnerOf(c) = n.inst
      BY <3>1, OwnerIs DEF IInv, Safe
    <3>3. PICK o \in members' : o.kind = "controller" /\ o.subject = c /\ o.inst = n.inst
      BY <1>1, <3>1
    <3>4. \A q \in members' : q.kind = "controller" /\ q.subject = c => q.inst = n.inst
      BY <1>1, <3>1 DEF IInv, Safe, SchemaAllows
    <3>5. \A S : S # {} /\ (\A q \in S : q.inst = n.inst) => HomeOf(S) = n.inst
      BY DEF HomeOf
    <3>6. HomeOf(ControllerMembers(members', c)) = n.inst
      BY <3>3, <3>4, <3>5 DEF ControllerMembers
    <3> QED
      BY <3>2, <3>6 DEF OwnerOf
  <2> QED
    BY <2>1, <2>2
<1>4. aowner' = aowner
  BY <1>3 DEF aowner
<1> QED
  BY <1>2, <1>4

LEMMA RevokeKeeps ==
  ASSUME IInv, NEW m \in members, Revoked(m) # m,
         members' = (members \ {m}) \cup {Revoked(m)}, UNCHANGED installations
  PROVE  Promise!Bar \/ Promise!Expel
<1> DEFINE r == Revoked(m)
<1>1. /\ r.inst = m.inst /\ r.kind = m.kind /\ r.subject = m.subject /\ r.key = m.key
      /\ r.revoked /\ m \in Member
  BY DEF Revoked, IInv, TypeOK, Member
<1>2. ~m.revoked
  BY <1>1 DEF Revoked, Member
<1>3. members' = (members \ {m}) \cup {r}
  OBVIOUS
<1> HIDE DEF r
<1>4. PairsOf(members)' = PairsOf(members) /\ aowner' = aowner
  BY <1>1, <1>3, MemberEditMaps
<1>5. asuspended' = asuspended
  BY DEF asuspended
<1>6. RevokedRows' = RevokedRows \cup {r}
  BY <1>1, <1>2, <1>3 DEF RevokedRows
<1>7. CASE m.kind = "client"
  <2>1. PairsOf(RevokedRows)' = PairsOf(RevokedRows) \cup {<<m.inst, m.key>>}
    BY <1>1, <1>6, <1>7 DEF PairsOf
  <2>2. <<m.inst, m.key>> \in PairsOf(members)
    BY <1>7 DEF PairsOf
  <2>3. aexpelled' = aexpelled
    BY <1>1, <1>6, <1>7 DEF aexpelled
  <2>4. Promise!Bar
    BY <1>4, <1>5, <2>1, <2>2, <2>3
    DEF Promise!Bar, aowner, aexpelled, asuspended, OwnerOf
  <2> QED
    BY <2>4
<1>8. CASE m.kind = "controller"
  <2>1. aexpelled' = aexpelled \cup {m.subject}
    BY <1>1, <1>6, <1>8 DEF aexpelled
  <2>2. PairsOf(RevokedRows)' = PairsOf(RevokedRows)
    BY <1>1, <1>6, <1>8 DEF PairsOf
  <2>3. OwnerOf(m.subject) = m.inst /\ m.inst \in Installations /\ m.subject \in Controllers
    BY <1>1, <1>8, OwnerIs DEF IInv, Safe, RowsNamed, Member
  <2>4. aowner[m.subject] # NoRow
    BY <2>3, NoRowIsNoRow DEF aowner
  <2>5. Promise!Expel
    BY <1>4, <1>5, <2>1, <2>2, <2>3, <2>4
    DEF Promise!Expel, aowner, aexpelled, asuspended, OwnerOf
  <2> QED
    BY <2>5
<1> QED
  BY <1>1, <1>7, <1>8 DEF Member

LEMMA DemoteKeeps ==
  ASSUME IInv, NEW m \in members,
         members' = (members \ {m}) \cup {Demoted(m)}, UNCHANGED installations
  PROVE  UNCHANGED Promise!avars
<1> DEFINE r == Demoted(m)
<1>1. /\ r.inst = m.inst /\ r.kind = m.kind /\ r.subject = m.subject /\ r.key = m.key
      /\ r.revoked = m.revoked
  BY DEF Demoted, IInv, TypeOK, Member
<1>2. members' = (members \ {m}) \cup {r}
  OBVIOUS
<1> HIDE DEF r
<1>3. PairsOf(members)' = PairsOf(members) /\ aowner' = aowner
  BY <1>1, <1>2, MemberEditMaps
<1>4. RevokedRows' = IF m.revoked THEN (RevokedRows \ {m}) \cup {r} ELSE RevokedRows
  BY <1>1, <1>2 DEF RevokedRows
<1>5. PairsOf(RevokedRows)' = PairsOf(RevokedRows)
  <2>1. \A p : p \in PairsOf(RevokedRows)' <=> p \in PairsOf(RevokedRows)
    BY <1>1, <1>4 DEF PairsOf, RevokedRows
  <2> QED
    BY <2>1 DEF PairsOf
<1>6. aexpelled' = aexpelled
  <2>1. \A s : s \in aexpelled' <=> s \in aexpelled
    BY <1>1, <1>4 DEF aexpelled, RevokedRows
  <2> QED
    BY <2>1 DEF aexpelled
<1>7. asuspended' = asuspended
  BY DEF asuspended
<1> QED
  BY <1>3, <1>5, <1>6, <1>7
  DEF Promise!avars, aowner, aexpelled, asuspended, OwnerOf

LEMMA DeactivateKeeps ==
  ASSUME IInv, OperatorDeactivates
  PROVE  Promise!Suspend
<1>1. PICK i \in Installations :
        installations[i] = "active" /\ installations' = [installations EXCEPT ![i] = "inactive"]
  BY DEF OperatorDeactivates
<1>2. PICK m \in members : m.kind = "controller" /\ m.inst = i
  BY <1>1 DEF IInv, Safe, Owned
<1>3. m.subject \in Controllers /\ OwnerOf(m.subject) = i
  BY <1>2, OwnerIs DEF IInv, Safe, RowsNamed
<1>4. asuspended' = asuspended \cup {i}
  BY <1>1 DEF asuspended, IInv, TypeOK
<1>5. members' = members
  BY DEF OperatorDeactivates
<1>6. aowner' = aowner /\ aexpelled' = aexpelled /\ RevokedRows' = RevokedRows
  BY <1>5 DEF aowner, OwnerOf, HomeOf, aexpelled, RevokedRows, ControllerMembers
<1>7. PairsOf(members)' = PairsOf(members) /\ PairsOf(RevokedRows)' = PairsOf(RevokedRows)
  BY <1>5, <1>6 DEF PairsOf
<1>8. aowner[m.subject] = i /\ i # NoRow
  BY <1>3, NoRowIsNoRow DEF aowner
<1> QED
  BY <1>3, <1>4, <1>6, <1>7, <1>8
  DEF Promise!Suspend, aowner, aexpelled, asuspended, OwnerOf

LEMMA StutterKeeps ==
  ASSUME UNCHANGED <<members, installations>>
  PROVE  UNCHANGED Promise!avars
<1>1. RevokedRows' = RevokedRows /\ asuspended' = asuspended
  BY DEF RevokedRows, asuspended
<1>2. aowner' = aowner /\ aexpelled' = aexpelled
  BY <1>1 DEF aowner, OwnerOf, HomeOf, ControllerMembers, aexpelled
<1>3. PairsOf(members)' = PairsOf(members) /\ PairsOf(RevokedRows)' = PairsOf(RevokedRows)
  BY <1>1 DEF PairsOf
<1> QED
  BY <1>1, <1>2, <1>3 DEF Promise!avars, aowner, aexpelled, asuspended, OwnerOf

LEMMA ElsewhereKeeps ==
  ASSUME IInv, Elsewhere
  PROVE  Promise!ANext \/ UNCHANGED Promise!avars
<1>1. CASE OperatorChangesMember
  <2>1. PICK m \in members : \E r \in {Revoked(m), Demoted(m)} \ {m} :
          members' = (members \ {m}) \cup {r}
    BY <1>1 DEF OperatorChangesMember
  <2>2. UNCHANGED installations
    BY <1>1 DEF OperatorChangesMember
  <2>3. CASE Revoked(m) # m /\ members' = (members \ {m}) \cup {Revoked(m)}
    BY <2>2, <2>3, RevokeKeeps DEF Promise!ANext
  <2>4. CASE members' = (members \ {m}) \cup {Demoted(m)}
    BY <2>2, <2>4, DemoteKeeps
  <2> QED
    BY <2>1, <2>3, <2>4
<1>2. CASE EnrollElsewhere
  BY <1>2, EnrollKeeps
<1>3. CASE OperatorDeactivates
  BY <1>3, DeactivateKeeps DEF Promise!ANext
<1> QED
  BY <1>1, <1>2, <1>3 DEF Elsewhere

\* Onboarding keeps what Membership promises while enrollments found installations, add
\* controllers and let clients in, for any number of each: each way in is one of the
\* abstract steps, each edit bars, expels or suspends, and nothing else moves.
THEOREM Implements == Spec => KeepsPromise
<1>1. IInv /\ [Next]_vars => [Promise!ANext]_Promise!avars
  <2> SUFFICES ASSUME IInv, [Next]_vars
               PROVE  Promise!ANext \/ UNCHANGED Promise!avars
    OBVIOUS
  <2>1. CASE UNCHANGED <<members, installations>>
    BY <2>1, StutterKeeps
  <2>2. ASSUME NEW j \in Joins, NEW k \in Clients, NEW approve \in BOOLEAN,
               Decides(j, k, approve)
        PROVE  Promise!ANext \/ UNCHANGED Promise!avars
    BY <2>1, <2>2, DecideKeeps
  <2>3. ASSUME NEW v \in Invitations, NEW k \in Clients, RedeemInvitation(v, k)
        PROVE  Promise!ANext
    BY <2>3, RedeemKeeps
  <2>4. CASE Elsewhere
    BY <2>4, ElsewhereKeeps
  <2> QED
    BY <2>1, <2>2, <2>3, <2>4, StepCases DEF OnlyPrepares, tables
<1> QED
  BY <1>1, Invariance, PTL DEF Spec, KeepsPromise
=============================================================================
