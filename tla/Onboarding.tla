---------------------------- MODULE Onboarding ----------------------------
(***************************************************************************)
(* How a client gets into an installation that has clients already: it     *)
(* asks and one of them decides (join requests), or one of them shares a   *)
(* one-time secret (invitations).  src/app/ember_client_onboarding.py.     *)
(*                                                                         *)
(* The handlers are laid out as in Enrollment: a Read action and a Write,  *)
(* except redeem_invitation, which takes the write lock before it reads.   *)
(* The member table starts with the homes of Founders, none if that is     *)
(* empty, and goes on changing under these handlers by all that an         *)
(* enrollment commits and by an operator's edits.                          *)
(***************************************************************************)
EXTENDS Members, Sequences

CONSTANTS Founders,       \* the installations founded before the start, each by one
                          \* enrollment: [inst, controller, key, client] records
          Threads, Joins, Invitations,
          NoRow,
          JoinLife, InvitationLife,
          MaxTime,        \* bound on the clock
          MaxEdits        \* bound on changes made elsewhere

ASSUME OnboardingAssumptions ==
  /\ Founders \subseteq [inst: Installations, controller: Controllers,
                         key: ControllerKeys, client: Clients]
  /\ \A f, g \in Founders : f # g => f.inst # g.inst /\ f.controller # g.controller
  /\ JoinLife \in Nat \ {0} /\ InvitationLife \in Nat \ {0}
  /\ MaxTime \in Nat /\ MaxEdits \in Nat

VARIABLES clock, installations, members,
          joins,          \* ember_join_requests
          invitations,    \* ember_client_invitations
          audit, thread, edits

tables == <<installations, members, joins, invitations, audit>>
vars == <<clock, tables, thread, edits>>

-----------------------------------------------------------------------------
Join == [inst: Installations, candidate: Clients, expires: Nat,
         status: {"pending", "approved", "denied"}]

Invitation == [inst: Installations, authorizer: Clients, expires: Nat,
               authorized: BOOLEAN, consumed: BOOLEAN]

AuditEvent == [type: {"client_join_approved", "client_join_denied",
                      "client_invitation_redeemed"},
               inst: Installations, actor: Clients, of: Joins \cup Invitations]

ASSUME NoRowIsNoRow ==
  /\ NoRow \notin Join /\ NoRow \notin Invitation /\ NoRow \notin Installations
  /\ Joins \cap Invitations = {}

Idle == [op |-> "idle"]

Request == {Idle}
      \cup [op: {"join"}, row: Join]
      \cup [op: {"decide"}, id: Joins, by: Clients, approve: BOOLEAN]
      \cup [op: {"invite"}, row: Invitation]
      \cup [op: {"authorize"}, id: Invitations]

Init ==
  /\ clock = 0
  /\ installations = [i \in Installations |->
                        IF \E f \in Founders : f.inst = i THEN "active" ELSE "absent"]
  /\ members = {ControllerRow(f.inst, f.controller, f.key) : f \in Founders}
          \cup {ClientRow(f.inst, f.client) : f \in Founders}
  /\ joins = [j \in Joins |-> NoRow]
  /\ invitations = [v \in Invitations |-> NoRow]
  /\ audit = <<>>
  /\ thread = [t \in Threads |-> Idle]
  /\ edits = 0

-----------------------------------------------------------------------------
ActiveAdmin(i, k) == ActiveAdminMember(members, installations, i, k)

\* _controller_installation: the live rows of a controller.
ControllerInstallation(c) ==
  {m \in ControllerMembers(members, c) : ~m.revoked /\ installations[m.inst] = "active"}

\* Mutant: an upsert, which clears revoked_at.
InsertClientMemberAnew(i, k) ==
  (members \ ClientMembers(members, i, k)) \cup {ClientRow(i, k)}

\* Mutant: the new row is lost.
ForgetClientMember(i, k) == members

\* _insert_client_member: a row already there is taken as it is, revoked or not.
InsertClientMember(i, k) ==
  IF ClientMembers(members, i, k) = {} THEN members \cup {ClientRow(i, k)} ELSE members

Keep(t, request) ==
  /\ thread[t] = Idle
  /\ thread' = [thread EXCEPT ![t] = request]
  /\ UNCHANGED <<clock, tables, edits>>

Answer(t) == thread' = [thread EXCEPT ![t] = Idle] /\ UNCHANGED <<clock, edits>>

Record(type, i, k, id) ==
  audit' = Append(audit, [type |-> type, inst |-> i, actor |-> k, of |-> id])

-----------------------------------------------------------------------------
(* POST /client-join-requests: a member, and a candidate with a pending    *)
(* request, are answered from what is there; else a row is inserted.       *)
CreateJoinRead(t) ==
  \E c \in Controllers, k \in Clients : \E m \in ControllerInstallation(c) :
    /\ ClientMembers(members, m.inst, k) = {}
    /\ ~\E j \in Joins :
          /\ joins[j] # NoRow
          /\ joins[j].inst = m.inst /\ joins[j].candidate = k
          /\ joins[j].status = "pending" /\ clock < joins[j].expires
    /\ Keep(t, [op |-> "join", row |-> [inst |-> m.inst, candidate |-> k,
                                        expires |-> clock + JoinLife,
                                        status |-> "pending"]])

CreateJoinInsert(t) ==
  /\ thread[t].op = "join"
  /\ \E j \in Joins :
       /\ joins[j] = NoRow
       /\ joins' = [joins EXCEPT ![j] = thread[t].row]
  /\ Answer(t)
  /\ UNCHANGED <<installations, members, invitations, audit>>

Pending(j) == joins[j] # NoRow /\ joins[j].status = "pending"

(* POST /client-join-requests/{id}/decision *)
DecideRead(t) ==
  \E j \in Joins, k \in Clients, approve \in BOOLEAN :
    /\ Pending(j) /\ clock < joins[j].expires
    /\ ActiveAdmin(joins[j].inst, k)
    /\ Keep(t, [op |-> "decide", id |-> j, by |-> k, approve |-> approve])

\* Mutant: the write trusts what the read found.
DecidableOnTrust(j, k) == joins[j] # NoRow

\* What the write looks at again: not whether the request has expired.
Decidable(j, k) == Pending(j) /\ ActiveAdmin(joins[j].inst, k)

DecideWrite(t) ==
  /\ thread[t].op = "decide"
  /\ LET j == thread[t].id
         k == thread[t].by
         i == joins[j].inst
     IN IF ~Decidable(j, k)
        THEN UNCHANGED tables
        ELSE /\ joins' = [joins EXCEPT ![j].status =
                            IF thread[t].approve THEN "approved" ELSE "denied"]
             /\ members' = IF thread[t].approve
                           THEN InsertClientMember(i, joins[j].candidate) ELSE members
             /\ Record(IF thread[t].approve THEN "client_join_approved"
                       ELSE "client_join_denied", i, k, j)
             /\ UNCHANGED <<installations, invitations>>
  /\ Answer(t)

-----------------------------------------------------------------------------
(* POST /client-invitations *)
CreateInvitationRead(t) ==
  \E i \in Installations, k \in Clients :
    /\ ActiveAdmin(i, k)
    /\ Keep(t, [op |-> "invite", row |-> [inst |-> i, authorizer |-> k,
                                          expires |-> clock + InvitationLife,
                                          authorized |-> FALSE, consumed |-> FALSE]])

CreateInvitationInsert(t) ==
  /\ thread[t].op = "invite"
  /\ \E v \in Invitations :
       /\ invitations[v] = NoRow
       /\ invitations' = [invitations EXCEPT ![v] = thread[t].row]
  /\ Answer(t)
  /\ UNCHANGED <<installations, members, joins, audit>>

Unused(v) ==
  invitations[v] # NoRow /\ ~invitations[v].authorized /\ ~invitations[v].consumed

(* POST /client-invitations/{id}/authorize *)
AuthorizeInvitationRead(t) ==
  \E v \in Invitations :
    /\ Unused(v) /\ clock < invitations[v].expires
    /\ ActiveAdmin(invitations[v].inst, invitations[v].authorizer)
    /\ Keep(t, [op |-> "authorize", id |-> v])

\* A conditional UPDATE: neither expiry nor membership is looked at again.
AuthorizeInvitationWrite(t) ==
  /\ thread[t].op = "authorize"
  /\ LET v == thread[t].id
     IN invitations' = IF Unused(v) THEN [invitations EXCEPT ![v].authorized = TRUE]
                       ELSE invitations
  /\ Answer(t)
  /\ UNCHANGED <<installations, members, joins, audit>>

\* Mutant: any approved invitation redeems, whoever approved it and when.
RedeemableAnyTime(v) ==
  invitations[v] # NoRow /\ invitations[v].authorized /\ ~invitations[v].consumed

Redeemable(v) ==
  /\ invitations[v] # NoRow
  /\ invitations[v].authorized /\ ~invitations[v].consumed
  /\ clock < invitations[v].expires
  /\ ActiveAdmin(invitations[v].inst, invitations[v].authorizer)

(* POST /client-invitations/{id}/redeem, by whoever k holds the secret *)
RedeemInvitation(v, k) ==
  /\ Redeemable(v)
  /\ \E m \in members :
       m.inst = invitations[v].inst /\ m.kind = "controller" /\ ~m.revoked
  /\ members' = InsertClientMember(invitations[v].inst, k)
  /\ invitations' = [invitations EXCEPT ![v].consumed = TRUE]
  /\ Record("client_invitation_redeemed", invitations[v].inst,
            invitations[v].authorizer, v)
  /\ UNCHANGED <<clock, installations, joins, thread, edits>>

-----------------------------------------------------------------------------
\* "database is locked", or courier restarts: the request has written nothing.
Abandon(t) == thread[t] # Idle /\ Answer(t) /\ UNCHANGED tables

\* What reaches the member table from elsewhere: enrollments and an operator's edits.
\* complete_enrollment commits one of three things.  A controller nobody has founds
\* a new installation with the client it enrolls;
FoundElsewhere(c, i, key, k) ==
  /\ ControllerMembers(members, c) = {} /\ installations[i] = "absent"
  /\ members' = members \cup {ControllerRow(i, c, key), ClientRow(i, k)}
  /\ installations' = [installations EXCEPT ![i] = "active"]

\* a controller nobody has joins the installation of the client that granted it, unless
\* its key is taken there;
AddElsewhere(c, i, key, k) ==
  /\ ControllerMembers(members, c) = {} /\ ActiveAdmin(i, k)
  /\ SchemaAllows(members \cup {ControllerRow(i, c, key)})
  /\ members' = members \cup {ControllerRow(i, c, key)}
  /\ UNCHANGED installations

\* a controller in good standing lets in a client its installation does not know.
AdmitElsewhere(c, k) ==
  /\ \E m \in ControllerInstallation(c) :
       /\ ClientMembers(members, m.inst, k) = {}
       /\ members' = members \cup {ClientRow(m.inst, k)}
  /\ UNCHANGED installations

EnrollElsewhere ==
  \E c \in Controllers, k \in Clients :
    \/ AdmitElsewhere(c, k)
    \/ \E i \in Installations, key \in ControllerKeys :
         FoundElsewhere(c, i, key, k) \/ AddElsewhere(c, i, key, k)

OperatorChangesMember ==
  /\ \E m \in members : \E n \in {Revoked(m), Demoted(m)} \ {m} :
       members' = (members \ {m}) \cup {n}
  /\ UNCHANGED installations

OperatorDeactivates ==
  \E i \in Installations :
    /\ installations[i] = "active"
    /\ installations' = [installations EXCEPT ![i] = "inactive"]
    /\ UNCHANGED members

Elsewhere ==
  /\ edits < MaxEdits /\ edits' = edits + 1
  /\ EnrollElsewhere \/ OperatorChangesMember \/ OperatorDeactivates
  /\ UNCHANGED <<clock, joins, invitations, audit, thread>>

Tick ==
  /\ clock < MaxTime /\ clock' = clock + 1
  /\ UNCHANGED <<tables, thread, edits>>

Handler(t) ==
  \/ CreateJoinRead(t) \/ CreateJoinInsert(t) \/ DecideRead(t) \/ DecideWrite(t)
  \/ CreateInvitationRead(t) \/ CreateInvitationInsert(t)
  \/ AuthorizeInvitationRead(t) \/ AuthorizeInvitationWrite(t)
  \/ Abandon(t)

Next ==
  \/ \E t \in Threads : Handler(t)
  \/ \E v \in Invitations, k \in Clients : RedeemInvitation(v, k)
  \/ Elsewhere \/ Tick

Spec == Init /\ [][Next]_vars

-----------------------------------------------------------------------------
TypeOK ==
  /\ clock \in 0..MaxTime
  /\ installations \in [Installations -> InstallationStatus]
  /\ members \subseteq Member
  /\ joins \in [Joins -> Join \cup {NoRow}]
  /\ invitations \in [Invitations -> Invitation \cup {NoRow}]
  /\ audit \in Seq(AuditEvent)
  /\ thread \in [Threads -> Request]
  /\ edits \in 0..MaxEdits

Decided(j) == joins[j] # NoRow /\ joins[j].status # "pending"
Consumed(v) == invitations[v] # NoRow /\ invitations[v].consumed

\* A request is decided once and an invitation redeemed once, whoever races to
\* do it: the audit trail has one entry for each and none for any other.
DecidedOnce ==
  /\ \A j \in Joins :
       Cardinality({n \in DOMAIN audit : audit[n].of = j}) = IF Decided(j) THEN 1 ELSE 0
  /\ \A v \in Invitations :
       Cardinality({n \in DOMAIN audit : audit[n].of = v}) = IF Consumed(v) THEN 1 ELSE 0

\* An approval and the membership it grants are committed together: the client a
\* request approved has a member row in the request's installation ever after.
ApprovedIsMember ==
  \A j \in Joins :
    joins[j] # NoRow /\ joins[j].status = "approved" =>
      ClientMembers(members, joins[j].inst, joins[j].candidate) # {}

\* The rows are of their types, and an approved request has its member.
OnboardingInv == TypeOK /\ ApprovedIsMember

DecidedBy(j) == \E n \in DOMAIN audit' \ DOMAIN audit :
                  audit'[n].of = j /\ ActiveAdmin(audit'[n].inst, audit'[n].actor)

InTimeByAdmin(v) ==
  /\ invitations[v].authorized /\ clock < invitations[v].expires
  /\ ActiveAdmin(invitations[v].inst, invitations[v].authorizer)

\* Nobody is let in but by a client that is an administrator at that moment: a
\* decision is written by one, and stands; an invitation is redeemed in its minute,
\* while the client that approved it still is one.  (The write of that approval looks
\* at neither again, so this rests on redeem alone.)
AdmittedByAdmin ==
  [][/\ \A j \in Joins : IF Decided(j) THEN joins'[j] = joins[j]
                         ELSE Decided(j)' => DecidedBy(j)
     /\ \A v \in Invitations : Consumed(v)' /\ ~Consumed(v) => InTimeByAdmin(v)]_vars

-----------------------------------------------------------------------------
HomeOf(rows) == IF rows = {} THEN NoRow ELSE (CHOOSE m \in rows : TRUE).inst
PairsOf(rows) == {<<m.inst, m.key>> : m \in {n \in rows : n.kind = "client"}}
RevokedRows == {m \in members : m.revoked}

Promise == INSTANCE Membership WITH
  NoOwner <- NoRow,
  owner <- [c \in Controllers |-> HomeOf(ControllerMembers(members, c))],
  clients <- PairsOf(members),
  barred <- PairsOf(RevokedRows),
  expelled <- {m.subject : m \in {n \in RevokedRows : n.kind = "controller"}},
  suspended <- {i \in Installations : installations[i] = "inactive"}

\* Onboarding keeps what Membership promises while enrollments found installations,
\* add controllers to them and let clients in: a client comes in only by a controller
\* in good standing or by a client that is still admitted itself, a controller joins
\* one installation only, and nobody comes back from revocation.
KeepsPromise == [][Promise!ANext]_Promise!avars
=============================================================================
