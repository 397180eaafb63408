---------------------------- MODULE Enrollment ----------------------------
(***************************************************************************)
(* How an Ember installation comes to be and who is let in by a            *)
(* controller's own signature: src/app/ember_identity.py.                  *)
(*                                                                         *)
(* FastAPI runs these handlers in a thread pool.  A handler reads with one *)
(* connection (its SELECTs see committed rows and hold no lock), checks    *)
(* what it read and only then writes, so each is two actions of a thread:  *)
(* a Read that keeps in thread[t] what the handler carries on with, and an *)
(* Insert or Write, one SQLite write transaction.  A Read that is refused  *)
(* changes nothing and is no action.                                       *)
(***************************************************************************)
EXTENDS Members, Sequences

CONSTANTS Tags,           \* NFC tag ids
          SyntheticTag,   \* controller id -> "controller_<id>"
          HeldKeys,       \* controller keys whose private half can sign
          Presented,      \* the identities callers present: [controller, tag, key]
          Registered,     \* those an administrator registers
          Threads, Grants, Challenges,
          NoRow,          \* an id that names no row
          ChallengeLife, GrantLife,
          MaxTime,        \* bound on the clock
          MaxEdits        \* bound on the operator's edits of the database

Identity == [controller: Controllers, tag: Tags, key: ControllerKeys]

ASSUME EnrollmentAssumptions ==
  /\ SyntheticTag \in [Controllers -> Tags]
  /\ HeldKeys \subseteq ControllerKeys
  /\ Presented \subseteq Identity /\ Registered \subseteq Identity
  /\ ChallengeLife \in Nat \ {0} /\ GrantLife \in Nat \ {0}
  /\ MaxTime \in Nat /\ MaxEdits \in Nat

VARIABLES clock,
          bootstraps,     \* ember_controller_bootstraps
          installations,  \* ember_installations: id -> status
          members,        \* ember_members
          grants,         \* ember_controller_add_grants
          challenges,     \* ember_enrollment_challenges
          audit,          \* ember_audit_events, in id order
          thread,         \* what each request in flight carries past its read
          edits           \* operator edits so far (bound)

tables == <<bootstraps, installations, members, grants, challenges, audit>>
vars == <<clock, tables, thread, edits>>

-----------------------------------------------------------------------------
\* origin: who wrote the row, an administrator or an enrollment (history; the
\* attestation column is stored and decides nothing).
Bootstrap == [controller: Controllers, tag: Tags, key: ControllerKeys,
              origin: {"registered", "enrolled"}, active: BOOLEAN]

Grant == [inst: Installations, authorizer: Clients, client: Clients,
          controller: Controllers, tag: Tags, key: ControllerKeys,
          expires: Nat, authorized: BOOLEAN, consumed: BOOLEAN]

Challenge == [controller: Controllers, tag: Tags, key: ControllerKeys,
              client: Clients, retrofit: BOOLEAN, grant: Grants \cup {NoRow},
              expires: Nat, consumed: BOOLEAN]

AuditEvent == [type: {"installation_created", "client_enrolled",
                      "controller_added", "controller_recovered"},
               inst: Installations, challenge: Challenges,
               grant: Grants \cup {NoRow}]

ASSUME NoRowIsNoRow ==
  NoRow \notin Grants /\ NoRow \notin Installations /\ NoRow \notin Grant /\ NoRow \notin Challenge

Idle == [op |-> "idle"]

Request == {Idle}
      \cup [op: {"register"}, row: Bootstrap]
      \cup [op: {"grant"}, row: Grant]
      \cup [op: {"begin"}, row: Challenge]
      \cup [op: {"authorize"}, id: Grants]
      \cup [op: {"complete"}, id: Challenges]

Init ==
  /\ clock = 0
  /\ bootstraps = {}
  /\ installations = [i \in Installations |-> "absent"]
  /\ members = {}
  /\ grants = [g \in Grants |-> NoRow]
  /\ challenges = [h \in Challenges |-> NoRow]
  /\ audit = <<>>
  /\ thread = [t \in Threads |-> Idle]
  /\ edits = 0

-----------------------------------------------------------------------------
ActiveAdmin(i, k) == ActiveAdminMember(members, installations, i, k)

TagMatches(b, p) == p.tag \in {b.tag, SyntheticTag[p.controller]}

\* SELECT * FROM ember_controller_bootstraps WHERE controller_id = ? OR tag_id = ?
BootstrapsNaming(p) ==
  {b \in bootstraps : b.controller = p.controller \/ b.tag = p.tag}

BootstrapSchemaAllows(rows) ==
  \A b, d \in rows : b # d => b.controller # d.controller /\ b.tag # d.tag

\* The row fetchone() returns may be any of those the SELECT names.
KnownAs(p) ==
  \/ BootstrapsNaming(p) = {}
  \/ \E b \in BootstrapsNaming(p) :
       b.controller = p.controller /\ TagMatches(b, p) /\ b.key = p.key /\ b.active

Keep(t, request) ==
  /\ thread[t] = Idle
  /\ thread' = [thread EXCEPT ![t] = request]
  /\ UNCHANGED <<clock, tables, edits>>

Answer(t) == thread' = [thread EXCEPT ![t] = Idle] /\ UNCHANGED <<clock, edits>>

-----------------------------------------------------------------------------
(* POST /controller-bootstraps, for an administrator.  Between the SELECT and *)
(* the INSERT another thread may take the id or the tag: then the INSERT      *)
(* raises and nothing is written.                                             *)
RegisterBootstrapRead(t) ==
  \E p \in Registered :
    /\ BootstrapsNaming(p) = {}
    /\ Keep(t, [op |-> "register",
                row |-> [controller |-> p.controller, tag |-> p.tag, key |-> p.key,
                         origin |-> "registered", active |-> TRUE]])

RegisterBootstrapInsert(t) ==
  /\ thread[t].op = "register"
  /\ LET rows == bootstraps \cup {thread[t].row}
         fits == /\ BootstrapSchemaAllows(rows)
                 /\ thread[t].row \notin bootstraps
     IN bootstraps' = IF fits THEN rows ELSE bootstraps
  /\ Answer(t)
  /\ UNCHANGED <<installations, members, grants, challenges, audit>>

-----------------------------------------------------------------------------
(* POST /controller-add-grants *)
CreateGrantRead(t) ==
  \E p \in Presented, i \in Installations, k \in Clients :
    /\ ActiveAdmin(i, k)
    /\ \A m \in ControllerMembers(members, p.controller) :
         m.inst = i /\ ~m.revoked /\ m.key = p.key
    /\ KnownAs(p)
    /\ Keep(t, [op |-> "grant",
                row |-> [inst |-> i, authorizer |-> k, client |-> k,
                         controller |-> p.controller, tag |-> p.tag, key |-> p.key,
                         expires |-> clock + GrantLife,
                         authorized |-> FALSE, consumed |-> FALSE]])

CreateGrantInsert(t) ==
  /\ thread[t].op = "grant"
  /\ \E g \in Grants :
       /\ grants[g] = NoRow
       /\ grants' = [grants EXCEPT ![g] = thread[t].row]
  /\ Answer(t)
  /\ UNCHANGED <<bootstraps, installations, members, challenges, audit>>

\* What authorize checks, before the signature and again under the write lock.
Authorizable(g) ==
  /\ grants[g] # NoRow
  /\ ~grants[g].authorized /\ ~grants[g].consumed
  /\ clock < grants[g].expires
  /\ ActiveAdmin(grants[g].inst, grants[g].authorizer)

(* POST /controller-add-grants/{id}/authorize, signed by the authorizer *)
AuthorizeGrantRead(t) ==
  \E g \in Grants : Authorizable(g) /\ Keep(t, [op |-> "authorize", id |-> g])

AuthorizeGrantWrite(t) ==
  /\ thread[t].op = "authorize"
  /\ LET g == thread[t].id
         accepted == Authorizable(g) /\ grants[g].authorizer = grants[g].client
     IN grants' = IF accepted THEN [grants EXCEPT ![g].authorized = TRUE] ELSE grants
  /\ Answer(t)
  /\ UNCHANGED <<bootstraps, installations, members, challenges, audit>>

-----------------------------------------------------------------------------
\* Mutant: the authorizer's own standing is not looked at again.
GrantUsableByAnyone(g) ==
  /\ grants[g] # NoRow
  /\ grants[g].authorized /\ ~grants[g].consumed
  /\ clock < grants[g].expires

\* Mutant: nobody looks whether the grant was spent.
GrantUsableAgain(g) ==
  /\ grants[g] # NoRow
  /\ grants[g].authorized
  /\ clock < grants[g].expires
  /\ ActiveAdmin(grants[g].inst, grants[g].authorizer)

GrantUsable(g) ==
  /\ grants[g] # NoRow
  /\ grants[g].authorized /\ ~grants[g].consumed
  /\ clock < grants[g].expires
  /\ ActiveAdmin(grants[g].inst, grants[g].authorizer)

\* p: an identity or a challenge
GrantMatches(g, p, k) ==
  /\ grants[g].controller = p.controller
  /\ grants[g].key = p.key
  /\ grants[g].tag = p.tag
  /\ grants[g].client = k

(* POST /enrollment-challenges *)
BeginEnrollmentRead(t) ==
  \E p \in Presented, k \in Clients, g \in Grants \cup {NoRow} :
    /\ KnownAs(p)
    /\ g # NoRow => GrantUsable(g) /\ GrantMatches(g, p, k)
    /\ Keep(t, [op |-> "begin",
                row |-> [controller |-> p.controller, tag |-> p.tag, key |-> p.key,
                         client |-> k, retrofit |-> BootstrapsNaming(p) = {},
                         grant |-> g, expires |-> clock + ChallengeLife,
                         consumed |-> FALSE]])

BeginEnrollmentInsert(t) ==
  /\ thread[t].op = "begin"
  /\ \E h \in Challenges :
       /\ challenges[h] = NoRow
       /\ challenges' = [challenges EXCEPT ![h] = thread[t].row]
  /\ Answer(t)
  /\ UNCHANGED <<bootstraps, installations, members, grants, audit>>

-----------------------------------------------------------------------------
\* Mutant: the write does not see that the challenge was consumed.
OpenAgain(h) == challenges[h] # NoRow /\ clock < challenges[h].expires

Open(h) ==
  challenges[h] # NoRow /\ ~challenges[h].consumed /\ clock < challenges[h].expires

(* POST /enrollment-challenges/{id}/complete *)
\* Mutant: the controller's signature is not verified.
CompleteEnrollmentUnsigned(t) ==
  \E h \in Challenges : Open(h) /\ Keep(t, [op |-> "complete", id |-> h])

\* The controller's signature is checked outside any transaction.
CompleteEnrollmentRead(t) ==
  \E h \in Challenges :
    /\ Open(h)
    /\ challenges[h].key \in HeldKeys
    /\ Keep(t, [op |-> "complete", id |-> h])

\* A retrofit controller's bootstrap is written by the enrollment it signs.
BootstrapsAfter(ch) ==
  IF ch.retrofit /\ BootstrapsNaming(ch) = {}
  THEN bootstraps \cup {[controller |-> ch.controller, tag |-> ch.tag, key |-> ch.key,
                         origin |-> "enrolled", active |-> TRUE]}
  ELSE bootstraps

\* Mutant: a retrofit challenge is content with the controller's id and tag.
IdentityUnchangedKeyAside(ch) ==
  \E b \in BootstrapsAfter(ch) : b.controller = ch.controller /\ b.active /\ TagMatches(b, ch)

IdentityUnchanged(ch) ==
  \E b \in BootstrapsAfter(ch) :
    /\ b.controller = ch.controller /\ b.key = ch.key /\ b.active
    /\ IF ch.retrofit THEN b.tag = ch.tag ELSE TagMatches(b, ch)

CreatesInstallation(ch) ==
  ch.grant = NoRow /\ ControllerMembers(members, ch.controller) = {}

\* The installation an enrollment lands in: the grant's, a new one, or the
\* one its controller is already a member of.
Homes(ch) ==
  IF ch.grant # NoRow THEN {grants[ch.grant].inst}
  ELSE IF CreatesInstallation(ch)
       THEN {i \in Installations : installations[i] = "absent"}
       ELSE {m.inst : m \in ControllerMembers(members, ch.controller)}

\* Mutant: the controller row's subject and key change places.
MembersAfterSwapped(ch, i) ==
  members \cup {ControllerRow(i, ch.key, ch.controller), ClientRow(i, ch.client)}

MembersAfter(ch, i) ==
  members
  \cup (IF ControllerMembers(members, ch.controller) = {}
        THEN {ControllerRow(i, ch.controller, ch.key)} ELSE {})
  \cup (IF ClientMembers(members, i, ch.client) = {}
        THEN {ClientRow(i, ch.client)} ELSE {})

\* Mutant: the controller may have joined another installation meanwhile.
GrantStillFitsAnywhere(ch, i) ==
  ch.grant # NoRow => GrantUsable(ch.grant) /\ GrantMatches(ch.grant, ch, ch.client)

GrantStillFits(ch, i) ==
  ch.grant # NoRow =>
    /\ GrantUsable(ch.grant) /\ GrantMatches(ch.grant, ch, ch.client)
    /\ grants[ch.grant].authorizer = grants[ch.grant].client
    /\ grants[ch.grant].authorizer = ch.client
    /\ \A m \in ControllerMembers(members, ch.controller) : m.inst = i /\ m.key = ch.key

\* Mutant: a revoked client is found by its key and let in.
NobodyRevokedButClient(ch, i) ==
  LET owner == ControllerMembers(members, ch.controller)
  IN /\ \A m \in owner : ~m.revoked
     /\ owner # {} => installations[i] = "active"

NobodyRevoked(ch, i) ==
  LET owner == ControllerMembers(members, ch.controller)
  IN /\ \A m \in owner : ~m.revoked
     /\ owner # {} => installations[i] = "active"
     /\ \A m \in ClientMembers(members, i, ch.client) : ~m.revoked

Completable(h, i) ==
  LET ch == challenges[h]
  IN /\ Open(h)
     /\ IdentityUnchanged(ch)
     /\ GrantStillFits(ch, i)
     /\ NobodyRevoked(ch, i)
     /\ SchemaAllows(MembersAfter(ch, i))

EventType(ch) ==
  IF ch.grant # NoRow
  THEN IF ControllerMembers(members, ch.controller) = {}
       THEN "controller_added" ELSE "controller_recovered"
  ELSE IF CreatesInstallation(ch) THEN "installation_created" ELSE "client_enrolled"

\* The one transaction of complete_enrollment: all of it, or a rollback.
CompleteEnrollmentWrite(t) ==
  /\ thread[t].op = "complete"
  /\ LET h == thread[t].id
         ch == challenges[h]
     IN \E i \in Homes(ch) :
          IF Completable(h, i)
          THEN /\ bootstraps' = BootstrapsAfter(ch)
               /\ installations' = IF CreatesInstallation(ch)
                                   THEN [installations EXCEPT ![i] = "active"]
                                   ELSE installations
               /\ members' = MembersAfter(ch, i)
               /\ grants' = IF ch.grant # NoRow
                            THEN [grants EXCEPT ![ch.grant].consumed = TRUE]
                            ELSE grants
               /\ challenges' = [challenges EXCEPT ![h].consumed = TRUE]
               /\ audit' = Append(audit, [type |-> EventType(ch), inst |-> i,
                                          challenge |-> h, grant |-> ch.grant])
          ELSE UNCHANGED tables
  /\ Answer(t)

-----------------------------------------------------------------------------
(* No handler revokes anything: an operator edits the rows. *)
OperatorRevokes ==
  \E m \in members :
    /\ ~m.revoked
    /\ members' = (members \ {m}) \cup {Revoked(m)}
    /\ UNCHANGED <<bootstraps, installations>>

OperatorDemotes ==
  \E m \in members :
    /\ m.admin
    /\ members' = (members \ {m}) \cup {Demoted(m)}
    /\ UNCHANGED <<bootstraps, installations>>

OperatorDeactivates ==
  \E i \in Installations :
    /\ installations[i] = "active"
    /\ installations' = [installations EXCEPT ![i] = "inactive"]
    /\ UNCHANGED <<bootstraps, members>>

OperatorRetires ==
  \E b \in bootstraps :
    /\ b.active
    /\ bootstraps' = (bootstraps \ {b}) \cup {[b EXCEPT !.active = FALSE]}
    /\ UNCHANGED <<installations, members>>

OperatorEdits ==
  /\ edits < MaxEdits /\ edits' = edits + 1
  /\ OperatorRevokes \/ OperatorDemotes \/ OperatorDeactivates \/ OperatorRetires
  /\ UNCHANGED <<clock, grants, challenges, audit, thread>>

Tick ==
  /\ clock < MaxTime /\ clock' = clock + 1
  /\ UNCHANGED <<tables, thread, edits>>

\* "database is locked" after SQLite's wait, or courier restarts: the request
\* in flight is gone and has written nothing.
Abandon(t) ==
  /\ thread[t] # Idle
  /\ Answer(t)
  /\ UNCHANGED tables

Handler(t) ==
  \/ Abandon(t)
  \/ RegisterBootstrapRead(t) \/ RegisterBootstrapInsert(t)
  \/ CreateGrantRead(t) \/ CreateGrantInsert(t)
  \/ AuthorizeGrantRead(t) \/ AuthorizeGrantWrite(t)
  \/ BeginEnrollmentRead(t) \/ BeginEnrollmentInsert(t)
  \/ CompleteEnrollmentRead(t) \/ CompleteEnrollmentWrite(t)

Next == (\E t \in Threads : Handler(t)) \/ OperatorEdits \/ Tick

Spec == Init /\ [][Next]_vars
-----------------------------------------------------------------------------
TypeOK ==
  /\ clock \in 0..MaxTime
  /\ bootstraps \subseteq Bootstrap
  /\ installations \in [Installations -> InstallationStatus]
  /\ members \subseteq Member
  /\ grants \in [Grants -> Grant \cup {NoRow}]
  /\ challenges \in [Challenges -> Challenge \cup {NoRow}]
  /\ audit \in Seq(AuditEvent)
  /\ thread \in [Threads -> Request]
  /\ edits \in 0..MaxEdits

\* Every controller member is the controller its bootstrap describes, whatever
\* the order in which two retrofit enrollments with different keys, an
\* administrator's registration and a grant reach the database: no member row
\* ever outlives or contradicts the identity that was proved for it.
ControllerKeyAgrees ==
  \A m \in members :
    m.kind = "controller" =>
      \E b \in bootstraps : b.controller = m.subject /\ b.key = m.key

\* A key nobody can sign with gets no controller into an installation, and is
\* pinned to a controller only by an administrator: a retrofit identity stays
\* inside its challenge until that key has signed (db.py's migration comment).
KeyPossessed ==
  /\ \A m \in members : m.kind = "controller" => m.key \in HeldKeys
  /\ \A b \in bootstraps : b.origin = "enrolled" => b.key \in HeldKeys

\* Challenges and grants are spent once: the audit trail has exactly one entry
\* for a consumed challenge, none for an open one, and the same for grants,
\* although several requests may carry the same challenge past its read, and
\* several challenges may name the same grant.
SpentOnce ==
  /\ \A h \in Challenges :
       Cardinality({n \in DOMAIN audit : audit[n].challenge = h})
         = IF challenges[h] # NoRow /\ challenges[h].consumed THEN 1 ELSE 0
  /\ \A g \in Grants :
       Cardinality({n \in DOMAIN audit : audit[n].grant = g})
         = IF grants[g] # NoRow /\ grants[g].consumed THEN 1 ELSE 0

\* A spent grant put its controller where the grant says and nowhere else: the
\* controller is a member of the authorizer's installation, with the key the
\* authorizer signed for, even if it enrolled elsewhere while the grant waited.
GrantKeepsHome ==
  \A g \in Grants :
    grants[g] # NoRow /\ grants[g].consumed =>
      \A m \in ControllerMembers(members, grants[g].controller) :
        m.inst = grants[g].inst /\ m.key = grants[g].key

Spends(h) == challenges[h] # NoRow /\ ~challenges[h].consumed /\ challenges'[h].consumed
SpendsGrant(g) == grants[g] # NoRow /\ ~grants[g].consumed /\ grants'[g].consumed

\* When an enrollment succeeds the client and the controller it names are both
\* unrevoked members of one active installation: no enrollment readmits a member
\* revoked, or an installation deactivated, after the challenge was issued or
\* after this request last looked.
EnrollsLiveMembers ==
  [][\A h \in Challenges : Spends(h) =>
       /\ clock < challenges[h].expires
       /\ \E i \in Installations :
            /\ installations'[i] = "active"
            /\ \E m \in ControllerMembers(members', challenges[h].controller) :
                 m.inst = i /\ ~m.revoked
            /\ \E m \in ClientMembers(members', i, challenges[h].client) : ~m.revoked]_vars

\* A grant is spent only in its time, after its authorizer approved it, and while
\* that authorizer is still an administrator of the installation.
GrantSpentByAdmin ==
  [][\A g \in Grants : SpendsGrant(g) =>
       /\ grants[g].authorized /\ clock < grants[g].expires
       /\ ActiveAdmin(grants[g].inst, grants[g].authorizer)]_vars

-----------------------------------------------------------------------------
\* The abstract state the tables stand for.
HomeOf(rows) == IF rows = {} THEN NoRow ELSE (CHOOSE m \in rows : TRUE).inst
OwnerOf(c) == HomeOf(ControllerMembers(members, c))

PairsOf(rows) == {<<m.inst, m.key>> : m \in {n \in rows : n.kind = "client"}}
RevokedRows == {m \in members : m.revoked}

Promise == INSTANCE Membership WITH
  NoOwner <- NoRow,
  owner <- [c \in Controllers |-> OwnerOf(c)],
  clients <- PairsOf(members),
  barred <- PairsOf(RevokedRows),
  expelled <- {m.subject : m \in {n \in RevokedRows : n.kind = "controller"}},
  suspended <- {i \in Installations : installations[i] = "inactive"}

\* Enrollment keeps what Membership promises, with any number of requests in
\* flight: one installation per controller for good, clients let in only by a
\* controller in good standing, controllers added only by a client still
\* admitted, and nobody un-revoked.
KeepsPromise == Promise!ASpec
=============================================================================
