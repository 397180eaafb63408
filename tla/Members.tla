------------------------------ MODULE Members ------------------------------
(***************************************************************************)
(* The tables every Ember handler reads: installations and their members   *)
(* (src/app/db.py), and the checks on them the handlers share.  A constant *)
(* module: the tables are arguments, the modules that extend it keep them  *)
(* as variables.                                                           *)
(*                                                                         *)
(* A member row is known by its installation and key (UNIQUE               *)
(* (installation_id, key_thumbprint)); its uuid is left out.  Of the       *)
(* capability list only "admin" is kept, which every client row is written *)
(* with.                                                                   *)
(***************************************************************************)
EXTENDS Naturals, FiniteSets

CONSTANTS Installations,  \* installation ids uuid4 may produce
          Controllers,    \* controller ids
          ControllerKeys, \* public keys controllers present
          Clients         \* client keys (a thumbprint stands for its key)

ASSUME KeysDisjoint == ControllerKeys \cap Clients = {}

Member == [inst: Installations, kind: {"controller", "client"},
           subject: Controllers \cup Clients,
           key: ControllerKeys \cup Clients,
           admin: BOOLEAN, revoked: BOOLEAN]

InstallationStatus == {"absent", "active", "inactive"}

ControllerRow(i, c, k) ==
  [inst |-> i, kind |-> "controller", subject |-> c, key |-> k,
   admin |-> FALSE, revoked |-> FALSE]

ClientRow(i, k) ==
  [inst |-> i, kind |-> "client", subject |-> k, key |-> k,
   admin |-> TRUE, revoked |-> FALSE]

\* SELECT ... WHERE kind = 'controller' AND subject_id = c
ControllerMembers(members, c) ==
  {m \in members : m.kind = "controller" /\ m.subject = c}

\* SELECT ... WHERE installation_id = i AND kind = 'client' AND key_thumbprint = k
ClientMembers(members, i, k) ==
  {m \in members : m.kind = "client" /\ m.inst = i /\ m.key = k}

\* The UNIQUE constraints a pair of distinct member rows must satisfy.
SchemaAllows(members) ==
  \A m, n \in members :
    m # n => /\ ~(m.inst = n.inst /\ m.key = n.key)
             /\ ~(m.inst = n.inst /\ m.kind = n.kind /\ m.subject = n.subject)
             /\ ~(m.kind = "controller" /\ n.kind = "controller" /\ m.subject = n.subject)

ActiveAdminMember(members, status, i, k) ==
  /\ status[i] = "active"
  /\ \E m \in ClientMembers(members, i, k) : m.admin /\ ~m.revoked

\* A member row as an operator's UPDATE leaves it: revoked, or no longer "admin".
Revoked(m) == [m EXCEPT !.revoked = TRUE]
Demoted(m) == [m EXCEPT !.admin = FALSE]
=============================================================================
