---------------------------- MODULE Membership ----------------------------
(***************************************************************************)
(* What courier promises about membership, without challenges, grants,     *)
(* bootstraps, requests or time: a controller joins one installation and   *)
(* stays there, a client is let in only by a controller that is in good    *)
(* standing, and what an operator barred stays barred.                     *)
(***************************************************************************)
CONSTANTS Installations, Controllers, Clients, NoOwner

VARIABLES owner,      \* controller -> its installation
          clients,    \* the pairs <<installation, client>> ever admitted
          barred,     \* the pairs among them whose membership was revoked
          expelled,   \* the controllers whose membership was revoked
          suspended   \* installations an operator deactivated

avars == <<owner, clients, barred, expelled, suspended>>

AInit ==
  /\ owner = [c \in Controllers |-> NoOwner]
  /\ clients = {} /\ barred = {} /\ expelled = {} /\ suspended = {}

InGoodStanding(c) ==
  owner[c] # NoOwner /\ c \notin expelled /\ owner[c] \notin suspended

\* A controller nobody has founds an installation with its first client.
Found(c, i, k) ==
  /\ owner[c] = NoOwner
  /\ \A d \in Controllers : owner[d] # i
  /\ owner' = [owner EXCEPT ![c] = i]
  /\ clients' = clients \cup {<<i, k>>}
  /\ UNCHANGED <<barred, expelled, suspended>>

\* A client of an installation adds a controller nobody has.
Add(c, i, k) ==
  /\ owner[c] = NoOwner
  /\ <<i, k>> \in clients \ barred /\ i \notin suspended
  /\ owner' = [owner EXCEPT ![c] = i]
  /\ UNCHANGED <<clients, barred, expelled, suspended>>

\* A controller in good standing lets a client in.
Admit(c, k) ==
  /\ InGoodStanding(c)
  /\ <<owner[c], k>> \notin barred
  /\ clients' = clients \cup {<<owner[c], k>>}
  /\ UNCHANGED <<owner, barred, expelled, suspended>>

\* A client of an installation lets another in.
Vouch(i, by, k) ==
  /\ <<i, by>> \in clients \ barred /\ i \notin suspended
  /\ clients' = clients \cup {<<i, k>>}
  /\ UNCHANGED <<owner, barred, expelled, suspended>>

Bar ==
  /\ \E p \in clients : barred' = barred \cup {p}
  /\ UNCHANGED <<owner, clients, expelled, suspended>>

Expel ==
  /\ \E c \in Controllers : owner[c] # NoOwner /\ expelled' = expelled \cup {c}
  /\ UNCHANGED <<owner, clients, barred, suspended>>

Suspend ==
  /\ \E c \in Controllers : owner[c] # NoOwner /\ suspended' = suspended \cup {owner[c]}
  /\ UNCHANGED <<owner, clients, barred, expelled>>

ANext ==
  \/ \E c \in Controllers, i \in Installations, k \in Clients :
       Found(c, i, k) \/ Add(c, i, k)
  \/ \E i \in Installations, by, k \in Clients : Vouch(i, by, k)
  \/ \E c \in Controllers, k \in Clients : Admit(c, k)
  \/ Bar \/ Expel \/ Suspend

ASpec == AInit /\ [][ANext]_avars
=============================================================================
