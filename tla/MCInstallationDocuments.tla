---------------------- MODULE MCInstallationDocuments ----------------------
(* InstallationDocuments for TLC: a home with two clients.  They share a   *)
(* document x beside a large document y: a large x is just within the      *)
(* installation's limit, a huge one beyond it, a vast one beyond its own.   *)
EXTENDS InstallationDocuments, TLC

CONSTANTS a, b, i1, small, large, huge, vast, x, y

TheHome == {ClientRow(i1, a), ClientRow(i1, b)}

Sizes == [p \in Payloads |-> CASE p = small -> 1 [] p = large -> 2 [] p = huge -> 3 [] OTHER -> 4]

Both == {<<i1, a, x>>, <<i1, b, x>>}

Beside == <<[type |-> "written", doc |-> <<i1, y>>, revision |-> 1, payload |-> large]>>

Symmetric == Permutations(Threads) \cup Permutations(Clients)
=============================================================================
