------------------------- MODULE MCBoardSightings -------------------------
(* BoardSightings for TLC: a home with a controller and a client.          *)
EXTENDS BoardSightings, TLC

CONSTANTS c1, k1, a, i1

TheHome == {ControllerRow(i1, c1, k1), ClientRow(i1, a)}

Symmetric == Permutations(Threads) \cup Permutations(Reporters)
=============================================================================
