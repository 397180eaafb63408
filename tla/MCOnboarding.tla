--------------------------- MODULE MCOnboarding ---------------------------
(* Onboarding for TLC: one home with a controller and a client, a          *)
(* candidate, and a second controller that a grant adds to the home or     *)
(* that founds the second one.                                             *)
EXTENDS Onboarding, TLC

CONSTANTS c1, c2, k1, k2, a, b, i1, i2

OneHome == {[inst |-> i1, controller |-> c1, key |-> k1, client |-> a]}

Symmetric == Permutations(Threads)
=============================================================================
