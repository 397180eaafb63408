--------------------------- MODULE MCEnrollment ---------------------------
(* Enrollment for TLC: two controllers, two clients, an impostor key. *)
EXTENDS Enrollment, TLC

CONSTANTS c1, c2, k1, k2, kx, t1, t2, s1, s2

MCSyntheticTag == (c1 :> s1) @@ (c2 :> s2)

\* What each controller presents, c1 by its tag and by its button, and kx, a
\* key claiming to be c1.
Card1 == [controller |-> c1, tag |-> t1, key |-> k1]
Button1 == [controller |-> c1, tag |-> s1, key |-> k1]
Claim1 == [controller |-> c1, tag |-> t1, key |-> kx]
Card2 == [controller |-> c2, tag |-> t2, key |-> k2]
SameTag2 == [controller |-> c2, tag |-> t1, key |-> k2]

TwoControllers == {Card1, Card2}
OnlySecond == {Card2}
Contested == {Button1, Claim1, Card2}
Clash == {Card1, Claim1, SameTag2}

Symmetric == Permutations(Threads) \cup Permutations(Challenges) \cup Permutations(Installations)
=============================================================================
