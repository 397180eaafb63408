------------------------- MODULE MCReleasePromotion -------------------------
(* ReleasePromotion for TLC: two firmware releases, one of them staged     *)
(* twice with different content, a desktop release, and a deployment.      *)
(* Controllers are shown the newest release only.                          *)
EXTENDS ReleasePromotion

CONSTANTS v1, v2, bytes, changed, deploy

Release(tag, kind, content) == [tag |-> tag, kind |-> kind, content |-> content]

First == Release(v1, "firmware", bytes)
Changed == Release(v1, "firmware", changed)
Second == Release(v2, "firmware", bytes)
Desktop == Release(v1, "desktop", bytes)

TheReleases == {First, Changed, Second, Desktop}

TheWorkloads == {{First, Changed, deploy}, {First, Second, deploy}, {First, Changed, Second},
                 {Changed, Desktop}}
=============================================================================
