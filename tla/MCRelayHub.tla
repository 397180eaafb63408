---------------------------- MODULE MCRelayHub ----------------------------
(* RelayHub for TLC: two daemons, of which one connects twice, and a       *)
(* request to each.                                                        *)
EXTENDS RelayHub

CONSTANTS p, q, s1, s2, s3, r1, r2

ThreeTunnels == [s \in Sockets |-> IF s = s3 THEN q ELSE p]
OneCallEach == [r \in Requests |-> IF r = r2 THEN q ELSE p]
=============================================================================
