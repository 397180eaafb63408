-------------------------- MODULE MCPushDelivery --------------------------
(* PushDelivery for TLC: a home with a controller and two clients.         *)
EXTENDS PushDelivery, TLC

CONSTANTS c1, k1, a, b, i1

TheHome == {ControllerRow(i1, c1, k1), ClientRow(i1, a), ClientRow(i1, b)}
=============================================================================
