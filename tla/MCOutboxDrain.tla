---------------------------- MODULE MCOutboxDrain ----------------------------
(* A small instance of OutboxDrain: two orders with two events each.          *)
EXTENDS OutboxDrain, TLC

CONSTANTS o1, o2

MCAggregateOf == (1 :> o1) @@ (2 :> o2) @@ (3 :> o1) @@ (4 :> o2)
=============================================================================
