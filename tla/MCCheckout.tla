----------------------------- MODULE MCCheckout -----------------------------
(* Small instances of Checkout: one online order with a failed and a       *)
(* captured payment attempt, and one COD order.                            *)
EXTENDS Checkout

CONSTANTS o1, o2, failed1, paid1

MCOrderOf == [e \in Events |-> o1]
=============================================================================
