---------------------------- MODULE MCSettlement ----------------------------
(* A small instance of Settlement: two orders of one account, one cash and *)
(* one online, and one order of another account; subtotals that a          *)
(* commission does not divide evenly, and a balance column that two        *)
(* credits overflow unless a payout comes between.                         *)
EXTENDS Settlement, TLC

CONSTANTS o1, o2, o3, acc1, acc2

MCOrders == {o1, o2, o3}
MCAccountOf == (o1 :> acc1) @@ (o2 :> acc1) @@ (o3 :> acc2)
MCSubtotal == (o1 :> 3) @@ (o2 :> 2) @@ (o3 :> 1)
MCDeliveryFee == (o1 :> 2) @@ (o2 :> 0) @@ (o3 :> 3)
MCServiceFee == [o \in MCOrders |-> 1]
=============================================================================
