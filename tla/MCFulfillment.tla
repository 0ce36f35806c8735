--------------------------- MODULE MCFulfillment ---------------------------
(***************************************************************************)
(* Instances of Fulfillment for TLC: two stores within range of each other,*)
(* one picker each.  Store 1 has a surge of three orders, of which one is  *)
(* perishable and all share the store's group cart.  With Capacity 2 a     *)
(* store is overloaded from two items on and a target has room with at     *)
(* most one.                                                               *)
(***************************************************************************)
EXTENDS Fulfillment, TLC

CONSTANTS o1, o2, o3, p1, p2

MCStoreOf == (p1 :> 1) @@ (p2 :> 2)
MCDistance == [pair \in (1..2) \X (1..2) |-> IF pair[1] = pair[2] THEN 0 ELSE 1]

SurgeOrders    == {o1, o2, o3}
SurgeSchedule  == <<<<o1, o2, o3>>, <<>>>>
SurgePerishable == {o2}
SurgeCarted    == {o1, o2, o3}
OneTick        == {1}

=============================================================================
