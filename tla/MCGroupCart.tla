----------------------------- MODULE MCGroupCart ----------------------------
(***************************************************************************)
(* Instances of GroupCart for TLC.  The items cost one unit each, but i3,  *)
(* whose price is negative; the threshold is two where removals lock the   *)
(* cart again, and one where items are only added, so that the total may   *)
(* reach it, fall below and reach it again.  demo issues no request, but   *)
(* items are added in its name and, in the demo geofence, it is given d1.  *)
(* MCNameOf gives i1 and d1 the same name, OneName every item.             *)
(***************************************************************************)
EXTENDS GroupCart, TLC

CONSTANTS m1, m2, demo, i1, i2, i3, d1, c1, c2, n1, n2

MCMembers == {m1, m2, demo}
MCPrice   == [i \in Items |-> IF i = i3 THEN -1 ELSE 1]
MCNameOf  == [i \in Items |-> IF i \in {i1, d1} THEN n1 ELSE n2]
MCAddedBy == [i \in Items |-> IF i = i2 THEN m1 ELSE IF i = i3 THEN m2 ELSE demo]
ByDemo    == [i \in Items |-> demo]
OneName   == [i \in Items |-> n1]
NoSeeds   == [m \in Members |-> {}]
DemoSeeds == [m \in Members |-> IF m = demo THEN {d1} ELSE {}]

(* The requesting members are alike when no item is in the name of one.    *)
MemberSymmetry == Permutations(Clients)

=============================================================================
