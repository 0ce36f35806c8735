----------------------------- MODULE MCTripPool -----------------------------
(***************************************************************************)
(* Instances of TripPool for TLC: the two demo members every new trip      *)
(* starts with, a member with a name and flat of its own who also joins    *)
(* without giving the name, one who relies on the handler's defaults, one  *)
(* with a web user's id, and a demo member who joins.                      *)
(***************************************************************************)
EXTENDS TripPool, TLC

CONSTANTS k1, k2, mem1, mem2, ann, bob, web, o1, o2, o3, o4

DemoMembers == <<mem1, mem2>>
DemoOrders  == <<o1, o2>>

Request(member, named, flat304, order) ==
  [member |-> member, named |-> named, flat304 |-> flat304, order |-> order]

JoinRequests ==
  {Request(ann, FALSE, FALSE, o3), Request(ann, TRUE, FALSE, o3),
   Request(bob, TRUE, TRUE, o4), Request(web, FALSE, FALSE, o4), Request(mem1, TRUE, FALSE, o4)}

RequestSymmetry == Permutations(Clients)

=============================================================================
