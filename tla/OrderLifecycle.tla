--------------------------- MODULE OrderLifecycle ---------------------------
(***************************************************************************)
(* What the fulfillment engine promises about one order, whatever the      *)
(* interleaving of dispatchers, pickers and the decision engine: an order  *)
(* is in one place at a time; it arrives once, at its own store; while it  *)
(* waits the engine may withdraw it (unless it is perishable) and must put *)
(* it back into some queue; orders of one group cart waiting at their own  *)
(* store may be merged into one of them; a picker handles one order at a   *)
(* time; completed and merged orders never move again.                     *)
(*                                                                         *)
(* Fulfillment implements this specification (its PlaceOf is the           *)
(* refinement mapping).  There is no Go code for it: it is the contract    *)
(* that queue.go, picker.go and decision_engine.go keep together.          *)
(***************************************************************************)
EXTENDS Naturals

CONSTANTS
  Stores,      \* the dark stores
  Orders,      \* every order of the run
  Pickers,     \* every picker goroutine
  StoreOf,     \* the store each picker works for
  Home,        \* the store each order was placed at (OriginalStoreID)
  Perishable,  \* the orders with IsPerishable
  Carted       \* the orders with a GroupCartID

VARIABLE place

Scheduled(s) == <<"schedule", s>>
Waiting(s)   == <<"queue", s>>
PickedBy(p)  == <<"picker", p>>
Withdrawn    == <<"engine">>
Merged       == <<"merged">>
Completed    == <<"completed">>

Init == place = [o \in Orders |-> Scheduled(Home[o])]

Move(o, from, to) == place[o] = from /\ place' = [place EXCEPT ![o] = to]

Arrive(o) == Move(o, Scheduled(Home[o]), Waiting(Home[o]))

StartPicking(p, o) ==
  /\ \A other \in Orders : place[other] # PickedBy(p)
  /\ Move(o, Waiting(StoreOf[p]), PickedBy(p))

Complete(p, o) == Move(o, PickedBy(p), Completed)

Withdraw(o, s) ==
  /\ o \notin Perishable
  /\ \A other \in Orders : place[other] # Withdrawn
  /\ Move(o, Waiting(s), Withdrawn)

PutBack(o, s) == Move(o, Withdrawn, Waiting(s))

(* Some orders of store s's cart, not all, are merged into one that goes   *)
(* on waiting there.                                                       *)
Merge(s) ==
  LET together == {o \in Carted : Home[o] = s /\ place[o] = Waiting(s)}
  IN  \E merged \in SUBSET together :
        /\ merged # {}
        /\ merged # together
        /\ place' = [o \in Orders |-> IF o \in merged THEN Merged ELSE place[o]]

Next ==
  \/ \E o \in Orders : Arrive(o)
  \/ \E o \in Orders, p \in Pickers : StartPicking(p, o) \/ Complete(p, o)
  \/ \E o \in Orders, s \in Stores : Withdraw(o, s) \/ PutBack(o, s)
  \/ \E s \in Stores : Merge(s)

(***************************************************************************)
(* An order in a picker's or the engine's hands does not stay there: the   *)
(* picker finishes it and the engine puts it back.                         *)
(***************************************************************************)
Fairness ==
  /\ \A o \in Orders, p \in Pickers : WF_place(Complete(p, o))
  /\ \A o \in Orders : WF_place(\E s \in Stores : PutBack(o, s))

Safety == Init /\ [][Next]_place

Spec == Safety /\ Fairness

=============================================================================
