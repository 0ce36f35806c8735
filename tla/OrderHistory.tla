---------------------------- MODULE OrderHistory ----------------------------
(***************************************************************************)
(* The order history of one session (the /api/orders endpoints of cmd/sim, *)
(* main.go): a Redis list.  Saving an order reads the list, looks for an   *)
(* order with the same id and pushes the new one, without a transaction;   *)
(* resetting deletes the list.  Redis is external: each command may fail.  *)
(* Which orders are listed matters here, not in which order.               *)
(***************************************************************************)
EXTENDS Integers, FiniteSets

CONSTANTS
  Savers,        \* the clients
  SavedOrders,   \* by id
  Unidentified,  \* those that carry no id
  MaxSaves       \* bound: saves of all clients together

NoPush == "no push"

ASSUME HistoryAssumption ==
  /\ IsFiniteSet(Savers) /\ Unidentified \subseteq SavedOrders /\ NoPush \notin SavedOrders
  /\ MaxSaves \in Nat

VARIABLES
  copies,    \* how often each order is in orders:<session>
  toPush,    \* by client: the order it is about to push
  (* what happened *)
  saves,     \* saves begun
  answered,  \* orders answered ok or duplicate_skipped since the last reset
  lost,      \* orders whose push failed
  misread    \* by order: reads that failed while it was listed

vars == <<copies, toPush, saves, answered, lost, misread>>

Init ==
  /\ copies = [o \in SavedOrders |-> 0]
  /\ toPush = [c \in Savers |-> NoPush]
  /\ saves = 0
  /\ answered = {}
  /\ lost = {}
  /\ misread = [o \in SavedOrders |-> 0]

Listed(o) == copies[o] > 0

(* Mutant: any order counts as the same, as if all ids were empty. *)
DuplicateOfAny(o) == o \notin Unidentified /\ \E p \in SavedOrders : Listed(p)

(* Mutant: the id is compared with the wrong field. *)
NeverDuplicate(o) == FALSE

IsDuplicate(o) == o \notin Unidentified /\ Listed(o)

Begin(c) ==
  /\ toPush[c] = NoPush
  /\ saves < MaxSaves
  /\ saves' = saves + 1

(* Already listed: nothing is pushed.                                      *)
SaveDuplicate(c, o) ==
  /\ Begin(c)
  /\ IsDuplicate(o)
  /\ answered' = answered \cup {o}
  /\ UNCHANGED <<copies, toPush, lost, misread>>

(* Not found; a read that fails finds nothing.                             *)
SaveNew(c, o) ==
  /\ Begin(c)
  /\ toPush' = [toPush EXCEPT ![c] = o]
  /\ \/ ~IsDuplicate(o) /\ UNCHANGED misread
     \/ IsDuplicate(o) /\ misread' = [misread EXCEPT ![o] = @ + 1]
  /\ UNCHANGED <<copies, answered, lost>>

(* The error of LPUSH is not looked at: the answer is ok either way.       *)
SavePush(c) ==
  /\ toPush[c] # NoPush
  /\ \/ copies' = [copies EXCEPT ![toPush[c]] = @ + 1] /\ UNCHANGED lost
     \/ lost' = lost \cup {toPush[c]} /\ UNCHANGED copies
  /\ answered' = answered \cup {toPush[c]}
  /\ toPush' = [toPush EXCEPT ![c] = NoPush]
  /\ UNCHANGED <<saves, misread>>

Reset ==
  /\ copies' = [o \in SavedOrders |-> 0]
  /\ answered' = {}
  /\ UNCHANGED <<toPush, saves, lost, misread>>

Next ==
  \/ \E c \in Savers :
       \/ \E o \in SavedOrders : SaveDuplicate(c, o) \/ SaveNew(c, o)
       \/ SavePush(c)
  \/ Reset

Spec == Init /\ [][Next]_vars
-----------------------------------------------------------------------------
(* The type of every variable.                                             *)
TypeOK ==
  /\ copies \in [SavedOrders -> Nat]
  /\ toPush \in [Savers -> SavedOrders \cup {NoPush}]
  /\ saves \in 0..MaxSaves
  /\ answered \subseteq SavedOrders
  /\ lost \subseteq SavedOrders
  /\ misread \in [SavedOrders -> Nat]

Pushing(o) == Cardinality({c \in Savers : toPush[c] = o})

(***************************************************************************)
(* "Deduplicate order" (main.go:583) is not atomic, but an order with an   *)
(* id is listed at most as often as there are clients, plus once per read  *)
(* that failed, however saves and resets follow each other                 *)
(* (main.go:597-618).                                                      *)
(***************************************************************************)
CopiesBounded ==
  \A o \in SavedOrders \ Unidentified :
    copies[o] + Pushing(o) <= Cardinality(Savers) + misread[o]

(***************************************************************************)
(* An order whose client was told ok or duplicate_skipped is listed until  *)
(* a reset, unless the push failed, which the answer hides                 *)
(* (main.go:608-620).                                                      *)
(***************************************************************************)
AnsweredAreListed == \A o \in answered : Listed(o) \/ o \in lost

=============================================================================
