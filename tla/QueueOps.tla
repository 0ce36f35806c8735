------------------------------ MODULE QueueOps ------------------------------
(***************************************************************************)
(* The critical sections of OrderQueue (internal/fulfillment/queue.go) as  *)
(* operators on sequences.  Each Go method holds q.mu for its whole body,  *)
(* so each is one indivisible map from the old slice to the new one; the   *)
(* modules that use a queue apply these operators in a single action.      *)
(*                                                                         *)
(* The Go loops that filter a slice keep the order of what they keep:      *)
(* that is Keep(q, K), the subsequence of q at the indices K.  It is       *)
(* written with ranks rather than recursion so that facts about it can be  *)
(* proved (DataLemmas).                                                    *)
(***************************************************************************)
EXTENDS Naturals, Sequences, FiniteSets

(***************************************************************************)
(* How many indices of K are at most i: the position, in the subsequence,  *)
(* of the element that q holds at i.                                       *)
(***************************************************************************)
Rank(K, i) == Cardinality({k \in K : k <= i})

Keep(q, K) ==
  [j \in 1..Cardinality(K) |-> q[CHOOSE i \in K : Rank(K, i) = j]]

(* Mutant: the perishable flag is not looked at. *)
AllIndices(q, perishable) == DOMAIN q

(***************************************************************************)
(* ExtractNonPerishables(maxCount): the loop moves non-perishable orders   *)
(* to `extracted` until it holds max of them, and everything else to       *)
(* `remaining`.                                                            *)
(***************************************************************************)
NonPerishableIndices(q, perishable) == {i \in DOMAIN q : q[i] \notin perishable}

(* Mutant: <= instead of < in the loop's bound. *)
ExtractOneTooMany(q, perishable, max) ==
  LET candidates == NonPerishableIndices(q, perishable)
  IN  {i \in candidates : Rank(candidates, i) <= max + 1}

ExtractIndices(q, perishable, max) ==
  LET candidates == NonPerishableIndices(q, perishable)
  IN  {i \in candidates : Rank(candidates, i) <= max}

Extracted(q, perishable, max) == Keep(q, ExtractIndices(q, perishable, max))

RemainingAfterExtract(q, perishable, max) ==
  Keep(q, DOMAIN q \ ExtractIndices(q, perishable, max))

(***************************************************************************)
(* ConsolidateOrdersByCart: `matching` is the set of orders that carry the *)
(* cart's id and are not consolidated yet.  Fewer than two of them change  *)
(* nothing.  Otherwise the first becomes the primary and the slice is      *)
(* rebuilt as the primary followed by the orders that do not match, so the *)
(* primary moves to the head and the other matching orders leave the queue.*)
(***************************************************************************)
MatchIndices(q, matching) == {i \in DOMAIN q : q[i] \in matching}

CanConsolidate(q, matching) == Cardinality(MatchIndices(q, matching)) >= 2

PrimaryIndex(q, matching) ==
  CHOOSE i \in MatchIndices(q, matching) :
    \A k \in MatchIndices(q, matching) : i <= k

Primary(q, matching) == q[PrimaryIndex(q, matching)]

MergedOrders(q, matching) ==
  {q[i] : i \in MatchIndices(q, matching) \ {PrimaryIndex(q, matching)}}

AfterConsolidate(q, matching) ==
  <<Primary(q, matching)>> \o Keep(q, DOMAIN q \ MatchIndices(q, matching))

=============================================================================
