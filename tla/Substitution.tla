---------------------------- MODULE Substitution ----------------------------
(***************************************************************************)
(* The substitution engine (internal/fulfillment/substitution_engine.go):  *)
(* the stock of the catalog and the choice of a substitute for an item     *)
(* that ran out.  A step is one critical section of se.mu.                 *)
(*                                                                         *)
(* Scores are in tenths of a point, as ScoreSubstitute rounds them.  What  *)
(* it looks for in the names (milk, dahi, eggs) is the Kind of an item.    *)
(***************************************************************************)
EXTENDS Integers, FiniteSets, Sequences, SequencesExt

CONSTANTS
  Items,        \* catalog items, one per SKU
  Category, Brand, Price, Kind,
  Stocked,      \* items with stock when the program starts
  StockLevels   \* bound: the quantities that updates set

NoItem == "none"
Kinds  == {"milk", "dahi", "eggs", "other"}

ASSUME CatalogAssumption ==
  /\ IsFiniteSet(Items) /\ NoItem \notin Items /\ Stocked \subseteq Items
  /\ \A i \in Items : Price[i] \in Nat \ {0} /\ Kind[i] \in Kinds
  /\ StockLevels \subseteq Int

(* No price is more than 600 times another (those of the catalog are       *)
(* within a factor of 6, substitution_engine.go:50-69): a substitute of    *)
(* the right kind scores at least a tenth of a point for its price.        *)
ASSUME PricesAssumption == \A i, j \in Items : Price[i] <= 600 * Price[j]

VARIABLES
  stock,         \* StockQuantity
  stockoutCount,
  acceptCount, rejectCount,
  (* history *)
  outages,       \* times an item went from some stock to none
  negatives      \* updates that set a negative quantity

engineVars == <<stock, stockoutCount, acceptCount, rejectCount, outages, negatives>>

EngineInit ==
  /\ stock = [i \in Items |-> IF i \in Stocked THEN 2 ELSE 0]
  /\ stockoutCount = Cardinality(Items \ Stocked)
  /\ acceptCount = 0
  /\ rejectCount = 0
  /\ outages = Cardinality(Items \ Stocked)
  /\ negatives = 0

(* Mutant: every update to zero counts. *)
CountsAlways(i, quantity) == quantity = 0

CountsAsStockout(i, quantity) == quantity = 0 /\ stock[i] # 0

UpdateStock(i, quantity) ==
  /\ stock' = [stock EXCEPT ![i] = quantity]
  /\ stockoutCount' = stockoutCount + IF CountsAsStockout(i, quantity) THEN 1 ELSE 0
  /\ outages' = outages + IF stock[i] > 0 /\ quantity <= 0 THEN 1 ELSE 0
  /\ negatives' = negatives + IF quantity < 0 THEN 1 ELSE 0
  /\ UNCHANGED <<acceptCount, rejectCount>>

RecordAction(action) ==
  /\ acceptCount' = acceptCount + IF action = "accept" THEN 1 ELSE 0
  /\ rejectCount' = rejectCount + IF action = "reject" THEN 1 ELSE 0
  /\ UNCHANGED <<stock, stockoutCount, outages, negatives>>

-----------------------------------------------------------------------------
LargerPrice(t, c) == IF Price[t] > Price[c] THEN Price[t] ELSE Price[c]
LowerPrice(t, c)  == IF Price[t] > Price[c] THEN Price[c] ELSE Price[t]

CategoryScore(t, c) == IF Category[t] = Category[c] THEN 400 ELSE 0

(* 30 points times the ratio of the prices, rounded to a tenth.            *)
PriceScore(t, c) == (600 * LowerPrice(t, c) + LargerPrice(t, c)) \div (2 * LargerPrice(t, c))

BrandScore(t, c) ==
  CASE Brand[t] = Brand[c]       -> 300
    [] Brand[t] # Brand[c] /\ Category[t] = Category[c] -> 150
    [] OTHER                     -> 0

WrongKind(t, c) == Kind[t] # "other" /\ Kind[c] # Kind[t]

ScoreSubstitute(t, c) ==
  IF WrongKind(t, c) THEN 0 ELSE CategoryScore(t, c) + PriceScore(t, c) + BrandScore(t, c)

Candidates(t) == {c \in Items : c # t /\ stock[c] > 0}

(* Mutant: any candidate that scores replaces the best so far. *)
BetterThanNothing(t, c, best) == best = NoItem \/ ScoreSubstitute(t, c) > 0

BetterSubstitute(t, c, best) ==
  best = NoItem \/ ScoreSubstitute(t, c) > ScoreSubstitute(t, best)

(* The loop over the catalog, in the order in which the map yields it.     *)
FindBestSubstitute(t, order) ==
  FoldLeft(LAMBDA best, c : IF BetterSubstitute(t, c, best) THEN c ELSE best, NoItem, order)

(* A Go map is iterated in any order.                                      *)
SearchResults(t) == {FindBestSubstitute(t, order) : order \in SetToSeqs(Candidates(t))}

=============================================================================
