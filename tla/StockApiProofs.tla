--------------------------- MODULE StockApiProofs ---------------------------
(***************************************************************************)
(* Theorems about StockApi, for every catalog, every number of clients and *)
(* viewers and every order in which the map yields the catalog.            *)
(***************************************************************************)
EXTENDS StockApi, DataLemmas

(***************************************************************************)
(* Scores.  Two items have a price ratio of at least a six hundredth, so   *)
(* the price alone gives an item of the right kind a score; one of a wrong *)
(* kind scores nothing (substitution_engine.go:148-196).                   *)
(***************************************************************************)
LEMMA Quotient ==
  ASSUME NEW a \in Nat, NEW b \in Nat \ {0}
  PROVE  a \div b \in Nat /\ (a >= b => a \div b >= 1)
OBVIOUS

LEMMA PriceScored ==
  ASSUME NEW t \in Items, NEW c \in Items
  PROVE  PriceScore(t, c) \in Nat \ {0}
<1>1. /\ Price[t] \in Nat \ {0} /\ Price[c] \in Nat \ {0}
      /\ Price[t] <= 600 * Price[c] /\ Price[c] <= 600 * Price[t]
  BY CatalogAssumption, PricesAssumption
<1>2. PICK lower \in Nat \ {0}, larger \in Nat \ {0} :
        lower = LowerPrice(t, c) /\ larger = LargerPrice(t, c) /\ larger <= 600 * lower
  BY <1>1 DEF LowerPrice, LargerPrice
<1>3. 600 * lower + larger \in Nat /\ 2 * larger \in Nat \ {0} /\ 600 * lower + larger >= 2 * larger
  BY <1>2
<1>4. PriceScore(t, c) = (600 * lower + larger) \div (2 * larger)
  BY <1>2 DEF PriceScore
<1>5. (600 * lower + larger) \div (2 * larger) \in Nat /\ (600 * lower + larger) \div (2 * larger) >= 1
  BY <1>3, Quotient
<1> QED
  BY <1>4, <1>5

LEMMA Scored ==
  ASSUME NEW t \in Items, NEW c \in Items
  PROVE  /\ ScoreSubstitute(t, c) \in Nat
         /\ ScoreSubstitute(t, c) = 0 <=> WrongKind(t, c)
<1>1. PICK p \in Nat \ {0} : p = PriceScore(t, c)
  BY PriceScored
<1>2. PICK k \in Nat : k = CategoryScore(t, c)
  BY DEF CategoryScore
<1>3. PICK b \in Nat : b = BrandScore(t, c)
  <2>1. CASE Brand[t] = Brand[c]
    BY <2>1 DEF BrandScore
  <2>2. CASE Brand[t] # Brand[c] /\ Category[t] = Category[c]
    BY <2>2 DEF BrandScore
  <2>3. CASE Brand[t] # Brand[c] /\ Category[t] # Category[c]
    BY <2>3 DEF BrandScore
  <2> QED
    BY <2>1, <2>2, <2>3
<1>4. CASE WrongKind(t, c)
  BY <1>4 DEF ScoreSubstitute
<1>5. CASE ~WrongKind(t, c)
  <2>1. ScoreSubstitute(t, c) = k + p + b
    BY <1>1, <1>2, <1>3, <1>5 DEF ScoreSubstitute
  <2>2. k + p + b \in Nat /\ k + p + b # 0
    OBVIOUS
  <2> QED
    BY <1>5, <2>1, <2>2
<1> QED
  BY <1>4, <1>5

(***************************************************************************)
(* The loop over the catalog, as a function of the part of the order it    *)
(* has looked at.                                                          *)
(***************************************************************************)
BestUpTo(t, order, g, s) ==
  IF s = {} THEN NoItem
  ELSE IF BetterSubstitute(t, order[Max(s)], g[s \ {Max(s)}]) THEN order[Max(s)]
       ELSE g[s \ {Max(s)}]

LEMMA FindIsFold ==
  ASSUME NEW t, NEW order
  PROVE  FindBestSubstitute(t, order) =
           (CHOOSE g : g = [s \in SUBSET DOMAIN order |-> BestUpTo(t, order, g, s)])[DOMAIN order]
BY DEF FindBestSubstitute, FoldLeft, MapThenFoldSet, BestUpTo

LEMMA MaxIn ==
  ASSUME NEW n \in Nat, NEW s \in SUBSET (1..n), s # {}
  PROVE  Max(s) \in s
<1>1. IsFiniteSet(1..n)
  BY FS_Interval
<1>2. IsFiniteSet(s) /\ s \in SUBSET Int
  <2>1. s \in SUBSET Int
    OBVIOUS
  <2> QED
    BY <1>1, <2>1, FS_Subset
<1>3. PICK m \in s : \A k \in s : k <= m
  BY <1>2, GreatestElement
<1>4. \A k \in s : m >= k
  BY <1>2, <1>3
<1> QED
  BY <1>4 DEF Max

LEMMA SearchIsFold ==
  ASSUME NEW t \in Items, NEW n \in Nat, NEW order \in [1..n -> Items]
  PROVE  \E g : /\ FindBestSubstitute(t, order) = g[1..n]
                /\ \A s \in SUBSET (1..n) : g[s] = BestUpTo(t, order, g, s)
<1> DEFINE S == 1..n
           V == Items \cup {NoItem}
<1>1. PICK c, f : /\ c = [s \in SUBSET S |-> Max(s)]
                  /\ f = [s \in SUBSET S |-> [v \in V |->
                            IF BetterSubstitute(t, order[Max(s)], v) THEN order[Max(s)] ELSE v]]
  OBVIOUS
<1>2. IsFiniteSet(S)
  BY FS_Interval
<1>3. ASSUME NEW s \in SUBSET S, s # {}
      PROVE  /\ c[s] = Max(s) /\ c[s] \in s /\ order[Max(s)] \in V
             /\ \A v \in V : /\ f[s][v] = IF BetterSubstitute(t, order[Max(s)], v) THEN order[Max(s)] ELSE v
                             /\ f[s][v] \in V
  <2>1. Max(s) \in s
    BY <1>3, MaxIn
  <2>2. order[Max(s)] \in V
    BY <2>1
  <2> QED
    BY <1>1, <2>1, <2>2
<1>4. PICK e \in [SUBSET S -> V] : IsFold(e, S, NoItem, c, f)
  <2>1. Foldable(S, V, NoItem, c, f)
    BY <1>2, <1>3 DEF Foldable
  <2> QED
    BY <2>1, FoldExists
<1>5. ASSUME NEW s \in SUBSET S PROVE e[s] = BestUpTo(t, order, e, s)
  <2>1. CASE s = {}
    BY <1>4, <2>1 DEF IsFold, FoldStep, BestUpTo
  <2>2. CASE s # {}
    <3>1. e[s \ {Max(s)}] \in V
      BY <1>4
    <3>2. e[s] = f[s][e[s \ {Max(s)}]]
      BY <1>3, <1>4, <2>2 DEF IsFold, FoldStep
    <3>3. f[s][e[s \ {Max(s)}]] =
            IF BetterSubstitute(t, order[Max(s)], e[s \ {Max(s)}]) THEN order[Max(s)] ELSE e[s \ {Max(s)}]
      BY <1>3, <2>2, <3>1
    <3> QED
      BY <2>2, <3>2, <3>3 DEF BestUpTo
  <2> QED
    BY <2>1, <2>2
<1>6. e = [s \in SUBSET S |-> BestUpTo(t, order, e, s)]
  <2>1. e = [s \in SUBSET S |-> e[s]]
    BY <1>4
  <2> QED
    BY <1>5, <2>1
<1>7. PICK g : g = CHOOSE h : h = [s \in SUBSET S |-> BestUpTo(t, order, h, s)]
  OBVIOUS
<1>8. g = [s \in SUBSET S |-> BestUpTo(t, order, g, s)]
  BY <1>6, <1>7
<1>9. FindBestSubstitute(t, order) = g[1..n]
  <2>1. DOMAIN order = S
    OBVIOUS
  <2> QED
    BY <1>7, <2>1, FindIsFold
<1>10. \A s \in SUBSET S : g[s] = BestUpTo(t, order, g, s)
  BY <1>8
<1> QED
  BY <1>9, <1>10

(***************************************************************************)
(* Whatever the order, the loop ends with an item it has looked at and     *)
(* that none it has looked at beats.                                       *)
(***************************************************************************)
LEMMA LoopFindsBest ==
  ASSUME NEW t \in Items, NEW n \in Nat, NEW order \in [1..n -> Items]
  PROVE  /\ n = 0 => FindBestSubstitute(t, order) = NoItem
         /\ n # 0 => \E i \in 1..n :
              /\ FindBestSubstitute(t, order) = order[i]
              /\ \A j \in 1..n : ScoreSubstitute(t, order[j]) <= ScoreSubstitute(t, order[i])
<1>1. PICK g : /\ FindBestSubstitute(t, order) = g[1..n]
               /\ \A s \in SUBSET (1..n) : g[s] = BestUpTo(t, order, g, s)
  BY SearchIsFold
<1> DEFINE Finds(s) == \E i \in s : /\ g[s] = order[i]
                                    /\ \A j \in s : ScoreSubstitute(t, order[j]) <= ScoreSubstitute(t, order[i])
           B == {s \in SUBSET (1..n) : s # {} /\ ~Finds(s)}
<1>2. IsFiniteSet(1..n) /\ \A j \in 1..n : order[j] \in Items /\ order[j] # NoItem
  BY FS_Interval, CatalogAssumption
<1>3. \A j \in 1..n : ScoreSubstitute(t, order[j]) \in Nat
  BY <1>2, Scored
<1>4. ASSUME B # {} PROVE FALSE
  <2>1. PICK b \in B : \A d \in SUBSET b : d # b => d \notin B
    <3>1. B \in SUBSET (SUBSET (1..n))
      OBVIOUS
    <3> HIDE DEF B
    <3> QED
      BY <1>2, <1>4, <3>1, SmallestSubset
  <2>2. b \in SUBSET (1..n) /\ b # {} /\ ~Finds(b)
    OBVIOUS
  <2>3. PICK m \in b : m = Max(b)
    BY <2>2, MaxIn
  <2>4. g[b] = IF BetterSubstitute(t, order[m], g[b \ {m}]) THEN order[m] ELSE g[b \ {m}]
    BY <1>1, <2>2, <2>3 DEF BestUpTo
  <2>5. CASE b \ {m} = {}
    <3>1. g[b \ {m}] = NoItem
      BY <1>1, <2>5 DEF BestUpTo
    <3>2. g[b] = order[m]
      BY <2>4, <3>1 DEF BetterSubstitute
    <3>3. \A j \in b : j = m
      BY <2>5
    <3>4. ScoreSubstitute(t, order[m]) \in Nat
      BY <1>3, <2>2
    <3>5. \A j \in b : ScoreSubstitute(t, order[j]) <= ScoreSubstitute(t, order[m])
      BY <3>3, <3>4
    <3> QED
      BY <2>2, <3>2, <3>5
  <2>6. CASE b \ {m} # {}
    <3>1. b \ {m} \in SUBSET (1..n) /\ Finds(b \ {m})
      <4>1. b \ {m} \in SUBSET (1..n)
        BY <2>2
      <4>2. b \ {m} \in SUBSET b /\ b \ {m} # b
        BY <2>3
      <4>3. b \ {m} \notin B
        <5> HIDE DEF B
        <5> QED
          BY <2>1, <4>2
      <4> QED
        BY <2>6, <4>1, <4>3
    <3>2. PICK i \in b \ {m} :
            /\ g[b \ {m}] = order[i]
            /\ \A j \in b \ {m} : ScoreSubstitute(t, order[j]) <= ScoreSubstitute(t, order[i])
      BY <3>1
    <3>3. PICK old \in Nat, new \in Nat :
            old = ScoreSubstitute(t, order[i]) /\ new = ScoreSubstitute(t, order[m])
      BY <1>3, <2>2
    <3>4. order[i] # NoItem
      BY <1>2, <2>2
    <3>5. BetterSubstitute(t, order[m], g[b \ {m}]) <=> new > old
      BY <3>2, <3>3, <3>4 DEF BetterSubstitute
    <3>6. ASSUME NEW j \in b PROVE j = m \/ (j \in b \ {m} /\ ScoreSubstitute(t, order[j]) \in Nat)
      BY <1>3, <2>2
    <3>7. CASE new > old
      <4>1. g[b] = order[m]
        BY <2>4, <3>5, <3>7
      <4>2. ASSUME NEW j \in b PROVE ScoreSubstitute(t, order[j]) <= ScoreSubstitute(t, order[m])
        <5>1. CASE j = m
          BY <3>3, <5>1
        <5>2. CASE j # m
          <6>1. PICK score \in Nat : score = ScoreSubstitute(t, order[j])
            BY <3>6, <5>2
          <6>2. score <= old
            BY <3>2, <3>3, <5>2, <6>1
          <6>3. score <= new
            BY <3>7, <6>2
          <6> QED
            BY <3>3, <6>1, <6>3
        <5> QED
          BY <5>1, <5>2
      <4> QED
        BY <2>2, <4>1, <4>2
    <3>8. CASE ~(new > old)
      <4>1. g[b] = order[i]
        BY <2>4, <3>2, <3>5, <3>8
      <4>2. ASSUME NEW j \in b PROVE ScoreSubstitute(t, order[j]) <= ScoreSubstitute(t, order[i])
        <5>1. CASE j = m
          BY <3>3, <3>8, <5>1
        <5>2. CASE j # m
          BY <3>2, <5>2
        <5> QED
          BY <5>1, <5>2
      <4> QED
        BY <2>2, <3>2, <4>1, <4>2
    <3> QED
      BY <3>7, <3>8
  <2> QED
    BY <2>5, <2>6
<1>5. n = 0 => FindBestSubstitute(t, order) = NoItem
  <2>1. g[{}] = NoItem
    BY <1>1 DEF BestUpTo
  <2>2. n = 0 => 1..n = {}
    OBVIOUS
  <2> QED
    BY <1>1, <2>1, <2>2
<1>6. ASSUME n # 0 PROVE Finds(1..n)
  <2>1. 1..n \in SUBSET (1..n) /\ 1..n # {}
    <3>1. 1 \in 1..n
      BY <1>6
    <3> QED
      BY <3>1
  <2>2. 1..n \notin B
    BY <1>4
  <2> QED
    BY <2>1, <2>2
<1> QED
  BY <1>1, <1>5, <1>6

(***************************************************************************)
(* A search ends with the best candidate (substitution_engine.go:205-239): *)
(* the catalog is yielded in some order, each candidate once.              *)
(***************************************************************************)
LEMMA SearchFindsBest ==
  ASSUME NEW t \in Items, NEW found \in SearchResults(t)
  PROVE  found \in Items \cup {NoItem} /\ BestOf(t, found)
<1>1. PICK C : C = Candidates(t)
  OBVIOUS
<1>2. C \in SUBSET Items /\ IsFiniteSet(C)
  <2>1. C \in SUBSET Items
    BY <1>1 DEF Candidates
  <2> QED
    BY <2>1, CatalogAssumption, FS_Subset
<1>3. PICK n \in Nat : n = Cardinality(C)
  BY <1>2, FS_CardinalityType
<1>4. PICK order \in [1..n -> C] : /\ \A i, j \in 1..n : i # j => order[i] # order[j]
                                   /\ found = FindBestSubstitute(t, order)
  BY <1>1, <1>3 DEF SearchResults, SetToSeqs
<1>5. \A c \in C : \E j \in 1..n : order[j] = c
  <2>1. IsFiniteSet(1..n) /\ Cardinality(1..n) = n
    BY FS_Interval
  <2>2. order \in Injection(1..n, C)
    BY <1>4 DEF Injection, IsInjective
  <2>3. order \in Surjection(1..n, C)
    BY <1>2, <1>3, <2>1, <2>2, FS_Injection
  <2> QED
    BY <2>3 DEF Surjection
<1>6. order \in [1..n -> Items]
  BY <1>2
<1>7. CASE n = 0
  <2>1. found = NoItem
    BY <1>4, <1>6, <1>7, LoopFindsBest
  <2>2. C = {}
    BY <1>2, <1>3, <1>7, FS_EmptySet
  <2> QED
    BY <1>1, <2>1, <2>2 DEF BestOf
<1>8. CASE n # 0
  <2>1. PICK i \in 1..n :
          /\ found = order[i]
          /\ \A j \in 1..n : ScoreSubstitute(t, order[j]) <= ScoreSubstitute(t, order[i])
    BY <1>4, <1>6, <1>8, LoopFindsBest
  <2>2. found \in C /\ found \in Items /\ found # NoItem
    BY <1>2, <2>1, CatalogAssumption
  <2>3. \A c \in C : ScoreSubstitute(t, c) <= ScoreSubstitute(t, found)
    BY <1>5, <2>1
  <2>4. ASSUME WrongKind(t, found), NEW c \in C PROVE WrongKind(t, c)
    <3>1. ScoreSubstitute(t, found) = 0
      BY <2>2, <2>4, Scored
    <3>2. c \in Items
      BY <1>2
    <3>3. PICK score \in Nat : score = ScoreSubstitute(t, c)
      BY <3>2, Scored
    <3>4. score = 0
      BY <2>3, <3>1, <3>3
    <3> QED
      BY <3>2, <3>3, <3>4, Scored
  <2> QED
    BY <1>1, <2>2, <2>3, <2>4 DEF BestOf
<1> QED
  BY <1>7, <1>8

-----------------------------------------------------------------------------
(***************************************************************************)
(* The inductive invariant, by the three parts of the state.               *)
(*                                                                         *)
(* The engine.  StockoutsMatchOutages is not inductive: nothing bounds how *)
(* many updates bring an item from a negative quantity to zero, which the  *)
(* counter counts and which is no outage.  The missing fact is that each   *)
(* of them uses up an earlier update to a negative quantity: the items now *)
(* negative are still to be counted.                                       *)
(***************************************************************************)
Negative == {i \in Items : stock[i] < 0}

EngineInv ==
  /\ stock \in [Items -> StockLevels \cup {0, 2}]
  /\ stockoutCount \in Nat /\ acceptCount \in Nat /\ rejectCount \in Nat
  /\ outages \in Nat /\ negatives \in Nat
  /\ stockoutCount + Cardinality(Negative) <= outages + negatives
  /\ outages <= stockoutCount + negatives

(* The console: only the holder of the mutex has viewers to write to, so   *)
(* none of them leaves or enters the set in the middle of a broadcast.     *)
FeedInv ==
  /\ clients \in SUBSET Viewers
  /\ unwritten \in [Broadcasters -> SUBSET Viewers]
  /\ broadcasting \in SUBSET Broadcasters
  /\ buffered \in [Feeds -> 0..FeedCap]
  /\ produced \in [Feeds -> 0..MaxProduced]
  /\ connection \in [Viewers -> {"new", "open", "stalled", "broken", "closed"}]
  /\ locked = {} \/ \E b \in Broadcasters : locked = {b}
  /\ \A b \in Broadcasters : unwritten[b] # {} => b \in locked
  /\ \A b \in Broadcasters : unwritten[b] \in SUBSET clients

(* The clients: a request that has set a stock knows which.                *)
ClientInv ==
  /\ request \in [Clients -> {"idle", "search", "publish", "broadcast"}]
  /\ target \in [Clients -> Items \cup {NoItem}]
  /\ suggestion \in [Clients -> Items \cup {NoItem}]
  /\ served \in Nat
  /\ \A c \in Clients : request[c] = "search" => target[c] \in Items

StockInv == EngineInv /\ FeedInv /\ ClientInv

LEMMA NegativeFinite ==
  ASSUME EngineInv
  PROVE  /\ IsFiniteSet(Negative) /\ Cardinality(Negative) \in Nat
         /\ \A i \in Items : stock[i] \in Int
<1>1. IsFiniteSet(Negative)
  <2>1. Negative \in SUBSET Items
    BY DEF Negative
  <2> QED
    BY <2>1, CatalogAssumption, FS_Subset
<1>2. \A i \in Items : stock[i] \in Int
  <2>1. \A n \in StockLevels \cup {0, 2} : n \in Int
    BY CatalogAssumption
  <2>2. stock \in [Items -> StockLevels \cup {0, 2}]
    BY DEF EngineInv
  <2> QED
    BY <2>1, <2>2
<1> QED
  BY <1>1, <1>2, FS_CardinalityType

(* Setting a stock (substitution_engine.go:104-128): what it adds to each  *)
(* counter, by what the stock was and what it becomes.                     *)
LEMMA UpdateKeepsEngine ==
  ASSUME EngineInv, NEW i \in Items, NEW quantity \in StockLevels, UpdateStock(i, quantity)
  PROVE  EngineInv'
<1>1. quantity \in Int /\ \A j \in Items : stock[j] \in Int
  BY NegativeFinite, CatalogAssumption
<1>2. /\ stock' = [stock EXCEPT ![i] = quantity]
      /\ stockoutCount' = stockoutCount + IF quantity = 0 /\ stock[i] # 0 THEN 1 ELSE 0
      /\ outages' = outages + IF stock[i] > 0 /\ quantity <= 0 THEN 1 ELSE 0
      /\ negatives' = negatives + IF quantity < 0 THEN 1 ELSE 0
      /\ acceptCount' = acceptCount /\ rejectCount' = rejectCount
  BY DEF UpdateStock, CountsAsStockout
<1>3. /\ stock \in [Items -> StockLevels \cup {0, 2}]
      /\ stockoutCount \in Nat /\ outages \in Nat /\ negatives \in Nat
      /\ acceptCount \in Nat /\ rejectCount \in Nat
      /\ stockoutCount + Cardinality(Negative) <= outages + negatives
      /\ outages <= stockoutCount + negatives
  BY DEF EngineInv
<1>4. stock' \in [Items -> StockLevels \cup {0, 2}]
  BY <1>2, <1>3
<1>5. stock'[i] = quantity /\ \A j \in Items \ {i} : stock'[j] = stock[j]
  BY <1>2, <1>3
<1>6. PICK k \in Nat, l \in Nat : k = Cardinality(Negative) /\ l = Cardinality(Negative')
  <2>1. IsFiniteSet(Negative')
    <3>1. Negative' \in SUBSET Items
      BY DEF Negative
    <3> QED
      BY <3>1, CatalogAssumption, FS_Subset
  <2> QED
    BY <2>1, NegativeFinite, FS_CardinalityType
<1>7. IsFiniteSet(Negative)
  BY NegativeFinite
<1>8. stock[i] < 0 /\ quantity < 0 => l = k
  <2> SUFFICES ASSUME stock[i] < 0, quantity < 0 PROVE l = k
    OBVIOUS
  <2>1. Negative' = Negative
    BY <1>5 DEF Negative
  <2> QED
    BY <1>6, <2>1
<1>9. stock[i] < 0 /\ ~(quantity < 0) => l = k - 1
  <2> SUFFICES ASSUME stock[i] < 0, ~(quantity < 0) PROVE l = k - 1
    OBVIOUS
  <2>1. Negative' = Negative \ {i} /\ i \in Negative
    BY <1>5 DEF Negative
  <2>2. Cardinality(Negative \ {i}) = Cardinality(Negative) - 1
    BY <1>7, <2>1, FS_RemoveElement
  <2> QED
    BY <1>6, <2>1, <2>2
<1>10. ~(stock[i] < 0) /\ quantity < 0 => l = k + 1
  <2> SUFFICES ASSUME ~(stock[i] < 0), quantity < 0 PROVE l = k + 1
    OBVIOUS
  <2>1. Negative' = Negative \cup {i} /\ i \notin Negative
    BY <1>5 DEF Negative
  <2>2. Cardinality(Negative \cup {i}) = Cardinality(Negative) + 1
    BY <1>7, <2>1, FS_AddElement
  <2> QED
    BY <1>6, <2>1, <2>2
<1>11. ~(stock[i] < 0) /\ ~(quantity < 0) => l = k
  <2> SUFFICES ASSUME ~(stock[i] < 0), ~(quantity < 0) PROVE l = k
    OBVIOUS
  <2>1. Negative' = Negative
    BY <1>5 DEF Negative
  <2> QED
    BY <1>6, <2>1
<1>12. PICK old \in Int : old = stock[i]
  BY <1>1
<1>13. /\ stockoutCount' \in Nat /\ outages' \in Nat /\ negatives' \in Nat
       /\ acceptCount' \in Nat /\ rejectCount' \in Nat
  BY <1>2, <1>3
<1>14. stockoutCount' + l <= outages' + negatives'
  BY <1>1, <1>2, <1>3, <1>6, <1>8, <1>9, <1>10, <1>11, <1>12
<1>15. outages' <= stockoutCount' + negatives'
  BY <1>1, <1>2, <1>3, <1>12
<1> QED
  BY <1>4, <1>6, <1>13, <1>14, <1>15 DEF EngineInv

LEMMA ActionKeepsEngine ==
  ASSUME EngineInv, NEW action, RecordAction(action)
  PROVE  EngineInv'
<1>1. UNCHANGED <<stock, stockoutCount, outages, negatives>>
  BY DEF RecordAction
<1>2. acceptCount' \in Nat /\ rejectCount' \in Nat
  BY DEF RecordAction, EngineInv
<1>3. Negative' = Negative
  BY <1>1 DEF Negative
<1> QED
  BY <1>1, <1>2, <1>3 DEF EngineInv

(***************************************************************************)
(* The console (main.go:41-81).                                            *)
(***************************************************************************)
LEMMA EnterStep ==
  ASSUME FeedInv, NEW v \in Viewers, Enter(v) \/ ConnectionChanges(v) \/ Leave(v)
  PROVE  FeedInv'
<1>1. UNCHANGED <<locked, unwritten, broadcasting, buffered, produced>>
  BY DEF Enter, ConnectionChanges, Leave
<1>2. /\ connection \in [Viewers -> {"new", "open", "stalled", "broken", "closed"}]
      /\ clients \in SUBSET Viewers
      /\ unwritten \in [Broadcasters -> SUBSET Viewers]
      /\ \A b \in Broadcasters : unwritten[b] # {} => b \in locked
      /\ \A b \in Broadcasters : unwritten[b] \in SUBSET clients
  BY DEF FeedInv
<1>3. CASE Enter(v)
  <2>1. connection' \in [Viewers -> {"new", "open", "stalled", "broken", "closed"}]
    BY <1>2, <1>3 DEF Enter
  <2>2. clients' \in SUBSET Viewers /\ clients \in SUBSET clients'
    BY <1>2, <1>3 DEF Enter
  <2>3. \A b \in Broadcasters : unwritten[b] \in SUBSET clients'
    BY <1>2, <2>2
  <2> QED
    BY <1>1, <2>1, <2>2, <2>3 DEF FeedInv
<1>4. CASE ConnectionChanges(v)
  <2>1. connection' \in [Viewers -> {"new", "open", "stalled", "broken", "closed"}]
    BY <1>2, <1>4 DEF ConnectionChanges
  <2>2. clients' = clients
    BY <1>4 DEF ConnectionChanges
  <2> QED
    BY <1>1, <2>1, <2>2 DEF FeedInv
<1>5. CASE Leave(v)
  <2>1. connection' \in [Viewers -> {"new", "open", "stalled", "broken", "closed"}]
    BY <1>2, <1>5 DEF Leave
  <2>2. clients' \in SUBSET Viewers /\ locked = {}
    BY <1>2, <1>5 DEF Leave
  <2>3. \A b \in Broadcasters : unwritten[b] = {}
    BY <1>2, <2>2
  <2> QED
    BY <1>1, <2>1, <2>2, <2>3 DEF FeedInv
<1> QED
  BY <1>3, <1>4, <1>5

LEMMA BroadcastStep ==
  ASSUME FeedInv, NEW b \in Broadcasters, Broadcast(b)
  PROVE  FeedInv'
<1>1. /\ clients \in SUBSET Viewers
      /\ unwritten \in [Broadcasters -> SUBSET Viewers]
      /\ broadcasting \in SUBSET Broadcasters
      /\ locked = {} \/ \E a \in Broadcasters : locked = {a}
      /\ \A a \in Broadcasters : unwritten[a] # {} => a \in locked
      /\ \A a \in Broadcasters : unwritten[a] \in SUBSET clients
  BY DEF FeedInv
<1>2. UNCHANGED <<clients, buffered, connection, produced>>
  BY DEF Broadcast, Lock, Unlock, Write
<1>3. CASE Lock(b)
  <2>1. /\ locked = {} /\ locked' = {b} /\ broadcasting' = broadcasting
        /\ unwritten' = [unwritten EXCEPT ![b] = clients]
    BY <1>3 DEF Lock
  <2>2. unwritten' \in [Broadcasters -> SUBSET Viewers]
    BY <1>1, <2>1
  <2>3. \A a \in Broadcasters : a # b => unwritten'[a] = unwritten[a]
    BY <1>1, <2>1
  <2>4. unwritten'[b] = clients
    BY <1>1, <2>1
  <2>5. \A a \in Broadcasters : unwritten'[a] # {} => a \in locked'
    BY <1>1, <2>1, <2>3
  <2>6. \A a \in Broadcasters : unwritten'[a] \in SUBSET clients'
    BY <1>1, <1>2, <2>3, <2>4
  <2> QED
    BY <1>2, <2>1, <2>2, <2>5, <2>6 DEF FeedInv
<1>4. CASE Unlock(b)
  <2>1. /\ unwritten[b] = {} /\ locked' = locked \ {b}
        /\ broadcasting' = broadcasting \ {b} /\ unwritten' = unwritten
    BY <1>4 DEF Unlock
  <2>2. locked' = {} \/ \E a \in Broadcasters : locked' = {a}
    BY <1>1, <2>1
  <2>3. \A a \in Broadcasters : unwritten'[a] # {} => a \in locked'
    BY <1>1, <2>1
  <2>4. broadcasting' \in SUBSET Broadcasters
    BY <1>1, <2>1
  <2> QED
    BY <1>2, <2>1, <2>2, <2>3, <2>4 DEF FeedInv
<1>5. ASSUME NEW v \in Viewers, Write(b, v) PROVE FeedInv'
  <2>1. /\ locked' = locked /\ broadcasting' = broadcasting
        /\ unwritten' = [unwritten EXCEPT ![b] = unwritten[b] \ {v}]
    BY <1>5 DEF Write
  <2>2. unwritten' \in [Broadcasters -> SUBSET Viewers]
    BY <1>1, <2>1
  <2>3. \A a \in Broadcasters : unwritten'[a] \in SUBSET unwritten[a]
    BY <1>1, <2>1
  <2>4. \A a \in Broadcasters : unwritten'[a] # {} => a \in locked'
    BY <1>1, <2>1, <2>3
  <2>5. \A a \in Broadcasters : unwritten'[a] \in SUBSET clients'
    BY <1>1, <1>2, <2>3
  <2> QED
    BY <1>2, <2>1, <2>2, <2>4, <2>5 DEF FeedInv
<1> QED
  BY <1>3, <1>4, <1>5 DEF Broadcast

LEMMA ChannelStep ==
  ASSUME FeedInv, NEW f \in Feeds, Put(f) \/ Take(f)
  PROVE  FeedInv'
<1>1. UNCHANGED <<clients, locked, unwritten, connection>>
  BY DEF Put, Take
<1>2. /\ buffered \in [Feeds -> 0..FeedCap] /\ produced \in [Feeds -> 0..MaxProduced]
      /\ broadcasting \in SUBSET Broadcasters
      /\ FeedCap \in Nat \ {0} /\ MaxProduced \in Nat
  BY FeedAssumption DEF FeedInv
<1>3. CASE Put(f)
  <2>1. /\ produced[f] < MaxProduced /\ broadcasting' = broadcasting
        /\ produced' = [produced EXCEPT ![f] = produced[f] + 1]
        /\ buffered' = [buffered EXCEPT ![f] = IF buffered[f] < FeedCap THEN buffered[f] + 1 ELSE buffered[f]]
    BY <1>3 DEF Put
  <2>2. produced[f] + 1 \in 0..MaxProduced
    BY <1>2, <2>1
  <2>3. (IF buffered[f] < FeedCap THEN buffered[f] + 1 ELSE buffered[f]) \in 0..FeedCap
    BY <1>2
  <2>4. produced' \in [Feeds -> 0..MaxProduced] /\ buffered' \in [Feeds -> 0..FeedCap]
    BY <1>2, <2>1, <2>2, <2>3
  <2> QED
    BY <1>1, <2>1, <2>4 DEF FeedInv
<1>4. CASE Take(f)
  <2>1. /\ buffered[f] > 0 /\ broadcasting' = broadcasting \cup {f} /\ produced' = produced
        /\ buffered' = [buffered EXCEPT ![f] = buffered[f] - 1]
    BY <1>4 DEF Take
  <2>2. buffered[f] - 1 \in 0..FeedCap
    BY <1>2, <2>1
  <2>3. buffered' \in [Feeds -> 0..FeedCap]
    BY <1>2, <2>1, <2>2
  <2>4. broadcasting' \in SUBSET Broadcasters
    BY <1>2, <2>1 DEF Broadcasters
  <2> QED
    BY <1>1, <2>1, <2>3, <2>4 DEF FeedInv
<1> QED
  BY <1>3, <1>4

LEMMA CallStep ==
  ASSUME FeedInv, NEW c \in Clients, Call(c)
  PROVE  FeedInv'
<1>1. UNCHANGED <<clients, locked, unwritten, buffered, connection, produced>>
  BY DEF Call
<1>2. broadcasting' \in SUBSET Broadcasters
  BY ClientsAssumption DEF FeedInv, Call, Broadcasters
<1> QED
  BY <1>1, <1>2 DEF FeedInv

LEMMA FeedSteps ==
  ASSUME FeedInv, FeedNext
  PROVE  FeedInv'
BY EnterStep, BroadcastStep, ChannelStep DEF FeedNext

(***************************************************************************)
(* The clients.                                                            *)
(***************************************************************************)
LEMMA SetStockStep ==
  ASSUME StockInv, NEW c \in Clients, SetStock(c)
  PROVE  StockInv'
<1>1. PICK i \in Items, quantity \in StockLevels :
        /\ UpdateStock(i, quantity)
        /\ target' = [target EXCEPT ![c] = i]
        /\ Goto(c, IF quantity <= 0 THEN "search" ELSE "idle")
  BY DEF SetStock
<1>2. EngineInv'
  BY <1>1, UpdateKeepsEngine DEF StockInv
<1>3. FeedInv'
  BY DEF SetStock, StockInv, FeedInv, feedVars
<1>4. PICK state \in {"search", "idle"} : request' = [request EXCEPT ![c] = state]
  BY <1>1 DEF Goto
<1>5. /\ request \in [Clients -> {"idle", "search", "publish", "broadcast"}]
      /\ target \in [Clients -> Items \cup {NoItem}]
      /\ \A d \in Clients : request[d] = "search" => target[d] \in Items
      /\ suggestion \in [Clients -> Items \cup {NoItem}] /\ served \in Nat
  BY DEF StockInv, ClientInv
<1>6. served' = served + 1 /\ suggestion' = suggestion
  BY DEF SetStock, Accept
<1>7. request' \in [Clients -> {"idle", "search", "publish", "broadcast"}]
  BY <1>4, <1>5
<1>8. target' \in [Clients -> Items \cup {NoItem}]
  BY <1>1, <1>5
<1>9. ASSUME NEW d \in Clients, request'[d] = "search" PROVE target'[d] \in Items
  BY <1>1, <1>4, <1>5, <1>9
<1>10. served' \in Nat
  BY <1>5, <1>6
<1>11. ClientInv'
  BY <1>5, <1>6, <1>7, <1>8, <1>9, <1>10 DEF ClientInv
<1> QED
  BY <1>2, <1>3, <1>11 DEF StockInv

LEMMA SearchStep ==
  ASSUME StockInv, NEW c \in Clients, Search(c)
  PROVE  StockInv' /\ BestOf(target[c], suggestion'[c])
<1>1. PICK found \in SearchResults(target[c]) :
        /\ suggestion' = [suggestion EXCEPT ![c] = found]
        /\ Goto(c, IF found = NoItem THEN "idle" ELSE "publish")
  BY DEF Search
<1>2. /\ request \in [Clients -> {"idle", "search", "publish", "broadcast"}]
      /\ target \in [Clients -> Items \cup {NoItem}]
      /\ \A d \in Clients : request[d] = "search" => target[d] \in Items
      /\ suggestion \in [Clients -> Items \cup {NoItem}] /\ served \in Nat
  BY DEF StockInv, ClientInv
<1>3. target[c] \in Items
  BY <1>2 DEF Search
<1>4. found \in Items \cup {NoItem} /\ BestOf(target[c], found)
  BY <1>3, SearchFindsBest
<1>5. UNCHANGED <<engineVars, feedVars, target, served>>
  BY DEF Search
<1>6. EngineInv' /\ FeedInv'
  <2>1. EngineInv'
    BY <1>5 DEF StockInv, EngineInv, engineVars, Negative
  <2>2. FeedInv'
    BY <1>5 DEF StockInv, FeedInv, feedVars
  <2> QED
    BY <2>1, <2>2
<1>7. PICK state \in {"publish", "idle"} : request' = [request EXCEPT ![c] = state]
  BY <1>1 DEF Goto
<1>8. request' \in [Clients -> {"idle", "search", "publish", "broadcast"}]
  BY <1>2, <1>7
<1>9. suggestion' \in [Clients -> Items \cup {NoItem}] /\ suggestion'[c] = found
  BY <1>1, <1>2, <1>4
<1>10. ASSUME NEW d \in Clients, request'[d] = "search" PROVE target'[d] \in Items
  BY <1>2, <1>5, <1>7, <1>10
<1>11. ClientInv'
  BY <1>2, <1>5, <1>8, <1>9, <1>10 DEF ClientInv
<1> QED
  BY <1>4, <1>6, <1>9, <1>11 DEF StockInv

(* The rest of a request, and the reactions to a suggestion.               *)
LEMMA AnswerStep ==
  ASSUME StockInv, NEW c \in Clients, Suggest(c) \/ AnswerUpdate(c) \/ TakeAction(c)
  PROVE  StockInv'
<1>1. EngineInv'
  <2>1. CASE TakeAction(c)
    BY <2>1, ActionKeepsEngine DEF TakeAction, StockInv
  <2>2. CASE Suggest(c) \/ AnswerUpdate(c)
    <3>1. UNCHANGED engineVars
      BY <2>2 DEF Suggest, AnswerUpdate
    <3> QED
      BY <3>1 DEF StockInv, EngineInv, engineVars, Negative
  <2> QED
    BY <2>1, <2>2
<1>2. FeedInv'
  <2>1. CASE Suggest(c)
    BY <2>1, CallStep DEF Suggest, StockInv
  <2>2. CASE AnswerUpdate(c) \/ TakeAction(c)
    <3>1. UNCHANGED feedVars
      BY <2>2 DEF AnswerUpdate, TakeAction
    <3> QED
      BY <3>1 DEF StockInv, FeedInv, feedVars
  <2> QED
    BY <2>1, <2>2
<1>3. /\ request \in [Clients -> {"idle", "search", "publish", "broadcast"}]
      /\ \A d \in Clients : request[d] = "search" => target[d] \in Items
      /\ served \in Nat
  BY DEF StockInv, ClientInv
<1>4. target' = target /\ suggestion' = suggestion
  BY DEF Suggest, AnswerUpdate, TakeAction
<1>5. served' \in Nat
  BY <1>3 DEF Suggest, AnswerUpdate, TakeAction, Accept
<1>6. request' = request \/ \E state \in {"idle", "broadcast"} : request' = [request EXCEPT ![c] = state]
  BY DEF Suggest, AnswerUpdate, TakeAction, Goto
<1>7. request' \in [Clients -> {"idle", "search", "publish", "broadcast"}]
  BY <1>3, <1>6
<1>8. ASSUME NEW d \in Clients, request'[d] = "search" PROVE target'[d] \in Items
  BY <1>3, <1>4, <1>6, <1>8
<1>9. ClientInv'
  BY <1>4, <1>5, <1>7, <1>8 DEF StockInv, ClientInv
<1> QED
  BY <1>1, <1>2, <1>9 DEF StockInv

LEMMA StockInit == Init => StockInv
<1> SUFFICES ASSUME Init PROVE StockInv
  OBVIOUS
<1>1. EngineInv
  <2>1. Stocked \in SUBSET Items /\ IsFiniteSet(Items)
    BY CatalogAssumption
  <2>2. IsFiniteSet(Items \ Stocked)
    BY <2>1, FS_Subset
  <2>3. Cardinality(Items \ Stocked) \in Nat
    BY <2>2, FS_CardinalityType
  <2>4. /\ stock = [i \in Items |-> IF i \in Stocked THEN 2 ELSE 0]
        /\ stockoutCount = Cardinality(Items \ Stocked) /\ outages = Cardinality(Items \ Stocked)
        /\ acceptCount = 0 /\ rejectCount = 0 /\ negatives = 0
    BY DEF Init, EngineInit
  <2>5. \A i \in Items : ~(stock[i] < 0)
    BY <2>4
  <2>6. Negative = {}
    BY <2>5 DEF Negative
  <2>7. Cardinality(Negative) = 0
    BY <2>6, FS_EmptySet
  <2>8. stock \in [Items -> StockLevels \cup {0, 2}]
    BY <2>4
  <2> QED
    BY <2>3, <2>4, <2>7, <2>8 DEF EngineInv
<1>2. FeedInv
  BY FeedAssumption DEF Init, FeedInit, FeedInv
<1>3. ClientInv
  BY DEF Init, ClientInv
<1> QED
  BY <1>1, <1>2, <1>3 DEF StockInv

LEMMA FeedKeepsStock ==
  ASSUME StockInv, Feed
  PROVE  StockInv'
<1>1. UNCHANGED <<engineVars, clientVars>>
  BY DEF Feed, Alone
<1>2. EngineInv'
  BY <1>1 DEF StockInv, EngineInv, engineVars, Negative
<1>3. ClientInv'
  BY <1>1 DEF StockInv, ClientInv, clientVars
<1>4. FeedInv'
  BY FeedSteps DEF StockInv, Feed
<1> QED
  BY <1>2, <1>3, <1>4 DEF StockInv

LEMMA StockInvariant == Spec => []StockInv
<1>1. StockInv /\ [Next]_vars => StockInv'
  <2> SUFFICES ASSUME StockInv, [Next]_vars PROVE StockInv'
    OBVIOUS
  <2>1. CASE Feed
    BY <2>1, FeedKeepsStock
  <2>2. ASSUME NEW c \in Clients, SetStock(c) PROVE StockInv'
    BY <2>2, SetStockStep
  <2>3. ASSUME NEW c \in Clients, Search(c) PROVE StockInv'
    BY <2>3, SearchStep
  <2>4. ASSUME NEW c \in Clients, Suggest(c) \/ AnswerUpdate(c) \/ TakeAction(c) PROVE StockInv'
    BY <2>4, AnswerStep
  <2>5. CASE UNCHANGED vars
    <3>1. EngineInv'
      BY <2>5 DEF StockInv, EngineInv, vars, engineVars, Negative
    <3>2. FeedInv'
      BY <2>5 DEF StockInv, FeedInv, vars, feedVars
    <3>3. ClientInv'
      BY <2>5 DEF StockInv, ClientInv, vars, clientVars
    <3> QED
      BY <3>1, <3>2, <3>3 DEF StockInv
  <2> QED
    BY <2>1, <2>2, <2>3, <2>4, <2>5 DEF Next, Continue
<1> QED
  BY StockInit, <1>1, PTL DEF Spec

(***************************************************************************)
(* The types of the engine, the console and the clients; with them, that   *)
(* at most one broadcaster holds the console's mutex and that it never     *)
(* writes to a viewer that has left (main.go:51-81).                       *)
(***************************************************************************)
THEOREM StockTypesCorrect == Spec => []TypeOK
<1>1. ASSUME StockInv PROVE TypeOK
  <2>1. Cardinality(locked) <= 1 /\ locked \subseteq Broadcasters
    <3>1. CASE locked = {}
      BY <3>1, FS_EmptySet
    <3>2. ASSUME NEW b \in Broadcasters, locked = {b} PROVE Cardinality(locked) <= 1 /\ locked \subseteq Broadcasters
      <4>1. Cardinality({b}) = 1
        BY FS_Singleton
      <4> QED
        BY <3>2, <4>1
    <3> QED
      BY <1>1, <3>1, <3>2 DEF StockInv, FeedInv
  <2>2. /\ stock \in [Items -> StockLevels \cup {0, 2}]
        /\ {stockoutCount, acceptCount, rejectCount, outages, negatives, served} \subseteq Nat
    BY <1>1 DEF StockInv, EngineInv, ClientInv
  <2>3. /\ clients \subseteq Viewers /\ broadcasting \subseteq Broadcasters
        /\ \A b \in Broadcasters : unwritten[b] \subseteq clients
        /\ buffered \in [Feeds -> 0..FeedCap] /\ produced \in [Feeds -> 0..MaxProduced]
        /\ connection \in [Viewers -> {"new", "open", "stalled", "broken", "closed"}]
    BY <1>1 DEF StockInv, FeedInv
  <2>4. /\ request \in [Clients -> {"idle", "search", "publish", "broadcast"}]
        /\ target \in [Clients -> Items \cup {NoItem}]
        /\ suggestion \in [Clients -> Items \cup {NoItem}]
    BY <1>1 DEF StockInv, ClientInv
  <2> QED
    BY <2>1, <2>2, <2>3, <2>4 DEF TypeOK
<1> QED
  BY <1>1, StockInvariant, PTL

(***************************************************************************)
(* The stockout counter is off by at most the updates that set a negative  *)
(* quantity, in both directions (substitution_engine.go:119-124).          *)
(***************************************************************************)
THEOREM StockoutsAlwaysMatch == Spec => []StockoutsMatchOutages
<1>1. ASSUME StockInv PROVE StockoutsMatchOutages
  <2>1. PICK n \in Nat : n = Cardinality(Negative)
    BY <1>1, NegativeFinite DEF StockInv
  <2>2. /\ stockoutCount \in Nat /\ outages \in Nat /\ negatives \in Nat
        /\ stockoutCount + n <= outages + negatives
        /\ outages <= stockoutCount + negatives
    BY <1>1, <2>1 DEF StockInv, EngineInv
  <2> QED
    BY <2>2 DEF StockoutsMatchOutages
<1> QED
  BY <1>1, StockInvariant, PTL

(***************************************************************************)
(* A search suggests the best item in stock, of the kind of the target if  *)
(* there is one, whatever the order of the catalog and whatever the other  *)
(* requests do to the stock (substitution_engine.go:205-239).              *)
(***************************************************************************)
THEOREM SearchAlwaysSuggestsBest == Spec => SuggestsBest
<1>1. ASSUME StockInv, [Next]_vars, NEW c \in Clients, request[c] = "search", request'[c] # "search"
      PROVE  BestOf(target[c], suggestion'[c])
  <2>1. request \in [Clients -> {"idle", "search", "publish", "broadcast"}]
    BY <1>1 DEF StockInv, ClientInv
  <2>2. CASE Search(c)
    BY <1>1, <2>2, SearchStep
  <2>3. ASSUME NEW d \in Clients, d # c,
               SetStock(d) \/ TakeAction(d) \/ Search(d) \/ Suggest(d) \/ AnswerUpdate(d)
        PROVE  FALSE
    <3>1. request' = request \/ \E state : request' = [request EXCEPT ![d] = state]
      BY <2>3 DEF SetStock, TakeAction, Search, Suggest, AnswerUpdate, Goto
    <3>2. request'[c] = request[c]
      BY <2>1, <2>3, <3>1
    <3> QED
      BY <1>1, <3>2
  <2>4. CASE SetStock(c) \/ Suggest(c) \/ AnswerUpdate(c)
    BY <1>1, <2>4 DEF SetStock, Accept, Suggest, AnswerUpdate
  <2>5. CASE Feed \/ TakeAction(c) \/ UNCHANGED vars
    <3>1. request' = request
      BY <2>5 DEF Feed, Alone, TakeAction, vars, clientVars
    <3> QED
      BY <1>1, <3>1
  <2> QED
    BY <1>1, <2>2, <2>3, <2>4, <2>5 DEF Next, Continue
<1>2. StockInv /\ [Next]_vars =>
        \A c \in Clients : request[c] = "search" /\ request'[c] # "search" => BestOf(target[c], suggestion'[c])
  BY <1>1
<1> QED
  BY <1>2, StockInvariant, PTL DEF Spec, SuggestsBest

=============================================================================
