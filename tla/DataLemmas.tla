----------------------------- MODULE DataLemmas -----------------------------
(***************************************************************************)
(* Facts about the data the modules are built from, for every value, that  *)
(* the proofs cite: what the queue operators of QueueOps return, that a    *)
(* finite set of numbers has a least and a greatest element, that a fold   *)
(* over a finite set has its equations, and what sums do when one summand  *)
(* changes or their set is split.                                          *)
(***************************************************************************)
EXTENDS QueueOps, Integers, Functions, FiniteSetTheorems, TLAPS

(***************************************************************************)
(* The ranks of the elements of a finite set K of numbers are exactly the  *)
(* numbers 1..Cardinality(K), each of one element.                         *)
(***************************************************************************)
LEMMA RankBijective ==
  ASSUME NEW K \in SUBSET Nat, IsFiniteSet(K)
  PROVE  /\ Cardinality(K) \in Nat
         /\ \A i \in K : Rank(K, i) \in 1..Cardinality(K)
         /\ \A i, k \in K : Rank(K, i) = Rank(K, k) => i = k
         /\ \A j \in 1..Cardinality(K) : \E i \in K : Rank(K, i) = j
<1> DEFINE below(i) == {k \in K : k <= i}
           rank == [i \in K |-> Rank(K, i)]
<1>1. Cardinality(K) \in Nat
  BY FS_CardinalityType
<1>2. ASSUME NEW i \in K
      PROVE  /\ IsFiniteSet(below(i))
             /\ Rank(K, i) \in 1..Cardinality(K)
  <2>1. below(i) \in SUBSET K /\ i \in below(i)
    OBVIOUS
  <2>2. IsFiniteSet(below(i)) /\ Cardinality(below(i)) <= Cardinality(K)
    BY <2>1, FS_Subset
  <2>3. Cardinality(below(i)) \in Nat /\ Cardinality(below(i)) # 0
    BY <2>1, <2>2, FS_CardinalityType, FS_EmptySet
  <2> QED
    BY <1>1, <2>2, <2>3 DEF Rank
<1>3. ASSUME NEW i \in K, NEW k \in K, i < k
      PROVE  Rank(K, i) # Rank(K, k)
  <2>0. i \in Nat /\ k \in Nat
    OBVIOUS
  <2>1. below(i) \in SUBSET below(k) /\ k \in below(k) /\ k \notin below(i)
    <3>1. ASSUME NEW j \in K, j <= i PROVE j <= k
      <4>1. j \in Nat
        OBVIOUS
      <4> QED
        BY <1>3, <2>0, <3>1, <4>1
    <3>2. ~(k <= i) /\ k <= k
      BY <1>3, <2>0
    <3> QED
      BY <3>1, <3>2
  <2>2. Cardinality(below(k)) # Cardinality(below(i))
    BY <1>2, <2>1, FS_Subset
  <2> QED
    BY <2>2 DEF Rank
<1>4. \A i, k \in K : Rank(K, i) = Rank(K, k) => i = k
  <2>1. \A i, k \in K : i < k \/ k < i \/ i = k
    OBVIOUS
  <2> QED
    BY <1>3, <2>1
<1>5. rank \in Injection(K, 1..Cardinality(K))
  BY <1>2, <1>4 DEF Injection, IsInjective
<1>6. IsFiniteSet(1..Cardinality(K)) /\ Cardinality(1..Cardinality(K)) = Cardinality(K)
  BY <1>1, FS_Interval
<1>7. rank \in Surjection(K, 1..Cardinality(K))
  BY <1>5, <1>6, FS_Injection
<1> QED
  BY <1>1, <1>2, <1>4, <1>7 DEF Surjection

(***************************************************************************)
(* Keep(q, K) is a queue as long as K is large; it holds the elements of q *)
(* at K, and no element twice if q does not.                               *)
(***************************************************************************)
LEMMA KeepFacts ==
  ASSUME NEW S, NEW q \in Seq(S), NEW K \in SUBSET DOMAIN q
  PROVE  /\ IsFiniteSet(K)
         /\ Keep(q, K) \in Seq(S)
         /\ Len(Keep(q, K)) = Cardinality(K)
         /\ Range(Keep(q, K)) = {q[i] : i \in K}
         /\ IsInjective(q) => IsInjective(Keep(q, K))
<1> DEFINE at(j) == CHOOSE i \in K : Rank(K, i) = j
           n == Cardinality(K)
<1>1. K \in SUBSET Nat /\ IsFiniteSet(K)
  <2>1. IsFiniteSet(1..Len(q))
    BY FS_Interval
  <2> QED
    BY <2>1, FS_Subset
<1>2. /\ n \in Nat
      /\ \A i \in K : Rank(K, i) \in 1..n
      /\ \A i, k \in K : Rank(K, i) = Rank(K, k) => i = k
      /\ \A j \in 1..n : \E i \in K : Rank(K, i) = j
  BY <1>1, RankBijective
<1>3. \A j \in 1..n : at(j) \in K /\ Rank(K, at(j)) = j
  BY <1>2
<1>4. \A i \in K : at(Rank(K, i)) = i
  BY <1>2, <1>3
<1>5. Keep(q, K) = [j \in 1..n |-> q[at(j)]]
  BY DEF Keep
<1> HIDE DEF at, n
<1>6. Keep(q, K) \in Seq(S) /\ Len(Keep(q, K)) = n /\ DOMAIN Keep(q, K) = 1..n
  BY <1>2, <1>3, <1>5
<1>7. Range(Keep(q, K)) = {q[i] : i \in K}
  BY <1>2, <1>3, <1>4, <1>5, <1>6 DEF Range
<1>8. IsInjective(q) => IsInjective(Keep(q, K))
  BY <1>2, <1>3, <1>5, <1>6 DEF IsInjective
<1> QED
  BY <1>1, <1>6, <1>7, <1>8 DEF n

(***************************************************************************)
(* A non-empty finite set of numbers has a least element (its element of   *)
(* rank 1).                                                                *)
(***************************************************************************)
LEMMA LeastElement ==
  ASSUME NEW K \in SUBSET Nat, IsFiniteSet(K), K # {}
  PROVE  \E i \in K : \A k \in K : i <= k
<1>1. Cardinality(K) \in Nat /\ Cardinality(K) # 0
  BY FS_CardinalityType, FS_EmptySet
<1>2. PICK i \in K : Rank(K, i) = 1
  <2>1. 1 \in 1..Cardinality(K)
    BY <1>1
  <2> QED
    BY <2>1, RankBijective
<1>3. ASSUME NEW k \in K, k < i
      PROVE  FALSE
  <2>1. k \in Nat /\ i \in Nat
    OBVIOUS
  <2>2. {j \in K : j <= k} \in SUBSET {j \in K : j <= i}
    <3>1. ASSUME NEW j \in K, j <= k PROVE j <= i
      <4>1. j \in Nat
        OBVIOUS
      <4> QED
        BY <1>3, <2>1, <3>1, <4>1
    <3> QED
      BY <3>1
  <2>3. IsFiniteSet({j \in K : j <= i})
    BY FS_Subset
  <2>4. Rank(K, k) <= Rank(K, i)
    BY <2>2, <2>3, FS_Subset DEF Rank
  <2>5. Rank(K, k) \in 1..Cardinality(K)
    BY RankBijective
  <2>6. Rank(K, k) = Rank(K, i)
    BY <1>1, <1>2, <2>4, <2>5
  <2>7. k = i
    BY <2>6, RankBijective
  <2> QED
    BY <1>3, <2>1, <2>7
<1>4. \A k \in K : k < i \/ i <= k
  OBVIOUS
<1> QED
  BY <1>3, <1>4

(***************************************************************************)
(* Push and Pop.                                                           *)
(***************************************************************************)
LEMMA PushFacts ==
  ASSUME NEW S, NEW q \in Seq(S), NEW x \in S
  PROVE  /\ Append(q, x) \in Seq(S)
         /\ Len(Append(q, x)) = Len(q) + 1
         /\ Range(Append(q, x)) = Range(q) \cup {x}
         /\ IsInjective(q) /\ x \notin Range(q) => IsInjective(Append(q, x))
<1>1. /\ Append(q, x) \in Seq(S)
      /\ Len(Append(q, x)) = Len(q) + 1
      /\ DOMAIN Append(q, x) = 1..(Len(q) + 1)
      /\ DOMAIN q = 1..Len(q)
      /\ \A i \in 1..Len(q) : Append(q, x)[i] = q[i]
      /\ Append(q, x)[Len(q) + 1] = x
      /\ Len(q) \in Nat
  OBVIOUS
<1>2. \A i \in 1..(Len(q) + 1) : i \in 1..Len(q) \/ i = Len(q) + 1
  BY <1>1
<1>3. Len(q) + 1 \in 1..(Len(q) + 1) /\ 1..Len(q) \in SUBSET (1..(Len(q) + 1))
  BY <1>1
<1>4. Range(Append(q, x)) = Range(q) \cup {x}
  BY <1>1, <1>2, <1>3 DEF Range
<1>5. ASSUME IsInjective(q), x \notin Range(q)
      PROVE  IsInjective(Append(q, x))
  BY <1>1, <1>2, <1>5 DEF IsInjective, Range
<1> QED
  BY <1>1, <1>4, <1>5

LEMMA PopFacts ==
  ASSUME NEW S, NEW q \in Seq(S), q # <<>>
  PROVE  /\ Tail(q) \in Seq(S)
         /\ Head(q) \in S
         /\ Head(q) \in Range(q)
         /\ Len(Tail(q)) = Len(q) - 1
         /\ IsInjective(q) => /\ Range(Tail(q)) = Range(q) \ {Head(q)}
                              /\ IsInjective(Tail(q))
<1>1. /\ Tail(q) \in Seq(S)
      /\ Len(q) \in Nat \ {0}
      /\ Len(Tail(q)) = Len(q) - 1
      /\ DOMAIN Tail(q) = 1..(Len(q) - 1)
      /\ DOMAIN q = 1..Len(q)
      /\ Head(q) = q[1]
      /\ Head(q) \in S
      /\ \A i \in 1..(Len(q) - 1) : Tail(q)[i] = q[i + 1]
  OBVIOUS
<1>2. Head(q) \in Range(q)
  BY <1>1 DEF Range
<1>3. ASSUME IsInjective(q)
      PROVE  IsInjective(Tail(q))
  <2>1. \A i \in 1..(Len(q) - 1) : i + 1 \in 1..Len(q) /\ i \in Nat
    BY <1>1
  <2> QED
    BY <1>1, <1>3, <2>1 DEF IsInjective
<1>4. ASSUME IsInjective(q)
      PROVE  Range(Tail(q)) = Range(q) \ {Head(q)}
  <2>1. \A i \in 1..(Len(q) - 1) : i + 1 \in 1..Len(q) /\ i + 1 # 1
    BY <1>1
  <2>2. \A k \in 1..Len(q) : k = 1 \/ (k - 1 \in 1..(Len(q) - 1) /\ k = (k - 1) + 1)
    BY <1>1
  <2>3. 1 \in 1..Len(q)
    BY <1>1
  <2>4. Range(Tail(q)) \subseteq Range(q) \ {Head(q)}
    BY <1>1, <1>4, <2>1, <2>3 DEF IsInjective, Range
  <2>5. ASSUME NEW k \in 1..Len(q), q[k] # Head(q)
        PROVE  q[k] \in Range(Tail(q))
    <3>1. k - 1 \in DOMAIN Tail(q) /\ Tail(q)[k - 1] = q[k]
      BY <1>1, <2>2, <2>5
    <3> QED
      BY <3>1 DEF Range
  <2> QED
    BY <1>1, <2>4, <2>5 DEF Range
<1> QED
  BY <1>1, <1>2, <1>3, <1>4

(***************************************************************************)
(* ExtractNonPerishables(1): either nothing is extracted and the queue is  *)
(* unchanged in content, or one non-perishable order leaves it.            *)
(***************************************************************************)
LEMMA ExtractFacts ==
  ASSUME NEW S, NEW q \in Seq(S), NEW P
  PROVE  LET e == Extracted(q, P, 1)
             r == RemainingAfterExtract(q, P, 1)
         IN  /\ e \in Seq(S)
             /\ r \in Seq(S)
             /\ IsInjective(q) => IsInjective(r)
             /\ e = <<>> => Range(r) = Range(q) /\ Len(r) = Len(q)
             /\ e # <<>> => /\ e[1] \in Range(q)
                            /\ e[1] \in S
                            /\ e[1] \notin P
                            /\ Len(r) = Len(q) - 1
                            /\ IsInjective(q) => Range(r) = Range(q) \ {e[1]}
<1> DEFINE C == NonPerishableIndices(q, P)
           K == ExtractIndices(q, P, 1)
           R == DOMAIN q \ K
<1>1. /\ C \in SUBSET DOMAIN q
      /\ K \in SUBSET C
      /\ DOMAIN q = 1..Len(q)
      /\ Len(q) \in Nat
      /\ \A i \in C : q[i] \notin P
  BY DEF ExtractIndices, NonPerishableIndices
<1>2. IsFiniteSet(DOMAIN q) /\ Cardinality(DOMAIN q) = Len(q)
  BY <1>1, FS_Interval
<1>3. IsFiniteSet(C) /\ C \in SUBSET Nat
  BY <1>1, <1>2, FS_Subset
<1>4. \A i, k \in K : i = k
  <2>1. \A i \in K : Rank(C, i) \in 1..Cardinality(C) /\ Rank(C, i) <= 1
    BY <1>1, <1>3, RankBijective DEF ExtractIndices
  <2>2. Cardinality(C) \in Nat
    BY <1>3, FS_CardinalityType
  <2>3. \A i \in K : Rank(C, i) = 1
    BY <2>1, <2>2
  <2> QED
    BY <1>1, <1>3, <2>3, RankBijective
<1> HIDE DEF C, K
<1>5. /\ Extracted(q, P, 1) = Keep(q, K)
      /\ RemainingAfterExtract(q, P, 1) = Keep(q, R)
  BY DEF Extracted, RemainingAfterExtract, K
<1>6. /\ IsFiniteSet(K)
      /\ Keep(q, K) \in Seq(S)
      /\ Len(Keep(q, K)) = Cardinality(K)
      /\ Range(Keep(q, K)) = {q[i] : i \in K}
  BY <1>1, KeepFacts
<1>7. /\ Keep(q, R) \in Seq(S)
      /\ Len(Keep(q, R)) = Cardinality(R)
      /\ Range(Keep(q, R)) = {q[i] : i \in R}
      /\ IsInjective(q) => IsInjective(Keep(q, R))
  <2>1. R \in SUBSET DOMAIN q
    OBVIOUS
  <2> QED
    BY <2>1, KeepFacts
<1>8. ASSUME Keep(q, K) = <<>>
      PROVE  Range(Keep(q, R)) = Range(q) /\ Len(Keep(q, R)) = Len(q)
  <2>1. Cardinality(K) = 0
    BY <1>6, <1>8
  <2>2. K = {}
    BY <1>6, <2>1, FS_EmptySet
  <2>3. R = DOMAIN q
    BY <2>2
  <2> QED
    BY <1>2, <1>7, <2>3 DEF Range
<1>9. ASSUME Keep(q, K) # <<>>
      PROVE  LET x == Keep(q, K)[1] IN
             /\ x \in Range(q) /\ x \in S /\ x \notin P
             /\ Len(Keep(q, R)) = Len(q) - 1
             /\ IsInjective(q) => Range(Keep(q, R)) = Range(q) \ {x}
  <2>1. 1 \in DOMAIN Keep(q, K) /\ Keep(q, K)[1] \in S
    BY <1>6, <1>9
  <2>2. PICK i \in K : Keep(q, K)[1] = q[i]
    <3>1. Keep(q, K)[1] \in Range(Keep(q, K))
      BY <2>1 DEF Range
    <3> QED
      BY <1>6, <3>1
  <2>3. K = {i} /\ i \in DOMAIN q /\ R = DOMAIN q \ {i}
    BY <1>1, <1>4, <2>2
  <2>4. Cardinality(R) = Len(q) - 1
    BY <1>2, <2>3, FS_RemoveElement
  <2>5. q[i] \in Range(q) /\ q[i] \notin P
    BY <1>1, <2>2, <2>3 DEF Range
  <2>6. IsInjective(q) => {q[k] : k \in R} = Range(q) \ {q[i]}
    BY <2>3 DEF IsInjective, Range
  <2> QED
    BY <1>7, <2>1, <2>2, <2>4, <2>5, <2>6
<1> QED
  BY <1>5, <1>6, <1>7, <1>8, <1>9

(***************************************************************************)
(* ConsolidateOrdersByCart returns orders of the queue and a queue of      *)
(* orders, whatever the queue.                                             *)
(***************************************************************************)
LEMMA ConsolidateTypes ==
  ASSUME NEW S, NEW q \in Seq(S), NEW M, CanConsolidate(q, M)
  PROVE  LET K == MatchIndices(q, M) IN
         /\ K \in SUBSET DOMAIN q
         /\ IsFiniteSet(K) /\ Cardinality(K) \in Nat /\ Cardinality(K) >= 2
         /\ PrimaryIndex(q, M) \in K
         /\ Primary(q, M) \in S
         /\ MergedOrders(q, M) \subseteq S
         /\ AfterConsolidate(q, M) \in Seq(S)
<1> DEFINE K == MatchIndices(q, M)
           R == DOMAIN q \ K
<1>1. /\ K \in SUBSET DOMAIN q
      /\ DOMAIN q = 1..Len(q)
      /\ Len(q) \in Nat
      /\ \A i \in DOMAIN q : q[i] \in S
  BY DEF MatchIndices
<1>2. IsFiniteSet(DOMAIN q)
  BY <1>1, FS_Interval
<1>3. IsFiniteSet(K) /\ Cardinality(K) \in Nat /\ Cardinality(K) >= 2 /\ K \in SUBSET Nat
  BY <1>1, <1>2, FS_Subset, FS_CardinalityType DEF CanConsolidate
<1>4. PrimaryIndex(q, M) \in K
  <2>1. K # {}
    BY <1>3, FS_EmptySet
  <2> QED
    BY <1>3, <2>1, LeastElement DEF PrimaryIndex
<1>5. Primary(q, M) \in S /\ MergedOrders(q, M) \subseteq S
  BY <1>1, <1>4 DEF Primary, MergedOrders
<1>6. Keep(q, R) \in Seq(S)
  <2>1. R \in SUBSET DOMAIN q
    OBVIOUS
  <2> QED
    BY <2>1, KeepFacts
<1>7. AfterConsolidate(q, M) \in Seq(S)
  BY <1>5, <1>6 DEF AfterConsolidate
<1> QED
  BY <1>1, <1>3, <1>4, <1>5, <1>7

(***************************************************************************)
(* ConsolidateOrdersByCart on a queue without duplicates: the primary      *)
(* stays, exactly the merged orders leave, and all of them match.          *)
(***************************************************************************)
LEMMA ConsolidateFacts ==
  ASSUME NEW S, NEW q \in Seq(S), IsInjective(q), NEW M, CanConsolidate(q, M)
  PROVE  LET primary == Primary(q, M)
             merged == MergedOrders(q, M)
             after == AfterConsolidate(q, M)
         IN  /\ primary \in Range(q) /\ primary \in M /\ primary \in S
             /\ merged \subseteq Range(q) /\ merged \subseteq M /\ merged \subseteq S
             /\ primary \notin merged
             /\ merged # {}
             /\ IsFiniteSet(merged)
             /\ Cardinality(MatchIndices(q, M)) = Cardinality(merged) + 1
             /\ after \in Seq(S)
             /\ IsInjective(after)
             /\ Range(after) = Range(q) \ merged
             /\ Len(after) = Len(q) - Cardinality(merged)
<1> DEFINE K == MatchIndices(q, M)
           f == PrimaryIndex(q, M)
           T == K \ {f}
           R == DOMAIN q \ K
           merged == MergedOrders(q, M)
           kept == Keep(q, R)
           after == AfterConsolidate(q, M)
<1>1. /\ K \in SUBSET DOMAIN q
      /\ DOMAIN q = 1..Len(q)
      /\ Len(q) \in Nat
      /\ \A i \in K : q[i] \in M
      /\ \A i \in DOMAIN q : q[i] \in M => i \in K
      /\ \A i \in DOMAIN q : q[i] \in S
  BY DEF MatchIndices
<1>2. IsFiniteSet(DOMAIN q) /\ Cardinality(DOMAIN q) = Len(q)
  BY <1>1, FS_Interval
<1>3. IsFiniteSet(K) /\ Cardinality(K) \in Nat /\ Cardinality(K) >= 2 /\ K \in SUBSET Nat
  BY <1>1, ConsolidateTypes
<1>5. f \in K
  BY ConsolidateTypes
<1>6. /\ Primary(q, M) = q[f]
      /\ merged = {q[i] : i \in T}
      /\ after = <<q[f]>> \o kept
  BY DEF Primary, MergedOrders, AfterConsolidate
<1> HIDE DEF K, f, merged, after
<1>7. q[f] \in Range(q) /\ q[f] \in M /\ q[f] \in S /\ f \in DOMAIN q
  BY <1>1, <1>5 DEF Range
<1>8. merged \subseteq Range(q) /\ merged \subseteq M /\ merged \subseteq S
  BY <1>1, <1>6 DEF Range
<1>9. q[f] \notin merged
  BY <1>1, <1>5, <1>6 DEF IsInjective
<1>10. /\ IsFiniteSet(T)
       /\ Cardinality(T) = Cardinality(K) - 1
  BY <1>3, <1>5, FS_RemoveElement
<1>11. IsFiniteSet(merged) /\ Cardinality(merged) = Cardinality(T) /\ merged # {}
  <2> DEFINE g == [i \in T |-> q[i]]
  <2>1. g \in Surjection(T, merged)
    BY <1>6 DEF Surjection
  <2>2. g \in Injection(T, merged)
    BY <1>1, <1>6 DEF Injection, IsInjective
  <2>3. IsFiniteSet(merged) /\ Cardinality(merged) = Cardinality(T)
    BY <1>10, <2>1, <2>2, FS_Surjection
  <2>4. Cardinality(T) # 0
    BY <1>3, <1>10
  <2> QED
    BY <2>3, <2>4, FS_EmptySet
<1>12. /\ kept \in Seq(S)
       /\ Len(kept) = Cardinality(R)
       /\ Range(kept) = {q[i] : i \in R}
       /\ IsInjective(kept)
  <2>1. R \in SUBSET DOMAIN q
    OBVIOUS
  <2> QED
    BY <2>1, KeepFacts
<1>13. Cardinality(R) = Len(q) - Cardinality(K)
  <2>1. DOMAIN q \cap K = K
    BY <1>1
  <2>2. Cardinality(DOMAIN q \ K) = Cardinality(DOMAIN q) - Cardinality(DOMAIN q \cap K)
    BY <1>2, FS_Difference
  <2> QED
    BY <1>2, <2>1, <2>2
<1> HIDE DEF kept, R, T
<1>14. /\ after \in Seq(S)
       /\ Len(after) = Len(kept) + 1
       /\ DOMAIN after = 1..(Len(kept) + 1)
       /\ DOMAIN kept = 1..Len(kept)
       /\ Len(kept) \in Nat
       /\ after[1] = q[f]
       /\ \A j \in 1..Len(kept) : after[j + 1] = kept[j]
  BY <1>6, <1>7, <1>12
<1>15. q[f] \notin Range(kept)
  BY <1>1, <1>5, <1>7, <1>12 DEF R
<1>16. \A j \in DOMAIN after : j = 1 \/ (j - 1 \in DOMAIN kept /\ after[j] = kept[j - 1])
  <2>1. ASSUME NEW j \in DOMAIN after, j # 1
        PROVE  j - 1 \in 1..Len(kept) /\ (j - 1) + 1 = j
    BY <1>14, <2>1
  <2> QED
    BY <1>14, <2>1
<1>17. Range(after) = {q[f]} \cup Range(kept)
  <2>1. Range(after) \subseteq {q[f]} \cup Range(kept)
    BY <1>14, <1>16 DEF Range
  <2>2. ASSUME NEW j \in DOMAIN kept PROVE kept[j] \in Range(after)
    <3>1. j + 1 \in DOMAIN after /\ after[j + 1] = kept[j]
      BY <1>14
    <3> QED
      BY <3>1 DEF Range
  <2>3. 1 \in DOMAIN after
    BY <1>14
  <2>4. {q[f]} \cup Range(kept) \subseteq Range(after)
    BY <1>14, <2>2, <2>3 DEF Range
  <2> QED
    BY <2>1, <2>4
<1>18. IsInjective(after)
  <2>1. ASSUME NEW i \in DOMAIN after, NEW j \in DOMAIN after, after[i] = after[j]
        PROVE  i = j
    <3>1. CASE i = 1 /\ j = 1
      BY <3>1
    <3>2. CASE i = 1 /\ j # 1
      BY <1>14, <1>15, <1>16, <2>1, <3>2 DEF Range
    <3>3. CASE i # 1 /\ j = 1
      BY <1>14, <1>15, <1>16, <2>1, <3>3 DEF Range
    <3>4. CASE i # 1 /\ j # 1
      <4>1. kept[i - 1] = kept[j - 1] /\ i - 1 \in DOMAIN kept /\ j - 1 \in DOMAIN kept
        BY <1>16, <2>1, <3>4
      <4>2. i - 1 = j - 1
        BY <1>12, <4>1 DEF IsInjective
      <4>3. i \in Int /\ j \in Int
        BY <1>14
      <4> QED
        BY <4>2, <4>3
    <3> QED
      BY <3>1, <3>2, <3>3, <3>4
  <2> QED
    BY <2>1 DEF IsInjective
<1>19. {q[f]} \cup Range(kept) = Range(q) \ merged
  <2>1. Range(q) = {q[i] : i \in R} \cup {q[f]} \cup merged
    BY <1>1, <1>5, <1>6 DEF Range, R, T
  <2>2. {q[i] : i \in R} \cap merged = {}
    BY <1>1, <1>8 DEF R
  <2> QED
    BY <1>9, <1>12, <2>1, <2>2
<1>20. Cardinality(K) = Cardinality(merged) + 1 /\ Len(after) = Len(q) - Cardinality(merged)
  BY <1>1, <1>3, <1>10, <1>11, <1>12, <1>13, <1>14
<1> QED
  BY <1>6, <1>7, <1>8, <1>9, <1>11, <1>14, <1>17, <1>18, <1>19, <1>20 DEF K, after, merged

-----------------------------------------------------------------------------
(***************************************************************************)
(* Folds.  The operators of the library that fold over a set or a sequence *)
(* are defined by recursion over the subsets of a finite set, taking out   *)
(* the element c[s] of the subset s each time.  That the recursion defines *)
(* a function at all follows by taking the smallest size at which it does  *)
(* not.                                                                    *)
(***************************************************************************)
Foldable(S, V, base, c, f) ==
  /\ IsFiniteSet(S) /\ base \in V
  /\ \A s \in SUBSET S : s # {} => c[s] \in s
  /\ \A s \in SUBSET S : s # {} => \A v \in V : f[s][v] \in V

FoldStep(base, c, f, g, s) == IF s = {} THEN base ELSE f[s][g[s \ {c[s]}]]

IsFold(g, S, base, c, f) == \A s \in SUBSET S : g[s] = FoldStep(base, c, f, g, s)

LEMMA FoldExists ==
  ASSUME NEW S, NEW V, NEW base, NEW c, NEW f, Foldable(S, V, base, c, f)
  PROVE  \E g \in [SUBSET S -> V] : IsFold(g, S, base, c, f)
<1> DEFINE Upto(n) == {s \in SUBSET S : Cardinality(s) <= n}
           Solved(n) == \E g \in [SUBSET S -> V] :
                          \A s \in Upto(n) : g[s] = FoldStep(base, c, f, g, s)
           Unsolved == {n \in 0..Cardinality(S) : ~Solved(n)}
<1>0. /\ IsFiniteSet(S) /\ base \in V
      /\ \A s \in SUBSET S : s # {} => \A v \in V : f[s][v] \in V
  BY DEF Foldable
<1>1. /\ Cardinality(S) \in Nat
      /\ \A s \in SUBSET S : /\ IsFiniteSet(s)
                             /\ Cardinality(s) \in 0..Cardinality(S)
  BY <1>0, FS_CardinalityType, FS_Subset
<1>2. \A s \in SUBSET S : s # {} => c[s] \in s
  BY DEF Foldable
<1>3. Solved(0)
  <2>1. \A s \in Upto(0) : s = {}
    BY <1>1, FS_EmptySet
  <2> DEFINE g == [s \in SUBSET S |-> base]
  <2>2. g \in [SUBSET S -> V] /\ \A s \in Upto(0) : g[s] = FoldStep(base, c, f, g, s)
    BY <1>0, <2>1 DEF FoldStep
  <2> QED
    BY <2>2
<1>4. ASSUME NEW n \in Nat, Solved(n) PROVE Solved(n + 1)
  <2>1. PICK g \in [SUBSET S -> V] : \A s \in Upto(n) : g[s] = FoldStep(base, c, f, g, s)
    BY <1>4
  <2> DEFINE h == [s \in SUBSET S |-> FoldStep(base, c, f, g, s)]
  <2>2. \A s \in SUBSET S : FoldStep(base, c, f, g, s) \in V
    BY <1>0, <1>2 DEF FoldStep
  <2>3. h \in [SUBSET S -> V]
    BY <2>2
  <2>4. ASSUME NEW s \in Upto(n + 1) PROVE h[s] = FoldStep(base, c, f, h, s)
    <3>1. CASE s = {}
      BY <3>1 DEF FoldStep
    <3>2. CASE s # {}
      <4>1. c[s] \in s
        BY <1>2, <3>2
      <4>2. Cardinality(s \ {c[s]}) = Cardinality(s) - 1
        BY <1>1, <4>1, FS_RemoveElement
      <4>3. s \ {c[s]} \in Upto(n)
        BY <1>1, <4>2
      <4>4. h[s \ {c[s]}] = g[s \ {c[s]}]
        BY <2>1, <4>3
      <4> QED
        BY <3>2, <4>4 DEF FoldStep
    <3> QED
      BY <3>1, <3>2
  <2> QED
    BY <2>3, <2>4
<1>5. Solved(Cardinality(S))
  <2> HIDE DEF Solved
  <2>1. ASSUME Unsolved # {} PROVE FALSE
    <3>1. IsFiniteSet(Unsolved) /\ Unsolved \in SUBSET Nat
      <4>1. IsFiniteSet(0..Cardinality(S))
        BY <1>1, FS_Interval
      <4>2. Unsolved \in SUBSET (0..Cardinality(S)) /\ Unsolved \in SUBSET Nat
        OBVIOUS
      <4> HIDE DEF Unsolved
      <4> QED
        BY <4>1, <4>2, FS_Subset
    <3>2. PICK n \in Unsolved : \A k \in Unsolved : n <= k
      BY <2>1, <3>1, LeastElement
    <3>3. n \in Nat /\ n # 0
      BY <1>3
    <3>4. n - 1 \in 0..Cardinality(S) /\ n - 1 \notin Unsolved /\ n - 1 \in Nat
      BY <1>1, <3>2, <3>3
    <3>5. Solved(n - 1)
      BY <3>4
    <3>6. Solved((n - 1) + 1)
      BY <1>4, <3>4, <3>5
    <3>7. (n - 1) + 1 = n
      BY <3>3
    <3>8. Solved(n)
      BY <3>6, <3>7, Zenon
    <3>9. ~Solved(n)
      BY <3>2
    <3> QED
      BY <3>8, <3>9
  <2> QED
    BY <1>1, <2>1
<1>6. PICK g \in [SUBSET S -> V] :
        \A s \in Upto(Cardinality(S)) : g[s] = FoldStep(base, c, f, g, s)
  BY <1>5
<1>7. \A s \in SUBSET S : s \in Upto(Cardinality(S))
  BY <1>1
<1> QED
  BY <1>6, <1>7 DEF IsFold

(***************************************************************************)
(* Sums.  SumFunctionOnSet folds over a set in a chosen order.  What it    *)
(* computes, whatever the order, follows by taking a smallest subset that  *)
(* is a counterexample.                                                    *)
(***************************************************************************)
Chosen(s) == CHOOSE x \in s : TRUE

SumStep(f, g, s) == IF s = {} THEN 0 ELSE f[Chosen(s)] + g[s \ {Chosen(s)}]

LEMMA SumIsFold ==
  ASSUME NEW f, NEW S
  PROVE  SumFunctionOnSet(f, S) =
           (CHOOSE g : g = [s \in SUBSET S |->
              IF s = {} THEN 0
              ELSE f[CHOOSE x \in s : TRUE] + g[s \ {CHOOSE x \in s : TRUE}]])[S]
BY DEF SumFunctionOnSet, FoldFunctionOnSet, MapThenFoldSet

LEMMA SumExists ==
  ASSUME NEW S, IsFiniteSet(S), NEW f, \A x \in S : f[x] \in Int
  PROVE  \E g \in [SUBSET S -> Int] : \A s \in SUBSET S : g[s] = SumStep(f, g, s)
<1>0. PICK c, F : /\ c = [s \in SUBSET S |-> Chosen(s)]
                  /\ F = [s \in SUBSET S |-> [v \in Int |-> f[Chosen(s)] + v]]
  OBVIOUS
<1>1. ASSUME NEW s \in SUBSET S, s # {}
      PROVE  /\ c[s] = Chosen(s) /\ c[s] \in s
             /\ \A v \in Int : F[s][v] = f[Chosen(s)] + v /\ F[s][v] \in Int
  BY <1>0, <1>1 DEF Chosen
<1>2. PICK g \in [SUBSET S -> Int] : IsFold(g, S, 0, c, F)
  <2>1. Foldable(S, Int, 0, c, F)
    BY <1>1 DEF Foldable
  <2> QED
    BY <2>1, FoldExists
<1>3. ASSUME NEW s \in SUBSET S PROVE g[s] = SumStep(f, g, s)
  <2>1. CASE s = {}
    BY <1>2, <2>1 DEF IsFold, FoldStep, SumStep
  <2>2. CASE s # {}
    <3>1. s \ {c[s]} \in SUBSET S /\ g[s \ {c[s]}] \in Int
      BY <1>2
    <3> QED
      BY <1>1, <1>2, <2>2, <3>1 DEF IsFold, FoldStep, SumStep
  <2> QED
    BY <2>1, <2>2
<1> QED
  BY <1>2, <1>3

(***************************************************************************)
(* Induction on finite sets: of the subsets that fail, one is smallest.    *)
(***************************************************************************)
LEMMA SmallestSubset ==
  ASSUME NEW S, IsFiniteSet(S), NEW B \in SUBSET (SUBSET S), B # {}
  PROVE  \E b \in B : /\ IsFiniteSet(b)
                      /\ \A c \in SUBSET b : c # b => c \notin B
<1> DEFINE sizes == {Cardinality(b) : b \in B}
<1>1. \A b \in SUBSET S : IsFiniteSet(b) /\ Cardinality(b) \in 0..Cardinality(S)
  BY FS_CardinalityType, FS_Subset
<1>2. sizes \in SUBSET (0..Cardinality(S)) /\ sizes # {} /\ Cardinality(S) \in Nat
  BY <1>1, FS_CardinalityType
<1>3. IsFiniteSet(sizes) /\ sizes \in SUBSET Nat
  <2>1. IsFiniteSet(0..Cardinality(S)) /\ 0..Cardinality(S) \in SUBSET Nat
    BY <1>2, FS_Interval
  <2> HIDE DEF sizes
  <2> QED
    BY <1>2, <2>1, FS_Subset
<1>4. PICK n \in sizes : \A k \in sizes : n <= k
  <2> HIDE DEF sizes
  <2> QED
    BY <1>2, <1>3, LeastElement
<1>5. PICK b \in B : Cardinality(b) = n
  OBVIOUS
<1>6. IsFiniteSet(b) /\ Cardinality(b) \in Nat
  BY <1>1, <1>2
<1>7. ASSUME NEW c \in SUBSET b, c # b, c \in B PROVE FALSE
  <2>1. Cardinality(c) <= Cardinality(b) /\ Cardinality(c) # Cardinality(b)
    BY <1>6, <1>7, FS_Subset
  <2>2. Cardinality(b) <= Cardinality(c) /\ Cardinality(c) \in Nat
    BY <1>1, <1>2, <1>4, <1>5, <1>7
  <2> QED
    BY <1>6, <2>1, <2>2
<1> QED
  BY <1>6, <1>7

(***************************************************************************)
(* The sum function of f on S: what SumFunctionOnSet computes, on every    *)
(* subset.                                                                 *)
(***************************************************************************)
IsSum(g, f, S) ==
  /\ g \in [SUBSET S -> Int]
  /\ g[{}] = 0
  /\ \A s \in SUBSET S : s # {} => Chosen(s) \in s /\ g[s] = f[Chosen(s)] + g[s \ {Chosen(s)}]

LEMMA SumIsSum ==
  ASSUME NEW S, IsFiniteSet(S), NEW f, \A x \in S : f[x] \in Int
  PROVE  \E g : IsSum(g, f, S) /\ SumFunctionOnSet(f, S) = g[S]
<1>1. \E e : e = [s \in SUBSET S |-> SumStep(f, e, s)]
  <2>1. PICK e \in [SUBSET S -> Int] : \A s \in SUBSET S : e[s] = SumStep(f, e, s)
    BY SumExists
  <2>2. e = [s \in SUBSET S |-> SumStep(f, e, s)]
    BY <2>1
  <2> QED
    BY <2>2
<1> DEFINE g == CHOOSE h : h = [s \in SUBSET S |-> SumStep(f, h, s)]
<1>2. g = [s \in SUBSET S |-> SumStep(f, g, s)]
  BY <1>1
<1>3. SumFunctionOnSet(f, S) = g[S]
  BY SumIsFold DEF SumStep, Chosen
<1> HIDE DEF g
<1>4. \A s \in SUBSET S : s # {} => Chosen(s) \in s
  BY DEF Chosen
<1>5. /\ g[{}] = 0
      /\ \A s \in SUBSET S : s # {} => g[s] = f[Chosen(s)] + g[s \ {Chosen(s)}]
  BY <1>2 DEF SumStep
<1>6. \A s \in SUBSET S : g[s] \in Int
  <2> DEFINE B == {s \in SUBSET S : g[s] \notin Int}
  <2>1. ASSUME B # {} PROVE FALSE
    <3>0. B \in SUBSET (SUBSET S)
      OBVIOUS
    <3>1. PICK b \in B : \A c \in SUBSET b : c # b => c \notin B
      <4> HIDE DEF B
      <4> QED
        BY <2>1, <3>0, SmallestSubset
    <3>2. b # {}
      <4>1. g[b] \notin Int
        OBVIOUS
      <4>2. b = {} => g[b] = 0
        BY <1>5
      <4> QED
        BY <4>1, <4>2
    <3>3. g[b \ {Chosen(b)}] \in Int /\ f[Chosen(b)] \in Int
      BY <1>4, <3>1, <3>2
    <3>4. g[b] = f[Chosen(b)] + g[b \ {Chosen(b)}]
      BY <1>5, <3>2
    <3>5. g[b] \notin Int
      OBVIOUS
    <3> QED
      BY <3>3, <3>4, <3>5
  <2> QED
    BY <2>1
<1>7. IsSum(g, f, S)
  BY <1>2, <1>4, <1>5, <1>6 DEF IsSum
<1> QED
  BY <1>3, <1>7

LEMMA SumsAgree ==
  ASSUME NEW S, IsFiniteSet(S), NEW T \in SUBSET S, NEW f, NEW e, NEW g, NEW h,
         IsSum(g, f, S), IsSum(h, e, T), \A x \in T : e[x] = f[x]
  PROVE  g[T] = h[T]
<1> DEFINE B == {s \in SUBSET T : g[s] # h[s]}
<1>1. ASSUME B # {} PROVE FALSE
  <2>0. IsFiniteSet(T)
    BY FS_Subset
  <2>1. PICK b \in B : \A c \in SUBSET b : c # b => c \notin B
    <3>1. B \in SUBSET (SUBSET T)
      OBVIOUS
    <3> HIDE DEF B
    <3> QED
      BY <1>1, <2>0, <3>1, SmallestSubset
  <2>2. b # {} /\ b \in SUBSET S /\ b \in SUBSET T
    BY DEF IsSum
  <2>3. Chosen(b) \in b /\ g[b \ {Chosen(b)}] = h[b \ {Chosen(b)}]
    BY <2>1, <2>2 DEF IsSum
  <2>4. e[Chosen(b)] = f[Chosen(b)]
    BY <2>2, <2>3
  <2> QED
    BY <2>2, <2>3, <2>4 DEF IsSum
<1> QED
  BY <1>1

LEMMA SumWithout ==
  ASSUME NEW S, IsFiniteSet(S), NEW f, \A x \in S : f[x] \in Int, NEW g, IsSum(g, f, S)
  PROVE  \A s \in SUBSET S : \A x \in s : g[s] = f[x] + g[s \ {x}]
<1> DEFINE B == {s \in SUBSET S : \E x \in s : g[s] # f[x] + g[s \ {x}]}
<1>1. ASSUME B # {} PROVE FALSE
  <2>1. PICK b \in B : \A c \in SUBSET b : c # b => c \notin B
    <3>1. B \in SUBSET (SUBSET S)
      OBVIOUS
    <3> HIDE DEF B
    <3> QED
      BY <1>1, <3>1, SmallestSubset
  <2>2. PICK x \in b : g[b] # f[x] + g[b \ {x}]
    OBVIOUS
  <2>3. PICK y \in b : g[b] = f[y] + g[b \ {y}]
    <3>1. b # {}
      BY <2>2
    <3> QED
      BY <3>1 DEF IsSum
  <2>4. x # y
    BY <2>2, <2>3
  <2>5. g[b \ {y}] = f[x] + g[(b \ {y}) \ {x}]
    BY <2>1, <2>4
  <2>6. g[b \ {x}] = f[y] + g[(b \ {x}) \ {y}]
    BY <2>1, <2>4
  <2>7. (b \ {x}) \ {y} = (b \ {y}) \ {x}
    OBVIOUS
  <2>8. PICK r \in Int : r = g[(b \ {x}) \ {y}]
    <3>1. (b \ {x}) \ {y} \in SUBSET S
      OBVIOUS
    <3> QED
      BY <3>1 DEF IsSum
  <2>9. PICK m \in Int, n \in Int : m = f[x] /\ n = f[y]
    OBVIOUS
  <2>10. g[b] = n + (m + r) /\ g[b \ {x}] = n + r
    BY <2>3, <2>5, <2>6, <2>7, <2>8, <2>9
  <2> QED
    BY <2>2, <2>9, <2>10
<1> QED
  BY <1>1

(***************************************************************************)
(* SumFunctionOnSet, by what it sums.                                      *)
(***************************************************************************)
LEMMA SumOfNone ==
  ASSUME NEW f
  PROVE  SumFunctionOnSet(f, {}) = 0
BY SumIsSum, FS_EmptySet DEF IsSum

LEMMA SumType ==
  ASSUME NEW S, IsFiniteSet(S), NEW f, \A x \in S : f[x] \in Int
  PROVE  SumFunctionOnSet(f, S) \in Int
<1>1. PICK g : IsSum(g, f, S) /\ SumFunctionOnSet(f, S) = g[S]
  BY SumIsSum
<1> QED
  BY <1>1 DEF IsSum

LEMMA SumOfSame ==
  ASSUME NEW S, IsFiniteSet(S), NEW f, NEW e, \A x \in S : f[x] \in Int /\ e[x] = f[x]
  PROVE  SumFunctionOnSet(e, S) = SumFunctionOnSet(f, S)
<1>1. PICK g : IsSum(g, f, S) /\ SumFunctionOnSet(f, S) = g[S]
  BY SumIsSum
<1>2. \A x \in S : e[x] \in Int
  OBVIOUS
<1>3. PICK h : IsSum(h, e, S) /\ SumFunctionOnSet(e, S) = h[S]
  BY <1>2, SumIsSum
<1>4. S \in SUBSET S
  OBVIOUS
<1> QED
  BY <1>1, <1>3, <1>4, SumsAgree

LEMMA SumSplit ==
  ASSUME NEW S, IsFiniteSet(S), NEW f, \A y \in S : f[y] \in Int, NEW x \in S
  PROVE  SumFunctionOnSet(f, S) = f[x] + SumFunctionOnSet(f, S \ {x})
<1>1. IsFiniteSet(S \ {x}) /\ S \ {x} \in SUBSET S
  BY FS_Subset
<1>2. PICK g : IsSum(g, f, S) /\ SumFunctionOnSet(f, S) = g[S]
  BY SumIsSum
<1>3. PICK h : IsSum(h, f, S \ {x}) /\ SumFunctionOnSet(f, S \ {x}) = h[S \ {x}]
  BY <1>1, SumIsSum
<1>4. g[S \ {x}] = h[S \ {x}]
  BY <1>1, <1>2, <1>3, SumsAgree
<1>5. g[S] = f[x] + g[S \ {x}]
  BY <1>2, SumWithout
<1> QED
  BY <1>2, <1>3, <1>4, <1>5

LEMMA SumOfFunction ==
  ASSUME NEW S, NEW f, DOMAIN f = S
  PROVE  SumFunction(f) = SumFunctionOnSet(f, S)
BY DEF SumFunction

(* One summand changes.                                                    *)
LEMMA SumChange ==
  ASSUME NEW S, IsFiniteSet(S), NEW f, \A y \in S : f[y] \in Int,
         NEW e, \A y \in S : e[y] \in Int,
         NEW x \in S, \A y \in S \ {x} : e[y] = f[y]
  PROVE  SumFunctionOnSet(e, S) = SumFunctionOnSet(f, S) + e[x] - f[x]
<1>1. IsFiniteSet(S \ {x})
  BY FS_Subset
<1>2. PICK r \in Int : r = SumFunctionOnSet(f, S \ {x})
  BY <1>1, SumType
<1>3. SumFunctionOnSet(e, S \ {x}) = r
  BY <1>1, <1>2, SumOfSame
<1>4. SumFunctionOnSet(f, S) = f[x] + r /\ SumFunctionOnSet(e, S) = e[x] + r
  BY <1>2, <1>3, SumSplit
<1>5. e[x] \in Int /\ f[x] \in Int
  OBVIOUS
<1> QED
  BY <1>2, <1>4, <1>5

LEMMA SumOfNothing ==
  ASSUME NEW S, IsFiniteSet(S), NEW f, \A x \in S : f[x] = 0
  PROVE  SumFunctionOnSet(f, S) = 0
<1>1. PICK g : IsSum(g, f, S) /\ SumFunctionOnSet(f, S) = g[S]
  BY SumIsSum
<1> DEFINE B == {s \in SUBSET S : g[s] # 0}
<1>2. ASSUME B # {} PROVE FALSE
  <2>1. PICK b \in B : \A c \in SUBSET b : c # b => c \notin B
    <3>1. B \in SUBSET (SUBSET S)
      OBVIOUS
    <3> HIDE DEF B
    <3> QED
      BY <1>2, <3>1, SmallestSubset
  <2>2. b # {} /\ b \in SUBSET S /\ g[b] # 0
    BY <1>1 DEF IsSum
  <2>3. Chosen(b) \in b /\ g[b] = f[Chosen(b)] + g[b \ {Chosen(b)}]
    BY <1>1, <2>2 DEF IsSum
  <2>4. f[Chosen(b)] = 0 /\ g[b \ {Chosen(b)}] = 0
    BY <2>1, <2>2, <2>3
  <2> QED
    BY <2>2, <2>3, <2>4
<1> QED
  BY <1>1, <1>2

(* Sums of natural numbers are natural numbers. *)
LEMMA SumNatural ==
  ASSUME NEW S, IsFiniteSet(S), NEW f, \A x \in S : f[x] \in Nat
  PROVE  SumFunctionOnSet(f, S) \in Nat
<1>0. \A x \in S : f[x] \in Int
  OBVIOUS
<1>1. PICK g : IsSum(g, f, S) /\ SumFunctionOnSet(f, S) = g[S]
  BY <1>0, SumIsSum
<1> DEFINE B == {s \in SUBSET S : g[s] \notin Nat}
<1>2. ASSUME B # {} PROVE FALSE
  <2>1. PICK b \in B : \A c \in SUBSET b : c # b => c \notin B
    <3>1. B \in SUBSET (SUBSET S)
      OBVIOUS
    <3> HIDE DEF B
    <3> QED
      BY <1>2, <3>1, SmallestSubset
  <2>2. b # {} /\ b \in SUBSET S /\ g[b] \notin Nat
    <3>1. g[{}] = 0
      BY <1>1 DEF IsSum
    <3>2. g[{}] \in Nat
      BY <3>1
    <3> QED
      BY <3>2
  <2>3. Chosen(b) \in b /\ g[b] = f[Chosen(b)] + g[b \ {Chosen(b)}]
    BY <1>1, <2>2 DEF IsSum
  <2>4. f[Chosen(b)] \in Nat /\ g[b \ {Chosen(b)}] \in Nat
    BY <2>1, <2>2, <2>3
  <2> QED
    BY <2>2, <2>3, <2>4
<1> QED
  BY <1>1, <1>2

(* The sum over two sets that have no element in common. *)
LEMMA SumOfUnion ==
  ASSUME NEW S, NEW T, IsFiniteSet(S), IsFiniteSet(T), S \cap T = {},
         NEW f, \A x \in S \cup T : f[x] \in Int
  PROVE  SumFunctionOnSet(f, S \cup T) = SumFunctionOnSet(f, S) + SumFunctionOnSet(f, T)
<1> DEFINE Sum(s) == SumFunctionOnSet(f, s)
           B      == {t \in SUBSET T : Sum(S \cup t) # Sum(S) + Sum(t)}
<1>1. ASSUME NEW t \in SUBSET T
      PROVE  /\ IsFiniteSet(t) /\ IsFiniteSet(S \cup t)
             /\ Sum(t) \in Int /\ Sum(S \cup t) \in Int /\ Sum(S) \in Int
  <2>1. IsFiniteSet(t)
    BY FS_Subset
  <2>2. IsFiniteSet(S \cup t)
    BY <2>1, FS_Union
  <2>3. \A x \in t : f[x] \in Int
    OBVIOUS
  <2>4. \A x \in S \cup t : f[x] \in Int
    OBVIOUS
  <2>5. \A x \in S : f[x] \in Int
    OBVIOUS
  <2> QED
    BY <2>1, <2>2, <2>3, <2>4, <2>5, SumType
<1>2. ASSUME B # {} PROVE FALSE
  <2>1. PICK b \in B : \A c \in SUBSET b : c # b => c \notin B
    <3>1. B \in SUBSET (SUBSET T)
      OBVIOUS
    <3> HIDE DEF B
    <3> QED
      BY <1>2, <3>1, SmallestSubset
  <2>2. b \in SUBSET T /\ Sum(S \cup b) # Sum(S) + Sum(b)
    OBVIOUS
  <2>3. b # {}
    <3>1. Sum({}) = 0 /\ Sum(S) \in Int
      BY <1>1, SumOfNone
    <3>2. Sum(S) = Sum(S) + Sum({})
      <4> HIDE DEF Sum
      <4> QED
        BY <3>1
    <3>3. b = {} => Sum(S \cup b) = Sum(S) /\ Sum(b) = Sum({})
      <4>1. b = {} => S \cup b = S
        OBVIOUS
      <4> QED
        BY <4>1
    <3> HIDE DEF Sum
    <3> QED
      BY <2>2, <3>2, <3>3
  <2>4. PICK x \in b : TRUE
    BY <2>3
  <2>5. (S \cup b) \ {x} = S \cup (b \ {x}) /\ b \ {x} \in SUBSET T
    BY <2>2
  <2>6. Sum(b) = f[x] + Sum(b \ {x})
    BY <1>1, <2>2, SumSplit
  <2>7. Sum(S \cup b) = f[x] + Sum((S \cup b) \ {x})
    <3>1. IsFiniteSet(S \cup b) /\ x \in S \cup b /\ \A y \in S \cup b : f[y] \in Int
      BY <1>1, <2>2
    <3> QED
      BY <3>1, SumSplit
  <2>8. Sum(S \cup (b \ {x})) = Sum(S) + Sum(b \ {x})
    BY <2>1, <2>5
  <2>9. f[x] \in Int /\ Sum(S) \in Int /\ Sum(b \ {x}) \in Int
    BY <1>1, <2>2, <2>5
  <2>10. Sum((S \cup b) \ {x}) = Sum(S \cup (b \ {x}))
    BY <2>5
  <2> HIDE DEF Sum
  <2>11. PICK p \in Int, q \in Int, r \in Int : p = f[x] /\ q = Sum(S) /\ r = Sum(b \ {x})
    BY <2>9
  <2>12. Sum(b) = p + r /\ Sum(S \cup b) = p + (q + r)
    BY <2>6, <2>7, <2>8, <2>10, <2>11
  <2> QED
    BY <2>2, <2>11, <2>12
<1> QED
  BY <1>2

(***************************************************************************)
(* The sum over a set is the sum, over the classes into which g divides    *)
(* it, of the sums over the classes.                                       *)
(***************************************************************************)
LEMMA SumOfParts ==
  ASSUME NEW S, IsFiniteSet(S), NEW f, \A x \in S : f[x] \in Int,
         NEW M, IsFiniteSet(M), NEW g, \A x \in S : g[x] \in M
  PROVE  SumFunction([m \in M |-> SumFunctionOnSet(f, {x \in S : g[x] = m})])
           = SumFunctionOnSet(f, S)
<1> DEFINE Class(s, m) == {x \in s : g[x] = m}
           Parts(s)    == [m \in M |-> SumFunctionOnSet(f, Class(s, m))]
           B           == {s \in SUBSET S : SumFunctionOnSet(Parts(s), M) # SumFunctionOnSet(f, s)}
<1>1. ASSUME NEW s \in SUBSET S
      PROVE  /\ IsFiniteSet(s) /\ SumFunctionOnSet(f, s) \in Int
             /\ \A m \in M : /\ IsFiniteSet(Class(s, m))
                             /\ SumFunctionOnSet(f, Class(s, m)) \in Int
  <2>1. IsFiniteSet(s)
    BY FS_Subset
  <2>2. \A x \in s : f[x] \in Int
    OBVIOUS
  <2>3. ASSUME NEW m \in M
        PROVE  IsFiniteSet(Class(s, m)) /\ SumFunctionOnSet(f, Class(s, m)) \in Int
    <3>1. Class(s, m) \in SUBSET s
      OBVIOUS
    <3>2. IsFiniteSet(Class(s, m))
      BY <2>1, <3>1, FS_Subset
    <3>3. \A x \in Class(s, m) : f[x] \in Int
      BY <2>2
    <3> HIDE DEF Class
    <3> QED
      BY <3>2, <3>3, SumType
  <2> HIDE DEF Class
  <2> QED
    BY <2>1, <2>2, <2>3, SumType
<1>2. ASSUME B # {} PROVE FALSE
  <2>1. PICK b \in B : \A c \in SUBSET b : c # b => c \notin B
    <3>1. B \in SUBSET (SUBSET S)
      OBVIOUS
    <3> HIDE DEF B
    <3> QED
      BY <1>2, <3>1, SmallestSubset
  <2>2. b \in SUBSET S /\ SumFunctionOnSet(Parts(b), M) # SumFunctionOnSet(f, b)
    OBVIOUS
  <2>3. b # {}
    <3> SUFFICES ASSUME b = {} PROVE FALSE
      OBVIOUS
    <3>1. \A m \in M : Class(b, m) = {}
      OBVIOUS
    <3>2. \A m \in M : Parts(b)[m] = 0
      BY <3>1, SumOfNone
    <3> HIDE DEF Parts
    <3>3. SumFunctionOnSet(Parts(b), M) = 0
      BY <3>2, SumOfNothing
    <3> QED
      BY <2>2, <3>3, SumOfNone
  <2>4. PICK x \in b : TRUE
    BY <2>3
  <2> DEFINE c == b \ {x}
  <2>5. c \in SUBSET S /\ SumFunctionOnSet(Parts(c), M) = SumFunctionOnSet(f, c)
    BY <2>1, <2>2
  <2>6. SumFunctionOnSet(f, b) = f[x] + SumFunctionOnSet(f, c)
    BY <1>1, <2>2, SumSplit
  <2>7. g[x] \in M /\ f[x] \in Int
    BY <2>2
  <2>8. Class(b, g[x]) \ {x} = Class(c, g[x]) /\ x \in Class(b, g[x])
    OBVIOUS
  <2>9. \A m \in M \ {g[x]} : Class(b, m) = Class(c, m)
    OBVIOUS
  <2>10. SumFunctionOnSet(f, Class(b, g[x])) = f[x] + SumFunctionOnSet(f, Class(c, g[x]))
    <3>1. IsFiniteSet(Class(b, g[x])) /\ \A y \in Class(b, g[x]) : f[y] \in Int
      BY <1>1, <2>2, <2>7
    <3> HIDE DEF Class
    <3>2. SumFunctionOnSet(f, Class(b, g[x]))
            = f[x] + SumFunctionOnSet(f, Class(b, g[x]) \ {x})
      BY <2>8, <3>1, SumSplit
    <3> QED
      BY <2>8, <3>2
  <2> HIDE DEF Class, c
  <2>11. /\ Parts(b)[g[x]] = f[x] + Parts(c)[g[x]]
         /\ \A m \in M : Parts(b)[m] \in Int /\ Parts(c)[m] \in Int
         /\ \A m \in M \ {g[x]} : Parts(b)[m] = Parts(c)[m]
    BY <1>1, <2>2, <2>5, <2>7, <2>9, <2>10
  <2> HIDE DEF Parts
  <2>12. SumFunctionOnSet(Parts(b), M)
           = SumFunctionOnSet(Parts(c), M) + Parts(b)[g[x]] - Parts(c)[g[x]]
    BY <2>7, <2>11, SumChange
  <2>13. SumFunctionOnSet(f, c) \in Int
    BY <1>1, <2>5
  <2> QED
    BY <2>2, <2>5, <2>6, <2>7, <2>11, <2>12, <2>13
<1>3. SumFunctionOnSet(Parts(S), M) = SumFunctionOnSet(f, S)
  <2>1. S \in SUBSET S
    OBVIOUS
  <2> QED
    BY <1>2, <2>1
<1>4. DOMAIN Parts(S) = M
  OBVIOUS
<1>5. SumFunction(Parts(S)) = SumFunctionOnSet(f, S)
  <2> HIDE DEF Parts
  <2> QED
    BY <1>3, <1>4, SumOfFunction
<1> QED
  BY <1>5

(***************************************************************************)
(* A non-empty finite set of numbers has a greatest element.               *)
(***************************************************************************)
LEMMA GreatestElement ==
  ASSUME NEW K \in SUBSET Int, IsFiniteSet(K), K # {}
  PROVE  \E m \in K : \A k \in K : k <= m
<1> DEFINE HasGreatest(s) == \E m \in s : \A k \in s : k <= m
           B              == {s \in SUBSET K : s # {} /\ ~HasGreatest(s)}
<1>1. ASSUME B # {} PROVE FALSE
  <2>1. PICK b \in B : \A c \in SUBSET b : c # b => c \notin B
    <3>1. B \in SUBSET (SUBSET K)
      OBVIOUS
    <3> HIDE DEF B
    <3> QED
      BY <1>1, <3>1, SmallestSubset
  <2>2. PICK x \in b : TRUE
    OBVIOUS
  <2>3. b \ {x} = {} \/ HasGreatest(b \ {x})
    BY <2>1, <2>2
  <2>4. CASE b \ {x} = {}
    <3>1. \A k \in b : k = x /\ k \in Int
      BY <2>4
    <3> QED
      BY <2>2, <3>1
  <2>5. CASE HasGreatest(b \ {x})
    <3>1. PICK m \in b \ {x} : \A k \in b \ {x} : k <= m
      BY <2>5
    <3>2. m \in Int /\ x \in Int
      BY <2>2
    <3>3. CASE x <= m
      BY <3>1, <3>3
    <3>4. CASE m <= x
      <4>1. \A k \in b : k \in Int
        OBVIOUS
      <4>2. \A k \in b : k <= x
        BY <3>1, <3>2, <3>4, <4>1
      <4> QED
        BY <2>2, <4>2
    <3> QED
      BY <3>2, <3>3, <3>4
  <2> QED
    BY <2>3, <2>4, <2>5
<1> QED
  BY <1>1

=============================================================================
