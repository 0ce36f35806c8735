------------------------ MODULE BreachEpisodesProofs ------------------------
(***************************************************************************)
(* Proofs about the breach episode bookkeeping, for any number of stores,  *)
(* any steps of the clock and any number of ticks.                         *)
(***************************************************************************)
EXTENDS BreachEpisodes, DataLemmas

(***************************************************************************)
(* EpisodesDisjoint is not inductive: closing an episode adds its length   *)
(* to a total of which nothing is known but that it fits in the run.  The  *)
(* missing fact is that the closed episodes end before the open one starts.*)
(***************************************************************************)
StoreInv(s) ==
  /\ totalDuration[s] <= simTime
  /\ episodeStart[s] <= simTime
  /\ inBreachedState[s] => totalDuration[s] <= episodeStart[s]
  /\ maxDuration[s] <= totalDuration[s]

EpisodesInv == TypeOK /\ \A s \in Stores : StoreInv(s)

LEMMA NumbersOK ==
  NumStores \in Nat \ {0} /\ TickSteps \subseteq Nat \ {0} /\ MaxTicks \in Nat
BY EpisodeStoresAssumption, EpisodeTicksAssumption

(* The monitor starts in a state of the right types, with no episode.      *)
LEMMA EpisodesInit == Init => EpisodesInv
<1> SUFFICES ASSUME Init PROVE EpisodesInv OBVIOUS
<1>1. TypeOK BY NumbersOK DEF Init, TypeOK, NextTick, Stores, Classes
<1>2. ASSUME NEW s \in Stores PROVE StoreInv(s) BY <1>2 DEF Init, StoreInv
<1> QED BY <1>1, <1>2 DEF EpisodesInv

(* A tick moves the clock forward and touches no episode (monitor.go:153). *)
LEMMA TickStep == EpisodesInv /\ Tick => EpisodesInv'
<1> SUFFICES ASSUME EpisodesInv, Tick PROVE EpisodesInv' OBVIOUS
<1> USE NumbersOK
<1>1. PICK d \in TickSteps : simTime' = simTime + d BY DEF Tick
<1>2. simTime \in Nat /\ d \in Nat \ {0} BY DEF EpisodesInv, TypeOK
<1>3. simTime' \in Nat /\ simTime <= simTime' BY <1>1, <1>2
<1>4. UNCHANGED <<inBreachedState, episodeStart, totalEpisodes, totalDuration,
                  maxDuration, rawTickBreaches, observed>>
  BY DEF Tick, episodeVars
<1>5. TypeOK'
  <2>1. ticks' \in 0..MaxTicks BY DEF Tick, EpisodesInv, TypeOK
  <2>2. pos' \in 1..NextTick BY DEF Tick, NextTick
  <2> QED BY <1>3, <1>4, <2>1, <2>2 DEF EpisodesInv, TypeOK
<1>6. ASSUME NEW s \in Stores PROVE StoreInv(s)'
  <2>1. StoreInv(s) BY DEF EpisodesInv
  <2>2. totalDuration[s] \in Nat /\ episodeStart[s] \in Nat BY DEF EpisodesInv, TypeOK
  <2> QED BY <1>2, <1>3, <1>4, <2>1, <2>2 DEF StoreInv
<1> QED BY <1>5, <1>6 DEF EpisodesInv

(* What a look at store s leaves of the other stores, and that it keeps    *)
(* the types of what every look changes (monitor.go:164-185).              *)
LEMMA LookFrame ==
  ASSUME NEW s \in Stores, NEW class \in Classes, EpisodesInv, Look(s, class)
  PROVE  /\ simTime' = simTime /\ ticks' = ticks /\ pos' \in 1..NextTick
         /\ observed' \in [Stores -> Seq([time : Nat, class : Classes])]
<1> USE NumbersOK
<1>1. simTime' = simTime /\ ticks' = ticks BY DEF Look
<1>2. pos' \in 1..NextTick BY DEF Look, Stores, NextTick
<1>3. observed \in [Stores -> Seq([time : Nat, class : Classes])] /\ simTime \in Nat
  BY DEF EpisodesInv, TypeOK
<1>4. [time |-> simTime, class |-> class] \in [time : Nat, class : Classes] BY <1>3
<1>5. observed[s] \in Seq([time : Nat, class : Classes]) BY <1>3
<1>6. Append(observed[s], [time |-> simTime, class |-> class]) \in Seq([time : Nat, class : Classes])
  BY <1>4, <1>5
<1>7. observed' = [observed EXCEPT ![s] = Append(@, [time |-> simTime, class |-> class])]
  BY DEF Look
<1> QED BY <1>1, <1>2, <1>3, <1>6, <1>7

(* A look opens an episode, closes one, or changes neither.                *)
LEMMA LookStep ==
  ASSUME NEW s \in Stores, NEW class \in Classes, EpisodesInv, Look(s, class)
  PROVE  EpisodesInv'
<1> USE NumbersOK
<1>1. /\ simTime' = simTime /\ ticks' = ticks /\ pos' \in 1..NextTick
      /\ observed' \in [Stores -> Seq([time : Nat, class : Classes])]
  BY LookFrame
<1>2. /\ simTime \in Nat /\ ticks \in 0..MaxTicks
      /\ inBreachedState \in [Stores -> BOOLEAN]
      /\ episodeStart \in [Stores -> Nat]
      /\ totalEpisodes \in [Stores -> Nat]
      /\ totalDuration \in [Stores -> Nat]
      /\ maxDuration \in [Stores -> Nat]
      /\ rawTickBreaches \in [Stores -> Nat]
  BY DEF EpisodesInv, TypeOK
<1>3. \A t \in Stores : StoreInv(t) BY DEF EpisodesInv
<1>4. CASE /\ rawTickBreaches' = [rawTickBreaches EXCEPT ![s] = @ + 1]
           /\ Open(s)
           /\ UNCHANGED <<totalDuration, maxDuration>>
  <2>1. rawTickBreaches' \in [Stores -> Nat] BY <1>2, <1>4
  <2>2. CASE inBreachedState[s]
    <3>1. UNCHANGED <<inBreachedState, episodeStart, totalEpisodes>> BY <1>4, <2>2 DEF Open
    <3>2. TypeOK' BY <1>1, <1>2, <1>4, <2>1, <3>1 DEF TypeOK, NextTick
    <3>3. \A t \in Stores : StoreInv(t)' BY <1>1, <1>3, <1>4, <3>1 DEF StoreInv
    <3> QED BY <3>2, <3>3 DEF EpisodesInv
  <2>3. CASE ~inBreachedState[s]
    <3>1. /\ inBreachedState' = [inBreachedState EXCEPT ![s] = TRUE]
          /\ episodeStart' = [episodeStart EXCEPT ![s] = simTime]
          /\ totalEpisodes' = [totalEpisodes EXCEPT ![s] = @ + 1]
      BY <1>4, <2>3 DEF Open
    <3>2. TypeOK'
      <4>1. /\ inBreachedState' \in [Stores -> BOOLEAN]
            /\ episodeStart' \in [Stores -> Nat]
        BY <1>2, <3>1
      <4>2. totalEpisodes' \in [Stores -> Nat] BY <1>2, <3>1
      <4> QED BY <1>1, <1>2, <1>4, <2>1, <4>1, <4>2 DEF TypeOK, NextTick
    <3>3. ASSUME NEW t \in Stores PROVE StoreInv(t)'
      <4>1. CASE t = s
        <5>1. episodeStart'[t] = simTime BY <1>2, <3>1, <4>1
        <5>2. totalDuration'[t] = totalDuration[t] /\ maxDuration'[t] = maxDuration[t] BY <1>4
        <5> QED BY <1>1, <1>2, <1>3, <5>1, <5>2 DEF StoreInv
      <4>2. CASE t # s
        <5>1. episodeStart'[t] = episodeStart[t] /\ inBreachedState'[t] = inBreachedState[t]
          BY <1>2, <3>1, <4>2
        <5>2. totalDuration'[t] = totalDuration[t] /\ maxDuration'[t] = maxDuration[t] BY <1>4
        <5> QED BY <1>1, <1>3, <5>1, <5>2 DEF StoreInv
      <4> QED BY <4>1, <4>2
    <3> QED BY <3>2, <3>3 DEF EpisodesInv
  <2> QED BY <2>2, <2>3
<1>5. CASE Close(s) /\ UNCHANGED <<rawTickBreaches, episodeStart, totalEpisodes>>
  <2> DEFINE duration == simTime - episodeStart[s]
             larger == IF maxDuration[s] > duration THEN maxDuration[s] ELSE duration
  <2>1. /\ inBreachedState[s]
        /\ totalDuration' = [totalDuration EXCEPT ![s] = totalDuration[s] + duration]
        /\ maxDuration' = [maxDuration EXCEPT ![s] = larger]
        /\ inBreachedState' = [inBreachedState EXCEPT ![s] = FALSE]
    BY <1>5 DEF Close, LargerOf
  <2>2. StoreInv(s) /\ episodeStart[s] \in Nat /\ totalDuration[s] \in Nat /\ maxDuration[s] \in Nat
    BY <1>2, <1>3
  <2>3. duration \in Nat BY <1>2, <2>2 DEF StoreInv
  <2>4. totalDuration[s] + duration \in Nat /\ larger \in Nat BY <2>2, <2>3
  <2>5. totalDuration[s] + duration <= simTime BY <1>2, <2>1, <2>2 DEF StoreInv
  <2>6. larger <= totalDuration[s] + duration BY <2>2, <2>3 DEF StoreInv
  <2> HIDE DEF duration, larger
  <2>7. totalDuration' \in [Stores -> Nat] /\ maxDuration' \in [Stores -> Nat]
    BY <1>2, <2>1, <2>4
  <2>8. inBreachedState' \in [Stores -> BOOLEAN] BY <1>2, <2>1
  <2>9. TypeOK' BY <1>1, <1>2, <1>5, <2>7, <2>8 DEF TypeOK, NextTick
  <2>10. ASSUME NEW t \in Stores PROVE StoreInv(t)'
    <3>1. CASE t = s
      <4>1. /\ totalDuration'[t] = totalDuration[s] + duration
            /\ maxDuration'[t] = larger
            /\ inBreachedState'[t] = FALSE
            /\ episodeStart'[t] = episodeStart[s]
        BY <1>2, <1>5, <2>1, <3>1
      <4> QED BY <1>1, <2>2, <2>5, <2>6, <3>1, <4>1 DEF StoreInv
    <3>2. CASE t # s
      <4>1. /\ totalDuration'[t] = totalDuration[t]
            /\ maxDuration'[t] = maxDuration[t]
            /\ inBreachedState'[t] = inBreachedState[t]
            /\ episodeStart'[t] = episodeStart[t]
        BY <1>2, <1>5, <2>1, <3>2
      <4> QED BY <1>1, <1>3, <4>1 DEF StoreInv
    <3> QED BY <3>1, <3>2
  <2> QED BY <2>9, <2>10 DEF EpisodesInv
<1>6. CASE UNCHANGED episodeVars
  <2>1. UNCHANGED <<inBreachedState, episodeStart, totalEpisodes, totalDuration,
                    maxDuration, rawTickBreaches>>
    BY <1>6 DEF episodeVars
  <2>2. TypeOK' BY <1>1, <1>2, <2>1 DEF TypeOK, NextTick
  <2>3. \A t \in Stores : StoreInv(t)' BY <1>1, <1>3, <2>1 DEF StoreInv
  <2> QED BY <2>2, <2>3 DEF EpisodesInv
<1> QED BY <1>4, <1>5, <1>6 DEF Look

(* The strengthened invariant holds in every reachable state.              *)
LEMMA EpisodesInvariant == Spec => []EpisodesInv
<1>1. EpisodesInv /\ [Next]_vars => EpisodesInv'
  <2> SUFFICES ASSUME EpisodesInv, [Next]_vars PROVE EpisodesInv' OBVIOUS
  <2>1. CASE Tick BY <2>1, TickStep
  <2>2. ASSUME NEW s \in Stores, NEW class \in Classes, Look(s, class) PROVE EpisodesInv'
    BY <2>2, LookStep
  <2>3. CASE UNCHANGED vars
    <3>1. UNCHANGED <<simTime, ticks, pos, observed, inBreachedState, episodeStart,
                      totalEpisodes, totalDuration, maxDuration, rawTickBreaches>>
      BY <2>3 DEF vars, episodeVars
    <3>2. TypeOK' BY <3>1 DEF EpisodesInv, TypeOK, NextTick
    <3>3. \A s \in Stores : StoreInv(s)' BY <3>1 DEF EpisodesInv, StoreInv
    <3> QED BY <3>2, <3>3 DEF EpisodesInv
  <2> QED BY <2>1, <2>2, <2>3 DEF Next
<1> QED BY EpisodesInit, <1>1, PTL DEF Spec

(***************************************************************************)
(* The bookkeeping is well typed: in particular no duration is ever        *)
(* negative, whatever the order of highs and lows (monitor.go:164-185).    *)
(***************************************************************************)
THEOREM EpisodesTypeCorrect == Spec => []TypeOK
<1>1. EpisodesInv => TypeOK BY DEF EpisodesInv
<1> QED BY <1>1, EpisodesInvariant, PTL

(***************************************************************************)
(* A store's episodes are disjoint: the duration GetBreachSummary reports  *)
(* for it, the open episode included, never exceeds the time that has      *)
(* passed, and its longest closed episode is part of its total             *)
(* (monitor.go:113-120, 164-185).                                          *)
(***************************************************************************)
THEOREM EpisodesNeverOverlap == Spec => []EpisodesDisjoint
<1>1. EpisodesInv => EpisodesDisjoint
  <2> SUFFICES ASSUME EpisodesInv, NEW s \in Stores
               PROVE  DurationOf(s, simTime) <= simTime /\ maxDuration[s] <= totalDuration[s]
    BY DEF EpisodesDisjoint
  <2>1. /\ StoreInv(s) /\ simTime \in Nat
        /\ totalDuration[s] \in Nat /\ episodeStart[s] \in Nat
    BY DEF EpisodesInv, TypeOK
  <2> QED BY <2>1 DEF StoreInv, DurationOf
<1> QED BY <1>1, EpisodesInvariant, PTL

-----------------------------------------------------------------------------
(***************************************************************************)
(* What one more observation changes.  EpisodesMatchObservations compares  *)
(* the counters with a definition over the whole history, so its proof     *)
(* needs to know what appending an observation to the history does to that *)
(* definition.                                                             *)
(***************************************************************************)
Observations == [time : Nat, class : Classes]

(* Every high of the history is followed by a low: no episode is open.     *)
Covered(h) == \A j \in DOMAIN h : h[j].class = "high" => LowsAfter(h, j) # {}

(* g is the history h with the observation e at its end, n. *)
Grown(h, e, g, n) ==
  /\ h \in Seq(Observations) /\ e \in Observations
  /\ g = Append(h, e) /\ n = Len(h) + 1

(* The old observations stay where they are.                               *)
LEMMA GrownEntries ==
  ASSUME NEW h, NEW e, NEW g, NEW n, Grown(h, e, g, n)
  PROVE  /\ n \in Nat \ {0} /\ DOMAIN h = 1..(n - 1) /\ DOMAIN g = 1..n
         /\ g[n] = e /\ \A i \in 1..(n - 1) : g[i] = h[i]
         /\ \A i \in 1..(n - 1) : h[i] \in Observations
         /\ g \in Seq(Observations)
<1>1. h \in Seq(Observations) /\ e \in Observations /\ g = Append(h, e) /\ n = Len(h) + 1
  BY DEF Grown
<1>2. Len(h) \in Nat /\ DOMAIN h = 1..Len(h) /\ \A i \in 1..Len(h) : h[i] \in Observations
  BY <1>1
<1>3. g \in Seq(Observations) /\ Len(g) = n /\ DOMAIN g = 1..Len(g)
  BY <1>1, <1>2
<1>4. g[n] = e /\ \A i \in 1..Len(h) : g[i] = h[i]
  BY <1>1, <1>2
<1>5. n - 1 = Len(h) /\ n \in Nat \ {0}
  BY <1>1, <1>2
<1> QED
  BY <1>2, <1>3, <1>4, <1>5

(* Only a low adds to the lows after an observation, and only itself.      *)
LEMMA GrownLows ==
  ASSUME NEW h, NEW e, NEW g, NEW n, Grown(h, e, g, n)
  PROVE  /\ LowsAfter(g, n) = {}
         /\ \A i \in 1..(n - 1) : LowsAfter(h, i) \in SUBSET (1..(n - 1)) /\ LowsAfter(h, i) \in SUBSET Nat
         /\ \A i \in 1..(n - 1) : e.class # "low" => LowsAfter(g, i) = LowsAfter(h, i)
         /\ \A i \in 1..(n - 1) : e.class = "low" => LowsAfter(g, i) = LowsAfter(h, i) \cup {n}
<1>1. /\ n \in Nat \ {0} /\ DOMAIN h = 1..(n - 1) /\ DOMAIN g = 1..n
      /\ g[n] = e /\ \A i \in 1..(n - 1) : g[i] = h[i]
  BY GrownEntries
<1>2. LowsAfter(g, n) = {}
  BY <1>1 DEF LowsAfter
<1>3. ASSUME NEW i \in 1..(n - 1)
      PROVE  LowsAfter(h, i) \in SUBSET (1..(n - 1)) /\ LowsAfter(h, i) \in SUBSET Nat
  BY <1>1 DEF LowsAfter
<1>4. ASSUME NEW i \in 1..(n - 1), e.class # "low"
      PROVE  LowsAfter(g, i) = LowsAfter(h, i)
  <2>1. \A j \in DOMAIN g : j \in LowsAfter(g, i) <=> j \in LowsAfter(h, i)
    BY <1>1, <1>4 DEF LowsAfter
  <2>2. LowsAfter(g, i) \in SUBSET DOMAIN g /\ LowsAfter(h, i) \in SUBSET DOMAIN g
    BY <1>1 DEF LowsAfter
  <2> QED
    BY <2>1, <2>2
<1>5. ASSUME NEW i \in 1..(n - 1), e.class = "low"
      PROVE  LowsAfter(g, i) = LowsAfter(h, i) \cup {n}
  <2>1. \A j \in 1..(n - 1) : j \in LowsAfter(g, i) <=> j \in LowsAfter(h, i)
    BY <1>1 DEF LowsAfter
  <2>2. n \in LowsAfter(g, i)
    BY <1>1, <1>5 DEF LowsAfter
  <2>3. LowsAfter(g, i) \in SUBSET (1..n) /\ LowsAfter(h, i) \in SUBSET (1..(n - 1))
    BY <1>1 DEF LowsAfter
  <2>4. \A j \in 1..n : j \in 1..(n - 1) \/ j = n
    BY <1>1
  <2> QED
    BY <2>1, <2>2, <2>3, <2>4
<1> QED
  BY <1>2, <1>3, <1>4, <1>5

(* An observation opens an episode if it is a high and none is open; the   *)
(* episodes that opened before it are the same.                            *)
LEMMA GrownOpens ==
  ASSUME NEW h, NEW e, NEW g, NEW n, Grown(h, e, g, n)
  PROVE  /\ Opens(h) \in SUBSET (1..(n - 1))
         /\ e.class = "high" /\ Covered(h) => Opens(g) = Opens(h) \cup {n}
         /\ ~(e.class = "high" /\ Covered(h)) => Opens(g) = Opens(h)
<1>1. /\ n \in Nat \ {0} /\ DOMAIN h = 1..(n - 1) /\ DOMAIN g = 1..n
      /\ g[n] = e /\ \A i \in 1..(n - 1) : g[i] = h[i]
  BY GrownEntries
<1>2. Opens(h) \in SUBSET (1..(n - 1)) /\ Opens(g) \in SUBSET (1..n)
  BY <1>1 DEF Opens
<1>3. ASSUME NEW i \in 1..(n - 1) PROVE i \in Opens(g) <=> i \in Opens(h)
  <2>1. \A j \in 1..(i - 1) : j \in 1..(n - 1)
    BY <1>1
  <2>2. \A j \in 1..(i - 1) : \A k \in (j + 1)..(i - 1) : k \in 1..(n - 1)
    BY <1>1
  <2>3. /\ \A j \in 1..(i - 1) : g[j] = h[j]
        /\ \A j \in 1..(i - 1) : \A k \in (j + 1)..(i - 1) : g[k] = h[k]
    BY <1>1, <2>1, <2>2
  <2>4. g[i] = h[i] /\ i \in DOMAIN g /\ i \in DOMAIN h
    BY <1>1
  <2> QED
    BY <2>3, <2>4 DEF Opens
<1>4. n \in Opens(g) <=> e.class = "high" /\ Covered(h)
  <2>1. \A j \in 1..(n - 1) : (\E k \in (j + 1)..(n - 1) : g[k].class = "low") <=> LowsAfter(h, j) # {}
    <3>1. ASSUME NEW j \in 1..(n - 1), NEW k \in (j + 1)..(n - 1), g[k].class = "low"
          PROVE  LowsAfter(h, j) # {}
      <4>1. k \in 1..(n - 1) /\ k > j
        BY <1>1
      <4> QED
        BY <1>1, <3>1, <4>1 DEF LowsAfter
    <3>2. ASSUME NEW j \in 1..(n - 1), LowsAfter(h, j) # {}
          PROVE  \E k \in (j + 1)..(n - 1) : g[k].class = "low"
      <4>1. PICK k \in 1..(n - 1) : k > j /\ h[k].class = "low"
        BY <1>1, <3>2 DEF LowsAfter
      <4>2. k \in (j + 1)..(n - 1) /\ g[k] = h[k]
        BY <1>1, <4>1
      <4> QED
        BY <4>1, <4>2
    <3> QED
      BY <3>1, <3>2
  <2>2. n \in Opens(g) <=>
          /\ e.class = "high"
          /\ \A j \in 1..(n - 1) : h[j].class = "high" => \E k \in (j + 1)..(n - 1) : g[k].class = "low"
    BY <1>1 DEF Opens
  <2> QED
    BY <1>1, <2>1, <2>2 DEF Covered
<1>5. \A i \in 1..n : i \in 1..(n - 1) \/ i = n
  BY <1>1
<1>6. ASSUME e.class = "high", Covered(h) PROVE Opens(g) = Opens(h) \cup {n}
  BY <1>2, <1>3, <1>4, <1>5, <1>6
<1>7. ASSUME ~(e.class = "high" /\ Covered(h)) PROVE Opens(g) = Opens(h)
  BY <1>2, <1>3, <1>4, <1>5, <1>7
<1> QED
  BY <1>2, <1>6, <1>7

(* The end of an episode is its first low, however long the history grows: *)
(* an episode that has closed keeps its length, and one that had not ends  *)
(* at the low that is appended.                                            *)
LEMMA GrownLastings ==
  ASSUME NEW h, NEW e, NEW g, NEW n, Grown(h, e, g, n), NEW i \in 1..(n - 1), NEW end
  PROVE  /\ LowsAfter(h, i) # {} => Lastings(g, end)[i] = Lastings(h, end)[i]
         /\ e.class = "low" /\ LowsAfter(h, i) = {} => Lastings(g, end)[i] = e.time - h[i].time
<1>1. /\ n \in Nat \ {0} /\ DOMAIN h = 1..(n - 1) /\ DOMAIN g = 1..n
      /\ g[n] = e /\ \A j \in 1..(n - 1) : g[j] = h[j]
  BY GrownEntries
<1>2. Lastings(g, end)[i] = LastingOf(g, i, end) /\ Lastings(h, end)[i] = LastingOf(h, i, end)
  BY <1>1 DEF Lastings
<1>3. ASSUME LowsAfter(h, i) # {} PROVE LastingOf(g, i, end) = LastingOf(h, i, end)
  <2> DEFINE L == LowsAfter(h, i)
             M == LowsAfter(g, i)
  <2>1. L \in SUBSET (1..(n - 1)) /\ L \in SUBSET Nat /\ (M = L \/ M = L \cup {n})
    BY GrownLows
  <2>2. PICK k \in L : \A j \in L : k <= j
    <3>1. IsFiniteSet(1..(n - 1))
      BY <1>1, FS_Interval
    <3>2. IsFiniteSet(L)
      BY <2>1, <3>1, FS_Subset
    <3> QED
      BY <1>3, <2>1, <3>2, LeastElement
  <2>3. k \in 1..(n - 1) /\ k <= n /\ n \in Nat
    BY <1>1, <2>1
  <2>4. k \in M /\ \A j \in M : k <= j
    BY <2>1, <2>2, <2>3
  <2>5. \A j \in M : j \in Nat
    BY <1>1, <2>1
  <2> HIDE DEF L, M
  <2>6. Min(L) = k
    <3>1. \A j \in L : j \in Nat
      BY <2>1
    <3>2. k \in L /\ \A j \in L : k <= j
      BY <2>2
    <3> QED
      BY <3>1, <3>2 DEF Min
  <2>7. Min(M) = k
    BY <2>4, <2>5 DEF Min
  <2> USE DEF L, M
  <2>8. EndOf(h, i, end) = h[k].time /\ EndOf(g, i, end) = g[k].time
    BY <1>3, <2>4, <2>6, <2>7 DEF EndOf
  <2>9. g[k] = h[k] /\ g[i] = h[i]
    BY <1>1, <2>3
  <2> QED
    BY <2>8, <2>9 DEF LastingOf
<1>4. ASSUME e.class = "low", LowsAfter(h, i) = {}
      PROVE  LastingOf(g, i, end) = e.time - h[i].time
  <2>1. LowsAfter(g, i) = {n}
    BY <1>4, GrownLows
  <2>2. Min({n}) = n
    BY <1>1 DEF Min
  <2>3. EndOf(g, i, end) = e.time
    BY <1>1, <2>1, <2>2 DEF EndOf
  <2>4. g[i] = h[i]
    BY <1>1
  <2> QED
    BY <2>3, <2>4 DEF LastingOf
<1> QED
  BY <1>2, <1>3, <1>4

(* An episode that has closed has a length, whenever it is asked for.      *)
LEMMA ClosedLastings ==
  ASSUME NEW h \in Seq(Observations), NEW i \in DOMAIN h, LowsAfter(h, i) # {}
  PROVE  /\ Lastings(h, 0)[i] \in Int
         /\ \A end : Lastings(h, end)[i] = Lastings(h, 0)[i]
<1>1. DOMAIN h = 1..Len(h) /\ Len(h) \in Nat /\ \A j \in DOMAIN h : h[j] \in Observations
  OBVIOUS
<1>2. \A end : Lastings(h, end)[i] = h[Min(LowsAfter(h, i))].time - h[i].time
  BY DEF Lastings, LastingOf, EndOf
<1>3. PICK k \in LowsAfter(h, i) : \A j \in LowsAfter(h, i) : k <= j
  <2>1. IsFiniteSet(1..Len(h))
    BY <1>1, FS_Interval
  <2>2. LowsAfter(h, i) \in SUBSET (1..Len(h)) /\ LowsAfter(h, i) \in SUBSET Nat
    BY <1>1 DEF LowsAfter
  <2>3. IsFiniteSet(LowsAfter(h, i))
    BY <2>1, <2>2, FS_Subset
  <2> QED
    BY <2>2, <2>3, LeastElement
<1>4. \A j \in LowsAfter(h, i) : j \in Nat
  BY <1>1 DEF LowsAfter
<1>5. Min(LowsAfter(h, i)) = k
  BY <1>3, <1>4 DEF Min
<1>6. k \in DOMAIN h
  BY <1>3 DEF LowsAfter
<1>7. h[k].time \in Int /\ h[i].time \in Int
  BY <1>1, <1>6 DEF Observations
<1>8. Lastings(h, 0)[i] = h[k].time - h[i].time
  BY <1>2, <1>5
<1>9. Lastings(h, 0)[i] \in Int
  BY <1>7, <1>8
<1> QED
  BY <1>2, <1>9

(***************************************************************************)
(* The inductive invariant of one store: its counters say what the         *)
(* definition says of its history.  The flag and the start of the open     *)
(* episode are the monitor's only memory of the history: a store not in    *)
(* breach has a low after each of its highs, and a store in breach has     *)
(* exactly one episode that has not closed, begun at episodeStart.         *)
(***************************************************************************)
Matches(h, breached, start, episodes, total, longest) ==
  /\ h \in Seq(Observations)
  /\ episodes = Cardinality(Opens(h))
  /\ total = SumFunctionOnSet(Lastings(h, 0), Closed(h))
  /\ longest \in {0} \cup {Lastings(h, 0)[i] : i \in Closed(h)}
  /\ 0 <= longest
  /\ \A i \in Closed(h) : Lastings(h, 0)[i] <= longest
  /\ ~breached => Covered(h)
  /\ breached => \E i \in Opens(h) : /\ LowsAfter(h, i) = {}
                                     /\ h[i].time = start
                                     /\ \A j \in Opens(h) \ {i} : LowsAfter(h, j) # {}

(* The sets and numbers the invariant talks about.                         *)
LEMMA MatchesTypes ==
  ASSUME NEW h \in Seq(Observations)
  PROVE  /\ Opens(h) \in SUBSET DOMAIN h /\ IsFiniteSet(Opens(h))
         /\ Closed(h) \in SUBSET Opens(h) /\ IsFiniteSet(Closed(h))
         /\ \A i \in Closed(h) : Lastings(h, 0)[i] \in Int
         /\ \A i \in Opens(h) : h[i].class = "high" /\ h[i].time \in Nat
<1>1. DOMAIN h = 1..Len(h) /\ Len(h) \in Nat /\ \A j \in DOMAIN h : h[j] \in Observations
  OBVIOUS
<1>2. Opens(h) \in SUBSET DOMAIN h /\ Closed(h) \in SUBSET Opens(h)
  BY DEF Opens, Closed
<1>3. IsFiniteSet(1..Len(h))
  BY <1>1, FS_Interval
<1>4. IsFiniteSet(Opens(h))
  BY <1>1, <1>2, <1>3, FS_Subset
<1>5. IsFiniteSet(Closed(h))
  BY <1>2, <1>4, FS_Subset
<1>6. ASSUME NEW i \in Closed(h) PROVE Lastings(h, 0)[i] \in Int
  <2>1. i \in DOMAIN h /\ LowsAfter(h, i) # {}
    BY <1>2 DEF Closed
  <2> QED
    BY <2>1, ClosedLastings
<1>7. \A i \in Opens(h) : h[i].class = "high" /\ h[i].time \in Nat
  BY <1>1 DEF Opens, Observations
<1> QED
  BY <1>2, <1>4, <1>5, <1>6, <1>7

(* An observation after which the same episodes are closed leaves the      *)
(* lengths of the closed ones, their sum and their maximum alone.          *)
LEMMA SameClosed ==
  ASSUME NEW h, NEW e, NEW g, NEW n, Grown(h, e, g, n), Closed(g) = Closed(h)
  PROVE  /\ \A i \in Closed(h) : Lastings(g, 0)[i] = Lastings(h, 0)[i]
         /\ {Lastings(g, 0)[i] : i \in Closed(g)} = {Lastings(h, 0)[i] : i \in Closed(h)}
         /\ SumFunctionOnSet(Lastings(g, 0), Closed(g)) = SumFunctionOnSet(Lastings(h, 0), Closed(h))
<1>1. h \in Seq(Observations)
  BY DEF Grown
<1>2. IsFiniteSet(Closed(h)) /\ \A i \in Closed(h) : Lastings(h, 0)[i] \in Int
  BY <1>1, MatchesTypes
<1>3. ASSUME NEW i \in Closed(h) PROVE Lastings(g, 0)[i] = Lastings(h, 0)[i]
  <2>1. i \in 1..(n - 1) /\ LowsAfter(h, i) # {}
    BY GrownOpens DEF Closed
  <2> QED
    BY <2>1, GrownLastings
<1>4. SumFunctionOnSet(Lastings(g, 0), Closed(h)) = SumFunctionOnSet(Lastings(h, 0), Closed(h))
  BY <1>2, <1>3, SumOfSame
<1>5. {Lastings(g, 0)[i] : i \in Closed(h)} = {Lastings(h, 0)[i] : i \in Closed(h)}
  BY <1>3
<1> QED
  BY <1>3, <1>4, <1>5

(* A look that changes no counter: one in the hysteresis band, a high of a *)
(* store in breach, a low of a store that is not (monitor.go:164-185).     *)
LEMMA MatchesQuiet ==
  ASSUME NEW h, NEW e, NEW g, NEW n, Grown(h, e, g, n),
         NEW breached \in BOOLEAN, NEW start, NEW episodes, NEW total, NEW longest,
         Matches(h, breached, start, episodes, total, longest),
         \/ e.class = "mid"
         \/ e.class = "high" /\ breached
         \/ e.class = "low" /\ ~breached
  PROVE  Matches(g, breached, start, episodes, total, longest)
<1>1. /\ n \in Nat \ {0} /\ DOMAIN h = 1..(n - 1) /\ DOMAIN g = 1..n
      /\ g[n] = e /\ \A i \in 1..(n - 1) : g[i] = h[i]
      /\ g \in Seq(Observations)
  BY GrownEntries
<1>2. Opens(h) \in SUBSET (1..(n - 1)) /\ n \notin 1..(n - 1) /\ \A i \in 1..n : i \in 1..(n - 1) \/ i = n
  BY <1>1, GrownOpens
<1>3. h \in Seq(Observations) /\ \A i \in Opens(h) : h[i].class = "high"
  BY MatchesTypes DEF Grown
<1>4. ~(e.class = "high" /\ Covered(h))
  <2>1. ASSUME breached PROVE ~Covered(h)
    <3>1. PICK i \in Opens(h) : LowsAfter(h, i) = {}
      BY <2>1 DEF Matches
    <3>2. i \in DOMAIN h /\ h[i].class = "high"
      BY <1>1, <1>2, <1>3
    <3> QED
      BY <3>1, <3>2 DEF Covered
  <2>2. ASSUME e.class = "mid" PROVE e.class # "high"
    BY <2>2
  <2>3. ASSUME e.class = "low" PROVE e.class # "high"
    BY <2>3
  <2> QED
    BY <2>1, <2>2, <2>3
<1>5. Opens(g) = Opens(h)
  BY <1>4, GrownOpens
<1>6. \A i \in 1..(n - 1) : LowsAfter(h, i) # {} => LowsAfter(g, i) # {}
  <2>1. CASE e.class # "low"
    BY <2>1, GrownLows
  <2>2. CASE e.class = "low"
    BY <2>2, GrownLows
  <2> QED
    BY <2>1, <2>2
<1>7. \A i \in Opens(h) : LowsAfter(g, i) # {} <=> LowsAfter(h, i) # {}
  <2>1. CASE e.class # "low"
    BY <1>2, <2>1, GrownLows
  <2>2. CASE e.class = "low"
    <3>1. Covered(h)
      BY <2>2 DEF Matches
    <3>2. \A i \in Opens(h) : LowsAfter(h, i) # {}
      BY <1>1, <1>2, <1>3, <3>1 DEF Covered
    <3> QED
      BY <1>2, <1>6, <3>2
  <2> QED
    BY <2>1, <2>2
<1>8. Closed(g) = Closed(h)
  BY <1>5, <1>7 DEF Closed
<1>9. ~breached => Covered(g)
  <2> SUFFICES ASSUME ~breached PROVE Covered(g)
    OBVIOUS
  <2>1. Covered(h) /\ e.class # "high"
    <3>1. Covered(h)
      BY DEF Matches
    <3> QED
      BY <1>4, <3>1
  <2>2. ASSUME NEW j \in 1..(n - 1), g[j].class = "high" PROVE LowsAfter(g, j) # {}
    BY <1>1, <1>6, <2>1, <2>2 DEF Covered
  <2> QED
    BY <1>1, <1>2, <2>1, <2>2 DEF Covered
<1>10. breached => \E i \in Opens(g) : /\ LowsAfter(g, i) = {}
                                       /\ g[i].time = start
                                       /\ \A j \in Opens(g) \ {i} : LowsAfter(g, j) # {}
  <2> SUFFICES ASSUME breached
               PROVE  \E i \in Opens(g) : /\ LowsAfter(g, i) = {}
                                          /\ g[i].time = start
                                          /\ \A j \in Opens(g) \ {i} : LowsAfter(g, j) # {}
    OBVIOUS
  <2>1. PICK i \in Opens(h) : /\ LowsAfter(h, i) = {}
                              /\ h[i].time = start
                              /\ \A j \in Opens(h) \ {i} : LowsAfter(h, j) # {}
    BY DEF Matches
  <2>2. g[i] = h[i]
    BY <1>1, <1>2
  <2> QED
    BY <1>5, <1>7, <2>1, <2>2
<1>11. /\ total = SumFunctionOnSet(Lastings(g, 0), Closed(g))
       /\ longest \in {0} \cup {Lastings(g, 0)[i] : i \in Closed(g)}
       /\ \A i \in Closed(g) : Lastings(g, 0)[i] <= longest
  BY <1>8, SameClosed DEF Matches
<1>12. episodes = Cardinality(Opens(g)) /\ 0 <= longest
  BY <1>5 DEF Matches
<1> QED
  BY <1>1, <1>9, <1>10, <1>11, <1>12 DEF Matches

(* A high of a store that is not in breach opens an episode at its time    *)
(* (monitor.go:166-171).                                                   *)
LEMMA MatchesOpening ==
  ASSUME NEW h, NEW e, NEW g, NEW n, Grown(h, e, g, n),
         NEW start, NEW episodes, NEW total, NEW longest,
         Matches(h, FALSE, start, episodes, total, longest),
         e.class = "high"
  PROVE  Matches(g, TRUE, e.time, episodes + 1, total, longest)
<1>1. /\ n \in Nat \ {0} /\ DOMAIN h = 1..(n - 1) /\ DOMAIN g = 1..n
      /\ g[n] = e /\ \A i \in 1..(n - 1) : g[i] = h[i]
      /\ g \in Seq(Observations)
  BY GrownEntries
<1>2. Covered(h)
  BY DEF Matches
<1>3. Opens(h) \in SUBSET (1..(n - 1)) /\ Opens(g) = Opens(h) \cup {n} /\ n \notin 1..(n - 1)
  BY <1>1, <1>2, GrownOpens
<1>4. IsFiniteSet(Opens(h)) /\ \A i \in Opens(h) : h[i].class = "high"
  BY MatchesTypes DEF Grown
<1>5. \A i \in Opens(h) : LowsAfter(h, i) # {} /\ LowsAfter(g, i) # {}
  <2>1. \A i \in Opens(h) : LowsAfter(h, i) # {}
    BY <1>1, <1>2, <1>3, <1>4 DEF Covered
  <2>2. \A i \in Opens(h) : LowsAfter(g, i) = LowsAfter(h, i)
    BY <1>3, GrownLows
  <2> QED
    BY <2>1, <2>2
<1>6. LowsAfter(g, n) = {}
  BY GrownLows
<1>7. Closed(g) = Opens(h) /\ Closed(h) = Opens(h)
  BY <1>3, <1>5, <1>6 DEF Closed
<1>8. episodes + 1 = Cardinality(Opens(g))
  <2>1. n \notin Opens(h) /\ episodes = Cardinality(Opens(h))
    BY <1>3 DEF Matches
  <2> QED
    BY <1>3, <1>4, <2>1, FS_AddElement
<1>9. /\ total = SumFunctionOnSet(Lastings(g, 0), Closed(g))
      /\ longest \in {0} \cup {Lastings(g, 0)[i] : i \in Closed(g)}
      /\ \A i \in Closed(g) : Lastings(g, 0)[i] <= longest
  BY <1>7, SameClosed DEF Matches
<1>10. /\ n \in Opens(g) /\ LowsAfter(g, n) = {} /\ g[n].time = e.time
       /\ \A j \in Opens(g) \ {n} : LowsAfter(g, j) # {}
  BY <1>1, <1>3, <1>5, <1>6
<1>11. 0 <= longest
  BY DEF Matches
<1> QED
  BY <1>1, <1>8, <1>9, <1>10, <1>11 DEF Matches

(* A low of a store in breach closes its episode: its length joins the     *)
(* total and the maximum (monitor.go:172-180).                             *)
LEMMA MatchesClosing ==
  ASSUME NEW h, NEW e, NEW g, NEW n, Grown(h, e, g, n),
         NEW start \in Nat, NEW episodes, NEW total \in Nat, NEW longest \in Nat,
         Matches(h, TRUE, start, episodes, total, longest),
         e.class = "low"
  PROVE  Matches(g, FALSE, start, episodes, total + (e.time - start), LargerOf(longest, e.time - start))
<1>1. /\ n \in Nat \ {0} /\ DOMAIN h = 1..(n - 1) /\ DOMAIN g = 1..n
      /\ g[n] = e /\ \A i \in 1..(n - 1) : g[i] = h[i]
      /\ g \in Seq(Observations)
  BY GrownEntries
<1>2. e.class # "high" /\ e.time \in Nat /\ h \in Seq(Observations)
  BY DEF Grown, Observations
<1>3. Opens(h) \in SUBSET (1..(n - 1)) /\ Opens(g) = Opens(h)
  BY <1>2, GrownOpens
<1>4. PICK i \in Opens(h) : /\ LowsAfter(h, i) = {}
                            /\ h[i].time = start
                            /\ \A j \in Opens(h) \ {i} : LowsAfter(h, j) # {}
  BY DEF Matches
<1>5. \A j \in 1..(n - 1) : LowsAfter(g, j) # {}
  BY GrownLows
<1>6. Closed(g) = Opens(h) /\ Closed(h) = Opens(h) \ {i}
  BY <1>3, <1>4, <1>5 DEF Closed
<1>7. /\ IsFiniteSet(Opens(h)) /\ IsFiniteSet(Closed(h))
      /\ \A j \in Closed(h) : Lastings(h, 0)[j] \in Int
  BY <1>2, MatchesTypes
<1>8. Lastings(g, 0)[i] = e.time - start
  BY <1>3, <1>4, GrownLastings
<1>9. \A j \in Closed(h) : Lastings(g, 0)[j] = Lastings(h, 0)[j]
  <2>1. \A j \in Closed(h) : j \in 1..(n - 1) /\ LowsAfter(h, j) # {}
    BY <1>3, <1>4, <1>6
  <2> QED
    BY <2>1, GrownLastings
<1>10. e.time - start \in Int
  BY <1>2
<1>11. \A j \in Opens(h) : Lastings(g, 0)[j] \in Int
  BY <1>6, <1>7, <1>8, <1>9, <1>10
<1>12. total + (e.time - start) = SumFunctionOnSet(Lastings(g, 0), Closed(g))
  <2>1. SumFunctionOnSet(Lastings(g, 0), Opens(h))
          = Lastings(g, 0)[i] + SumFunctionOnSet(Lastings(g, 0), Opens(h) \ {i})
    BY <1>4, <1>7, <1>11, SumSplit
  <2>2. SumFunctionOnSet(Lastings(g, 0), Closed(h)) = SumFunctionOnSet(Lastings(h, 0), Closed(h))
    BY <1>7, <1>9, SumOfSame
  <2>3. total = SumFunctionOnSet(Lastings(h, 0), Closed(h))
    BY DEF Matches
  <2>4. SumFunctionOnSet(Lastings(g, 0), Closed(g)) = (e.time - start) + total
    BY <1>6, <1>8, <2>1, <2>2, <2>3
  <2> QED
    BY <1>10, <2>4
<1>13. PICK m \in Int : m = e.time - start
  BY <1>10
<1>14. PICK p : p = LargerOf(longest, e.time - start)
  OBVIOUS
<1>15. /\ p \in Int /\ longest <= p /\ m <= p /\ 0 <= p
       /\ p = longest \/ p = m
  BY <1>13, <1>14 DEF LargerOf
<1>16. p \in {0} \cup {Lastings(g, 0)[j] : j \in Closed(g)}
  <2>1. longest \in {0} \cup {Lastings(h, 0)[j] : j \in Closed(h)}
    BY DEF Matches
  <2>2. longest \in {0} \cup {Lastings(g, 0)[j] : j \in Closed(g)}
    BY <1>6, <1>9, <2>1
  <2>3. m \in {Lastings(g, 0)[j] : j \in Closed(g)}
    BY <1>4, <1>6, <1>8, <1>13
  <2> QED
    BY <1>15, <2>2, <2>3
<1>17. ASSUME NEW j \in Closed(g) PROVE Lastings(g, 0)[j] <= p
  <2>1. CASE j = i
    <3>1. Lastings(g, 0)[j] = m
      BY <1>8, <1>13, <2>1
    <3> QED
      BY <1>15, <3>1
  <2>2. CASE j # i
    <3>1. j \in Closed(h)
      BY <1>6, <2>2
    <3>2. Lastings(h, 0)[j] \in Int /\ Lastings(h, 0)[j] <= longest
      BY <1>7, <3>1 DEF Matches
    <3>3. Lastings(g, 0)[j] = Lastings(h, 0)[j]
      BY <1>9, <3>1
    <3>4. PICK l \in Int : l = Lastings(h, 0)[j]
      BY <3>2
    <3>5. l <= p
      BY <1>15, <3>2, <3>4
    <3> QED
      BY <3>3, <3>4, <3>5
  <2> QED
    BY <2>1, <2>2
<1>18. Covered(g)
  <2>1. \A j \in DOMAIN g : g[j].class = "high" => j # n
    BY <1>1, <1>2
  <2>2. \A j \in DOMAIN g : j \in 1..(n - 1) \/ j = n
    BY <1>1
  <2> QED
    BY <1>5, <2>1, <2>2 DEF Covered
<1>19. episodes = Cardinality(Opens(g))
  BY <1>3 DEF Matches
<1> QED
  BY <1>1, <1>12, <1>14, <1>15, <1>16, <1>17, <1>18, <1>19 DEF Matches

(***************************************************************************)
(* The invariant of all the stores, and its proof.                         *)
(***************************************************************************)
StoreMatches(s) ==
  Matches(observed[s], inBreachedState[s], episodeStart[s],
          totalEpisodes[s], totalDuration[s], maxDuration[s])

HistoriesMatch == \A s \in Stores : StoreMatches(s)

(* Nothing has been observed at the start.                                 *)
LEMMA HistoriesInit == Init => HistoriesMatch
<1> SUFFICES ASSUME Init, NEW s \in Stores PROVE StoreMatches(s)
  BY DEF HistoriesMatch
<1>1. /\ observed[s] = <<>> /\ inBreachedState[s] = FALSE /\ episodeStart[s] = 0
      /\ totalEpisodes[s] = 0 /\ totalDuration[s] = 0 /\ maxDuration[s] = 0
  BY DEF Init
<1>2. <<>> \in Seq(Observations) /\ Opens(<<>>) = {} /\ Closed(<<>>) = {} /\ Covered(<<>>)
  BY DEF Opens, Closed, Covered
<1>3. Cardinality({}) = 0
  BY FS_EmptySet
<1>4. SumFunctionOnSet(Lastings(<<>>, 0), {}) = 0
  BY SumOfNone
<1>5. Matches(<<>>, FALSE, 0, 0, 0, 0)
  <2>1. 0 = Cardinality(Opens(<<>>))
    BY <1>2, <1>3
  <2>2. 0 = SumFunctionOnSet(Lastings(<<>>, 0), Closed(<<>>))
    BY <1>2, <1>4
  <2>3. 0 \in {0} \cup {Lastings(<<>>, 0)[i] : i \in Closed(<<>>)} /\ 0 <= 0
    OBVIOUS
  <2>4. \A i \in Closed(<<>>) : Lastings(<<>>, 0)[i] <= 0
    BY <1>2
  <2> QED
    BY <1>2, <2>1, <2>2, <2>3, <2>4 DEF Matches
<1> QED
  BY <1>1, <1>5 DEF StoreMatches

(* A look adds its observation to the store's history, and nothing to the  *)
(* others'.                                                                *)
LEMMA LookGrows ==
  ASSUME NEW s \in Stores, NEW class \in Classes, EpisodesInv, Look(s, class)
  PROVE  /\ Grown(observed[s], [time |-> simTime, class |-> class], observed'[s], Len(observed[s]) + 1)
         /\ \A t \in Stores \ {s} : observed'[t] = observed[t]
<1>1. observed \in [Stores -> Seq(Observations)] /\ simTime \in Nat
  BY DEF EpisodesInv, TypeOK, Observations
<1>2. observed' = [observed EXCEPT ![s] = Append(@, [time |-> simTime, class |-> class])]
  BY DEF Look
<1>3. observed'[s] = Append(observed[s], [time |-> simTime, class |-> class])
  BY <1>1, <1>2
<1>4. [time |-> simTime, class |-> class] \in Observations
  BY <1>1 DEF Observations
<1>5. observed[s] \in Seq(Observations)
  BY <1>1
<1> QED
  BY <1>1, <1>2, <1>3, <1>4, <1>5 DEF Grown

(* The store that is looked at still matches its history.                  *)
LEMMA LookMatches ==
  ASSUME NEW s \in Stores, NEW class \in Classes, EpisodesInv, Look(s, class), StoreMatches(s)
  PROVE  StoreMatches(s)'
<1> DEFINE e == [time |-> simTime, class |-> class]
<1>1. Grown(observed[s], e, observed'[s], Len(observed[s]) + 1)
  BY LookGrows
<1>2. e.time = simTime /\ e.class = class /\ simTime \in Nat
  BY DEF EpisodesInv, TypeOK
<1>3. /\ inBreachedState \in [Stores -> BOOLEAN] /\ episodeStart \in [Stores -> Nat]
      /\ totalEpisodes \in [Stores -> Nat] /\ totalDuration \in [Stores -> Nat]
      /\ maxDuration \in [Stores -> Nat]
  BY DEF EpisodesInv, TypeOK
<1>4. Matches(observed[s], inBreachedState[s], episodeStart[s],
              totalEpisodes[s], totalDuration[s], maxDuration[s])
  BY DEF StoreMatches
<1> HIDE DEF e
<1>5. ASSUME UNCHANGED <<inBreachedState, episodeStart, totalEpisodes, totalDuration, maxDuration>>,
             class = "mid" \/ (class = "high" /\ inBreachedState[s]) \/ (class = "low" /\ ~inBreachedState[s])
      PROVE  StoreMatches(s)'
  <2>1. inBreachedState[s] \in BOOLEAN
    BY <1>3
  <2>2. Matches(observed'[s], inBreachedState[s], episodeStart[s],
                totalEpisodes[s], totalDuration[s], maxDuration[s])
    BY <1>1, <1>2, <1>4, <1>5, <2>1, MatchesQuiet
  <2> QED
    BY <1>5, <2>2 DEF StoreMatches
<1>6. CASE class = "high" /\ Open(s) /\ UNCHANGED <<totalDuration, maxDuration>>
  <2>1. CASE inBreachedState[s]
    BY <1>5, <1>6, <2>1 DEF Open
  <2>2. CASE ~inBreachedState[s]
    <3>1. inBreachedState[s] = FALSE
      BY <1>3, <2>2
    <3>2. Matches(observed[s], FALSE, episodeStart[s], totalEpisodes[s], totalDuration[s], maxDuration[s])
      BY <1>4, <3>1
    <3>3. Matches(observed'[s], TRUE, e.time, totalEpisodes[s] + 1, totalDuration[s], maxDuration[s])
      BY <1>1, <1>2, <1>6, <3>2, MatchesOpening
    <3>4. /\ inBreachedState' = [inBreachedState EXCEPT ![s] = TRUE]
          /\ episodeStart' = [episodeStart EXCEPT ![s] = simTime]
          /\ totalEpisodes' = [totalEpisodes EXCEPT ![s] = totalEpisodes[s] + 1]
      BY <1>6, <2>2 DEF Open
    <3>5. inBreachedState'[s] = TRUE /\ episodeStart'[s] = e.time /\ totalEpisodes'[s] = totalEpisodes[s] + 1
      BY <1>2, <1>3, <3>4
    <3>6. totalDuration'[s] = totalDuration[s] /\ maxDuration'[s] = maxDuration[s]
      BY <1>6
    <3> QED
      BY <3>3, <3>5, <3>6 DEF StoreMatches
  <2> QED
    BY <2>1, <2>2
<1>7. CASE class = "low" /\ Close(s) /\ UNCHANGED <<episodeStart, totalEpisodes>>
  <2>1. /\ inBreachedState[s]
        /\ totalDuration' = [totalDuration EXCEPT ![s] = totalDuration[s] + (simTime - episodeStart[s])]
        /\ maxDuration' = [maxDuration EXCEPT ![s] = LargerOf(maxDuration[s], simTime - episodeStart[s])]
        /\ inBreachedState' = [inBreachedState EXCEPT ![s] = FALSE]
    BY <1>7 DEF Close
  <2>2. inBreachedState[s] = TRUE
    BY <1>3, <2>1
  <2>3. Matches(observed[s], TRUE, episodeStart[s], totalEpisodes[s], totalDuration[s], maxDuration[s])
    BY <1>4, <2>2
  <2>4. episodeStart[s] \in Nat /\ totalDuration[s] \in Nat /\ maxDuration[s] \in Nat
    BY <1>3
  <2>5. Matches(observed'[s], FALSE, episodeStart[s], totalEpisodes[s],
                totalDuration[s] + (e.time - episodeStart[s]),
                LargerOf(maxDuration[s], e.time - episodeStart[s]))
    BY <1>1, <1>2, <1>7, <2>3, <2>4, MatchesClosing
  <2>6. /\ inBreachedState'[s] = FALSE
        /\ totalDuration'[s] = totalDuration[s] + (e.time - episodeStart[s])
        /\ maxDuration'[s] = LargerOf(maxDuration[s], e.time - episodeStart[s])
        /\ episodeStart'[s] = episodeStart[s] /\ totalEpisodes'[s] = totalEpisodes[s]
    BY <1>2, <1>3, <1>7, <2>1
  <2> QED
    BY <2>5, <2>6 DEF StoreMatches
<1>8. CASE (class = "mid" \/ (class = "low" /\ ~inBreachedState[s])) /\ UNCHANGED episodeVars
  BY <1>5, <1>8 DEF episodeVars
<1> QED
  BY <1>6, <1>7, <1>8 DEF Look

(* The other stores' counters and histories stay as they were.             *)
LEMMA LookOthers ==
  ASSUME NEW s \in Stores, NEW class \in Classes, EpisodesInv, Look(s, class),
         NEW t \in Stores \ {s}, StoreMatches(t)
  PROVE  StoreMatches(t)'
<1>1. observed'[t] = observed[t]
  BY LookGrows
<1>2. /\ inBreachedState \in [Stores -> BOOLEAN] /\ episodeStart \in [Stores -> Nat]
      /\ totalEpisodes \in [Stores -> Nat] /\ totalDuration \in [Stores -> Nat]
      /\ maxDuration \in [Stores -> Nat]
  BY DEF EpisodesInv, TypeOK
<1>3. /\ inBreachedState'[t] = inBreachedState[t] /\ episodeStart'[t] = episodeStart[t]
      /\ totalEpisodes'[t] = totalEpisodes[t]
      /\ totalDuration'[t] = totalDuration[t] /\ maxDuration'[t] = maxDuration[t]
  <2>1. CASE Open(s) /\ UNCHANGED <<totalDuration, maxDuration>>
    BY <1>2, <2>1 DEF Open
  <2>2. CASE Close(s) /\ UNCHANGED <<rawTickBreaches, episodeStart, totalEpisodes>>
    BY <1>2, <2>2 DEF Close
  <2>3. CASE UNCHANGED episodeVars
    BY <2>3 DEF episodeVars
  <2> QED
    BY <2>1, <2>2, <2>3 DEF Look
<1> QED
  BY <1>1, <1>3 DEF StoreMatches

(* Every reachable state's counters match what was observed.               *)
LEMMA HistoriesInvariant == Spec => [](EpisodesInv /\ HistoriesMatch)
<1>1. EpisodesInv /\ HistoriesMatch /\ [Next]_vars => HistoriesMatch'
  <2> SUFFICES ASSUME EpisodesInv, HistoriesMatch, [Next]_vars, NEW t \in Stores
               PROVE  StoreMatches(t)'
    BY DEF HistoriesMatch
  <2>1. StoreMatches(t)
    BY DEF HistoriesMatch
  <2>2. CASE Tick
    <3>1. UNCHANGED <<observed, inBreachedState, episodeStart, totalEpisodes, totalDuration, maxDuration>>
      BY <2>2 DEF Tick, episodeVars
    <3> QED
      BY <2>1, <3>1 DEF StoreMatches
  <2>3. ASSUME NEW s \in Stores, NEW class \in Classes, Look(s, class) PROVE StoreMatches(t)'
    <3>1. CASE t = s
      BY <2>1, <2>3, <3>1, LookMatches
    <3>2. CASE t # s
      BY <2>1, <2>3, <3>2, LookOthers
    <3> QED
      BY <3>1, <3>2
  <2>4. CASE UNCHANGED vars
    <3>1. UNCHANGED <<observed, inBreachedState, episodeStart, totalEpisodes, totalDuration, maxDuration>>
      BY <2>4 DEF vars, episodeVars
    <3> QED
      BY <2>1, <3>1 DEF StoreMatches
  <2> QED
    BY <2>2, <2>3, <2>4 DEF Next
<1> QED
  BY HistoriesInit, EpisodesInvariant, <1>1, PTL DEF Spec

(* The greatest of a set of numbers is what Max picks.                     *)
LEMMA MaxIs ==
  ASSUME NEW K \in SUBSET Int, NEW m \in K, \A k \in K : k <= m
  PROVE  Max(K) = m
<1>1. \A k \in K : k \in Int /\ m >= k
  OBVIOUS
<1>2. ASSUME NEW n \in K, \A k \in K : n >= k PROVE n = m
  BY <1>1, <1>2
<1>3. Max(K) \in K /\ \A k \in K : Max(K) >= k
  BY <1>1 DEF Max
<1> QED
  BY <1>2, <1>3

(***************************************************************************)
(* The four counters of every store are those of the definition: as many   *)
(* episodes as the history opens, in breach exactly when one of them has   *)
(* not closed, and the total and the greatest length of those that have.   *)
(***************************************************************************)
THEOREM EpisodesAlwaysMatch == Spec => []EpisodesMatchObservations
<1>1. ASSUME EpisodesInv, HistoriesMatch PROVE EpisodesMatchObservations
  <2> SUFFICES ASSUME NEW s \in Stores
               PROVE  /\ totalEpisodes[s] = Cardinality(Opens(observed[s]))
                      /\ inBreachedState[s] <=> Opens(observed[s]) # Closed(observed[s])
                      /\ totalDuration[s] = SumFunctionOnSet(Lastings(observed[s], simTime), Closed(observed[s]))
                      /\ maxDuration[s] =
                           Max({0} \cup {Lastings(observed[s], simTime)[i] : i \in Closed(observed[s])})
    BY DEF EpisodesMatchObservations
  <2>1. Matches(observed[s], inBreachedState[s], episodeStart[s],
                totalEpisodes[s], totalDuration[s], maxDuration[s])
    BY <1>1 DEF HistoriesMatch, StoreMatches
  <2>2. PICK h : h = observed[s]
    OBVIOUS
  <2>3. h \in Seq(Observations) /\ maxDuration[s] \in Nat /\ inBreachedState[s] \in BOOLEAN
    BY <1>1, <2>1, <2>2 DEF Matches, EpisodesInv, TypeOK
  <2>4. /\ Opens(h) \in SUBSET DOMAIN h
        /\ Closed(h) \in SUBSET Opens(h) /\ IsFiniteSet(Closed(h))
        /\ \A i \in Closed(h) : Lastings(h, 0)[i] \in Int
        /\ \A i \in Opens(h) : h[i].class = "high"
    BY <2>3, MatchesTypes
  <2>5. \A i \in Closed(h) : Lastings(h, simTime)[i] = Lastings(h, 0)[i]
    <3>1. \A i \in Closed(h) : i \in DOMAIN h /\ LowsAfter(h, i) # {}
      BY <2>4 DEF Closed
    <3> QED
      BY <2>3, <3>1, ClosedLastings
  <2>6. ASSUME inBreachedState[s] PROVE Opens(h) # Closed(h)
    BY <2>1, <2>2, <2>6 DEF Matches, Closed
  <2>7. ASSUME ~inBreachedState[s] PROVE Opens(h) = Closed(h)
    <3>1. Covered(h)
      BY <2>1, <2>2, <2>7 DEF Matches
    <3>2. \A i \in Opens(h) : LowsAfter(h, i) # {}
      BY <2>4, <3>1 DEF Covered
    <3> QED
      BY <3>2 DEF Closed
  <2>8. totalDuration[s] = SumFunctionOnSet(Lastings(h, simTime), Closed(h))
    <3>1. SumFunctionOnSet(Lastings(h, simTime), Closed(h)) = SumFunctionOnSet(Lastings(h, 0), Closed(h))
      BY <2>4, <2>5, SumOfSame
    <3> QED
      BY <2>1, <2>2, <3>1 DEF Matches
  <2>9. maxDuration[s] = Max({0} \cup {Lastings(h, simTime)[i] : i \in Closed(h)})
    <3> DEFINE K == {0} \cup {Lastings(h, simTime)[i] : i \in Closed(h)}
    <3>1. K \in SUBSET Int
      BY <2>4, <2>5
    <3>2. maxDuration[s] \in K
      BY <2>1, <2>2, <2>5 DEF Matches
    <3>3. \A k \in K : k <= maxDuration[s]
      BY <2>1, <2>2, <2>5 DEF Matches
    <3> HIDE DEF K
    <3>4. maxDuration[s] = Max(K)
      BY <3>1, <3>2, <3>3, MaxIs
    <3> USE DEF K
    <3> QED
      BY <3>4
  <2>10. totalEpisodes[s] = Cardinality(Opens(h))
    BY <2>1, <2>2 DEF Matches
  <2>11. inBreachedState[s] <=> Opens(h) # Closed(h)
    BY <2>6, <2>7
  <2> QED
    BY <2>2, <2>8, <2>9, <2>10, <2>11
<1> QED
  BY <1>1, HistoriesInvariant, PTL

(***************************************************************************)
(* What GetBreachSummary adds for one store (monitor.go:109-120): its      *)
(* duration is that of all its episodes, the open one as long as it has    *)
(* lasted, and its maximum is one of them and bounds them.                 *)
(***************************************************************************)
LEMMA StoreSummary ==
  ASSUME EpisodesInv, HistoriesMatch, NEW s \in Stores
  PROVE  /\ DurationOf(s, simTime) = SumFunctionOnSet(Lastings(observed[s], simTime), Opens(observed[s]))
         /\ MaxDurationOf(s, simTime) \in
              {0} \cup {Lastings(observed[s], simTime)[i] : i \in Opens(observed[s])}
         /\ 0 <= MaxDurationOf(s, simTime)
         /\ \A i \in Opens(observed[s]) :
              /\ Lastings(observed[s], simTime)[i] \in Int
              /\ Lastings(observed[s], simTime)[i] <= MaxDurationOf(s, simTime)
<1>1. Matches(observed[s], inBreachedState[s], episodeStart[s],
              totalEpisodes[s], totalDuration[s], maxDuration[s])
  BY DEF HistoriesMatch, StoreMatches
<1>2. PICK h : h = observed[s]
  OBVIOUS
<1>3. /\ h \in Seq(Observations) /\ maxDuration[s] \in Nat /\ totalDuration[s] \in Nat
      /\ episodeStart[s] \in Nat /\ simTime \in Nat /\ inBreachedState[s] \in BOOLEAN
  BY <1>1, <1>2 DEF Matches, EpisodesInv, TypeOK
<1>4. /\ Opens(h) \in SUBSET DOMAIN h /\ IsFiniteSet(Opens(h))
      /\ Closed(h) \in SUBSET Opens(h) /\ IsFiniteSet(Closed(h))
      /\ \A i \in Closed(h) : Lastings(h, 0)[i] \in Int
      /\ \A i \in Opens(h) : h[i].class = "high"
  BY <1>3, MatchesTypes
<1>5. \A i \in Closed(h) : Lastings(h, simTime)[i] = Lastings(h, 0)[i]
  <2>1. \A i \in Closed(h) : i \in DOMAIN h /\ LowsAfter(h, i) # {}
    BY <1>4 DEF Closed
  <2> QED
    BY <1>3, <2>1, ClosedLastings
<1>6. totalDuration[s] = SumFunctionOnSet(Lastings(h, simTime), Closed(h))
  <2>1. SumFunctionOnSet(Lastings(h, simTime), Closed(h)) = SumFunctionOnSet(Lastings(h, 0), Closed(h))
    BY <1>4, <1>5, SumOfSame
  <2> QED
    BY <1>1, <1>2, <2>1 DEF Matches
<1>7. /\ maxDuration[s] \in {0} \cup {Lastings(h, simTime)[i] : i \in Closed(h)}
      /\ \A i \in Closed(h) : Lastings(h, simTime)[i] \in Int /\ Lastings(h, simTime)[i] <= maxDuration[s]
  BY <1>1, <1>2, <1>4, <1>5 DEF Matches
<1>8. CASE ~inBreachedState[s]
  <2>1. Covered(h)
    BY <1>1, <1>2, <1>8 DEF Matches
  <2>2. \A i \in Opens(h) : LowsAfter(h, i) # {}
    BY <1>4, <2>1 DEF Covered
  <2>3. Opens(h) = Closed(h)
    BY <2>2 DEF Closed
  <2>4. DurationOf(s, simTime) = totalDuration[s] /\ MaxDurationOf(s, simTime) = maxDuration[s]
    BY <1>3, <1>8 DEF DurationOf, MaxDurationOf
  <2>5. 0 <= maxDuration[s]
    BY <1>3
  <2> QED
    BY <1>2, <1>6, <1>7, <2>3, <2>4, <2>5
<1>9. CASE inBreachedState[s]
  <2>1. PICK i \in Opens(h) : /\ LowsAfter(h, i) = {}
                              /\ h[i].time = episodeStart[s]
                              /\ \A j \in Opens(h) \ {i} : LowsAfter(h, j) # {}
    BY <1>1, <1>2, <1>9 DEF Matches
  <2>2. Closed(h) = Opens(h) \ {i}
    BY <2>1 DEF Closed
  <2>3. Lastings(h, simTime)[i] = simTime - episodeStart[s]
    BY <1>4, <2>1 DEF Lastings, LastingOf, EndOf
  <2>4. PICK m \in Int : m = simTime - episodeStart[s]
    BY <1>3
  <2>5. DurationOf(s, simTime) = totalDuration[s] + m /\ MaxDurationOf(s, simTime) = LargerOf(maxDuration[s], m)
    BY <1>9, <2>4 DEF DurationOf, MaxDurationOf
  <2>6. \A j \in Opens(h) : Lastings(h, simTime)[j] \in Int
    BY <1>7, <2>2, <2>3, <2>4
  <2>7. SumFunctionOnSet(Lastings(h, simTime), Opens(h))
          = Lastings(h, simTime)[i] + SumFunctionOnSet(Lastings(h, simTime), Opens(h) \ {i})
    BY <1>4, <2>1, <2>6, SumSplit
  <2>8. DurationOf(s, simTime) = SumFunctionOnSet(Lastings(h, simTime), Opens(h))
    <3>1. SumFunctionOnSet(Lastings(h, simTime), Opens(h)) = m + totalDuration[s]
      BY <1>6, <2>2, <2>3, <2>4, <2>7
    <3> QED
      BY <1>3, <2>4, <2>5, <3>1
  <2>9. PICK p : p = MaxDurationOf(s, simTime)
    OBVIOUS
  <2>10. /\ p \in Int /\ maxDuration[s] <= p /\ m <= p /\ 0 <= p
         /\ p = maxDuration[s] \/ p = m
    BY <1>3, <2>4, <2>5, <2>9 DEF LargerOf
  <2>11. p \in {0} \cup {Lastings(h, simTime)[j] : j \in Opens(h)}
    <3>1. maxDuration[s] \in {0} \cup {Lastings(h, simTime)[j] : j \in Opens(h)}
      BY <1>4, <1>7
    <3>2. m \in {Lastings(h, simTime)[j] : j \in Opens(h)}
      BY <2>3, <2>4
    <3> QED
      BY <2>10, <3>1, <3>2
  <2>12. ASSUME NEW j \in Opens(h) PROVE Lastings(h, simTime)[j] <= p
    <3>1. CASE j = i
      <4>1. Lastings(h, simTime)[j] = m
        BY <2>3, <2>4, <3>1
      <4> QED
        BY <2>10, <4>1
    <3>2. CASE j # i
      <4>1. PICK l \in Int : l = Lastings(h, simTime)[j]
        BY <2>6
      <4>2. l <= maxDuration[s]
        BY <1>7, <2>2, <3>2, <4>1
      <4>3. l <= p
        BY <1>3, <2>10, <4>2
      <4> QED
        BY <4>1, <4>3
    <3> QED
      BY <3>1, <3>2
  <2> QED
    BY <1>2, <2>6, <2>8, <2>9, <2>10, <2>11, <2>12
<1> QED
  BY <1>8, <1>9

(***************************************************************************)
(* The summary counts the time of every episode once, the open ones up to  *)
(* the moment it is read, and takes its maximum over all of them           *)
(* (monitor.go:109-125).                                                   *)
(***************************************************************************)
THEOREM SummariesAlwaysExact == Spec => []SummaryDurationsExact
<1>1. ASSUME EpisodesInv, HistoriesMatch PROVE SummaryDurationsExact
  <2> DEFINE lasting == [s \in Stores |-> Lastings(observed[s], simTime)]
             all     == UNION {{lasting[s][i] : i \in Opens(observed[s])} : s \in Stores}
  <2>1. IsFiniteSet(Stores) /\ \A s \in Stores : lasting[s] = Lastings(observed[s], simTime)
    BY NumbersOK, FS_Interval DEF Stores
  <2>2. SummaryDuration(simTime) =
          SumFunction([s \in Stores |-> SumFunctionOnSet(lasting[s], Opens(observed[s]))])
    <3>1. \A s \in Stores : DurationOf(s, simTime) = SumFunctionOnSet(lasting[s], Opens(observed[s]))
      BY <1>1, <2>1, StoreSummary
    <3>2. [s \in Stores |-> DurationOf(s, simTime)]
            = [s \in Stores |-> SumFunctionOnSet(lasting[s], Opens(observed[s]))]
      BY <3>1
    <3> QED
      BY <3>2 DEF SummaryDuration
  <2>3. SummaryMax(simTime) = Max({0} \cup all)
    <3> DEFINE f == [s \in Stores |-> MaxDurationOf(s, simTime)]
               K == {f[s] : s \in Stores}
    <3>1. \A s \in Stores : /\ f[s] \in {0} \cup {lasting[s][i] : i \in Opens(observed[s])}
                            /\ 0 <= f[s]
                            /\ \A i \in Opens(observed[s]) : lasting[s][i] \in Int /\ lasting[s][i] <= f[s]
      BY <1>1, <2>1, StoreSummary
    <3>2. IsFiniteSet({0} \cup K)
      <4>1. f \in Surjection(Stores, K)
        BY DEF Surjection
      <4>2. IsFiniteSet(K)
        BY <2>1, <4>1, FS_Surjection
      <4>3. IsFiniteSet({0})
        BY FS_Singleton
      <4> QED
        BY <4>2, <4>3, FS_Union
    <3>3. {0} \cup K \in SUBSET Int /\ {0} \cup all \in SUBSET Int
      <4>1. \A s \in Stores : f[s] \in Int
        BY <3>1
      <4> QED
        BY <3>1, <4>1
    <3>4. {0} \cup K \in SUBSET ({0} \cup all)
      BY <3>1
    <3>5. \A k \in {0} \cup all : k = 0 \/ \E s \in Stores : k <= f[s]
      BY <3>1
    <3>6. {MaxDurationOf(s, simTime) : s \in Stores} = K
      OBVIOUS
    <3>7. \A s \in Stores : f[s] \in K
      OBVIOUS
    <3> HIDE DEF f, K, all
    <3>8. PICK m \in {0} \cup K : \A k \in {0} \cup K : k <= m
      BY <3>2, <3>3, GreatestElement
    <3>9. \A k \in {0} \cup all : k <= m
      <4>1. ASSUME NEW k \in {0} \cup all PROVE k <= m
        <5>1. k \in Int /\ m \in Int /\ 0 <= m
          BY <3>3, <3>8
        <5>2. CASE k = 0
          BY <5>1, <5>2
        <5>3. ASSUME NEW s \in Stores, k <= f[s] PROVE k <= m
          <6>1. f[s] \in Int /\ f[s] <= m
            BY <3>3, <3>7, <3>8
          <6> QED
            BY <5>1, <5>3, <6>1
        <5> QED
          BY <3>5, <5>2, <5>3
      <4> QED
        BY <4>1
    <3>10. Max({0} \cup K) = m
      BY <3>3, <3>8, MaxIs
    <3>11. Max({0} \cup all) = m
      BY <3>3, <3>4, <3>8, <3>9, MaxIs
    <3> QED
      BY <3>6, <3>10, <3>11 DEF SummaryMax
  <2> QED
    BY <2>2, <2>3 DEF SummaryDurationsExact
<1> QED
  BY <1>1, HistoriesInvariant, PTL

=============================================================================
