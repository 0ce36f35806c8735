--------------------------- MODULE BreachEpisodes ---------------------------
(***************************************************************************)
(* The bookkeeping of breach episodes in LoadMonitor (monitor.go): an      *)
(* episode of a store opens when a tick finds its load over the threshold  *)
(* and closes when a later tick finds it under the recovery threshold; in  *)
(* between the hysteresis band changes nothing.  m.mu is taken once per    *)
(* store, so a summary may be read between two stores of one tick.         *)
(*                                                                         *)
(* The load is an input here (Fulfillment models how it is computed): each *)
(* look at a store finds "high", "mid" or "low".                           *)
(***************************************************************************)
EXTENDS Integers, Sequences, FiniteSets, FiniteSetsExt, Functions

CONSTANTS
  NumStores,   \* stores are 1..NumStores, in the order of m.stores
  TickSteps,   \* how far sim time may advance from one tick to the next
  MaxTicks     \* bound: the number of ticks of a run

ASSUME EpisodeStoresAssumption == NumStores \in Nat \ {0}
ASSUME EpisodeTicksAssumption == TickSteps \subseteq Nat \ {0} /\ MaxTicks \in Nat

Stores  == 1..NumStores
Classes == {"high", "mid", "low"}
NextTick == NumStores + 1

VARIABLES
  simTime, ticks,
  pos,                \* the store the loop looks at next, or NextTick
  inBreachedState, episodeStart,
  totalEpisodes, totalDuration, maxDuration, rawTickBreaches,
  observed            \* history: what the ticks found, per store

episodeVars == <<inBreachedState, episodeStart, totalEpisodes, totalDuration,
                 maxDuration, rawTickBreaches>>
vars == <<simTime, ticks, pos, observed, episodeVars>>

Init ==
  /\ simTime = 0
  /\ ticks = 0
  /\ pos = NextTick
  /\ inBreachedState = [s \in Stores |-> FALSE]
  /\ episodeStart = [s \in Stores |-> 0]
  /\ totalEpisodes = [s \in Stores |-> 0]
  /\ totalDuration = [s \in Stores |-> 0]
  /\ maxDuration = [s \in Stores |-> 0]
  /\ rawTickBreaches = [s \in Stores |-> 0]
  /\ observed = [s \in Stores |-> <<>>]

Tick ==
  /\ pos = NextTick
  /\ ticks < MaxTicks
  /\ ticks' = ticks + 1
  /\ \E d \in TickSteps : simTime' = simTime + d
  /\ pos' = 1
  /\ UNCHANGED <<observed, episodeVars>>

LargerOf(a, b) == IF a > b THEN a ELSE b

(* Mutant: every tick over the threshold opens an episode. *)
OpenAgain(s) ==
  /\ inBreachedState' = [inBreachedState EXCEPT ![s] = TRUE]
  /\ episodeStart' = [episodeStart EXCEPT ![s] = simTime]
  /\ totalEpisodes' = [totalEpisodes EXCEPT ![s] = @ + 1]

Open(s) ==
  IF inBreachedState[s]
    THEN UNCHANGED <<inBreachedState, episodeStart, totalEpisodes>>
    ELSE /\ inBreachedState' = [inBreachedState EXCEPT ![s] = TRUE]
         /\ episodeStart' = [episodeStart EXCEPT ![s] = simTime]
         /\ totalEpisodes' = [totalEpisodes EXCEPT ![s] = @ + 1]

(* Mutant: the state is not left when the episode closes. *)
CloseWithoutReset(s) ==
  /\ inBreachedState[s]
  /\ LET duration == simTime - episodeStart[s] IN
     /\ totalDuration' = [totalDuration EXCEPT ![s] = @ + duration]
     /\ maxDuration' = [maxDuration EXCEPT ![s] = LargerOf(@, duration)]
  /\ UNCHANGED inBreachedState

Close(s) ==
  /\ inBreachedState[s]
  /\ LET duration == simTime - episodeStart[s] IN
     /\ totalDuration' = [totalDuration EXCEPT ![s] = @ + duration]
     /\ maxDuration' = [maxDuration EXCEPT ![s] = LargerOf(@, duration)]
  /\ inBreachedState' = [inBreachedState EXCEPT ![s] = FALSE]

Look(s, class) ==
  /\ pos = s
  /\ pos' = s + 1
  /\ observed' = [observed EXCEPT ![s] = Append(@, [time |-> simTime, class |-> class])]
  /\ \/ /\ class = "high"
        /\ rawTickBreaches' = [rawTickBreaches EXCEPT ![s] = @ + 1]
        /\ Open(s)
        /\ UNCHANGED <<totalDuration, maxDuration>>
     \/ /\ class = "low"
        /\ Close(s)
        /\ UNCHANGED <<rawTickBreaches, episodeStart, totalEpisodes>>
     \/ /\ class = "mid" \/ (class = "low" /\ ~inBreachedState[s])
        /\ UNCHANGED episodeVars
  /\ UNCHANGED <<simTime, ticks>>

Next == Tick \/ \E s \in Stores, class \in Classes : Look(s, class)

Spec == Init /\ [][Next]_vars

(***************************************************************************)
(* GetBreachSummary(simDuration), called at the sim time `end`.            *)
(***************************************************************************)
(* Mutant: the open episode's duration is left out. *)
ClosedDurationOf(s, end) == totalDuration[s]

DurationOf(s, end) ==
  totalDuration[s] + (IF inBreachedState[s] THEN end - episodeStart[s] ELSE 0)

MaxDurationOf(s, end) ==
  IF inBreachedState[s] THEN LargerOf(maxDuration[s], end - episodeStart[s])
                        ELSE maxDuration[s]

SummaryDuration(end) == SumFunction([s \in Stores |-> DurationOf(s, end)])
SummaryMax(end)      == Max({0} \cup {MaxDurationOf(s, end) : s \in Stores})
-----------------------------------------------------------------------------
(***************************************************************************)
(* What an episode is, defined on what the ticks observed: it opens at a   *)
(* "high" that no open episode covers and lasts to the next "low".         *)
(***************************************************************************)
Opens(h) ==
  {i \in DOMAIN h :
     /\ h[i].class = "high"
     /\ \A j \in 1..(i - 1) :
          h[j].class = "high" => \E k \in (j + 1)..(i - 1) : h[k].class = "low"}

LowsAfter(h, i) == {j \in DOMAIN h : j > i /\ h[j].class = "low"}

EndOf(h, i, end) == IF LowsAfter(h, i) = {} THEN end ELSE h[Min(LowsAfter(h, i))].time

LastingOf(h, i, end) == EndOf(h, i, end) - h[i].time

Closed(h) == {i \in Opens(h) : LowsAfter(h, i) # {}}

Lastings(h, end) == [i \in DOMAIN h |-> LastingOf(h, i, end)]

(* The type of every variable.                                             *)
TypeOK ==
  /\ simTime \in Nat
  /\ ticks \in 0..MaxTicks
  /\ pos \in 1..NextTick
  /\ inBreachedState \in [Stores -> BOOLEAN]
  /\ episodeStart \in [Stores -> Nat]
  /\ totalEpisodes \in [Stores -> Nat]
  /\ totalDuration \in [Stores -> Nat]
  /\ maxDuration \in [Stores -> Nat]
  /\ rawTickBreaches \in [Stores -> Nat]
  /\ observed \in [Stores -> Seq([time : Nat, class : Classes])]

(***************************************************************************)
(* The incremental counters agree with the definition of an episode on     *)
(* everything the ticks observed (monitor.go:164-185): as many episodes,   *)
(* as much time in closed ones, and the longest of them.                   *)
(***************************************************************************)
EpisodesMatchObservations ==
  \A s \in Stores :
    LET h       == observed[s]
        lasting == Lastings(h, simTime)
    IN  /\ totalEpisodes[s] = Cardinality(Opens(h))
        /\ inBreachedState[s] <=> Opens(h) # Closed(h)
        /\ totalDuration[s] = SumFunctionOnSet(lasting, Closed(h))
        /\ maxDuration[s] = Max({0} \cup {lasting[i] : i \in Closed(h)})

(***************************************************************************)
(* The summary's durations cover every episode once, those still open up   *)
(* to the moment it is read, between any two stores of a tick, and its     *)
(* maximum is the longest of them all (monitor.go:109-125).  Nothing is    *)
(* stated of its number of episodes, which adds the open ones a second     *)
(* time (line 114 after line 169).                                         *)
(***************************************************************************)
SummaryDurationsExact ==
  LET lasting == [s \in Stores |-> Lastings(observed[s], simTime)]
      all == UNION {{lasting[s][i] : i \in Opens(observed[s])} : s \in Stores}
  IN  /\ SummaryDuration(simTime) =
           SumFunction([s \in Stores |-> SumFunctionOnSet(lasting[s], Opens(observed[s]))])
      /\ SummaryMax(simTime) = Max({0} \cup all)

(***************************************************************************)
(* Episodes of a store are disjoint: together with the open one they never *)
(* last longer than the run.                                               *)
(***************************************************************************)
EpisodesDisjoint ==
  \A s \in Stores :
    /\ DurationOf(s, simTime) <= simTime
    /\ maxDuration[s] <= totalDuration[s]

=============================================================================
