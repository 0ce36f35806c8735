---------------------------- MODULE Fulfillment ----------------------------
(***************************************************************************)
(* The fulfillment engine of internal/fulfillment as cmd/sim/main.go runs  *)
(* it: one dispatcher goroutine per store feeds that store's queue, picker *)
(* goroutines drain it, and one monitor goroutine looks at every store on  *)
(* each tick and calls the decision engine, which may merge group-cart     *)
(* orders or re-route one order to a nearby store.                         *)
(*                                                                         *)
(* Grain.  A step is one critical section of a queue, or one atomic        *)
(* counter operation, that another goroutine can observe; what a goroutine *)
(* does between two of them is local and belongs to the step before.  A    *)
(* load is therefore TWO steps (ComputeLoad reads the queue length, then   *)
(* the picking counter) and what it returns may be stale when it is used.  *)
(* Counters no modelled goroutine reads concurrently (the decision summary,*)
(* receivedCount, the re-route counters) change with the step next to them.*)
(*                                                                         *)
(* Redis is external: a read of the group cart may fail, and a stock       *)
(* reservation may fail before or after the script ran on the server.      *)
(* The episode counters of the monitor are in BreachEpisodes; they never   *)
(* influence the steps modelled here.                                      *)
(***************************************************************************)
EXTENDS Integers, Sequences, FiniteSets, Functions, QueueOps

CONSTANTS
  NumStores,        \* stores are 1..NumStores, in the order of m.stores
  Orders,           \* the pre-generated orders of one run
  NoOrder,          \* a nil *Order
  Pickers,          \* the picker goroutines
  StoreOf,          \* the store each picker works for
  Schedule,         \* storeSchedules: the arrivals of each store, in order
  Perishable,       \* orders with IsPerishable
  Carted,           \* orders whose GroupCartID is their home store's cart
  Capacity,         \* Store.Capacity, the same for every store
  Distance,         \* Distance[<<s, t>>], any length unit
  MaxDist,          \* maxDistKm in that unit
  BaseFee, PerDistRate, AcceptableDelay, PenaltyRate,  \* CostModelConfig
  Mode,             \* DecisionEngineMode
  CooldownNs, NudgeGraceNs,  \* engine windows, in ticks of the model
  InitStock,        \* SetStock of every store at the start of a run
  CheckEveryTick,   \* createdCountFn # nil: the per-tick accounting check
  TickSteps,        \* how far sim time may advance from one tick to the next
  MaxSimTime        \* bound: no tick starts at or after this sim time

Stores == 1..NumStores
NoStore == 0

ASSUME NumStoresAssumption == NumStores \in Nat \ {0}
ASSUME NoOrderAssumption == NoOrder \notin Orders
ASSUME StoreOfAssumption == StoreOf \in [Pickers -> Stores]
(* Order ids carry a global counter: no order is scheduled twice.          *)
ASSUME ScheduleAssumption ==
  /\ Schedule \in [Stores -> Seq(Orders)]
  /\ \A s \in Stores : IsInjective(Schedule[s])
  /\ \A s, t \in Stores : s # t => Range(Schedule[s]) \cap Range(Schedule[t]) = {}
  /\ \A o \in Orders : \E s \in Stores : o \in Range(Schedule[s])
ASSUME OrderKindsAssumption == Perishable \subseteq Orders /\ Carted \subseteq Orders
ASSUME FiniteAssumption == IsFiniteSet(Orders) /\ IsFiniteSet(Pickers)
ASSUME NumbersAssumption ==
  /\ Capacity \in Nat \ {0}
  /\ Distance \in [Stores \X Stores -> Nat]
  /\ {MaxDist, BaseFee, PerDistRate, AcceptableDelay, PenaltyRate} \subseteq Nat
  /\ {CooldownNs, NudgeGraceNs, InitStock, MaxSimTime} \subseteq Nat
  /\ TickSteps \subseteq Nat \ {0}
ASSUME ModeAssumption == Mode \in {"naive", "cost-gated", "full-orchestration"}
ASSUME CheckAssumption == CheckEveryTick \in BOOLEAN

Home == [o \in Orders |-> CHOOSE s \in Stores : o \in Range(Schedule[s])]
CartOrders(s) == {o \in Carted : Home[o] = s}

VARIABLES
  (* dispatchers *)
  schedule,            \* what is left of each store's schedule
  dispatchPc,          \* "enqueue", or "count" between Push and the counters
  created,             \* actualNetworkOrdersEnqueued
  (* stores and orders *)
  queue,               \* Store.CurrentQueue
  status,              \* Order.Status
  consolidatedCount,   \* Order.ConsolidatedCount; IsConsolidated iff > 0
  mergedInto,          \* history: the primary an order was merged into
  receivedCount, completedCount, activePicking, reRoutedIn, reRoutedOut,
  (* pickers *)
  pickerPc, hand,
  (* monitor and decision engine *)
  monitorPc,
  current,             \* the store of the monitor's loop
  scan,                \* the candidate of the engine's loop
  seenLen,             \* the queue length ComputeLoad has read
  bestTarget,
  held,                \* the extracted order
  simTime, lastNudge, lastReRoute, summary,
  unaccounted,         \* of VerifyNetworkAccountingInvariant: created so far
                       \* minus what its loop has read
  lastCheck,           \* the verdict of the last per-tick check
  (* environment and main *)
  stock,               \* Redis stock:<store>:SKU-GENERIC
  shutdown             \* 0 running; s: store s is being stopped; then the
                       \* monitor; then the run is over

dispatchVars == <<schedule, dispatchPc, created, receivedCount>>
orderVars    == <<consolidatedCount, mergedInto>>
pickerVars   == <<pickerPc, hand, activePicking, completedCount>>
loopVars     == <<current, scan, seenLen, bestTarget, held>>
engineVars   == <<lastNudge, lastReRoute, summary, reRoutedIn, reRoutedOut>>
verifyVars   == <<unaccounted, lastCheck>>
vars == <<dispatchVars, orderVars, pickerVars, loopVars, engineVars,
          verifyVars, queue, status, monitorPc, simTime, stock, shutdown>>

MonitorStopping == NumStores + 1
RunOver         == NumStores + 2

Outcomes == {"NoAction", "BatchingNudge", "RejectedOnCost", "Executed", "FailedNoStock"}
Summary  == Outcomes \cup {"TotalEvaluations", "TotalOrdersMerged"}

Init ==
  /\ schedule = Schedule
  /\ dispatchPc = [s \in Stores |-> "enqueue"]
  /\ created = 0
  /\ queue = [s \in Stores |-> <<>>]
  /\ status = [o \in Orders |-> ""]
  /\ consolidatedCount = [o \in Orders |-> 0]
  /\ mergedInto = [o \in Orders |-> NoOrder]
  /\ receivedCount = [s \in Stores |-> 0]
  /\ completedCount = [s \in Stores |-> 0]
  /\ activePicking = [s \in Stores |-> 0]
  /\ reRoutedIn = [s \in Stores |-> 0]
  /\ reRoutedOut = [s \in Stores |-> 0]
  /\ pickerPc = [p \in Pickers |-> "ready"]
  /\ hand = [p \in Pickers |-> NoOrder]
  /\ monitorPc = "idle"
  /\ current = 1
  /\ scan = NoStore
  /\ seenLen = 0
  /\ bestTarget = NoStore
  /\ held = NoOrder
  /\ simTime = 0
  /\ lastNudge = [s \in Stores |-> 0]
  /\ lastReRoute = [s \in Stores |-> 0]
  /\ summary = [c \in Summary |-> 0]
  /\ unaccounted = 0
  /\ lastCheck = "none"
  /\ stock = [s \in Stores |-> InitStock]
  /\ shutdown = 0

(***************************************************************************)
(* Dispatcher of store s (main.go): wait for the next arrival's time,      *)
(* enqueue it, then count it as received and as created.                   *)
(***************************************************************************)
Dispatched(s) == schedule[s] = <<>> /\ dispatchPc[s] = "enqueue"

EnqueueArrival(s) ==
  /\ dispatchPc[s] = "enqueue"
  /\ schedule[s] # <<>>
  /\ queue' = [queue EXCEPT ![s] = Append(@, Head(schedule[s]))]
  /\ status' = [status EXCEPT ![Head(schedule[s])] = "QUEUED"]
  /\ schedule' = [schedule EXCEPT ![s] = Tail(@)]
  /\ dispatchPc' = [dispatchPc EXCEPT ![s] = "count"]
  /\ UNCHANGED <<created, receivedCount, orderVars, pickerVars, loopVars,
                 engineVars, verifyVars, monitorPc, simTime, stock, shutdown>>

CountArrival(s) ==
  /\ dispatchPc[s] = "count"
  /\ receivedCount' = [receivedCount EXCEPT ![s] = @ + 1]
  /\ created' = created + 1
  /\ dispatchPc' = [dispatchPc EXCEPT ![s] = "enqueue"]
  /\ UNCHANGED <<schedule, orderVars, pickerVars, loopVars, engineVars,
                 verifyVars, queue, status, monitorPc, simTime, stock, shutdown>>

(***************************************************************************)
(* Picker p (picker.go, worker).  "ready" is on either side of the ctx     *)
(* check at the top of the loop: once its store is stopped a ready picker  *)
(* may have passed the check, and pops one last order, or not, and stops.  *)
(* Finding the queue empty leaves it ready.                                *)
(***************************************************************************)
Stopped(s) == shutdown >= s

Pop(p) ==
  LET s == StoreOf[p] IN
  /\ pickerPc[p] = "ready"
  /\ queue[s] # <<>>
  /\ hand' = [hand EXCEPT ![p] = Head(queue[s])]
  /\ queue' = [queue EXCEPT ![s] = Tail(@)]
  /\ pickerPc' = [pickerPc EXCEPT ![p] = "popped"]
  /\ UNCHANGED <<dispatchVars, orderVars, activePicking, completedCount, loopVars,
                 engineVars, verifyVars, status, monitorPc, simTime, stock, shutdown>>

IncrPicking(p) ==
  /\ pickerPc[p] = "popped"
  /\ status' = [status EXCEPT ![hand[p]] = "PICKING"]
  /\ activePicking' = [activePicking EXCEPT ![StoreOf[p]] = @ + 1]
  /\ pickerPc' = [pickerPc EXCEPT ![p] = "picking"]
  /\ UNCHANGED <<dispatchVars, orderVars, hand, completedCount, loopVars, engineVars,
                 verifyVars, queue, monitorPc, simTime, stock, shutdown>>

DecrPicking(p) ==
  /\ pickerPc[p] = "picking"
  /\ status' = [status EXCEPT ![hand[p]] = "COMPLETED"]
  /\ activePicking' = [activePicking EXCEPT ![StoreOf[p]] = @ - 1]
  /\ pickerPc' = [pickerPc EXCEPT ![p] = "finishing"]
  /\ UNCHANGED <<dispatchVars, orderVars, hand, completedCount, loopVars, engineVars,
                 verifyVars, queue, monitorPc, simTime, stock, shutdown>>

IncrCompleted(p) ==
  /\ pickerPc[p] = "finishing"
  /\ completedCount' = [completedCount EXCEPT ![StoreOf[p]] = @ + 1]
  /\ hand' = [hand EXCEPT ![p] = NoOrder]
  /\ pickerPc' = [pickerPc EXCEPT
       ![p] = IF Stopped(StoreOf[p]) THEN "stopped" ELSE "ready"]
  /\ UNCHANGED <<dispatchVars, orderVars, activePicking, loopVars, engineVars,
                 verifyVars, queue, status, monitorPc, simTime, stock, shutdown>>

PickerExit(p) ==
  /\ pickerPc[p] = "ready"
  /\ Stopped(StoreOf[p])
  /\ pickerPc' = [pickerPc EXCEPT ![p] = "stopped"]
  /\ UNCHANGED <<dispatchVars, orderVars, hand, activePicking, completedCount, loopVars,
                 engineVars, verifyVars, queue, status, monitorPc, simTime, stock, shutdown>>

(***************************************************************************)
(* Loads and costs.  The comparisons with 0.85 and 0.70 are exact in       *)
(* integers.  The gate's predicted delay is proportional to the number of  *)
(* waiting orders, so AcceptableDelay and PenaltyRate are per order.       *)
(***************************************************************************)
Overloaded(items)    == 100 * items > 85 * Capacity
BelowRecovery(items) == 100 * items < 70 * Capacity

ReRouteCost(dist) == BaseFee + PerDistRate * dist
SLABreachPenalty(waiting) ==
  IF waiting <= AcceptableDelay THEN 0 ELSE (waiting - AcceptableDelay) * PenaltyRate
CostGateAllows(dist, waiting) == ReRouteCost(dist) < SLABreachPenalty(waiting)

(***************************************************************************)
(* The monitor's loop over the stores (monitor.go, loop).  Tick starts     *)
(* one; StoreDone, a part of every step that ends the work on a store,     *)
(* goes to the next store or to the accounting check, and forgets the      *)
(* locals of EvaluateBreach.                                               *)
(***************************************************************************)
monitorFrame == <<dispatchVars, pickerVars, status, shutdown>>

Tick ==
  /\ monitorPc = "idle"
  /\ simTime < MaxSimTime
  /\ \E d \in TickSteps : simTime' = simTime + d
  /\ current' = 1
  /\ monitorPc' = "queueLen"
  /\ UNCHANGED <<monitorFrame, orderVars, scan, seenLen, bestTarget, held,
                 engineVars, verifyVars, queue, stock>>

StoreDone ==
  /\ IF current < NumStores
       THEN current' = current + 1 /\ monitorPc' = "queueLen"
       ELSE current' = 1 /\ monitorPc' = IF CheckEveryTick THEN "verify" ELSE "idle"
  /\ scan' = NoStore
  /\ seenLen' = 0
  /\ bestTarget' = NoStore
  /\ held' = NoOrder

(* The first half of ComputeLoad(s); the second half reads activePicking.  *)
ReadQueueLen(s, from, to) ==
  /\ monitorPc = from
  /\ seenLen' = Len(queue[s])
  /\ monitorPc' = to
  /\ UNCHANGED <<monitorFrame, orderVars, current, scan, bestTarget, held,
                 engineVars, verifyVars, queue, simTime, stock>>

MonitorReadLen == ReadQueueLen(current, "queueLen", "activePicking")

MonitorReadActive ==
  /\ monitorPc = "activePicking"
  /\ IF Overloaded(seenLen + activePicking[current])
       THEN /\ monitorPc' = "recheckLen"
            /\ seenLen' = 0
            /\ summary' = [summary EXCEPT !["TotalEvaluations"] = @ + 1]
            /\ UNCHANGED <<current, scan, bestTarget, held>>
       ELSE StoreDone /\ UNCHANGED summary
  /\ UNCHANGED <<monitorFrame, orderVars, lastNudge, lastReRoute, reRoutedIn,
                 reRoutedOut, verifyVars, queue, simTime, stock>>

(***************************************************************************)
(* EvaluateBreach (decision_engine.go) for the store `current`, called on  *)
(* the monitor's goroutine.                                                *)
(***************************************************************************)
Report(outcome) == summary' = [summary EXCEPT ![outcome] = @ + 1]

(* Mutant: an off-by-one in the window. *)
GraceOneTickShort(s) ==
  Mode = "full-orchestration" /\ lastNudge[s] > 0 /\ simTime - lastNudge[s] < NudgeGraceNs - 1

WithinGrace(s) ==
  Mode = "full-orchestration" /\ lastNudge[s] > 0 /\ simTime - lastNudge[s] < NudgeGraceNs
WithinCooldown(s) == lastReRoute[s] > 0 /\ simTime - lastReRoute[s] < CooldownNs

(* Mutant: the loop does not advance past the candidate it is at. *)
CandidatesFrom(k) == {t \in Stores : t >= k /\ t # current}

CandidatesAfter(k) == {t \in Stores : t > k /\ t # current}
FirstOf(S) == CHOOSE t \in S : \A u \in S : t <= u

(* From the grace window to the first candidate, no shared state is read.  *)
NoActionOrScan ==
  IF WithinGrace(current) \/ WithinCooldown(current) \/ CandidatesAfter(0) = {}
    THEN Report("NoAction") /\ StoreDone
    ELSE /\ monitorPc' = "scanLen"
         /\ scan' = FirstOf(CandidatesAfter(0))
         /\ seenLen' = 0
         /\ UNCHANGED <<summary, current, bestTarget, held>>

RecheckLen == ReadQueueLen(current, "recheckLen", "recheckActive")

RecheckActive ==
  /\ monitorPc = "recheckActive"
  /\ IF ~Overloaded(seenLen + activePicking[current])
       THEN Report("NoAction") /\ StoreDone
       ELSE IF Mode = "full-orchestration"
         THEN /\ monitorPc' = "groupCart"
              /\ seenLen' = 0
              /\ UNCHANGED <<summary, current, scan, bestTarget, held>>
         ELSE NoActionOrScan
  /\ UNCHANGED <<monitorFrame, orderVars, lastNudge, lastReRoute, reRoutedIn,
                 reRoutedOut, verifyVars, queue, simTime, stock>>

(* Mutant: a consolidated primary matches again. *)
MergeableAgain(s) == CartOrders(s)

(* The orders ConsolidateOrdersByCart matches when given store s's cart.   *)
Mergeable(s) == {o \in CartOrders(s) : consolidatedCount[o] = 0}

Consolidate(s) ==
  LET q == queue[s]
      n == Cardinality(MatchIndices(q, Mergeable(s)))
      primary == Primary(q, Mergeable(s))
      merged == MergedOrders(q, Mergeable(s))
  IN
  /\ queue' = [queue EXCEPT ![s] = AfterConsolidate(q, Mergeable(s))]
  /\ consolidatedCount' = [consolidatedCount EXCEPT ![primary] = n]
  /\ mergedInto' = [o \in Orders |-> IF o \in merged THEN primary ELSE mergedInto[o]]
  /\ lastNudge' = [lastNudge EXCEPT ![s] = simTime]
  /\ summary' = [summary EXCEPT !["BatchingNudge"] = @ + 1,
                                !["TotalOrdersMerged"] = @ + n]

(* cartActive: Redis returned the store's cart and it is ACTIVE.           *)
GroupCartStep(cartActive) ==
  /\ monitorPc = "groupCart"
  /\ IF cartActive /\ CanConsolidate(queue[current], Mergeable(current))
       THEN Consolidate(current) /\ StoreDone
       ELSE NoActionOrScan /\ UNCHANGED <<queue, orderVars, lastNudge>>
  /\ UNCHANGED <<monitorFrame, lastReRoute, reRoutedIn, reRoutedOut, verifyVars,
                 simTime, stock>>

ScanLen == ReadQueueLen(scan, "scanLen", "scanActive")

Better(t) ==
  /\ BelowRecovery(seenLen + activePicking[t])
  /\ Distance[<<current, t>>] <= MaxDist
  /\ bestTarget = NoStore \/ Distance[<<current, t>>] < Distance[<<current, bestTarget>>]

ScanActive ==
  LET best == IF Better(scan) THEN scan ELSE bestTarget
      rest == CandidatesAfter(scan)
  IN
  /\ monitorPc = "scanActive"
  /\ IF rest = {} /\ best = NoStore
       THEN Report("NoAction") /\ StoreDone
       ELSE /\ monitorPc' = IF rest = {} THEN "gate" ELSE "scanLen"
            /\ scan' = IF rest = {} THEN NoStore ELSE FirstOf(rest)
            /\ bestTarget' = best
            /\ seenLen' = 0
            /\ UNCHANGED <<summary, current, held>>
  /\ UNCHANGED <<monitorFrame, orderVars, lastNudge, lastReRoute, reRoutedIn,
                 reRoutedOut, verifyVars, queue, simTime, stock>>

(* Mutant: the rejection is counted but does not return. *)
CostGateWithoutReturn ==
  /\ monitorPc = "gate"
  /\ IF Mode # "naive"
          /\ ~CostGateAllows(Distance[<<current, bestTarget>>], Len(queue[current]))
       THEN Report("RejectedOnCost") /\ monitorPc' = "extract" /\ UNCHANGED loopVars
       ELSE monitorPc' = "extract" /\ UNCHANGED <<summary, loopVars>>
  /\ UNCHANGED <<monitorFrame, orderVars, lastNudge, lastReRoute, reRoutedIn,
                 reRoutedOut, verifyVars, queue, simTime, stock>>

CostGate ==
  /\ monitorPc = "gate"
  /\ IF Mode # "naive"
          /\ ~CostGateAllows(Distance[<<current, bestTarget>>], Len(queue[current]))
       THEN Report("RejectedOnCost") /\ StoreDone
       ELSE monitorPc' = "extract" /\ UNCHANGED <<summary, loopVars>>
  /\ UNCHANGED <<monitorFrame, orderVars, lastNudge, lastReRoute, reRoutedIn,
                 reRoutedOut, verifyVars, queue, simTime, stock>>

Extract ==
  LET extracted == Extracted(queue[current], Perishable, 1) IN
  /\ monitorPc = "extract"
  /\ queue' = [queue EXCEPT ![current] = RemainingAfterExtract(@, Perishable, 1)]
  /\ IF extracted = <<>>
       THEN Report("NoAction") /\ StoreDone
       ELSE /\ monitorPc' = "reserve"
            /\ held' = extracted[1]
            /\ UNCHANGED <<summary, current, scan, seenLen, bestTarget>>
  /\ UNCHANGED <<monitorFrame, orderVars, lastNudge, lastReRoute, reRoutedIn,
                 reRoutedOut, verifyVars, simTime, stock>>

(* Mutant: the script decrements without comparing. *)
ScriptDecrementsBlindly(t) == stock' = [stock EXCEPT ![t] = @ - 1]

(***************************************************************************)
(* ReserveStockAtomic (reservation.go): the script decrements if the stock *)
(* suffices.  An error returned to the engine says nothing about whether   *)
(* the script ran.                                                         *)
(***************************************************************************)
ScriptRuns(t) == stock' = IF stock[t] >= 1 THEN [stock EXCEPT ![t] = @ - 1] ELSE stock

(* Mutant: a call that never reached the script counts as a reservation. *)
ReserveIgnoresError ==
  /\ monitorPc = "reserve"
  /\ \/ /\ ScriptRuns(bestTarget)
        /\ monitorPc' = IF stock[bestTarget] >= 1 THEN "execute" ELSE "pushBack"
     \/ ScriptRuns(bestTarget) /\ monitorPc' = "pushBack"
     \/ UNCHANGED stock /\ monitorPc' = "execute"
  /\ UNCHANGED <<monitorFrame, orderVars, loopVars, engineVars, verifyVars, queue, simTime>>

Reserve ==
  /\ monitorPc = "reserve"
  /\ \/ /\ ScriptRuns(bestTarget)
        /\ monitorPc' = IF stock[bestTarget] >= 1 THEN "execute" ELSE "pushBack"
     \/ ScriptRuns(bestTarget) /\ monitorPc' = "pushBack"
     \/ UNCHANGED stock /\ monitorPc' = "pushBack"
  /\ UNCHANGED <<monitorFrame, orderVars, loopVars, engineVars, verifyVars, queue, simTime>>

(* Mutant: the order whose reservation failed is not pushed back. *)
PushBackForgetsOrder ==
  /\ monitorPc = "pushBack"
  /\ UNCHANGED queue
  /\ Report("FailedNoStock")
  /\ StoreDone
  /\ UNCHANGED <<monitorFrame, orderVars, lastNudge, lastReRoute, reRoutedIn,
                 reRoutedOut, verifyVars, simTime, stock>>

PushBack ==
  /\ monitorPc = "pushBack"
  /\ queue' = [queue EXCEPT ![current] = Append(@, held)]
  /\ Report("FailedNoStock")
  /\ StoreDone
  /\ UNCHANGED <<monitorFrame, orderVars, lastNudge, lastReRoute, reRoutedIn,
                 reRoutedOut, verifyVars, simTime, stock>>

(***************************************************************************)
(* An accepted re-route, one step per critical section or atomic           *)
(* operation: the stamps of the source store, its counter, the target's    *)
(* counter, the push to the target's queue, where a picker may take the    *)
(* order at once, and the engine's count of the outcome.                   *)
(***************************************************************************)
passFrame == <<monitorFrame, orderVars, current, scan, seenLen, bestTarget,
               lastNudge, verifyVars, simTime, stock>>

(* Mutant: the cooldown stamp of the source store is forgotten. *)
NoStamp ==
  /\ monitorPc = "execute"
  /\ monitorPc' = "countOut"
  /\ UNCHANGED <<passFrame, held, queue, lastReRoute, reRoutedOut, reRoutedIn, summary>>

StampReRoute ==
  /\ monitorPc = "execute"
  /\ monitorPc' = "countOut"
  /\ lastReRoute' = [lastReRoute EXCEPT ![current] = simTime]
  /\ UNCHANGED <<passFrame, held, queue, reRoutedOut, reRoutedIn, summary>>

CountReRoutedOut ==
  /\ monitorPc = "countOut"
  /\ monitorPc' = "countIn"
  /\ reRoutedOut' = [reRoutedOut EXCEPT ![current] = @ + 1]
  /\ UNCHANGED <<passFrame, held, queue, lastReRoute, reRoutedIn, summary>>

CountReRoutedIn ==
  /\ monitorPc = "countIn"
  /\ monitorPc' = "handOver"
  /\ reRoutedIn' = [reRoutedIn EXCEPT ![bestTarget] = @ + 1]
  /\ UNCHANGED <<passFrame, held, queue, lastReRoute, reRoutedOut, summary>>

HandOver ==
  /\ monitorPc = "handOver"
  /\ monitorPc' = "countExecuted"
  /\ queue' = [queue EXCEPT ![bestTarget] = Append(@, held)]
  /\ held' = NoOrder
  /\ UNCHANGED <<passFrame, lastReRoute, reRoutedOut, reRoutedIn, summary>>

CountExecuted ==
  /\ monitorPc = "countExecuted"
  /\ Report("Executed")
  /\ StoreDone
  /\ UNCHANGED <<monitorFrame, orderVars, lastNudge, lastReRoute, reRoutedIn,
                 reRoutedOut, verifyVars, queue, simTime, stock>>

(* Mutant: the primaries are counted as merged away. *)
NetMergedCountsPrimaries ==
  LET merged == summary["TotalOrdersMerged"]
      nudges == summary["BatchingNudge"]
  IN  IF merged > nudges THEN merged ELSE 0

(***************************************************************************)
(* The per-tick accounting check: created is read first, then, store by    *)
(* store, completed, the queue length and the picking counter, while the   *)
(* other goroutines go on (accounting.go).                                 *)
(***************************************************************************)
NetMerged ==
  LET merged == summary["TotalOrdersMerged"]
      nudges == summary["BatchingNudge"]
  IN  IF merged > nudges THEN merged - nudges ELSE 0

verifyFrame == <<monitorFrame, orderVars, scan, seenLen, bestTarget, held,
                 engineVars, queue, simTime, stock>>

VerifyStart ==
  /\ monitorPc = "verify"
  /\ IF created = 0
       THEN monitorPc' = "idle" /\ UNCHANGED unaccounted
       ELSE monitorPc' = "verifyCompleted" /\ unaccounted' = created - NetMerged
  /\ UNCHANGED <<verifyFrame, current, lastCheck>>

VerifyRead(from, to, count) ==
  /\ monitorPc = from
  /\ monitorPc' = to
  /\ unaccounted' = unaccounted - count
  /\ UNCHANGED <<verifyFrame, current, lastCheck>>

VerifyCompleted == VerifyRead("verifyCompleted", "verifyLen", completedCount[current])
VerifyLen == VerifyRead("verifyLen", "verifyActive", Len(queue[current]))

VerifyActive ==
  LET left == unaccounted - activePicking[current] IN
  /\ monitorPc = "verifyActive"
  /\ IF current < NumStores
       THEN /\ current' = current + 1
            /\ monitorPc' = "verifyCompleted"
            /\ unaccounted' = left
            /\ UNCHANGED lastCheck
       ELSE /\ current' = 1
            /\ monitorPc' = "idle"
            /\ unaccounted' = 0
            /\ lastCheck' = IF left = 0 THEN "ok" ELSE "error"
  /\ UNCHANGED verifyFrame

(***************************************************************************)
(* The end of a run (main.go): once every dispatcher is done, and after an *)
(* arbitrary delay, the stores are stopped one after the other, then the   *)
(* monitor; a Stop waits for the goroutines it cancels.                    *)
(***************************************************************************)
mainFrame == <<dispatchVars, orderVars, loopVars, engineVars, verifyVars, queue,
               status, hand, activePicking, completedCount, simTime, stock>>

BeginShutdown ==
  /\ shutdown = 0
  /\ \A s \in Stores : Dispatched(s)
  /\ shutdown' = 1
  /\ UNCHANGED <<mainFrame, pickerPc, monitorPc>>

StoreStopped ==
  /\ shutdown \in Stores
  /\ \A p \in Pickers : StoreOf[p] = shutdown => pickerPc[p] = "stopped"
  /\ shutdown' = shutdown + 1
  /\ UNCHANGED <<mainFrame, pickerPc, monitorPc>>

MonitorExit ==
  /\ shutdown = MonitorStopping
  /\ monitorPc = "idle"
  /\ monitorPc' = "stopped"
  /\ UNCHANGED <<mainFrame, pickerPc, shutdown>>

FinishRun ==
  /\ shutdown = MonitorStopping
  /\ monitorPc = "stopped"
  /\ shutdown' = RunOver
  /\ UNCHANGED <<mainFrame, pickerPc, monitorPc>>

(* The run has ended: this is the only way the system stops.               *)
Terminated == shutdown = RunOver /\ UNCHANGED vars

Dispatcher(s) == EnqueueArrival(s) \/ CountArrival(s)
PickerWork(p) == IncrPicking(p) \/ DecrPicking(p) \/ IncrCompleted(p)
Picker(p) == Pop(p) \/ PickerWork(p) \/ PickerExit(p)
Monitor ==
  \/ Tick \/ MonitorReadLen \/ MonitorReadActive
  \/ RecheckLen \/ RecheckActive
  \/ \E cartActive \in BOOLEAN : GroupCartStep(cartActive)
  \/ ScanLen \/ ScanActive \/ CostGate \/ Extract \/ Reserve
  \/ PushBack \/ StampReRoute \/ CountReRoutedOut \/ CountReRoutedIn
  \/ HandOver \/ CountExecuted
  \/ VerifyStart \/ VerifyCompleted \/ VerifyLen \/ VerifyActive
  \/ MonitorExit
Main == BeginShutdown \/ StoreStopped \/ FinishRun

Next ==
  \/ \E s \in Stores : Dispatcher(s)
  \/ \E p \in Pickers : Picker(p)
  \/ Monitor
  \/ Main
  \/ Terminated

(***************************************************************************)
(* Every goroutine is scheduled by the Go runtime, none waits for a lock   *)
(* held by another for more than one step, and sleeps and Redis calls      *)
(* return (with an error at the latest when their deadline passes).        *)
(***************************************************************************)
Fairness ==
  /\ \A s \in Stores : WF_vars(Dispatcher(s))
  /\ \A p \in Pickers : WF_vars(Picker(p))
  /\ WF_vars(Monitor)
  /\ WF_vars(Main)

Spec == Init /\ [][Next]_vars /\ Fairness
-----------------------------------------------------------------------------
(***************************************************************************)
(* Where an order is.  Every holder of an order contributes one location;  *)
(* PlaceOf is the refinement mapping to OrderLifecycle.                    *)
(***************************************************************************)
Locations(o) ==
       {<<"schedule", s>> : s \in {t \in Stores : o \in Range(schedule[t])}}
  \cup {<<"queue", s>> : s \in {t \in Stores : o \in Range(queue[t])}}
  \cup {<<"picker", p>> : p \in {r \in Pickers : hand[r] = o}}
  \cup (IF held = o THEN {<<"engine">>} ELSE {})
  \cup (IF mergedInto[o] # NoOrder THEN {<<"merged">>} ELSE {})
  \cup (IF status[o] = "COMPLETED" /\ \A p \in Pickers : hand[p] # o
          THEN {<<"completed">>} ELSE {})

PlaceOf(o) ==
  CASE mergedInto[o] # NoOrder -> <<"merged">>
    [] held = o -> <<"engine">>
    [] \E p \in Pickers : hand[p] = o -> <<"picker", CHOOSE p \in Pickers : hand[p] = o>>
    [] \E s \in Stores : o \in Range(queue[s]) ->
         <<"queue", CHOOSE s \in Stores : o \in Range(queue[s])>>
    [] \E s \in Stores : o \in Range(schedule[s]) ->
         <<"schedule", CHOOSE s \in Stores : o \in Range(schedule[s])>>
    [] OTHER -> <<"completed">>

Lifecycle == INSTANCE OrderLifecycle WITH place <- [o \in Orders |-> PlaceOf(o)]

MonitorPcs ==
  {"idle", "queueLen", "activePicking", "recheckLen", "recheckActive", "groupCart",
   "scanLen", "scanActive", "gate", "extract", "reserve", "pushBack", "execute",
   "countOut", "countIn", "handOver", "countExecuted", "verify", "verifyCompleted", "verifyLen", "verifyActive", "stopped"}

(* The type of every variable.                                             *)
TypeOK ==
  /\ schedule \in [Stores -> Seq(Orders)]
  /\ dispatchPc \in [Stores -> {"enqueue", "count"}]
  /\ created \in Nat
  /\ queue \in [Stores -> Seq(Orders)]
  /\ status \in [Orders -> {"", "QUEUED", "PICKING", "COMPLETED"}]
  /\ consolidatedCount \in [Orders -> Nat]
  /\ mergedInto \in [Orders -> Orders \cup {NoOrder}]
  /\ receivedCount \in [Stores -> Nat]
  /\ completedCount \in [Stores -> Nat]
  /\ activePicking \in [Stores -> Int]
  /\ reRoutedIn \in [Stores -> Nat]
  /\ reRoutedOut \in [Stores -> Nat]
  /\ pickerPc \in [Pickers -> {"ready", "popped", "picking", "finishing", "stopped"}]
  /\ hand \in [Pickers -> Orders \cup {NoOrder}]
  /\ monitorPc \in MonitorPcs
  /\ current \in Stores
  /\ scan \in Stores \cup {NoStore}
  /\ seenLen \in Nat
  /\ bestTarget \in Stores \cup {NoStore}
  /\ held \in Orders \cup {NoOrder}
  /\ simTime \in Nat
  /\ lastNudge \in [Stores -> Nat]
  /\ lastReRoute \in [Stores -> Nat]
  /\ summary \in [Summary -> Nat]
  /\ unaccounted \in Int
  /\ lastCheck \in {"none", "ok", "error"}
  /\ stock \in [Stores -> Nat]
  /\ shutdown \in 0..RunOver

(***************************************************************************)
(* No order is lost and none is in two places: every order is scheduled,   *)
(* in one queue, in one pair of hands, merged or completed, and no queue   *)
(* holds it twice.  The pointers move between goroutines through separate  *)
(* critical sections (queue.go, picker.go:54, decision_engine.go:198-239). *)
(***************************************************************************)
NoOrderLostOrDuplicated ==
  /\ \A s \in Stores : IsInjective(schedule[s]) /\ IsInjective(queue[s])
  /\ \A o \in Orders : Locations(o) = {PlaceOf(o)}

(***************************************************************************)
(* What each store received plus what was re-routed in is what was         *)
(* re-routed out, waits, is being picked, was completed or was merged:     *)
(* the accounting of accounting.go store by store, corrected for the gaps  *)
(* between a queue operation and the counter that goes with it.  An order  *)
(* in the engine's hands is on the source store's account until its        *)
(* reRoutedOut is counted, on nobody's until the target's reRoutedIn is,   *)
(* and then on the target's until the push (decision_engine.go:237-239).    *)
(***************************************************************************)
PickersIn(pc, s) == {p \in Pickers : StoreOf[p] = s /\ pickerPc[p] = pc}
MergedAt(s) == {o \in Orders : mergedInto[o] # NoOrder /\ Home[o] = s}

HeldFor(s) ==
  /\ held # NoOrder
  /\ \/ current = s /\ monitorPc \notin {"countIn", "handOver"}
     \/ bestTarget = s /\ monitorPc = "handOver"

StoreFlowBalanced ==
  \A s \in Stores :
    receivedCount[s] + reRoutedIn[s] + (IF dispatchPc[s] = "count" THEN 1 ELSE 0)
      = reRoutedOut[s] + (IF HeldFor(s) THEN 1 ELSE 0)
        + Len(queue[s]) + Cardinality(PickersIn("popped", s)) + activePicking[s]
        + Cardinality(PickersIn("finishing", s)) + completedCount[s]
        + Cardinality(MergedAt(s))

(***************************************************************************)
(* The network accounting invariant as main.go verifies it when the run is *)
(* over: created = completed + in queue + in picking + net merged.         *)
(***************************************************************************)
FinalAccountingPasses ==
  shutdown = RunOver =>
    created = SumFunction([s \in Stores |-> completedCount[s] + Len(queue[s]) + activePicking[s]])
                + NetMerged

(***************************************************************************)
(* Extraction for a re-route skips perishable orders                       *)
(* (ExtractNonPerishables, queue.go:59), but consolidation does not look   *)
(* at IsPerishable (ConsolidateOrdersByCart, queue.go:83): an order merged *)
(* into another one goes where its primary goes.  So a perishable order    *)
(* leaves the store it was placed at in one way only, inside a primary     *)
(* that is not perishable; on its own, or inside a perishable primary, it  *)
(* is neither held for a re-route nor queued or picked anywhere else.      *)
(***************************************************************************)
Carrier(o) == IF mergedInto[o] # NoOrder THEN mergedInto[o] ELSE o

AwayFromHome(o) ==
  \E s \in Stores \ {Home[o]} :
    \/ o \in Range(queue[s])
    \/ \E p \in Pickers : StoreOf[p] = s /\ hand[p] = o

PerishablesLeaveOnlyMerged ==
  \A o \in Perishable :
    (held = Carrier(o) \/ AwayFromHome(Carrier(o))) => Carrier(o) \notin Perishable

(***************************************************************************)
(* What ASSUMPTIONS.md:25 says of re-routing, "eligible non-perishable     *)
(* order items are transferred directly to the nearest store": no          *)
(* perishable order is queued or picked at another store, in whatever      *)
(* order it travels.  It fails: the primary of a nudge's consolidation     *)
(* (queue.go:83) takes the perishable orders merged into it along.         *)
(***************************************************************************)
PerishablesNeverTransferred == \A o \in Perishable : ~AwayFromHome(Carrier(o))

(***************************************************************************)
(* Every order accepted by re-routing has consumed a unit of the target's  *)
(* stock (the reverse fails: a reservation whose answer is lost leaks).    *)
(***************************************************************************)
AcceptedFor(s) == monitorPc \in {"execute", "countOut", "countIn"} /\ bestTarget = s

ReRoutesCoveredByStock ==
  \A s \in Stores :
    reRoutedIn[s] + (IF AcceptedFor(s) THEN 1 ELSE 0)
      <= InitStock - stock[s]

(***************************************************************************)
(* The cooldown bounds the rate: a store re-routes at most once per window *)
(* (decision_engine.go:143-146 with the stamp of line 233).                *)
(***************************************************************************)
ReRouteRateBounded ==
  \A s \in Stores : reRoutedOut[s] > 0 => (reRoutedOut[s] - 1) * CooldownNs < simTime

(***************************************************************************)
(* Demand side first: a store that issued a batching nudge does not        *)
(* re-route before its grace window is over (decision_engine.go:136-139).  *)
(***************************************************************************)
NudgeDelaysReRoute ==
  [][\A s \in Stores :
       (reRoutedOut'[s] > reRoutedOut[s] /\ lastNudge[s] > 0)
         => simTime - lastNudge[s] >= NudgeGraceNs]_vars

(***************************************************************************)
(* Merging: an order is merged into a primary of its own cart and store    *)
(* that is not merged itself, the primary counts exactly the orders it     *)
(* stands for, and the engine's totals, from which the accounting check    *)
(* takes its net merged, agree with what left the queues.                  *)
(***************************************************************************)
MergedOrdersOf(p) == {o \in Orders : mergedInto[o] = p}

MergesAccounted ==
  /\ \A o \in Orders : mergedInto[o] # NoOrder =>
       LET p == mergedInto[o] IN
       /\ {o, p} \subseteq CartOrders(Home[p])
       /\ mergedInto[p] = NoOrder
  /\ \A p \in Orders : consolidatedCount[p] > 0 =>
       consolidatedCount[p] = 1 + Cardinality(MergedOrdersOf(p))
  /\ NetMerged = Cardinality({o \in Orders : mergedInto[o] # NoOrder})

(***************************************************************************)
(* The five outcomes are mutually exclusive and exhaustive: every          *)
(* evaluation that has returned counted exactly one of them.  An executed  *)
(* re-route is one order out of a store and into another, whatever other   *)
(* goroutines do between the three counters (decision_engine.go:237-241).  *)
(***************************************************************************)
Evaluating ==
  monitorPc \in {"recheckLen", "recheckActive", "groupCart", "scanLen", "scanActive",
                 "gate", "extract", "reserve", "pushBack", "execute", "countOut",
                 "countIn", "handOver", "countExecuted"}

OutcomesExclusive ==
  /\ summary["TotalEvaluations"] =
       SumFunction([c \in Outcomes |-> summary[c]]) + (IF Evaluating THEN 1 ELSE 0)
  /\ summary["Executed"] + (IF monitorPc \in {"countIn", "handOver", "countExecuted"}
                              THEN 1 ELSE 0) = SumFunction(reRoutedOut)
  /\ summary["Executed"] + (IF monitorPc \in {"handOver", "countExecuted"}
                              THEN 1 ELSE 0) = SumFunction(reRoutedIn)

(***************************************************************************)
(* The engine contract of OrderLifecycle.                                  *)
(***************************************************************************)
ImplementsLifecycle == Lifecycle!Spec

(***************************************************************************)
(* The run ends: the shutdown of main.go, which waits for every dispatcher,*)
(* picker and the monitor in turn, never hangs.                            *)
(***************************************************************************)
RunTerminates == <>(shutdown = RunOver)

=============================================================================
