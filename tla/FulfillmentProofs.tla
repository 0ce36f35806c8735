------------------------- MODULE FulfillmentProofs -------------------------
(***************************************************************************)
(* Theorems about Fulfillment for every number of stores, pickers and      *)
(* orders, every schedule and every setting of the engine.  The parts:     *)
(*   types and control   what the goroutines hold, where in their code     *)
(*   time windows        grace, cooldown and the reservation of stock      *)
(*   places              where the orders are, and how they move           *)
(*   counting            what the summary counts                           *)
(*   merging             what the records of the merges say                *)
(*   accounting          the balances of the stores and of the network     *)
(*   end of the run      the validation that main prints                   *)
(***************************************************************************)
EXTENDS Fulfillment, DataLemmas

(***************************************************************************)
(* The control invariant: a goroutine holds an order exactly in the part   *)
(* of its code between taking it and passing it on, and the engine's loop  *)
(* variables name stores while they are in use.                            *)
(***************************************************************************)
BusyPcs == {"popped", "picking", "finishing"}
HoldingPcs == {"reserve", "pushBack", "execute", "countOut", "countIn", "handOver"}

PickerControl == \A p \in Pickers : pickerPc[p] \in BusyPcs <=> hand[p] # NoOrder

MonitorControl ==
  /\ monitorPc \in HoldingPcs <=> held # NoOrder
  /\ monitorPc \in {"scanLen", "scanActive"} => scan \in Stores
  /\ monitorPc \in {"gate", "extract"} \cup HoldingPcs => bestTarget \in Stores

Control == PickerControl /\ MonitorControl

TypedControl == TypeOK /\ Control

USE DEF NoStore

LEMMA StoresFinite == IsFiniteSet(Stores) /\ Stores \in SUBSET Nat
  BY NumStoresAssumption, FS_Interval DEF Stores

LEMMA FirstOfIsMember ==
  ASSUME NEW T \in SUBSET Stores, T # {}
  PROVE  FirstOf(T) \in T
<1>1. IsFiniteSet(T) /\ T \in SUBSET Nat
  BY StoresFinite, FS_Subset
<1> QED
  BY <1>1, LeastElement DEF FirstOf

(***************************************************************************)
(* Leaving a store forgets the locals of EvaluateBreach.                   *)
(***************************************************************************)
LEMMA StoreDoneFacts ==
  ASSUME TypeOK, StoreDone
  PROVE  /\ current' \in Stores
         /\ monitorPc' \in {"queueLen", "verify", "idle"}
         /\ scan' = NoStore /\ seenLen' = 0 /\ bestTarget' = NoStore /\ held' = NoOrder
<1>0. current \in Stores
  BY DEF TypeOK
<1>1. current < NumStores => current + 1 \in Stores
  BY <1>0, NumStoresAssumption DEF Stores
<1>2. 1 \in Stores
  BY NumStoresAssumption DEF Stores
<1> QED
  BY <1>0, <1>1, <1>2 DEF StoreDone

LEMMA ReportFacts ==
  ASSUME TypeOK, NEW c \in Outcomes, Report(c)
  PROVE  summary' \in [Summary -> Nat]
<1>1. summary \in [Summary -> Nat] /\ c \in Summary
  BY DEF TypeOK, Summary
<1>2. summary[c] + 1 \in Nat
  BY <1>1
<1> QED
  BY <1>1, <1>2 DEF Report

LEMMA NoActionOrScanFacts ==
  ASSUME TypeOK, held = NoOrder, NoActionOrScan
  PROVE  /\ current' \in Stores
         /\ monitorPc' \in {"queueLen", "verify", "idle", "scanLen"}
         /\ monitorPc' = "scanLen" => scan' \in Stores
         /\ scan' \in Stores \cup {NoStore}
         /\ bestTarget' \in Stores \cup {NoStore}
         /\ seenLen' = 0
         /\ held' = NoOrder
         /\ summary' \in [Summary -> Nat]
<1>1. CASE WithinGrace(current) \/ WithinCooldown(current) \/ CandidatesAfter(0) = {}
  <2>1. Report("NoAction") /\ StoreDone
    BY <1>1 DEF NoActionOrScan
  <2> QED
    BY <2>1, StoreDoneFacts, ReportFacts DEF Outcomes
<1>2. CASE ~(WithinGrace(current) \/ WithinCooldown(current) \/ CandidatesAfter(0) = {})
  <2>1. CandidatesAfter(0) \in SUBSET Stores /\ CandidatesAfter(0) # {}
    BY <1>2 DEF CandidatesAfter
  <2>2. FirstOf(CandidatesAfter(0)) \in Stores
    BY <2>1, FirstOfIsMember
  <2> QED
    BY <1>2, <2>2 DEF NoActionOrScan, TypeOK
<1> QED
  BY <1>1, <1>2

(***************************************************************************)
(* Type correctness, together with the control invariant it needs.         *)
(***************************************************************************)
LEMMA TypedControlInit == Init => TypedControl
<1> SUFFICES ASSUME Init PROVE TypedControl
  OBVIOUS
<1>1. 1 \in Stores
  BY NumStoresAssumption DEF Stores
<1>2. 0 \in 0..RunOver
  BY NumStoresAssumption DEF RunOver
<1>3. InitStock \in Nat
  BY NumbersAssumption
<1>4. <<>> \in Seq(Orders)
  OBVIOUS
<1>5. /\ schedule \in [Stores -> Seq(Orders)]
      /\ queue \in [Stores -> Seq(Orders)]
  BY <1>4, ScheduleAssumption DEF Init
<1>6. /\ dispatchPc \in [Stores -> {"enqueue", "count"}]
      /\ created \in Nat
      /\ status \in [Orders -> {"", "QUEUED", "PICKING", "COMPLETED"}]
      /\ consolidatedCount \in [Orders -> Nat]
      /\ mergedInto \in [Orders -> Orders \cup {NoOrder}]
      /\ pickerPc \in [Pickers -> {"ready", "popped", "picking", "finishing", "stopped"}]
      /\ hand \in [Pickers -> Orders \cup {NoOrder}]
  BY DEF Init
<1>7. /\ receivedCount \in [Stores -> Nat]
      /\ completedCount \in [Stores -> Nat]
      /\ activePicking \in [Stores -> Int]
      /\ reRoutedIn \in [Stores -> Nat]
      /\ reRoutedOut \in [Stores -> Nat]
      /\ lastNudge \in [Stores -> Nat]
      /\ lastReRoute \in [Stores -> Nat]
      /\ summary \in [Summary -> Nat]
  <2>1. \A f \in {receivedCount, completedCount, activePicking, reRoutedIn, reRoutedOut,
                   lastNudge, lastReRoute} : f = [s \in Stores |-> 0]
    BY DEF Init
  <2>2. summary = [c \in Summary |-> 0]
    BY DEF Init
  <2> QED
    BY <2>1, <2>2
<1>10. stock \in [Stores -> Nat]
  BY <1>3 DEF Init
<1>11. monitorPc \in MonitorPcs
  BY DEF Init, MonitorPcs
<1>12. shutdown \in 0..RunOver
  BY <1>2 DEF Init
<1>8. /\ current \in Stores
      /\ scan \in Stores \cup {NoStore}
      /\ seenLen \in Nat
      /\ bestTarget \in Stores \cup {NoStore}
      /\ held \in Orders \cup {NoOrder}
      /\ simTime \in Nat
      /\ unaccounted \in Int
      /\ lastCheck \in {"none", "ok", "error"}
  <2>1. /\ current = 1 /\ scan = NoStore /\ seenLen = 0 /\ bestTarget = NoStore
        /\ held = NoOrder /\ simTime = 0 /\ unaccounted = 0 /\ lastCheck = "none"
    BY DEF Init
  <2> QED
    BY <1>1, <2>1
<1>9. Control
  BY DEF Init, Control, PickerControl, MonitorControl, BusyPcs, HoldingPcs
<1> QED
  BY <1>5, <1>6, <1>7, <1>8, <1>9, <1>10, <1>11, <1>12 DEF TypedControl, TypeOK

(***************************************************************************)
(* A step of the monitor that changes only its own locals and the decision *)
(* summary preserves the invariant if what it assigns is well formed.      *)
(***************************************************************************)
QuietFrame == UNCHANGED <<monitorFrame, orderVars, lastNudge, lastReRoute, reRoutedIn,
                          reRoutedOut, verifyVars, queue, simTime, stock>>

LEMMA QuietStepTyped ==
  ASSUME TypedControl, QuietFrame,
         current' \in Stores,
         scan' \in Stores \cup {NoStore},
         seenLen' \in Nat,
         bestTarget' \in Stores \cup {NoStore},
         held' \in Orders \cup {NoOrder},
         summary' \in [Summary -> Nat],
         monitorPc' \in MonitorPcs,
         MonitorControl'
  PROVE  TypedControl'
<1> USE DEF dispatchVars, orderVars, pickerVars, verifyVars, monitorFrame
<1>1. TypeOK'
  BY DEF TypedControl, QuietFrame, TypeOK
<1>2. PickerControl'
  BY DEF TypedControl, Control, QuietFrame, PickerControl
<1> QED
  BY <1>1, <1>2 DEF TypedControl, Control

LEMMA TypedControlStep == TypedControl /\ [Next]_vars => TypedControl'
<1> SUFFICES ASSUME TypedControl, [Next]_vars PROVE TypedControl'
  OBVIOUS
<1> USE DEF dispatchVars, orderVars, pickerVars, loopVars, engineVars, verifyVars,
            monitorFrame, BusyPcs, HoldingPcs, PickerControl, MonitorControl
<1>0. TypeOK /\ Control
  BY DEF TypedControl
<1>1. ASSUME NEW s \in Stores, EnqueueArrival(s)
      PROVE  TypedControl'
  <2>1. Head(schedule[s]) \in Orders /\ Tail(schedule[s]) \in Seq(Orders)
    BY <1>0, <1>1, PopFacts DEF EnqueueArrival, TypeOK
  <2>2. Append(queue[s], Head(schedule[s])) \in Seq(Orders)
    BY <1>0, <2>1, PushFacts DEF TypeOK
  <2> QED
    BY <1>0, <1>1, <2>1, <2>2 DEF EnqueueArrival, TypedControl, TypeOK, Control
<1>2. ASSUME NEW s \in Stores, CountArrival(s)
      PROVE  TypedControl'
  <2>0. receivedCount \in [Stores -> Nat] /\ created \in Nat
    BY <1>0 DEF TypeOK
  <2>1. receivedCount' \in [Stores -> Nat] /\ created' \in Nat
    BY <1>2, <2>0 DEF CountArrival
  <2> QED
    BY <1>0, <1>2, <2>1 DEF CountArrival, TypedControl, TypeOK, Control
<1>3. ASSUME NEW p \in Pickers, Pop(p)
      PROVE  TypedControl'
  <2>1. StoreOf[p] \in Stores
    BY StoreOfAssumption
  <2>2. Head(queue[StoreOf[p]]) \in Orders /\ Tail(queue[StoreOf[p]]) \in Seq(Orders)
    BY <1>0, <1>3, <2>1, PopFacts DEF Pop, TypeOK
  <2> QED
    BY <1>0, <1>3, <2>1, <2>2, NoOrderAssumption DEF Pop, TypedControl, TypeOK, Control
<1>4. ASSUME NEW p \in Pickers, IncrPicking(p)
      PROVE  TypedControl'
  <2>0. activePicking \in [Stores -> Int]
    BY <1>0 DEF TypeOK
  <2>1. activePicking' \in [Stores -> Int]
    BY <1>4, <2>0, StoreOfAssumption DEF IncrPicking
  <2>2. TypeOK'
    BY <1>0, <1>4, <2>1 DEF IncrPicking, TypeOK
  <2>3. Control'
    BY <1>0, <1>4 DEF IncrPicking, TypeOK, Control
  <2> QED
    BY <2>2, <2>3 DEF TypedControl
<1>5. ASSUME NEW p \in Pickers, DecrPicking(p)
      PROVE  TypedControl'
  <2>0. activePicking \in [Stores -> Int]
    BY <1>0 DEF TypeOK
  <2>1. activePicking' \in [Stores -> Int]
    BY <1>5, <2>0, StoreOfAssumption DEF DecrPicking
  <2>2. TypeOK'
    BY <1>0, <1>5, <2>1 DEF DecrPicking, TypeOK
  <2>3. Control'
    BY <1>0, <1>5 DEF DecrPicking, TypeOK, Control
  <2> QED
    BY <2>2, <2>3 DEF TypedControl
<1>6. ASSUME NEW p \in Pickers, IncrCompleted(p)
      PROVE  TypedControl'
  <2>0. completedCount \in [Stores -> Nat]
    BY <1>0 DEF TypeOK
  <2>1. completedCount' \in [Stores -> Nat]
    BY <1>6, <2>0, StoreOfAssumption DEF IncrCompleted
  <2>2. TypeOK'
    BY <1>0, <1>6, <2>1 DEF IncrCompleted, TypeOK
  <2>3. Control'
    BY <1>0, <1>6 DEF IncrCompleted, TypeOK, Control
  <2> QED
    BY <2>2, <2>3 DEF TypedControl
<1>7. ASSUME NEW p \in Pickers, PickerExit(p)
      PROVE  TypedControl'
  BY <1>0, <1>7 DEF PickerExit, TypedControl, TypeOK, Control
<1>8. ASSUME Tick
      PROVE  TypedControl'
  <2>1. simTime' \in Nat
    <3>1. simTime \in Nat
      BY <1>0 DEF TypeOK
    <3> QED
      BY <1>8, <3>1, NumbersAssumption DEF Tick
  <2>2. current' \in Stores
    BY <1>8, NumStoresAssumption DEF Tick, Stores
  <2>3. TypeOK'
    BY <1>0, <1>8, <2>1, <2>2 DEF Tick, TypeOK, MonitorPcs
  <2>4. Control'
    BY <1>0, <1>8 DEF Tick, Control
  <2> QED
    BY <2>3, <2>4 DEF TypedControl
<1>9. ASSUME NEW s \in Stores, NEW from, NEW to, ReadQueueLen(s, from, to),
             <<from, to>> \in {<<"queueLen", "activePicking">>,
                               <<"recheckLen", "recheckActive">>,
                               <<"scanLen", "scanActive">>}
      PROVE  TypedControl'
  <2>1. seenLen' \in Nat
    <3>1. queue[s] \in Seq(Orders)
      BY <1>0 DEF TypeOK
    <3> QED
      BY <1>9, <3>1 DEF ReadQueueLen
  <2>2. TypeOK'
    BY <1>0, <1>9, <2>1 DEF ReadQueueLen, TypeOK, MonitorPcs
  <2>3. Control'
    BY <1>0, <1>9 DEF ReadQueueLen, Control
  <2> QED
    BY <2>2, <2>3 DEF TypedControl
<1>10. ASSUME MonitorReadActive
       PROVE  TypedControl'
  <2>1. QuietFrame /\ monitorPc = "activePicking" /\ held = NoOrder
    BY <1>0, <1>10 DEF MonitorReadActive, QuietFrame, Control
  <2>2. CASE Overloaded(seenLen + activePicking[current])
    <3>1. /\ UNCHANGED <<current, scan, bestTarget, held>>
          /\ monitorPc' = "recheckLen" /\ seenLen' = 0
          /\ summary' = [summary EXCEPT !["TotalEvaluations"] = @ + 1]
      BY <1>10, <2>2 DEF MonitorReadActive
    <3>2. /\ summary \in [Summary -> Nat] /\ current \in Stores
          /\ scan \in Stores \cup {NoStore} /\ bestTarget \in Stores \cup {NoStore}
      BY <1>0 DEF TypeOK
    <3>3. summary' \in [Summary -> Nat]
      <4>1. summary["TotalEvaluations"] + 1 \in Nat
        BY <3>2 DEF Summary
      <4> QED
        BY <3>1, <3>2, <4>1
    <3>4. MonitorControl' /\ monitorPc' \in MonitorPcs
      BY <2>1, <3>1 DEF MonitorPcs
    <3> QED
      BY <2>1, <3>1, <3>2, <3>3, <3>4, QuietStepTyped
  <2>3. CASE ~Overloaded(seenLen + activePicking[current])
    <3>1. StoreDone /\ UNCHANGED summary
      BY <1>10, <2>3 DEF MonitorReadActive
    <3>2. /\ current' \in Stores
          /\ monitorPc' \in {"queueLen", "verify", "idle"}
          /\ scan' = NoStore /\ seenLen' = 0 /\ bestTarget' = NoStore /\ held' = NoOrder
          /\ summary' \in [Summary -> Nat]
      BY <1>0, <3>1, StoreDoneFacts DEF TypeOK
    <3>3. MonitorControl' /\ monitorPc' \in MonitorPcs
      BY <3>2 DEF MonitorPcs
    <3> QED
      BY <2>1, <3>2, <3>3, QuietStepTyped
  <2> QED
    BY <2>2, <2>3
<1>11. ASSUME NoActionOrScan, QuietFrame, held = NoOrder
       PROVE  TypedControl'
  <2>1. /\ current' \in Stores
        /\ monitorPc' \in {"queueLen", "verify", "idle", "scanLen"}
        /\ monitorPc' = "scanLen" => scan' \in Stores
        /\ scan' \in Stores \cup {NoStore}
        /\ bestTarget' \in Stores \cup {NoStore}
        /\ seenLen' = 0
        /\ held' = NoOrder
        /\ summary' \in [Summary -> Nat]
    BY <1>0, <1>11, NoActionOrScanFacts
  <2>2. MonitorControl' /\ monitorPc' \in MonitorPcs
    BY <2>1 DEF MonitorPcs
  <2> QED
    BY <1>11, <2>1, <2>2, QuietStepTyped
<1>12. ASSUME NEW c \in Outcomes, Report(c), StoreDone, QuietFrame
       PROVE  TypedControl'
  <2>1. /\ current' \in Stores
        /\ monitorPc' \in {"queueLen", "verify", "idle"}
        /\ scan' = NoStore /\ seenLen' = 0 /\ bestTarget' = NoStore /\ held' = NoOrder
        /\ summary' \in [Summary -> Nat]
    BY <1>0, <1>12, StoreDoneFacts, ReportFacts
  <2>2. MonitorControl' /\ monitorPc' \in MonitorPcs
    BY <2>1 DEF MonitorPcs
  <2> QED
    BY <1>12, <2>1, <2>2, QuietStepTyped
<1>13. ASSUME RecheckActive
       PROVE  TypedControl'
  <2>1. QuietFrame /\ held = NoOrder
    BY <1>0, <1>13 DEF RecheckActive, QuietFrame, Control
  <2>2. CASE ~Overloaded(seenLen + activePicking[current])
    <3>1. Report("NoAction") /\ StoreDone
      BY <1>13, <2>2 DEF RecheckActive
    <3> QED
      BY <1>12, <2>1, <3>1 DEF Outcomes
  <2>3. CASE Overloaded(seenLen + activePicking[current]) /\ Mode = "full-orchestration"
    <3>1. /\ monitorPc' = "groupCart" /\ seenLen' = 0
          /\ UNCHANGED <<summary, current, scan, bestTarget, held>>
      BY <1>13, <2>3 DEF RecheckActive
    <3>2. /\ summary \in [Summary -> Nat] /\ current \in Stores
          /\ scan \in Stores \cup {NoStore} /\ bestTarget \in Stores \cup {NoStore}
      BY <1>0 DEF TypeOK
    <3>3. MonitorControl' /\ monitorPc' \in MonitorPcs
      BY <2>1, <3>1 DEF MonitorPcs
    <3> QED
      BY <2>1, <3>1, <3>2, <3>3, QuietStepTyped
  <2>4. CASE Overloaded(seenLen + activePicking[current]) /\ Mode # "full-orchestration"
    <3>1. NoActionOrScan
      BY <1>13, <2>4 DEF RecheckActive
    <3> QED
      BY <1>11, <2>1, <3>1
  <2> QED
    BY <2>2, <2>3, <2>4
<1>14. ASSUME ScanActive
       PROVE  TypedControl'
  <2> DEFINE best == IF Better(scan) THEN scan ELSE bestTarget
             rest == CandidatesAfter(scan)
  <2>1. QuietFrame /\ held = NoOrder /\ scan \in Stores
    BY <1>0, <1>14 DEF ScanActive, QuietFrame, Control
  <2>2. best \in Stores \cup {NoStore}
    BY <1>0, <2>1 DEF TypeOK
  <2>3. CASE rest = {} /\ best = NoStore
    <3>1. Report("NoAction") /\ StoreDone
      BY <1>14, <2>3 DEF ScanActive
    <3> QED
      BY <1>12, <2>1, <3>1 DEF Outcomes
  <2>4. CASE ~(rest = {} /\ best = NoStore)
    <3>1. /\ monitorPc' = IF rest = {} THEN "gate" ELSE "scanLen"
          /\ scan' = IF rest = {} THEN NoStore ELSE FirstOf(rest)
          /\ bestTarget' = best
          /\ seenLen' = 0
          /\ UNCHANGED <<summary, current, held>>
      BY <1>14, <2>4 DEF ScanActive
    <3>2. rest # {} => FirstOf(rest) \in Stores
      <4>1. rest \in SUBSET Stores
        BY DEF CandidatesAfter
      <4> QED
        BY <4>1, FirstOfIsMember
    <3> HIDE DEF best, rest
    <3>3. /\ summary' \in [Summary -> Nat] /\ current' \in Stores
          /\ scan' \in Stores \cup {NoStore} /\ bestTarget' \in Stores \cup {NoStore}
          /\ held' = NoOrder /\ seenLen' \in Nat
      BY <1>0, <2>1, <2>2, <3>1, <3>2 DEF TypeOK
    <3>4. MonitorControl' /\ monitorPc' \in MonitorPcs
      BY <2>2, <2>4, <3>1, <3>2, <3>3 DEF MonitorPcs
    <3> QED
      BY <2>1, <3>3, <3>4, QuietStepTyped
  <2> QED
    BY <2>3, <2>4
<1>15. ASSUME CostGate
       PROVE  TypedControl'
  <2> DEFINE rejected == /\ Mode # "naive"
                         /\ ~CostGateAllows(Distance[<<current, bestTarget>>], Len(queue[current]))
  <2>1. QuietFrame /\ held = NoOrder /\ bestTarget \in Stores
    BY <1>0, <1>15 DEF CostGate, QuietFrame, Control
  <2>2. CASE rejected
    <3>1. Report("RejectedOnCost") /\ StoreDone
      BY <1>15, <2>2 DEF CostGate
    <3> QED
      BY <1>12, <2>1, <3>1 DEF Outcomes
  <2>3. CASE ~rejected
    <3>1. monitorPc' = "extract" /\ UNCHANGED <<summary, loopVars>>
      BY <1>15, <2>3 DEF CostGate
    <3>2. /\ summary \in [Summary -> Nat] /\ current \in Stores /\ seenLen \in Nat
          /\ scan \in Stores \cup {NoStore}
      BY <1>0 DEF TypeOK
    <3>3. MonitorControl' /\ monitorPc' \in MonitorPcs
      BY <2>1, <3>1 DEF MonitorPcs
    <3> QED
      BY <2>1, <3>1, <3>2, <3>3, QuietStepTyped
  <2> QED
    BY <2>2, <2>3
<1>16. ASSUME NEW cartActive \in BOOLEAN, GroupCartStep(cartActive)
       PROVE  TypedControl'
  <2>1. held = NoOrder /\ monitorPc = "groupCart" /\ current \in Stores
    BY <1>0, <1>16 DEF GroupCartStep, Control, TypeOK
  <2>2. UNCHANGED <<monitorFrame, lastReRoute, reRoutedIn, reRoutedOut, verifyVars,
                    simTime, stock>>
    BY <1>16 DEF GroupCartStep
  <2> DEFINE q == queue[current]
             M == Mergeable(current)
  <2>3. CASE cartActive /\ CanConsolidate(q, M)
    <3>1. Consolidate(current) /\ StoreDone
      BY <1>16, <2>3 DEF GroupCartStep
    <3>2. q \in Seq(Orders)
      BY <1>0, <2>1 DEF TypeOK
    <3>3. /\ Cardinality(MatchIndices(q, M)) \in Nat
          /\ Primary(q, M) \in Orders
          /\ AfterConsolidate(q, M) \in Seq(Orders)
      BY <2>3, <3>2, ConsolidateTypes
    <3>4. /\ queue' = [queue EXCEPT ![current] = AfterConsolidate(q, M)]
          /\ consolidatedCount' =
               [consolidatedCount EXCEPT ![Primary(q, M)] = Cardinality(MatchIndices(q, M))]
          /\ mergedInto' = [o \in Orders |->
               IF o \in MergedOrders(q, M) THEN Primary(q, M) ELSE mergedInto[o]]
          /\ lastNudge' = [lastNudge EXCEPT ![current] = simTime]
          /\ summary' = [summary EXCEPT !["BatchingNudge"] = @ + 1,
                           !["TotalOrdersMerged"] = @ + Cardinality(MatchIndices(q, M))]
      BY <3>1 DEF Consolidate
    <3> HIDE DEF q, M
    <3>5. /\ queue' \in [Stores -> Seq(Orders)]
          /\ consolidatedCount' \in [Orders -> Nat]
          /\ mergedInto' \in [Orders -> Orders \cup {NoOrder}]
          /\ lastNudge' \in [Stores -> Nat]
      BY <1>0, <3>3, <3>4 DEF TypeOK
    <3>6. summary' \in [Summary -> Nat]
      <4>1. summary \in [Summary -> Nat] /\ {"BatchingNudge", "TotalOrdersMerged"} \subseteq Summary
        BY <1>0 DEF TypeOK, Summary, Outcomes
      <4>2. /\ summary["BatchingNudge"] + 1 \in Nat
            /\ summary["TotalOrdersMerged"] + Cardinality(MatchIndices(q, M)) \in Nat
        BY <3>3, <4>1
      <4> QED
        BY <3>4, <4>1, <4>2
    <3>7. /\ current' \in Stores
          /\ monitorPc' \in {"queueLen", "verify", "idle"}
          /\ scan' = NoStore /\ seenLen' = 0 /\ bestTarget' = NoStore /\ held' = NoOrder
      BY <1>0, <3>1, StoreDoneFacts
    <3>8. TypeOK'
      BY <1>0, <2>2, <3>5, <3>6, <3>7 DEF TypeOK, MonitorPcs
    <3>9. Control'
      BY <1>0, <2>2, <3>7 DEF Control
    <3> QED
      BY <3>8, <3>9 DEF TypedControl
  <2>4. CASE ~(cartActive /\ CanConsolidate(q, M))
    <3>1. NoActionOrScan /\ UNCHANGED <<queue, orderVars, lastNudge>>
      BY <1>16, <2>4 DEF GroupCartStep
    <3>2. QuietFrame
      BY <2>2, <3>1 DEF QuietFrame
    <3> QED
      BY <1>11, <2>1, <3>1, <3>2
  <2> QED
    BY <2>3, <2>4
<1>17. ASSUME Extract
       PROVE  TypedControl'
  <2> DEFINE q == queue[current]
             e == Extracted(q, Perishable, 1)
             r == RemainingAfterExtract(q, Perishable, 1)
  <2>1. /\ held = NoOrder /\ bestTarget \in Stores /\ current \in Stores
        /\ q \in Seq(Orders)
    BY <1>0, <1>17 DEF Extract, Control, TypeOK
  <2>2. /\ queue' = [queue EXCEPT ![current] = r]
        /\ UNCHANGED <<monitorFrame, orderVars, lastNudge, lastReRoute, reRoutedIn,
                       reRoutedOut, verifyVars, simTime, stock>>
    BY <1>17 DEF Extract
  <2>3. r \in Seq(Orders) /\ (e # <<>> => e[1] \in Orders)
    BY <2>1, ExtractFacts
  <2>4. queue' \in [Stores -> Seq(Orders)]
    BY <1>0, <2>2, <2>3 DEF TypeOK
  <2>5. CASE e = <<>>
    <3>1. Report("NoAction") /\ StoreDone
      BY <1>17, <2>5 DEF Extract
    <3>2. /\ current' \in Stores
          /\ monitorPc' \in {"queueLen", "verify", "idle"}
          /\ scan' = NoStore /\ seenLen' = 0 /\ bestTarget' = NoStore /\ held' = NoOrder
          /\ summary' \in [Summary -> Nat]
      BY <1>0, <3>1, StoreDoneFacts, ReportFacts DEF Outcomes
    <3>3. TypeOK'
      BY <1>0, <2>2, <2>4, <3>2 DEF TypeOK, MonitorPcs
    <3>4. Control'
      BY <1>0, <2>2, <3>2 DEF Control
    <3> QED
      BY <3>3, <3>4 DEF TypedControl
  <2>6. CASE e # <<>>
    <3>1. /\ monitorPc' = "reserve"
          /\ held' = e[1]
          /\ UNCHANGED <<summary, current, scan, seenLen, bestTarget>>
      BY <1>17, <2>6 DEF Extract
    <3> HIDE DEF e
    <3>2. held' \in Orders
      BY <2>3, <2>6, <3>1
    <3>3. TypeOK'
      BY <1>0, <2>2, <2>4, <3>1, <3>2 DEF TypeOK, MonitorPcs
    <3>4. Control'
      BY <1>0, <2>1, <2>2, <3>1, <3>2, NoOrderAssumption DEF Control
    <3> QED
      BY <3>3, <3>4 DEF TypedControl
  <2> QED
    BY <2>5, <2>6
<1>18. ASSUME Reserve
       PROVE  TypedControl'
  <2>1. bestTarget \in Stores /\ monitorPc = "reserve" /\ stock \in [Stores -> Nat]
    BY <1>0, <1>18 DEF Reserve, Control, TypeOK
  <2>2. /\ monitorPc' \in {"execute", "pushBack"}
        /\ ScriptRuns(bestTarget) \/ UNCHANGED stock
        /\ UNCHANGED <<monitorFrame, orderVars, loopVars, engineVars, verifyVars, queue, simTime>>
    BY <1>18 DEF Reserve
  <2>3. stock' \in [Stores -> Nat]
    <3>1. ASSUME stock[bestTarget] >= 1
          PROVE  stock[bestTarget] - 1 \in Nat
      BY <2>1, <3>1
    <3> QED
      BY <2>1, <2>2, <3>1 DEF ScriptRuns
  <2>4. TypeOK'
    BY <1>0, <2>2, <2>3 DEF TypeOK, MonitorPcs
  <2>5. Control'
    BY <1>0, <2>1, <2>2 DEF Control
  <2> QED
    BY <2>4, <2>5 DEF TypedControl
<1>19. ASSUME PushBack
       PROVE  TypedControl'
  <2>1. held \in Orders /\ current \in Stores /\ queue \in [Stores -> Seq(Orders)]
    BY <1>0, <1>19 DEF PushBack, Control, TypeOK
  <2>2. Append(queue[current], held) \in Seq(Orders)
    BY <2>1, PushFacts
  <2>3. queue' \in [Stores -> Seq(Orders)]
    BY <1>19, <2>1, <2>2 DEF PushBack
  <2>4. /\ Report("FailedNoStock") /\ StoreDone
        /\ UNCHANGED <<monitorFrame, orderVars, lastNudge, lastReRoute, reRoutedIn,
                       reRoutedOut, verifyVars, simTime, stock>>
    BY <1>19 DEF PushBack
  <2>5. /\ current' \in Stores
        /\ monitorPc' \in {"queueLen", "verify", "idle"}
        /\ scan' = NoStore /\ seenLen' = 0 /\ bestTarget' = NoStore /\ held' = NoOrder
        /\ summary' \in [Summary -> Nat]
    BY <1>0, <2>4, StoreDoneFacts, ReportFacts DEF Outcomes
  <2>6. TypeOK'
    BY <1>0, <2>3, <2>4, <2>5 DEF TypeOK, MonitorPcs
  <2>7. Control'
    BY <1>0, <2>4, <2>5 DEF Control
  <2> QED
    BY <2>6, <2>7 DEF TypedControl
<1>20. ASSUME StampReRoute \/ CountReRoutedOut \/ CountReRoutedIn \/ HandOver
       PROVE  TypedControl'
  <2>1. /\ held \in Orders /\ current \in Stores /\ bestTarget \in Stores
        /\ queue \in [Stores -> Seq(Orders)] /\ simTime \in Nat
        /\ reRoutedIn \in [Stores -> Nat] /\ reRoutedOut \in [Stores -> Nat]
        /\ lastReRoute \in [Stores -> Nat]
    BY <1>0, <1>20 DEF StampReRoute, CountReRoutedOut, CountReRoutedIn, HandOver, Control, TypeOK
  <2>2. Append(queue[bestTarget], held) \in Seq(Orders)
    BY <2>1, PushFacts
  <2>3. queue' \in [Stores -> Seq(Orders)] /\ lastReRoute' \in [Stores -> Nat]
    BY <1>20, <2>1, <2>2 DEF StampReRoute, CountReRoutedOut, CountReRoutedIn, HandOver
  <2>4. reRoutedIn' \in [Stores -> Nat] /\ reRoutedOut' \in [Stores -> Nat]
    <3>1. reRoutedOut[current] + 1 \in Nat /\ reRoutedIn[bestTarget] + 1 \in Nat
      BY <2>1
    <3> QED
      BY <1>20, <2>1, <3>1 DEF StampReRoute, CountReRoutedOut, CountReRoutedIn, HandOver
  <2>5. /\ UNCHANGED <<monitorFrame, orderVars, current, scan, seenLen, bestTarget, lastNudge,
                       verifyVars, simTime, stock, summary>>
        /\ \/ monitorPc' \in {"countOut", "countIn", "handOver"} /\ held' = held
           \/ monitorPc' = "countExecuted" /\ held' = NoOrder
    BY <1>20 DEF StampReRoute, CountReRoutedOut, CountReRoutedIn, HandOver, passFrame
  <2>6. TypeOK'
    BY <1>0, <2>3, <2>4, <2>5 DEF TypeOK, MonitorPcs
  <2>7. Control'
    BY <1>0, <2>1, <2>5, NoOrderAssumption DEF Control
  <2> QED
    BY <2>6, <2>7 DEF TypedControl
<1>28. ASSUME CountExecuted
       PROVE  TypedControl'
  <2>1. /\ Report("Executed") /\ StoreDone
        /\ UNCHANGED <<monitorFrame, orderVars, lastNudge, lastReRoute, reRoutedIn,
                       reRoutedOut, verifyVars, queue, simTime, stock>>
    BY <1>28 DEF CountExecuted
  <2>2. /\ current' \in Stores
        /\ monitorPc' \in {"queueLen", "verify", "idle"}
        /\ scan' = NoStore /\ seenLen' = 0 /\ bestTarget' = NoStore /\ held' = NoOrder
        /\ summary' \in [Summary -> Nat]
    BY <1>0, <2>1, StoreDoneFacts, ReportFacts DEF Outcomes
  <2>3. TypeOK'
    BY <1>0, <2>1, <2>2 DEF TypeOK, MonitorPcs
  <2>4. Control'
    BY <1>0, <2>1, <2>2 DEF Control
  <2> QED
    BY <2>3, <2>4 DEF TypedControl
<1>21. ASSUME VerifyStart
       PROVE  TypedControl'
  <2>1. NetMerged \in Int /\ created \in Nat /\ unaccounted \in Int
    <3>1. summary["TotalOrdersMerged"] \in Nat /\ summary["BatchingNudge"] \in Nat
      BY <1>0 DEF TypeOK, Summary, Outcomes
    <3>2. NetMerged \in Int
      BY <3>1 DEF NetMerged
    <3> QED
      BY <1>0, <3>2 DEF TypeOK
  <2>2. /\ unaccounted' \in Int
        /\ monitorPc = "verify"
        /\ monitorPc' \in {"idle", "verifyCompleted"}
        /\ UNCHANGED <<verifyFrame, current, lastCheck>>
    BY <1>21, <2>1 DEF VerifyStart
  <2>3. TypeOK'
    BY <1>0, <2>2 DEF TypeOK, MonitorPcs, verifyFrame
  <2>4. Control'
    BY <1>0, <2>2 DEF Control, verifyFrame
  <2> QED
    BY <2>3, <2>4 DEF TypedControl
<1>22. ASSUME NEW from, NEW to, NEW count \in Int, VerifyRead(from, to, count),
              <<from, to>> \in {<<"verifyCompleted", "verifyLen">>,
                                <<"verifyLen", "verifyActive">>}
       PROVE  TypedControl'
  <2>1. /\ unaccounted' \in Int
        /\ monitorPc \in {"verifyCompleted", "verifyLen"}
        /\ monitorPc' \in {"verifyLen", "verifyActive"}
        /\ UNCHANGED <<verifyFrame, current, lastCheck>>
    <3>1. unaccounted \in Int
      BY <1>0 DEF TypeOK
    <3> QED
      BY <1>22, <3>1 DEF VerifyRead
  <2>2. TypeOK'
    BY <1>0, <2>1 DEF TypeOK, MonitorPcs, verifyFrame
  <2>3. Control'
    BY <1>0, <2>1 DEF Control, verifyFrame
  <2> QED
    BY <2>2, <2>3 DEF TypedControl
<1>23. ASSUME VerifyActive
       PROVE  TypedControl'
  <2>1. /\ unaccounted \in Int /\ current \in Stores
        /\ activePicking[current] \in Int /\ lastCheck \in {"none", "ok", "error"}
    BY <1>0 DEF TypeOK
  <2>2. current < NumStores => current + 1 \in Stores
    BY <2>1, NumStoresAssumption DEF Stores
  <2>3. 1 \in Stores
    BY NumStoresAssumption DEF Stores
  <2>4. /\ unaccounted' \in Int
        /\ current' \in Stores
        /\ lastCheck' \in {"none", "ok", "error"}
        /\ monitorPc = "verifyActive"
        /\ monitorPc' \in {"idle", "verifyCompleted"}
        /\ UNCHANGED verifyFrame
    BY <1>23, <2>1, <2>2, <2>3 DEF VerifyActive
  <2>5. TypeOK'
    BY <1>0, <2>4 DEF TypeOK, MonitorPcs, verifyFrame
  <2>6. Control'
    BY <1>0, <2>4 DEF Control, verifyFrame
  <2> QED
    BY <2>5, <2>6 DEF TypedControl
<1>24. ASSUME BeginShutdown \/ StoreStopped \/ FinishRun
       PROVE  TypedControl'
  <2>1. UNCHANGED <<mainFrame, pickerPc, monitorPc>>
    BY <1>24 DEF BeginShutdown, StoreStopped, FinishRun
  <2>2. shutdown' \in 0..RunOver
    BY <1>24, NumStoresAssumption
      DEF BeginShutdown, StoreStopped, FinishRun, Stores, RunOver, MonitorStopping
  <2>3. TypeOK'
    BY <1>0, <2>1, <2>2 DEF TypeOK, mainFrame
  <2>4. Control'
    BY <1>0, <2>1 DEF Control, mainFrame
  <2> QED
    BY <2>3, <2>4 DEF TypedControl
<1>25. ASSUME MonitorExit
       PROVE  TypedControl'
  <2>1. /\ monitorPc = "idle" /\ monitorPc' = "stopped"
        /\ UNCHANGED <<mainFrame, pickerPc, shutdown>>
    BY <1>25 DEF MonitorExit
  <2>2. TypeOK'
    BY <1>0, <2>1 DEF TypeOK, mainFrame, MonitorPcs
  <2>3. Control'
    BY <1>0, <2>1 DEF Control, mainFrame
  <2> QED
    BY <2>2, <2>3 DEF TypedControl
<1>26. ASSUME UNCHANGED vars
       PROVE  TypedControl'
  <2>1. TypeOK'
    BY <1>0, <1>26 DEF TypeOK, vars
  <2>2. Control'
    BY <1>0, <1>26 DEF Control, vars
  <2> QED
    BY <2>1, <2>2 DEF TypedControl
<1>27. ASSUME Monitor
       PROVE  TypedControl'
  <2>1. current \in Stores /\ (monitorPc = "scanLen" => scan \in Stores)
    BY <1>0 DEF TypeOK, Control
  <2>2. CASE MonitorReadLen \/ RecheckLen \/ ScanLen
    <3>1. MonitorReadLen => TypedControl'
      BY <1>9, <2>1 DEF MonitorReadLen
    <3>2. RecheckLen => TypedControl'
      BY <1>9, <2>1 DEF RecheckLen
    <3>3. ScanLen => TypedControl'
      <4>1. ScanLen => scan \in Stores
        BY <2>1 DEF ScanLen, ReadQueueLen
      <4> QED
        BY <1>9, <4>1 DEF ScanLen
    <3> QED
      BY <2>2, <3>1, <3>2, <3>3
  <2>3. CASE VerifyCompleted \/ VerifyLen
    <3>1. completedCount[current] \in Int /\ Len(queue[current]) \in Int
      <4>1. queue[current] \in Seq(Orders) /\ completedCount[current] \in Nat
        BY <1>0, <2>1 DEF TypeOK
      <4> QED
        BY <4>1
    <3> QED
      BY <1>22, <2>3, <3>1 DEF VerifyCompleted, VerifyLen
  <2> QED
    BY <1>8, <1>10, <1>13, <1>14, <1>15, <1>16, <1>17, <1>18, <1>19, <1>20, <1>21, <1>23, <1>28,
       <1>25, <1>27, <2>2, <2>3 DEF Monitor
<1> QED
  BY <1>1, <1>2, <1>3, <1>4, <1>5, <1>6, <1>7, <1>24, <1>26, <1>27
    DEF Next, Dispatcher, Picker, PickerWork, Main, Terminated

(***************************************************************************)
(* Every variable has its type in every reachable state.                   *)
(***************************************************************************)
THEOREM TypeCorrect == Spec => []TypeOK
<1>1. Spec => []TypedControl
  BY TypedControlInit, TypedControlStep, PTL DEF Spec
<1>2. TypedControl => TypeOK
  BY DEF TypedControl
<1> QED
  BY <1>1, <1>2, PTL

-----------------------------------------------------------------------------
(***************************************************************************)
(* What the engine's time windows and the stock reservation guarantee, for *)
(* every number of stores, pickers and orders and every setting.  Six      *)
(* kinds of step matter: a tick, a nudge, a reservation, the stamp and the *)
(* two counters of a re-route, and all the others, which leave them alone. *)
(***************************************************************************)

EvaluationPcs ==
  {"scanLen", "scanActive", "gate", "extract", "reserve", "pushBack", "execute"}

WindowsOpen == ~WithinGrace(current) /\ ~WithinCooldown(current)

(***************************************************************************)
(* The inductive invariant: from the scan on, the windows of the evaluated *)
(* store are over; only full orchestration nudges; and n re-routes of a    *)
(* store take more than n - 1 windows up to the last stamp, one that is    *)
(* stamped and not yet counted included.                                   *)
(***************************************************************************)
Windows ==
  /\ monitorPc \in EvaluationPcs => WindowsOpen
  /\ monitorPc \notin {"idle", "stopped"} => simTime > 0
  /\ monitorPc = "groupCart" => Mode = "full-orchestration"
  /\ \A s \in Stores : lastNudge[s] > 0 => Mode = "full-orchestration"
  /\ \A s \in Stores : reRoutedOut[s] > 0 =>
       /\ lastReRoute[s] > 0
       /\ lastReRoute[s] <= simTime
       /\ (reRoutedOut[s] - 1) * CooldownNs < lastReRoute[s]
  /\ monitorPc = "countOut" =>
       /\ ~WithinGrace(current)
       /\ lastReRoute[current] = simTime
       /\ reRoutedOut[current] * CooldownNs < simTime

QuietStep ==
  /\ UNCHANGED <<simTime, lastNudge, lastReRoute, reRoutedIn, reRoutedOut, stock>>
  /\ monitorPc' \in {"execute", "countOut", "countIn"} =>
       UNCHANGED <<monitorPc, current, bestTarget>>
  /\ monitorPc' \in EvaluationPcs =>
       current' = current /\ (monitorPc \in EvaluationPcs \/ WindowsOpen)
  /\ monitorPc' \notin {"idle", "stopped"} => monitorPc \notin {"idle", "stopped"}
  /\ monitorPc' = "groupCart" => monitorPc = "groupCart" \/ Mode = "full-orchestration"

Nudge ==
  /\ monitorPc = "groupCart"
  /\ lastNudge' = [lastNudge EXCEPT ![current] = simTime]
  /\ monitorPc' \in {"queueLen", "verify", "idle"}
  /\ UNCHANGED <<simTime, lastReRoute, reRoutedIn, reRoutedOut, stock>>

LEMMA OthersAreQuiet ==
  ASSUME \/ \E s \in Stores : Dispatcher(s)
         \/ \E p \in Pickers : Picker(p)
         \/ Main
         \/ UNCHANGED vars
  PROVE  QuietStep
<1> USE DEF dispatchVars, orderVars, pickerVars, loopVars, engineVars, verifyVars
<1> DEFINE Still == UNCHANGED <<monitorPc, current, bestTarget, simTime, lastNudge,
                                lastReRoute, reRoutedIn, reRoutedOut, stock>>
<1>1. ASSUME NEW s \in Stores, Dispatcher(s)
      PROVE  Still
  BY <1>1 DEF Dispatcher, EnqueueArrival, CountArrival
<1>2. ASSUME NEW p \in Pickers, Picker(p)
      PROVE  Still
  BY <1>2 DEF Picker, PickerWork, Pop, IncrPicking, DecrPicking, IncrCompleted, PickerExit
<1>3. Main => Still
  BY DEF Main, BeginShutdown, StoreStopped, FinishRun, mainFrame
<1>4. UNCHANGED vars => Still
  BY DEF vars
<1>5. Still
  BY <1>1, <1>2, <1>3, <1>4
<1> QED
  BY <1>5 DEF QuietStep

(***************************************************************************)
(* Every step is of one of the five kinds.                                 *)
(***************************************************************************)
LEMMA StoreDoneLeavesEvaluation == StoreDone => monitorPc' \in {"queueLen", "verify", "idle"}
  BY DEF StoreDone

LEMMA ScanOnlyWhenOpen ==
  ASSUME NoActionOrScan
  PROVE  /\ monitorPc' \in {"queueLen", "verify", "idle", "scanLen"}
         /\ monitorPc' = "scanLen" => current' = current /\ WindowsOpen
  BY DEF NoActionOrScan, StoreDone, WindowsOpen

LEMMA StepKinds ==
  ASSUME [Next]_vars
  PROVE  \/ QuietStep \/ Tick \/ Nudge \/ Reserve
         \/ StampReRoute \/ CountReRoutedOut \/ CountReRoutedIn
<1> USE DEF engineVars, EvaluationPcs, QuietStep
<1>1. MonitorReadLen \/ RecheckLen \/ ScanLen => QuietStep
  BY DEF MonitorReadLen, RecheckLen, ScanLen, ReadQueueLen
<1>2. MonitorReadActive => QuietStep
  BY StoreDoneLeavesEvaluation DEF MonitorReadActive
<1>3. RecheckActive => QuietStep
  BY StoreDoneLeavesEvaluation, ScanOnlyWhenOpen DEF RecheckActive
<1>4. ASSUME NEW cartActive \in BOOLEAN, GroupCartStep(cartActive)
      PROVE  QuietStep \/ Nudge
  <2>1. CASE Consolidate(current) /\ StoreDone
    <3>1. Nudge
      BY <1>4, <2>1, StoreDoneLeavesEvaluation DEF GroupCartStep, Consolidate, Nudge
    <3> QED
      BY <3>1
  <2>2. CASE NoActionOrScan /\ UNCHANGED <<queue, orderVars, lastNudge>>
    <3>1. QuietStep
      BY <1>4, <2>2, ScanOnlyWhenOpen DEF GroupCartStep
    <3> QED
      BY <3>1
  <2> QED
    BY <1>4, <2>1, <2>2 DEF GroupCartStep
<1>5. ScanActive => QuietStep
  BY StoreDoneLeavesEvaluation DEF ScanActive
<1>6. CostGate => QuietStep
  BY StoreDoneLeavesEvaluation DEF CostGate, loopVars
<1>7. Extract => QuietStep
  BY StoreDoneLeavesEvaluation DEF Extract
<1>8. PushBack => QuietStep
  BY StoreDoneLeavesEvaluation DEF PushBack
<1>9. VerifyStart \/ VerifyCompleted \/ VerifyLen \/ VerifyActive => QuietStep
  BY DEF VerifyStart, VerifyCompleted, VerifyLen, VerifyRead, VerifyActive, verifyFrame
<1>10. MonitorExit => QuietStep
  BY DEF MonitorExit, mainFrame
<1>11. HandOver \/ CountExecuted => QuietStep
  BY StoreDoneLeavesEvaluation DEF HandOver, CountExecuted, passFrame
<1>12. Monitor => \/ QuietStep \/ Tick \/ Nudge \/ Reserve
                  \/ StampReRoute \/ CountReRoutedOut \/ CountReRoutedIn
  BY <1>1, <1>2, <1>3, <1>4, <1>5, <1>6, <1>7, <1>8, <1>9, <1>10, <1>11 DEF Monitor
<1> QED
  BY <1>12, OthersAreQuiet DEF Next, Terminated

(***************************************************************************)
(* The windows.                                                            *)
(***************************************************************************)
LEMMA WindowsInit == Init => Windows
<1> SUFFICES ASSUME Init PROVE Windows
  OBVIOUS
<1>1. monitorPc = "idle"
  BY DEF Init
<1>2. lastNudge = [s \in Stores |-> 0] /\ reRoutedOut = [s \in Stores |-> 0]
  BY DEF Init
<1> QED
  BY <1>1, <1>2 DEF Windows, EvaluationPcs

LEMMA WindowsStep == TypedControl /\ Windows /\ [Next]_vars => Windows'
<1> SUFFICES ASSUME TypedControl, Windows, [Next]_vars
             PROVE  Windows'
  OBVIOUS
<1>0. /\ lastNudge \in [Stores -> Nat] /\ lastReRoute \in [Stores -> Nat]
      /\ reRoutedOut \in [Stores -> Nat]
      /\ simTime \in Nat /\ current \in Stores /\ CooldownNs \in Nat
  BY NumbersAssumption DEF TypedControl, TypeOK
<1>1. CASE QuietStep
  BY <1>1 DEF QuietStep, Windows, WindowsOpen, WithinGrace, WithinCooldown
<1>2. CASE Tick
  <2>1. /\ simTime' \in Nat /\ simTime' > simTime
        /\ monitorPc' = "queueLen"
        /\ UNCHANGED <<lastNudge, lastReRoute, reRoutedOut>>
    BY <1>0, <1>2, NumbersAssumption DEF Tick, engineVars
  <2> QED
    BY <1>0, <2>1 DEF Windows, EvaluationPcs, HoldingPcs
<1>3. CASE Nudge
  <2>1. Mode = "full-orchestration" /\ simTime > 0
    BY <1>3 DEF Nudge, Windows
  <2> QED
    BY <1>3, <2>1 DEF Nudge, Windows, EvaluationPcs, HoldingPcs
<1>4. CASE Reserve
  <2>1. /\ monitorPc = "reserve" /\ monitorPc' \in EvaluationPcs
        /\ UNCHANGED <<current, simTime, lastNudge, lastReRoute, reRoutedOut>>
    BY <1>4 DEF Reserve, loopVars, engineVars, EvaluationPcs, HoldingPcs
  <2> QED
    BY <2>1 DEF Windows, WindowsOpen, WithinGrace, WithinCooldown, EvaluationPcs, HoldingPcs
<1>5. CASE StampReRoute
  <2>1. /\ monitorPc = "execute" /\ monitorPc' = "countOut"
        /\ lastReRoute' = [lastReRoute EXCEPT ![current] = simTime]
        /\ UNCHANGED <<simTime, lastNudge, reRoutedOut, current>>
    BY <1>5 DEF StampReRoute, passFrame
  <2>2. simTime > 0 /\ ~WithinCooldown(current) /\ ~WithinGrace(current)
    BY <2>1 DEF Windows, WindowsOpen, EvaluationPcs
  <2>3. reRoutedOut[current] * CooldownNs < simTime
    <3> DEFINE n == reRoutedOut[current]
    <3>1. n \in Nat
      BY <1>0
    <3>2. CASE n = 0
      <4>1. n * CooldownNs = 0
        BY <1>0, <3>2
      <4> QED
        BY <2>2, <4>1
    <3>3. CASE n > 0
      <4> DEFINE allButOne == (n - 1) * CooldownNs
                 all == n * CooldownNs
      <4>1. simTime - lastReRoute[current] >= CooldownNs /\ allButOne < lastReRoute[current]
        BY <1>0, <2>2, <3>3 DEF Windows, WithinCooldown
      <4>2. all = allButOne + CooldownNs
        BY <1>0, <3>1
      <4>3. lastReRoute[current] \in Nat /\ allButOne \in Int
        BY <1>0, <3>1
      <4>4. all < simTime
        <5> HIDE DEF all, allButOne
        <5> QED
          BY <1>0, <4>1, <4>2, <4>3
      <4> QED
        BY <4>4
    <3> QED
      BY <3>1, <3>2, <3>3
  <2>4. lastReRoute'[current] = simTime
    BY <1>0, <2>1
  <2>5. ASSUME NEW s \in Stores, reRoutedOut[s] > 0
        PROVE  /\ lastReRoute'[s] > 0
               /\ lastReRoute'[s] <= simTime
               /\ (reRoutedOut[s] - 1) * CooldownNs < lastReRoute'[s]
    <3>1. /\ lastReRoute[s] > 0 /\ lastReRoute[s] <= simTime
          /\ (reRoutedOut[s] - 1) * CooldownNs < lastReRoute[s]
      BY <2>5 DEF Windows
    <3>2. CASE s = current
      <4> DEFINE windows == (reRoutedOut[s] - 1) * CooldownNs
      <4>1. windows < lastReRoute[s] /\ windows \in Int
        BY <1>0, <3>1
      <4> HIDE DEF windows
      <4>2. windows < simTime
        BY <1>0, <3>1, <4>1
      <4> QED
        BY <1>0, <2>2, <2>4, <3>2, <4>2 DEF windows
    <3>3. CASE s # current
      <4>1. lastReRoute'[s] = lastReRoute[s]
        BY <1>0, <2>1, <3>3
      <4> QED
        BY <3>1, <4>1
    <3> QED
      BY <3>2, <3>3
  <2>6. ~WithinGrace(current)'
    BY <2>1, <2>2 DEF WithinGrace
  <2> QED
    BY <2>1, <2>2, <2>3, <2>4, <2>5, <2>6 DEF Windows, EvaluationPcs
<1>6. CASE CountReRoutedOut
  <2>1. /\ monitorPc = "countOut" /\ monitorPc' = "countIn"
        /\ reRoutedOut' = [reRoutedOut EXCEPT ![current] = @ + 1]
        /\ UNCHANGED <<simTime, lastNudge, lastReRoute, current>>
    BY <1>6 DEF CountReRoutedOut, passFrame
  <2>2. /\ simTime > 0 /\ lastReRoute[current] = simTime
        /\ reRoutedOut[current] * CooldownNs < simTime
    BY <2>1 DEF Windows
  <2>3. ASSUME NEW s \in Stores, reRoutedOut'[s] > 0
        PROVE  /\ lastReRoute[s] > 0
               /\ lastReRoute[s] <= simTime
               /\ (reRoutedOut'[s] - 1) * CooldownNs < lastReRoute[s]
    <3>1. CASE s = current
      <4>1. reRoutedOut'[s] - 1 = reRoutedOut[current]
        BY <1>0, <2>1, <3>1
      <4> QED
        BY <1>0, <2>2, <3>1, <4>1
    <3>2. CASE s # current
      <4>1. reRoutedOut'[s] = reRoutedOut[s]
        BY <1>0, <2>1, <3>2
      <4> QED
        BY <2>3, <4>1 DEF Windows
    <3> QED
      BY <3>1, <3>2
  <2> QED
    BY <2>1, <2>2, <2>3 DEF Windows, EvaluationPcs
<1>7. CASE CountReRoutedIn
  <2>1. /\ monitorPc = "countIn" /\ monitorPc' = "handOver"
        /\ UNCHANGED <<simTime, lastNudge, lastReRoute, reRoutedOut>>
    BY <1>7 DEF CountReRoutedIn, passFrame
  <2> QED
    BY <2>1 DEF Windows, EvaluationPcs
<1> QED
  BY <1>1, <1>2, <1>3, <1>4, <1>5, <1>6, <1>7, StepKinds

LEMMA WindowsAlways == Spec => [](TypedControl /\ Windows)
<1>1. Init => TypedControl /\ Windows
  BY TypedControlInit, WindowsInit
<1>2. TypedControl /\ Windows /\ [Next]_vars => (TypedControl /\ Windows)'
  BY TypedControlStep, WindowsStep
<1> QED
  BY <1>1, <1>2, PTL DEF Spec

(***************************************************************************)
(* The cooldown bounds the rate (decision_engine.go:143-146, 233): no      *)
(* store re-routes more than once per window, whatever the load.           *)
(***************************************************************************)
THEOREM CooldownBoundsRate == Spec => []ReRouteRateBounded
<1>1. TypedControl /\ Windows => ReRouteRateBounded
  <2> SUFFICES ASSUME TypedControl, Windows, NEW s \in Stores, reRoutedOut[s] > 0
               PROVE  (reRoutedOut[s] - 1) * CooldownNs < simTime
    BY DEF ReRouteRateBounded
  <2> DEFINE windows == (reRoutedOut[s] - 1) * CooldownNs
  <2>1. lastReRoute[s] <= simTime /\ windows < lastReRoute[s]
    BY DEF Windows
  <2>2. lastReRoute[s] \in Nat /\ simTime \in Nat /\ reRoutedOut[s] \in Nat /\ CooldownNs \in Nat
    BY NumbersAssumption DEF TypedControl, TypeOK
  <2>3. windows \in Int
    BY <2>2
  <2> HIDE DEF windows
  <2>4. windows < simTime
    BY <2>1, <2>2, <2>3
  <2> QED
    BY <2>4 DEF windows
<1> QED
  BY <1>1, WindowsAlways, PTL

(***************************************************************************)
(* Demand side first (decision_engine.go:136-139): a re-route leaves no    *)
(* store within the grace window of its nudge.                             *)
(***************************************************************************)
THEOREM GraceDelaysReRoute == Spec => NudgeDelaysReRoute
<1> DEFINE Delayed ==
             \A s \in Stores :
               (reRoutedOut'[s] > reRoutedOut[s] /\ lastNudge[s] > 0)
                 => simTime - lastNudge[s] >= NudgeGraceNs
<1>1. ASSUME TypedControl, Windows, [Next]_vars
      PROVE  Delayed
  <2> SUFFICES ASSUME NEW s \in Stores, reRoutedOut'[s] > reRoutedOut[s], lastNudge[s] > 0
               PROVE  simTime - lastNudge[s] >= NudgeGraceNs
    OBVIOUS
  <2>1. /\ reRoutedOut \in [Stores -> Nat] /\ lastNudge \in [Stores -> Nat]
        /\ simTime \in Nat /\ NudgeGraceNs \in Nat /\ current \in Stores
    BY <1>1, NumbersAssumption DEF TypedControl, TypeOK
  <2>2. reRoutedOut' # reRoutedOut
    BY <2>1
  <2>3. CountReRoutedOut
    BY <1>1, <2>2, StepKinds
       DEF QuietStep, Tick, Nudge, Reserve, StampReRoute, CountReRoutedIn, engineVars
  <2>4. s = current /\ ~WithinGrace(current)
    BY <1>1, <2>1, <2>3 DEF CountReRoutedOut, Windows
  <2>5. Mode = "full-orchestration"
    BY <1>1 DEF Windows
  <2> QED
    BY <2>1, <2>4, <2>5 DEF WithinGrace
<1>2. TypedControl /\ Windows /\ [Next]_vars => [Delayed]_vars
  BY <1>1
<1>3. Spec => [][Delayed]_vars
  BY <1>2, WindowsAlways, PTL DEF Spec
<1> QED
  BY <1>3 DEF NudgeDelaysReRoute

(***************************************************************************)
(* Every executed re-route consumed a unit of the target's stock           *)
(* (reservation.go:10-26, decision_engine.go:205-239), although the answer *)
(* of the script may be lost.                                              *)
(***************************************************************************)
LEMMA StockStep ==
  TypedControl /\ ReRoutesCoveredByStock /\ [Next]_vars => ReRoutesCoveredByStock'
<1> SUFFICES ASSUME TypedControl, ReRoutesCoveredByStock, [Next]_vars, NEW s \in Stores
             PROVE  reRoutedIn'[s] + (IF AcceptedFor(s)' THEN 1 ELSE 0) <= InitStock - stock'[s]
  BY DEF ReRoutesCoveredByStock
<1> USE DEF AcceptedFor
<1>0. /\ reRoutedIn \in [Stores -> Nat] /\ stock \in [Stores -> Nat] /\ InitStock \in Nat
      /\ reRoutedIn[s] + (IF AcceptedFor(s) THEN 1 ELSE 0) <= InitStock - stock[s]
  BY NumbersAssumption DEF TypedControl, TypeOK, ReRoutesCoveredByStock
<1>1. CASE QuietStep
  BY <1>0, <1>1 DEF QuietStep
<1>2. CASE Tick \/ Nudge
  BY <1>0, <1>2 DEF Tick, Nudge, engineVars
<1>3. CASE Reserve
  <2>1. /\ monitorPc = "reserve" /\ UNCHANGED <<bestTarget, reRoutedIn>>
        /\ \/ monitorPc' = "execute" /\ stock[bestTarget] >= 1
              /\ stock' = [stock EXCEPT ![bestTarget] = @ - 1]
           \/ monitorPc' = "pushBack"
              /\ stock' \in {stock, [stock EXCEPT ![bestTarget] = @ - 1]}
    BY <1>3 DEF Reserve, ScriptRuns, loopVars, engineVars
  <2>2. bestTarget \in Stores
    BY <2>1 DEF TypedControl, Control, MonitorControl, HoldingPcs
  <2> QED
    BY <1>0, <2>1, <2>2
<1>4. CASE StampReRoute \/ CountReRoutedOut
  BY <1>0, <1>4 DEF StampReRoute, CountReRoutedOut, passFrame
<1>5. CASE CountReRoutedIn
  <2>1. /\ monitorPc = "countIn" /\ monitorPc' = "handOver"
        /\ reRoutedIn' = [reRoutedIn EXCEPT ![bestTarget] = @ + 1]
        /\ UNCHANGED stock
    BY <1>5 DEF CountReRoutedIn, passFrame
  <2>2. bestTarget \in Stores
    BY <2>1 DEF TypedControl, Control, MonitorControl, HoldingPcs
  <2> QED
    BY <1>0, <2>1, <2>2
<1> QED
  BY <1>1, <1>2, <1>3, <1>4, <1>5, StepKinds

THEOREM StockCoversReRoutes == Spec => []ReRoutesCoveredByStock
<1>1. Init => ReRoutesCoveredByStock
  <2>1. Init => /\ monitorPc = "idle"
                /\ reRoutedIn = [s \in Stores |-> 0] /\ stock = [s \in Stores |-> InitStock]
    BY DEF Init
  <2> QED
    BY <2>1, NumbersAssumption DEF ReRoutesCoveredByStock, AcceptedFor
<1>2. Spec => []TypedControl
  BY TypedControlInit, TypedControlStep, PTL DEF Spec
<1> QED
  BY <1>1, <1>2, StockStep, PTL DEF Spec

-----------------------------------------------------------------------------
(***************************************************************************)
(* Places.  Each order is in exactly one place, for every interleaving of  *)
(* dispatchers, pickers and the decision engine, and it moves from place   *)
(* to place only as OrderLifecycle allows.                                 *)
(***************************************************************************)

ScheduledAt(o) == {s \in Stores : o \in Range(schedule[s])}
QueuedAt(o)    == {s \in Stores : o \in Range(queue[s])}
HandsWith(o)   == {p \in Pickers : hand[p] = o}
IsMerged(o)    == mergedInto[o] # NoOrder
IsCompleted(o) == status[o] = "COMPLETED" /\ HandsWith(o) = {}

(***************************************************************************)
(* The inductive invariant.  Beyond one place per order: what is scheduled *)
(* at a store is at home there, a picker that finishes holds an order      *)
(* marked completed, and what the engine or another store holds as an      *)
(* order of its own does not perish.                                       *)
(***************************************************************************)
PerishablesStayHome ==
  \A o \in Perishable :
    /\ held # o
    /\ \A s \in Stores : o \in Range(queue[s]) => s = Home[o]
    /\ \A p \in Pickers : hand[p] = o => StoreOf[p] = Home[o]

OnePlace == \A o \in Orders : \E l : Locations(o) = {l}

NoDuplicates == \A s \in Stores : IsInjective(schedule[s]) /\ IsInjective(queue[s])

ScheduledAtHome == \A s \in Stores : \A o \in Range(schedule[s]) : Home[o] = s

FinishedIsMarked ==
  \A p \in Pickers : pickerPc[p] = "finishing" => status[hand[p]] = "COMPLETED"

Placement ==
  OnePlace /\ NoDuplicates /\ ScheduledAtHome /\ FinishedIsMarked /\ PerishablesStayHome

(***************************************************************************)
(* Locations, one kind at a time.                                          *)
(***************************************************************************)
LEMMA LocationsByKind ==
  ASSUME NEW o \in Orders
  PROVE  Locations(o) =
              {<<"schedule", s>> : s \in ScheduledAt(o)}
         \cup {<<"queue", s>> : s \in QueuedAt(o)}
         \cup {<<"picker", p>> : p \in HandsWith(o)}
         \cup (IF held = o THEN {<<"engine">>} ELSE {})
         \cup (IF IsMerged(o) THEN {<<"merged">>} ELSE {})
         \cup (IF IsCompleted(o) THEN {<<"completed">>} ELSE {})
<1>1. (\A p \in Pickers : hand[p] # o) <=> HandsWith(o) = {}
  BY DEF HandsWith
<1> QED
  BY <1>1 DEF Locations, ScheduledAt, QueuedAt, HandsWith, IsMerged, IsCompleted

LEMMA KindsDistinct ==
  /\ \A a, b : /\ <<"schedule", a>> # <<"queue", b>>
               /\ <<"schedule", a>> # <<"picker", b>>
               /\ <<"queue", a>> # <<"picker", b>>
  /\ \A a : /\ <<"schedule", a>> \notin {<<"engine">>, <<"merged">>, <<"completed">>}
            /\ <<"queue", a>> \notin {<<"engine">>, <<"merged">>, <<"completed">>}
            /\ <<"picker", a>> \notin {<<"engine">>, <<"merged">>, <<"completed">>}
  /\ \A a, b : /\ <<"schedule", a>> = <<"schedule", b>> => a = b
               /\ <<"queue", a>> = <<"queue", b>> => a = b
               /\ <<"picker", a>> = <<"picker", b>> => a = b
  /\ <<"engine">> # <<"merged">> /\ <<"engine">> # <<"completed">>
  /\ <<"merged">> # <<"completed">>
  OBVIOUS

LEMMA NowhereElse ==
  ASSUME NEW o \in Orders, NEW l, Locations(o) = {l}
  PROVE  /\ \A s \in ScheduledAt(o) : l = <<"schedule", s>>
         /\ \A s \in QueuedAt(o) : l = <<"queue", s>>
         /\ \A p \in HandsWith(o) : l = <<"picker", p>>
         /\ held = o => l = <<"engine">>
         /\ IsMerged(o) => l = <<"merged">>
         /\ IsCompleted(o) => l = <<"completed">>
<1>1. \A s \in ScheduledAt(o) : l = <<"schedule", s>>
  BY LocationsByKind
<1>2. \A s \in QueuedAt(o) : l = <<"queue", s>>
  BY LocationsByKind
<1>3. \A p \in HandsWith(o) : l = <<"picker", p>>
  BY LocationsByKind
<1>4. held = o => l = <<"engine">>
  BY LocationsByKind
<1>5. IsMerged(o) => l = <<"merged">>
  <2>1. IsMerged(o) => <<"merged">> \in Locations(o)
    BY DEF Locations, IsMerged
  <2> QED
    BY <2>1
<1>6. IsCompleted(o) => l = <<"completed">>
  BY LocationsByKind DEF IsCompleted
<1> QED
  BY <1>1, <1>2, <1>3, <1>4, <1>5, <1>6

(* An order found in a place of one kind is in no other place.             *)
LEMMA OnlyScheduled ==
  ASSUME NEW o \in Orders, NEW l, Locations(o) = {l}, NEW s \in ScheduledAt(o)
  PROVE  /\ l = <<"schedule", s>>
         /\ ScheduledAt(o) = {s} /\ QueuedAt(o) = {} /\ HandsWith(o) = {}
         /\ held # o /\ ~IsMerged(o) /\ ~IsCompleted(o)
<1>1. l = <<"schedule", s>>
  BY NowhereElse
<1> QED
  BY <1>1, NowhereElse, KindsDistinct

LEMMA OnlyQueued ==
  ASSUME NEW o \in Orders, NEW l, Locations(o) = {l}, NEW s \in QueuedAt(o)
  PROVE  /\ l = <<"queue", s>>
         /\ ScheduledAt(o) = {} /\ QueuedAt(o) = {s} /\ HandsWith(o) = {}
         /\ held # o /\ ~IsMerged(o) /\ ~IsCompleted(o)
<1>1. l = <<"queue", s>>
  BY NowhereElse
<1> QED
  BY <1>1, NowhereElse, KindsDistinct

LEMMA OnlyPicked ==
  ASSUME NEW o \in Orders, NEW l, Locations(o) = {l}, NEW p \in HandsWith(o)
  PROVE  /\ l = <<"picker", p>>
         /\ ScheduledAt(o) = {} /\ QueuedAt(o) = {} /\ HandsWith(o) = {p}
         /\ held # o /\ ~IsMerged(o) /\ ~IsCompleted(o)
<1>1. l = <<"picker", p>>
  BY NowhereElse
<1> QED
  BY <1>1, NowhereElse, KindsDistinct

LEMMA OnlyWithdrawn ==
  ASSUME NEW o \in Orders, NEW l, Locations(o) = {l}, held = o
  PROVE  /\ l = <<"engine">>
         /\ ScheduledAt(o) = {} /\ QueuedAt(o) = {} /\ HandsWith(o) = {}
         /\ ~IsMerged(o) /\ ~IsCompleted(o)
<1>1. l = <<"engine">>
  BY NowhereElse
<1> QED
  BY <1>1, NowhereElse, KindsDistinct

LEMMA OnlyMerged ==
  ASSUME NEW o \in Orders, NEW l, Locations(o) = {l}, IsMerged(o)
  PROVE  /\ l = <<"merged">>
         /\ ScheduledAt(o) = {} /\ QueuedAt(o) = {} /\ HandsWith(o) = {}
         /\ held # o /\ ~IsCompleted(o)
<1>1. l = <<"merged">>
  BY NowhereElse
<1> QED
  BY <1>1, NowhereElse, KindsDistinct

(***************************************************************************)
(* PlaceOf finds the one place there is.                                   *)
(***************************************************************************)
LEMMA PlaceOfIsLocation ==
  ASSUME NEW o \in Orders, NEW l, Locations(o) = {l}
  PROVE  PlaceOf(o) = l
<1> DEFINE picked == \E p \in Pickers : hand[p] = o
           queued == \E s \in Stores : o \in Range(queue[s])
           scheduled == \E s \in Stores : o \in Range(schedule[s])
<1>1. /\ picked => (CHOOSE p \in Pickers : hand[p] = o) \in HandsWith(o)
      /\ queued => (CHOOSE s \in Stores : o \in Range(queue[s])) \in QueuedAt(o)
      /\ scheduled => (CHOOSE s \in Stores : o \in Range(schedule[s])) \in ScheduledAt(o)
  BY DEF HandsWith, QueuedAt, ScheduledAt
<1>2. CASE IsMerged(o)
  <2>1. ~picked /\ ~queued /\ ~scheduled /\ held # o
    BY <1>1, <1>2, OnlyMerged
  <2> QED
    BY <1>2, <2>1, OnlyMerged DEF PlaceOf, IsMerged
<1>3. CASE held = o
  <2>1. ~picked /\ ~queued /\ ~scheduled /\ ~IsMerged(o)
    BY <1>1, <1>3, OnlyWithdrawn
  <2> QED
    BY <1>3, <2>1, OnlyWithdrawn DEF PlaceOf, IsMerged
<1>4. CASE picked
  <2>1. ~queued /\ ~scheduled /\ held # o /\ ~IsMerged(o)
    BY <1>1, <1>4, OnlyPicked
  <2>2. PlaceOf(o) = <<"picker", CHOOSE p \in Pickers : hand[p] = o>>
    BY <1>4, <2>1 DEF PlaceOf, IsMerged
  <2> QED
    BY <1>1, <1>4, <2>2, NowhereElse
<1>5. CASE queued
  <2>1. ~picked /\ ~scheduled /\ held # o /\ ~IsMerged(o)
    BY <1>1, <1>5, OnlyQueued
  <2>2. PlaceOf(o) = <<"queue", CHOOSE s \in Stores : o \in Range(queue[s])>>
    BY <1>5, <2>1 DEF PlaceOf, IsMerged
  <2> QED
    BY <1>1, <1>5, <2>2, NowhereElse
<1>6. CASE scheduled
  <2>1. ~picked /\ ~queued /\ held # o /\ ~IsMerged(o)
    BY <1>1, <1>6, OnlyScheduled
  <2>2. PlaceOf(o) = <<"schedule", CHOOSE s \in Stores : o \in Range(schedule[s])>>
    BY <1>6, <2>1 DEF PlaceOf, IsMerged
  <2> QED
    BY <1>1, <1>6, <2>2, NowhereElse
<1>7. CASE ~IsMerged(o) /\ held # o /\ ~picked /\ ~queued /\ ~scheduled
  <2>1. PlaceOf(o) = <<"completed">>
    BY <1>7 DEF PlaceOf, IsMerged
  <2>2. HandsWith(o) = {} /\ QueuedAt(o) = {} /\ ScheduledAt(o) = {}
    BY <1>7 DEF HandsWith, QueuedAt, ScheduledAt
  <2>3. l = <<"completed">>
    BY <1>7, <2>2, LocationsByKind
  <2> QED
    BY <2>1, <2>3
<1> QED
  BY <1>2, <1>3, <1>4, <1>5, <1>6, <1>7

LEMMA PlaceOfFinds == \A o \in Orders : \A l : Locations(o) = {l} => PlaceOf(o) = l
  BY PlaceOfIsLocation

LEMMA PlaceOfFindsNext == (\A o \in Orders : \A l : Locations(o) = {l} => PlaceOf(o) = l)'
  BY PlaceOfFinds, PTL

(***************************************************************************)
(* A step moves the orders of M to the place d and leaves the others where *)
(* they are.                                                               *)
(***************************************************************************)
Moves(M, d) == \A o \in Orders : Locations(o)' = IF o \in M THEN {d} ELSE Locations(o)

LEMMA MovedPlaces ==
  ASSUME OnePlace, NEW M, NEW d, Moves(M, d)
  PROVE  /\ OnePlace'
         /\ \A o \in Orders : PlaceOf(o)' = IF o \in M THEN d ELSE PlaceOf(o)
<1>1. ASSUME NEW o \in Orders
      PROVE  /\ \E l : Locations(o)' = {l}
             /\ PlaceOf(o)' = IF o \in M THEN d ELSE PlaceOf(o)
  <2>1. PICK l : Locations(o) = {l}
    BY DEF OnePlace
  <2>2. PlaceOf(o) = l
    BY <2>1, PlaceOfFinds
  <2>3. Locations(o)' = IF o \in M THEN {d} ELSE {l}
    BY <2>1 DEF Moves
  <2> QED
    BY <2>2, <2>3, PlaceOfFindsNext
<1> QED
  BY <1>1 DEF OnePlace

LEMMA KeptLocations ==
  ASSUME NEW o \in Orders,
         ScheduledAt(o)' = ScheduledAt(o), QueuedAt(o)' = QueuedAt(o),
         HandsWith(o)' = HandsWith(o), held' = o <=> held = o,
         IsMerged(o)' <=> IsMerged(o), IsCompleted(o)' <=> IsCompleted(o)
  PROVE  Locations(o)' = Locations(o)
<1>1. (\A x \in Pickers : hand[x] # o) <=> HandsWith(o) = {}
  BY DEF HandsWith
<1>2. (\A x \in Pickers : hand'[x] # o) <=> HandsWith(o)' = {}
  BY DEF HandsWith
<1> QED
  BY <1>1, <1>2 DEF Locations, ScheduledAt, QueuedAt, HandsWith, IsMerged, IsCompleted

Elsewhere(o) == held # o /\ ~IsMerged(o) /\ ~IsCompleted(o)

SingleLocation(o) ==
  /\ ScheduledAt(o) = {} /\ HandsWith(o) = {} /\ Elsewhere(o)
       => \A s : QueuedAt(o) = {s} => Locations(o) = {<<"queue", s>>}
  /\ ScheduledAt(o) = {} /\ QueuedAt(o) = {} /\ Elsewhere(o)
       => \A p : HandsWith(o) = {p} => Locations(o) = {<<"picker", p>>}
  /\ ScheduledAt(o) = {} /\ QueuedAt(o) = {} /\ HandsWith(o) = {} =>
       /\ held # o /\ ~IsMerged(o) /\ IsCompleted(o) => Locations(o) = {<<"completed">>}
       /\ held # o /\ IsMerged(o) /\ ~IsCompleted(o) => Locations(o) = {<<"merged">>}
       /\ held = o /\ ~IsMerged(o) /\ ~IsCompleted(o) => Locations(o) = {<<"engine">>}

LEMMA NewLocation == \A o \in Orders : SingleLocation(o)
  BY LocationsByKind DEF Elsewhere, SingleLocation

LEMMA NewLocationNext == (\A o \in Orders : SingleLocation(o))'
  BY NewLocation, PTL

(***************************************************************************)
(* The steps that touch orders, one lemma each: what moves where, and that *)
(* the invariant is kept.                                                  *)
(***************************************************************************)
OrdersStay ==
  /\ UNCHANGED <<schedule, queue, hand, held, mergedInto, status>>
  /\ \A p \in Pickers : pickerPc'[p] = "finishing" => pickerPc[p] = "finishing"

LEMMA NothingMoves ==
  ASSUME Placement, OrdersStay
  PROVE  Placement' /\ \A o \in Orders : PlaceOf(o)' = PlaceOf(o)
<1> USE DEF OrdersStay
<1>1. Moves({}, <<>>)
  BY DEF Moves, Locations
<1>2. OnePlace' /\ \A o \in Orders : PlaceOf(o)' = PlaceOf(o)
  BY <1>1, MovedPlaces DEF Placement
<1>3. NoDuplicates' /\ ScheduledAtHome' /\ FinishedIsMarked' /\ PerishablesStayHome'
  BY DEF Placement, NoDuplicates, ScheduledAtHome, FinishedIsMarked, PerishablesStayHome
<1> QED
  BY <1>2, <1>3 DEF Placement

LEMMA EnqueueMoves ==
  ASSUME TypedControl, Placement, NEW s \in Stores, EnqueueArrival(s)
  PROVE  LET x == Head(schedule[s]) IN
         /\ x \in Orders /\ Home[x] = s
         /\ Locations(x) = {<<"schedule", s>>}
         /\ Moves({x}, <<"queue", s>>)
         /\ Placement'
<1>0. PICK x : x = Head(schedule[s])
  OBVIOUS
<1>1. /\ schedule \in [Stores -> Seq(Orders)] /\ queue \in [Stores -> Seq(Orders)]
      /\ status \in [Orders -> {"", "QUEUED", "PICKING", "COMPLETED"}]
      /\ schedule[s] # <<>>
      /\ queue' = [queue EXCEPT ![s] = Append(queue[s], x)]
      /\ schedule' = [schedule EXCEPT ![s] = Tail(schedule[s])]
      /\ status' = [status EXCEPT ![x] = "QUEUED"]
      /\ UNCHANGED <<hand, held, mergedInto, pickerPc>>
  BY <1>0 DEF TypedControl, TypeOK, EnqueueArrival, orderVars, pickerVars, loopVars
<1>2. /\ x \in Orders /\ x \in Range(schedule[s])
      /\ Range(schedule'[s]) = Range(schedule[s]) \ {x} /\ IsInjective(schedule'[s])
  BY <1>0, <1>1, PopFacts DEF Placement, NoDuplicates
<1>3. s \in ScheduledAt(x) /\ Home[x] = s
  BY <1>2 DEF ScheduledAt, Placement, ScheduledAtHome
<1>4. /\ Locations(x) = {<<"schedule", s>>}
      /\ ScheduledAt(x) = {s} /\ QueuedAt(x) = {} /\ HandsWith(x) = {}
      /\ held # x /\ ~IsMerged(x)
  <2>1. PICK l : Locations(x) = {l}
    BY <1>2 DEF Placement, OnePlace
  <2> QED
    BY <1>2, <1>3, <2>1, OnlyScheduled
<1>5. x \notin Range(queue[s])
  BY <1>4 DEF QueuedAt
<1>6. Range(queue'[s]) = Range(queue[s]) \cup {x} /\ IsInjective(queue'[s])
  <2>1. queue[s] \in Seq(Orders) /\ IsInjective(queue[s]) /\ queue'[s] = Append(queue[s], x)
    BY <1>1 DEF Placement, NoDuplicates
  <2> QED
    BY <1>2, <1>5, <2>1, PushFacts
<1>7. \A t \in Stores \ {s} : schedule'[t] = schedule[t] /\ queue'[t] = queue[t]
  BY <1>1
<1>8. Locations(x)' = {<<"queue", s>>}
  <2>1. ScheduledAt(x)' = {} /\ QueuedAt(x)' = {s} /\ HandsWith(x)' = {}
    BY <1>1, <1>2, <1>4, <1>6, <1>7 DEF ScheduledAt, QueuedAt, HandsWith
  <2>2. status'[x] = "QUEUED"
    BY <1>1, <1>2
  <2>3. Elsewhere(x)'
    BY <1>1, <1>4, <2>2 DEF Elsewhere, IsMerged, IsCompleted
  <2> QED
    BY <1>2, <2>1, <2>3, NewLocationNext DEF SingleLocation
<1>9. ASSUME NEW o \in Orders \ {x}
      PROVE  Locations(o)' = Locations(o)
  <2>1. ScheduledAt(o)' = ScheduledAt(o) /\ QueuedAt(o)' = QueuedAt(o)
    BY <1>2, <1>6, <1>7 DEF ScheduledAt, QueuedAt
  <2>2. /\ HandsWith(o)' = HandsWith(o) /\ status'[o] = status[o]
        /\ mergedInto'[o] = mergedInto[o] /\ held' = held
    BY <1>1 DEF HandsWith
  <2>3. (IsMerged(o)' <=> IsMerged(o)) /\ (IsCompleted(o)' <=> IsCompleted(o))
    BY <2>2 DEF IsMerged, IsCompleted
  <2> QED
    BY <2>1, <2>2, <2>3, KeptLocations
<1>10. Moves({x}, <<"queue", s>>)
  BY <1>8, <1>9 DEF Moves
<1>11. NoDuplicates'
  BY <1>2, <1>6, <1>7 DEF Placement, NoDuplicates
<1>12. ScheduledAtHome'
  BY <1>2, <1>7 DEF Placement, ScheduledAtHome
<1>13. FinishedIsMarked'
  <2>1. \A p \in Pickers : hand[p] # x
    BY <1>4 DEF HandsWith
  <2>2. ASSUME NEW p \in Pickers, pickerPc[p] = "finishing"
        PROVE  status'[hand[p]] = "COMPLETED"
    <3>1. status[hand[p]] = "COMPLETED" /\ hand[p] \in Orders
      BY <2>2 DEF Placement, FinishedIsMarked, TypedControl, TypeOK, Control,
                  PickerControl, BusyPcs
    <3> QED
      BY <1>1, <2>1, <3>1
  <2> QED
    BY <1>1, <2>2 DEF FinishedIsMarked
<1>14. PerishablesStayHome'
  BY <1>1, <1>3, <1>6, <1>7 DEF Placement, PerishablesStayHome
<1> QED
  BY <1>0, <1>2, <1>3, <1>4, <1>10, <1>11, <1>12, <1>13, <1>14, MovedPlaces DEF Placement

LEMMA PopMoves ==
  ASSUME TypedControl, Placement, NEW p \in Pickers, Pop(p)
  PROVE  LET x == Head(queue[StoreOf[p]]) IN
         /\ x \in Orders /\ hand[p] = NoOrder
         /\ Locations(x) = {<<"queue", StoreOf[p]>>}
         /\ Moves({x}, <<"picker", p>>)
         /\ Placement'
<1>s. PICK s \in Stores : s = StoreOf[p]
  BY StoreOfAssumption
<1>0. PICK x : s = StoreOf[p] /\ x = Head(queue[s])
  BY <1>s
<1>1. /\ queue \in [Stores -> Seq(Orders)] /\ queue[s] # <<>>
      /\ hand \in [Pickers -> Orders \cup {NoOrder}]
      /\ pickerPc \in [Pickers -> {"ready", "popped", "picking", "finishing", "stopped"}]
      /\ pickerPc[p] = "ready"
      /\ queue' = [queue EXCEPT ![s] = Tail(queue[s])]
      /\ hand' = [hand EXCEPT ![p] = x]
      /\ pickerPc' = [pickerPc EXCEPT ![p] = "popped"]
      /\ UNCHANGED <<schedule, held, mergedInto, status>>
  BY <1>0 DEF TypedControl, TypeOK, Pop, dispatchVars, orderVars, loopVars
<1>2. /\ x \in Orders /\ x \in Range(queue[s])
      /\ Range(queue'[s]) = Range(queue[s]) \ {x} /\ IsInjective(queue'[s])
  BY <1>0, <1>1, PopFacts DEF Placement, NoDuplicates
<1>3. hand[p] = NoOrder
  BY <1>1 DEF TypedControl, Control, PickerControl, BusyPcs
<1>4. /\ Locations(x) = {<<"queue", s>>}
      /\ ScheduledAt(x) = {} /\ QueuedAt(x) = {s} /\ HandsWith(x) = {}
      /\ held # x /\ ~IsMerged(x)
  <2>1. PICK l : Locations(x) = {l}
    BY <1>2 DEF Placement, OnePlace
  <2>2. s \in QueuedAt(x)
    BY <1>2 DEF QueuedAt
  <2> QED
    BY <1>2, <2>1, <2>2, OnlyQueued
<1>5. \A t \in Stores \ {s} : queue'[t] = queue[t]
  BY <1>1
<1>6. Locations(x)' = {<<"picker", p>>}
  <2>1. ScheduledAt(x)' = {} /\ QueuedAt(x)' = {} /\ HandsWith(x)' = {p}
    BY <1>1, <1>2, <1>4, <1>5 DEF ScheduledAt, QueuedAt, HandsWith
  <2>2. Elsewhere(x)'
    BY <1>1, <1>4, <2>1 DEF Elsewhere, IsMerged, IsCompleted
  <2> QED
    BY <1>2, <2>1, <2>2, NewLocationNext DEF SingleLocation
<1>7. ASSUME NEW o \in Orders \ {x}
      PROVE  Locations(o)' = Locations(o)
  <2>1. ScheduledAt(o)' = ScheduledAt(o) /\ QueuedAt(o)' = QueuedAt(o)
    BY <1>1, <1>2, <1>5 DEF ScheduledAt, QueuedAt
  <2>2. /\ HandsWith(o)' = HandsWith(o) /\ status'[o] = status[o]
        /\ mergedInto'[o] = mergedInto[o] /\ held' = held
    BY <1>1, <1>3, NoOrderAssumption DEF HandsWith
  <2>3. (IsMerged(o)' <=> IsMerged(o)) /\ (IsCompleted(o)' <=> IsCompleted(o))
    BY <2>2 DEF IsMerged, IsCompleted
  <2> QED
    BY <2>1, <2>2, <2>3, KeptLocations
<1>8. Moves({x}, <<"picker", p>>)
  BY <1>6, <1>7 DEF Moves
<1>9. NoDuplicates' /\ ScheduledAtHome'
  BY <1>1, <1>2, <1>5 DEF Placement, NoDuplicates, ScheduledAtHome
<1>10. FinishedIsMarked'
  BY <1>1 DEF Placement, FinishedIsMarked
<1>11. PerishablesStayHome'
  BY <1>0, <1>1, <1>2, <1>5 DEF Placement, PerishablesStayHome
<1> QED
  BY <1>0, <1>2, <1>3, <1>4, <1>8, <1>9, <1>10, <1>11, MovedPlaces DEF Placement

(* Between taking an order and finishing it, a picker only marks it.       *)
LEMMA MarkingMoves ==
  ASSUME TypedControl, Placement, NEW p \in Pickers, IncrPicking(p) \/ DecrPicking(p)
  PROVE  Placement' /\ \A o \in Orders : PlaceOf(o)' = PlaceOf(o)
<1>0. PICK x : x = hand[p]
  OBVIOUS
<1>1. PICK mark \in {"PICKING", "COMPLETED"} : status' = [status EXCEPT ![x] = mark]
  BY <1>0 DEF IncrPicking, DecrPicking
<1>2. /\ status \in [Orders -> {"", "QUEUED", "PICKING", "COMPLETED"}]
      /\ hand \in [Pickers -> Orders \cup {NoOrder}]
      /\ pickerPc \in [Pickers -> {"ready", "popped", "picking", "finishing", "stopped"}]
      /\ UNCHANGED <<schedule, queue, hand, held, mergedInto>>
      /\ \A r \in Pickers \ {p} : pickerPc'[r] = pickerPc[r]
      /\ pickerPc'[p] = "finishing" => mark = "COMPLETED"
  <2>1. UNCHANGED <<schedule, queue, hand, held, mergedInto>>
    BY DEF IncrPicking, DecrPicking, dispatchVars, orderVars, loopVars
  <2>2. pickerPc \in [Pickers -> {"ready", "popped", "picking", "finishing", "stopped"}]
    BY DEF TypedControl, TypeOK
  <2>3. CASE IncrPicking(p)
    BY <2>1, <2>2, <2>3 DEF TypedControl, TypeOK, IncrPicking
  <2>4. CASE DecrPicking(p)
    <3>1. status' = [status EXCEPT ![x] = "COMPLETED"] /\ status' = [status EXCEPT ![x] = mark]
      BY <1>0, <1>1, <2>4 DEF DecrPicking
    <3>2. x \in Orders
      BY <1>0, <2>2, <2>4 DEF DecrPicking, TypedControl, TypeOK, Control, PickerControl, BusyPcs
    <3>3. mark = "COMPLETED"
      BY <3>1, <3>2 DEF TypedControl, TypeOK
    <3> QED
      BY <2>1, <2>2, <2>4, <3>3 DEF TypedControl, TypeOK, DecrPicking
  <2> QED
    BY <2>3, <2>4
<1>3. x \in Orders /\ p \in HandsWith(x)
  BY <1>0 DEF IncrPicking, DecrPicking, TypedControl, TypeOK, Control, PickerControl, BusyPcs,
              HandsWith
<1>4. Moves({}, <<>>)
  <2>1. ASSUME NEW o \in Orders
        PROVE  Locations(o)' = Locations(o)
    <3>1. /\ ScheduledAt(o)' = ScheduledAt(o) /\ QueuedAt(o)' = QueuedAt(o)
          /\ HandsWith(o)' = HandsWith(o) /\ held' = held
          /\ mergedInto'[o] = mergedInto[o]
      BY <1>2 DEF ScheduledAt, QueuedAt, HandsWith
    <3>2. (IsMerged(o)' <=> IsMerged(o)) /\ (IsCompleted(o)' <=> IsCompleted(o))
      BY <1>1, <1>2, <1>3, <3>1 DEF IsMerged, IsCompleted
    <3> QED
      BY <3>1, <3>2, KeptLocations
  <2> QED
    BY <2>1 DEF Moves
<1>5. OnePlace' /\ \A o \in Orders : PlaceOf(o)' = PlaceOf(o)
  BY <1>4, MovedPlaces DEF Placement
<1>6. NoDuplicates' /\ ScheduledAtHome' /\ PerishablesStayHome'
  BY <1>2 DEF Placement, NoDuplicates, ScheduledAtHome, PerishablesStayHome
<1>7. FinishedIsMarked'
  <2>1. ASSUME NEW r \in Pickers, pickerPc'[r] = "finishing"
        PROVE  status'[hand[r]] = "COMPLETED"
    <3>1. CASE r = p
      BY <1>0, <1>1, <1>2, <1>3, <2>1, <3>1
    <3>2. CASE r # p
      <4>1. pickerPc[r] = "finishing" /\ status[hand[r]] = "COMPLETED" /\ hand[r] \in Orders
        BY <1>2, <2>1, <3>2 DEF Placement, FinishedIsMarked, TypedControl, TypeOK, Control,
                                PickerControl, BusyPcs
      <4>2. hand[r] # x
        <5>1. PICK l : Locations(x) = {l}
          BY <1>3 DEF Placement, OnePlace
        <5>2. HandsWith(x) = {p}
          BY <1>3, <5>1, OnlyPicked
        <5> QED
          BY <3>2, <5>2 DEF HandsWith
      <4> QED
        BY <1>1, <1>2, <4>1, <4>2
    <3> QED
      BY <3>1, <3>2
  <2> QED
    BY <1>2, <2>1 DEF FinishedIsMarked
<1> QED
  BY <1>5, <1>6, <1>7 DEF Placement

LEMMA CompletedMoves ==
  ASSUME TypedControl, Placement, NEW p \in Pickers, IncrCompleted(p)
  PROVE  /\ hand[p] \in Orders
         /\ Locations(hand[p]) = {<<"picker", p>>}
         /\ Moves({hand[p]}, <<"completed">>)
         /\ Placement'
<1>0. PICK x : x = hand[p]
  OBVIOUS
<1>1. /\ hand \in [Pickers -> Orders \cup {NoOrder}]
      /\ pickerPc \in [Pickers -> {"ready", "popped", "picking", "finishing", "stopped"}]
      /\ pickerPc[p] = "finishing"
      /\ hand' = [hand EXCEPT ![p] = NoOrder]
      /\ \A r \in Pickers : pickerPc'[r] = "finishing" => r # p /\ pickerPc[r] = "finishing"
      /\ UNCHANGED <<schedule, queue, held, mergedInto, status>>
  BY DEF TypedControl, TypeOK, IncrCompleted, dispatchVars, orderVars, loopVars
<1>2. x \in Orders /\ p \in HandsWith(x) /\ status[x] = "COMPLETED"
  BY <1>0, <1>1 DEF TypedControl, TypeOK, Control, PickerControl, BusyPcs, HandsWith,
                    Placement, FinishedIsMarked
<1>3. /\ Locations(x) = {<<"picker", p>>}
      /\ ScheduledAt(x) = {} /\ QueuedAt(x) = {} /\ HandsWith(x) = {p}
      /\ held # x /\ ~IsMerged(x)
  <2>1. PICK l : Locations(x) = {l}
    BY <1>2 DEF Placement, OnePlace
  <2> QED
    BY <1>2, <2>1, OnlyPicked
<1>4. Locations(x)' = {<<"completed">>}
  <2>1. ScheduledAt(x)' = {} /\ QueuedAt(x)' = {} /\ HandsWith(x)' = {}
    BY <1>1, <1>2, <1>3, NoOrderAssumption DEF ScheduledAt, QueuedAt, HandsWith
  <2>2. held' # x /\ ~IsMerged(x)' /\ IsCompleted(x)'
    BY <1>1, <1>2, <1>3, <2>1 DEF IsMerged, IsCompleted
  <2> QED
    BY <1>2, <2>1, <2>2, NewLocationNext DEF SingleLocation
<1>5. ASSUME NEW o \in Orders \ {x}
      PROVE  Locations(o)' = Locations(o)
  <2>1. ScheduledAt(o)' = ScheduledAt(o) /\ QueuedAt(o)' = QueuedAt(o)
    BY <1>1 DEF ScheduledAt, QueuedAt
  <2>2. /\ HandsWith(o)' = HandsWith(o) /\ status'[o] = status[o]
        /\ mergedInto'[o] = mergedInto[o] /\ held' = held
    BY <1>0, <1>1, NoOrderAssumption DEF HandsWith
  <2>3. (IsMerged(o)' <=> IsMerged(o)) /\ (IsCompleted(o)' <=> IsCompleted(o))
    BY <2>2 DEF IsMerged, IsCompleted
  <2> QED
    BY <2>1, <2>2, <2>3, KeptLocations
<1>6. Moves({x}, <<"completed">>)
  BY <1>4, <1>5 DEF Moves
<1>7. NoDuplicates' /\ ScheduledAtHome' /\ FinishedIsMarked' /\ PerishablesStayHome'
  <2>1. \A r \in Pickers : r # p => hand'[r] = hand[r]
    BY <1>1
  <2>2. hand'[p] = NoOrder
    BY <1>1
  <2>3. PerishablesStayHome'
    <3>1. Perishable \subseteq Orders
      BY OrderKindsAssumption
    <3> QED
      BY <1>1, <2>1, <2>2, <3>1, NoOrderAssumption DEF Placement, PerishablesStayHome
  <2> QED
    BY <1>1, <2>1, <2>3 DEF Placement, NoDuplicates, ScheduledAtHome, FinishedIsMarked
<1> QED
  BY <1>0, <1>2, <1>3, <1>6, <1>7, MovedPlaces DEF Placement

(* The engine takes an order out of the store it evaluates.                *)
LEMMA ExtractMoves ==
  ASSUME TypedControl, Placement, Extract, held' # NoOrder
  PROVE  /\ held = NoOrder /\ held' \in Orders \ Perishable
         /\ Locations(held') = {<<"queue", current>>}
         /\ Moves({held'}, <<"engine">>)
         /\ Placement'
<1>1. PICK s \in Stores : s = current
  BY DEF TypedControl, TypeOK
<1>2. PICK x : x = held'
  OBVIOUS
<1>3. /\ queue \in [Stores -> Seq(Orders)] /\ IsInjective(queue[s])
      /\ held = NoOrder
      /\ queue' = [queue EXCEPT ![s] = RemainingAfterExtract(queue[s], Perishable, 1)]
      /\ UNCHANGED <<schedule, hand, mergedInto, status, pickerPc>>
  BY <1>1 DEF TypedControl, TypeOK, Control, MonitorControl, HoldingPcs, Extract, Placement,
              NoDuplicates, monitorFrame, dispatchVars, orderVars, pickerVars
<1>4. Extracted(queue[s], Perishable, 1) # <<>> /\ x = Extracted(queue[s], Perishable, 1)[1]
  BY <1>1, <1>2 DEF Extract, StoreDone
<1>5. /\ x \in Orders \ Perishable /\ x \in Range(queue[s])
      /\ Range(queue'[s]) = Range(queue[s]) \ {x} /\ IsInjective(queue'[s])
  <2>1. queue[s] \in Seq(Orders) /\ queue'[s] = RemainingAfterExtract(queue[s], Perishable, 1)
    BY <1>3
  <2> QED
    BY <1>3, <1>4, <2>1, ExtractFacts
<1>6. /\ Locations(x) = {<<"queue", s>>}
      /\ ScheduledAt(x) = {} /\ QueuedAt(x) = {s} /\ HandsWith(x) = {}
      /\ ~IsMerged(x) /\ ~IsCompleted(x)
  <2>1. PICK l : Locations(x) = {l}
    BY <1>5 DEF Placement, OnePlace
  <2>2. s \in QueuedAt(x)
    BY <1>5 DEF QueuedAt
  <2> QED
    BY <1>5, <2>1, <2>2, OnlyQueued
<1>7. \A t \in Stores \ {s} : queue'[t] = queue[t]
  BY <1>3
<1>8. \A o \in Orders : /\ ScheduledAt(o)' = ScheduledAt(o) /\ HandsWith(o)' = HandsWith(o)
                        /\ (IsMerged(o)' <=> IsMerged(o))
                        /\ (IsCompleted(o)' <=> IsCompleted(o))
  BY <1>3 DEF ScheduledAt, HandsWith, IsMerged, IsCompleted
<1>9. Locations(x)' = {<<"engine">>}
  <2>1. QueuedAt(x)' = {}
    BY <1>5, <1>6, <1>7 DEF QueuedAt
  <2>2. /\ ScheduledAt(x)' = {} /\ HandsWith(x)' = {} /\ held' = x
        /\ ~IsMerged(x)' /\ ~IsCompleted(x)'
    BY <1>2, <1>5, <1>6, <1>8
  <2> QED
    BY <1>5, <2>1, <2>2, NewLocationNext DEF SingleLocation
<1>10. ASSUME NEW o \in Orders \ {x}
       PROVE  Locations(o)' = Locations(o)
  <2>1. QueuedAt(o)' = QueuedAt(o)
    BY <1>5, <1>7 DEF QueuedAt
  <2>2. held' = o <=> held = o
    BY <1>2, <1>3, NoOrderAssumption
  <2> QED
    BY <1>8, <2>1, <2>2, KeptLocations
<1>11. Moves({x}, <<"engine">>)
  BY <1>9, <1>10 DEF Moves
<1>12. NoDuplicates' /\ ScheduledAtHome' /\ FinishedIsMarked'
  BY <1>3, <1>5, <1>7 DEF Placement, NoDuplicates, ScheduledAtHome, FinishedIsMarked
<1>13. PerishablesStayHome'
  BY <1>2, <1>3, <1>5, <1>7 DEF Placement, PerishablesStayHome
<1> QED
  BY <1>1, <1>2, <1>3, <1>5, <1>6, <1>11, <1>12, <1>13, MovedPlaces DEF Placement

LEMMA FruitlessExtractMoves ==
  ASSUME TypedControl, Placement, Extract, held' = NoOrder
  PROVE  Placement' /\ \A o \in Orders : PlaceOf(o)' = PlaceOf(o)
<1>1. PICK s \in Stores : s = current
  BY DEF TypedControl, TypeOK
<1>2. /\ queue \in [Stores -> Seq(Orders)] /\ IsInjective(queue[s])
      /\ held = NoOrder
      /\ queue' = [queue EXCEPT ![s] = RemainingAfterExtract(queue[s], Perishable, 1)]
      /\ UNCHANGED <<schedule, hand, mergedInto, status, pickerPc>>
  BY <1>1 DEF TypedControl, TypeOK, Control, MonitorControl, HoldingPcs, Extract, Placement,
              NoDuplicates, monitorFrame, dispatchVars, orderVars, pickerVars
<1>3. Extracted(queue[s], Perishable, 1) = <<>>
  <2>1. SUFFICES ASSUME Extracted(queue[s], Perishable, 1) # <<>> PROVE FALSE
    OBVIOUS
  <2>2. held' = Extracted(queue[s], Perishable, 1)[1]
    BY <1>1, <2>1 DEF Extract
  <2>3. held' \in Orders
    BY <1>2, <2>1, <2>2, ExtractFacts
  <2> QED
    BY <2>3, NoOrderAssumption
<1>4. Range(queue'[s]) = Range(queue[s]) /\ IsInjective(queue'[s])
  <2>1. queue[s] \in Seq(Orders) /\ queue'[s] = RemainingAfterExtract(queue[s], Perishable, 1)
    BY <1>2
  <2> QED
    BY <1>2, <1>3, <2>1, ExtractFacts
<1>5. \A t \in Stores : Range(queue'[t]) = Range(queue[t]) /\ (t # s => queue'[t] = queue[t])
  BY <1>2, <1>4
<1>6. Moves({}, <<>>)
  BY <1>2, <1>5 DEF Moves, Locations
<1>7. OnePlace' /\ \A o \in Orders : PlaceOf(o)' = PlaceOf(o)
  BY <1>6, MovedPlaces DEF Placement
<1>8. NoDuplicates' /\ ScheduledAtHome' /\ FinishedIsMarked' /\ PerishablesStayHome'
  BY <1>2, <1>4, <1>5 DEF Placement, NoDuplicates, ScheduledAtHome, FinishedIsMarked,
                          PerishablesStayHome
<1> QED
  BY <1>7, <1>8 DEF Placement

(* The engine puts it back, at the store it took it from or at the target. *)
LEMMA PutBackMoves ==
  ASSUME TypedControl, Placement, held # NoOrder, NEW s \in Stores,
         queue' = [queue EXCEPT ![s] = Append(@, held)], held' = NoOrder,
         UNCHANGED <<schedule, hand, mergedInto, status, pickerPc>>
  PROVE  /\ held \in Orders
         /\ Locations(held) = {<<"engine">>}
         /\ Moves({held}, <<"queue", s>>)
         /\ Placement'
<1>1. PICK x \in Orders : x = held
  BY DEF TypedControl, TypeOK
<1>2. /\ queue \in [Stores -> Seq(Orders)] /\ IsInjective(queue[s])
      /\ x \notin Perishable
  BY <1>1 DEF TypedControl, TypeOK, Placement, NoDuplicates, PerishablesStayHome
<1>3. /\ Locations(x) = {<<"engine">>}
      /\ ScheduledAt(x) = {} /\ QueuedAt(x) = {} /\ HandsWith(x) = {}
      /\ ~IsMerged(x) /\ ~IsCompleted(x)
  <2>1. PICK l : Locations(x) = {l}
    BY <1>1 DEF Placement, OnePlace
  <2> QED
    BY <1>1, <2>1, OnlyWithdrawn
<1>4. x \notin Range(queue[s])
  BY <1>3 DEF QueuedAt
<1>5. Range(queue'[s]) = Range(queue[s]) \cup {x} /\ IsInjective(queue'[s])
  <2>1. queue[s] \in Seq(Orders) /\ queue'[s] = Append(queue[s], x)
    BY <1>1, <1>2
  <2> QED
    BY <1>1, <1>2, <1>4, <2>1, PushFacts
<1>6. \A t \in Stores \ {s} : queue'[t] = queue[t]
  BY <1>2
<1>7. \A o \in Orders : /\ ScheduledAt(o)' = ScheduledAt(o) /\ HandsWith(o)' = HandsWith(o)
                        /\ (IsMerged(o)' <=> IsMerged(o))
                        /\ (IsCompleted(o)' <=> IsCompleted(o))
  BY DEF ScheduledAt, HandsWith, IsMerged, IsCompleted
<1>8. Locations(x)' = {<<"queue", s>>}
  <2>1. QueuedAt(x)' = {s}
    BY <1>3, <1>5, <1>6 DEF QueuedAt
  <2>2. ScheduledAt(x)' = {} /\ HandsWith(x)' = {} /\ Elsewhere(x)'
    BY <1>1, <1>3, <1>7, NoOrderAssumption DEF Elsewhere
  <2> QED
    BY <1>1, <2>1, <2>2, NewLocationNext DEF SingleLocation
<1>9. ASSUME NEW o \in Orders \ {x}
      PROVE  Locations(o)' = Locations(o)
  <2>1. QueuedAt(o)' = QueuedAt(o)
    BY <1>5, <1>6 DEF QueuedAt
  <2>2. held' = o <=> held = o
    BY <1>1, NoOrderAssumption
  <2> QED
    BY <1>7, <2>1, <2>2, KeptLocations
<1>10. Moves({x}, <<"queue", s>>)
  BY <1>8, <1>9 DEF Moves
<1>11. NoDuplicates' /\ ScheduledAtHome' /\ FinishedIsMarked'
  BY <1>2, <1>5, <1>6 DEF Placement, NoDuplicates, ScheduledAtHome, FinishedIsMarked
<1>12. PerishablesStayHome'
  <2>1. Perishable \subseteq Orders
    BY OrderKindsAssumption
  <2> QED
    BY <1>2, <1>5, <1>6, <2>1, NoOrderAssumption DEF Placement, PerishablesStayHome
<1> QED
  BY <1>1, <1>3, <1>10, <1>11, <1>12, MovedPlaces DEF Placement

(* Merging leaves the primary in the queue and takes the others out.       *)
LEMMA MergeMoves ==
  ASSUME TypedControl, Placement, held = NoOrder, held' = NoOrder,
         CanConsolidate(queue[current], Mergeable(current)), Consolidate(current),
         UNCHANGED <<schedule, hand, status, pickerPc>>
  PROVE  LET primary == Primary(queue[current], Mergeable(current))
             merged == MergedOrders(queue[current], Mergeable(current))
         IN
         /\ merged # {} /\ merged \subseteq CartOrders(current)
         /\ primary \in CartOrders(current) \ merged
         /\ Locations(primary) = {<<"queue", current>>}
         /\ \A o \in merged : Locations(o) = {<<"queue", current>>}
         /\ Moves(merged, <<"merged">>)
         /\ Placement'
<1>1. PICK s \in Stores : s = current
  BY DEF TypedControl, TypeOK
<1>2. PICK primary, merged, after :
        /\ primary = Primary(queue[s], Mergeable(s))
        /\ merged = MergedOrders(queue[s], Mergeable(s))
        /\ after = AfterConsolidate(queue[s], Mergeable(s))
  OBVIOUS
<1>3. /\ queue \in [Stores -> Seq(Orders)] /\ IsInjective(queue[s])
      /\ mergedInto \in [Orders -> Orders \cup {NoOrder}]
      /\ queue' = [queue EXCEPT ![s] = after]
      /\ mergedInto' = [o \in Orders |-> IF o \in merged THEN primary ELSE mergedInto[o]]
  BY <1>1, <1>2 DEF TypedControl, TypeOK, Placement, NoDuplicates, Consolidate
<1>4. /\ primary \in Range(queue[s]) /\ primary \in Mergeable(s) /\ primary \in Orders
      /\ merged \subseteq Range(queue[s]) /\ merged \subseteq Mergeable(s)
      /\ merged \subseteq Orders
      /\ primary \notin merged /\ merged # {}
      /\ Range(after) = Range(queue[s]) \ merged /\ IsInjective(after)
  <2>1. queue[s] \in Seq(Orders) /\ CanConsolidate(queue[s], Mergeable(s))
    BY <1>1, <1>3
  <2> QED
    BY <1>2, <1>3, <2>1, ConsolidateFacts
<1>5. Mergeable(s) \subseteq CartOrders(s)
  BY DEF Mergeable
<1>6. ASSUME NEW o \in Orders, o \in Range(queue[s])
      PROVE  /\ Locations(o) = {<<"queue", s>>}
             /\ ScheduledAt(o) = {} /\ QueuedAt(o) = {s} /\ HandsWith(o) = {}
             /\ held # o /\ ~IsMerged(o) /\ ~IsCompleted(o)
  <2>1. PICK l : Locations(o) = {l}
    BY DEF Placement, OnePlace
  <2>2. s \in QueuedAt(o)
    BY <1>6 DEF QueuedAt
  <2> QED
    BY <2>1, <2>2, OnlyQueued
<1>7. /\ Range(queue'[s]) = Range(queue[s]) \ merged /\ IsInjective(queue'[s])
      /\ \A t \in Stores \ {s} : queue'[t] = queue[t]
  BY <1>3, <1>4
<1>8. \A o \in Orders : /\ ScheduledAt(o)' = ScheduledAt(o) /\ HandsWith(o)' = HandsWith(o)
                        /\ (IsCompleted(o)' <=> IsCompleted(o))
                        /\ held' = held
  BY DEF ScheduledAt, HandsWith, IsCompleted
<1>9. ASSUME NEW o \in merged
      PROVE  Locations(o)' = {<<"merged">>}
  <2>1. o \in Orders /\ o \in Range(queue[s])
    BY <1>4
  <2>2. QueuedAt(o)' = {}
    BY <1>6, <1>7, <2>1 DEF QueuedAt
  <2>3. IsMerged(o)'
    BY <1>3, <1>4, <2>1, NoOrderAssumption DEF IsMerged
  <2>4. ScheduledAt(o)' = {} /\ HandsWith(o)' = {} /\ held' # o /\ ~IsCompleted(o)'
    BY <1>6, <1>8, <2>1
  <2> QED
    BY <2>1, <2>2, <2>3, <2>4, NewLocationNext DEF SingleLocation
<1>10. ASSUME NEW o \in Orders \ merged
       PROVE  Locations(o)' = Locations(o)
  <2>1. QueuedAt(o)' = QueuedAt(o)
    BY <1>7 DEF QueuedAt
  <2>2. IsMerged(o)' <=> IsMerged(o)
    BY <1>3 DEF IsMerged
  <2> QED
    BY <1>8, <2>1, <2>2, KeptLocations
<1>11. Moves(merged, <<"merged">>)
  BY <1>4, <1>9, <1>10 DEF Moves
<1>12. NoDuplicates' /\ ScheduledAtHome' /\ FinishedIsMarked'
  BY <1>7 DEF Placement, NoDuplicates, ScheduledAtHome, FinishedIsMarked
<1>13. PerishablesStayHome'
  BY <1>7 DEF Placement, PerishablesStayHome
<1>14. OnePlace'
  BY <1>11, MovedPlaces DEF Placement
<1>15. /\ primary \in CartOrders(s) \ merged /\ merged \subseteq CartOrders(s)
       /\ Locations(primary) = {<<"queue", s>>}
       /\ \A o \in merged : Locations(o) = {<<"queue", s>>}
  BY <1>4, <1>5, <1>6
<1> QED
  BY <1>1, <1>2, <1>4, <1>11, <1>12, <1>13, <1>14, <1>15 DEF Placement

(***************************************************************************)
(* Every step of the engine does one of these things to the orders.  Here  *)
(* are the steps that do none of them.                                     *)
(***************************************************************************)
MergeStep ==
  /\ CanConsolidate(queue[current], Mergeable(current))
  /\ Consolidate(current)
  /\ StoreDone
  /\ \E cartActive \in BOOLEAN : GroupCartStep(cartActive)

MovingStep ==
  \/ \E s \in Stores : EnqueueArrival(s)
  \/ \E p \in Pickers : Pop(p) \/ PickerWork(p)
  \/ Extract \/ PushBack \/ HandOver
  \/ MergeStep

LEMMA OtherStepsStay ==
  ASSUME TypedControl, [Next]_vars, ~MovingStep
  PROVE  OrdersStay
<1> USE DEF dispatchVars, orderVars, pickerVars, loopVars, engineVars, verifyVars,
            monitorFrame
<1>1. /\ held = NoOrder \/ monitorPc \in HoldingPcs
      /\ pickerPc \in [Pickers -> {"ready", "popped", "picking", "finishing", "stopped"}]
  BY DEF TypedControl, TypeOK, Control, MonitorControl
<1>2. ASSUME UNCHANGED <<schedule, queue, hand, held, mergedInto, status, pickerPc>>
      PROVE  OrdersStay
  BY <1>2 DEF OrdersStay
<1>3. CASE \E s \in Stores : Dispatcher(s)
  BY <1>2, <1>3 DEF MovingStep, Dispatcher, CountArrival
<1>4. CASE \E p \in Pickers : Picker(p)
  <2>1. PICK p \in Pickers : PickerExit(p)
    BY <1>4 DEF MovingStep, Picker
  <2> QED
    BY <1>1, <2>1 DEF PickerExit, OrdersStay
<1>5. CASE Main \/ Terminated \/ UNCHANGED vars
  <2>1. CASE BeginShutdown \/ StoreStopped \/ FinishRun
    BY <1>2, <2>1 DEF BeginShutdown, StoreStopped, FinishRun, mainFrame
  <2>2. CASE UNCHANGED vars
    BY <1>2, <2>2 DEF vars
  <2> QED
    BY <1>5, <2>1, <2>2 DEF Main, Terminated
<1>6. StoreDone => held' = NoOrder
  BY DEF StoreDone
<1>7. NoActionOrScan => held' = NoOrder \/ held' = held
  BY <1>6 DEF NoActionOrScan
<1>8. CASE Monitor
  <2> USE DEF HoldingPcs
  <2>1. CASE Tick \/ MonitorExit
    BY <1>2, <2>1 DEF Tick, MonitorExit, mainFrame
  <2>2. CASE MonitorReadLen \/ RecheckLen \/ ScanLen
    BY <1>2, <2>2 DEF MonitorReadLen, RecheckLen, ScanLen, ReadQueueLen
  <2>3. CASE MonitorReadActive
    BY <1>1, <1>2, <1>6, <2>3 DEF MonitorReadActive
  <2>4. CASE RecheckActive
    BY <1>1, <1>2, <1>6, <1>7, <2>4 DEF RecheckActive
  <2>5. CASE \E cartActive \in BOOLEAN : GroupCartStep(cartActive)
    BY <1>1, <1>2, <1>7, <2>5 DEF GroupCartStep, MovingStep, MergeStep
  <2>6. CASE ScanActive
    BY <1>1, <1>2, <1>6, <2>6 DEF ScanActive
  <2>7. CASE CostGate
    BY <1>1, <1>2, <1>6, <2>7 DEF CostGate
  <2>8. CASE Reserve
    BY <1>2, <2>8 DEF Reserve
  <2>9. CASE VerifyStart \/ VerifyCompleted \/ VerifyLen \/ VerifyActive
    <3>1. UNCHANGED verifyFrame
      BY <2>9 DEF VerifyStart, VerifyCompleted, VerifyLen, VerifyRead, VerifyActive
    <3> QED
      BY <1>2, <3>1 DEF verifyFrame
  <2>10. CASE StampReRoute \/ CountReRoutedOut \/ CountReRoutedIn
    BY <1>2, <2>10 DEF StampReRoute, CountReRoutedOut, CountReRoutedIn, passFrame
  <2>11. CASE CountExecuted
    BY <1>1, <1>2, <1>6, <2>11 DEF CountExecuted
  <2> QED
    BY <1>8, <2>1, <2>2, <2>3, <2>4, <2>5, <2>6, <2>7, <2>8, <2>9, <2>10, <2>11
       DEF Monitor, MovingStep
<1> QED
  BY <1>3, <1>4, <1>5, <1>8 DEF Next

(***************************************************************************)
(* The invariant holds at the start and after every step.                  *)
(***************************************************************************)
LEMMA HomeOfScheduled ==
  ASSUME NEW s \in Stores, NEW o \in Range(Schedule[s])
  PROVE  o \in Orders /\ Home[o] = s
<1>1. Schedule[s] \in Seq(Orders)
  BY ScheduleAssumption
<1>2. o \in Orders
  BY <1>1 DEF Range
<1>3. \A t \in Stores : o \in Range(Schedule[t]) => t = s
  BY ScheduleAssumption
<1> QED
  BY <1>2, <1>3 DEF Home

LEMMA InitialLocations ==
  ASSUME Init, NEW o \in Orders
  PROVE  Locations(o) = {<<"schedule", Home[o]>>}
<1>1. PICK s \in Stores : o \in Range(Schedule[s])
  BY ScheduleAssumption
<1>2. Home[o] = s
  BY <1>1, HomeOfScheduled
<1>3. ScheduledAt(o) = {s}
  BY <1>1, ScheduleAssumption DEF Init, ScheduledAt
<1>4. QueuedAt(o) = {}
  <2>1. Range(<<>>) = {}
    BY DEF Range
  <2> QED
    BY <2>1 DEF Init, QueuedAt
<1>5. HandsWith(o) = {} /\ held # o /\ ~IsMerged(o)
  BY NoOrderAssumption DEF Init, HandsWith, IsMerged
<1>6. ~IsCompleted(o)
  BY DEF Init, IsCompleted
<1> QED
  BY <1>2, <1>3, <1>4, <1>5, <1>6, LocationsByKind

LEMMA PlacementInit == Init => Placement
<1> SUFFICES ASSUME Init PROVE Placement
  OBVIOUS
<1>1. OnePlace
  BY InitialLocations DEF OnePlace
<1>2. NoDuplicates
  <2>1. IsInjective(<<>>)
    BY DEF IsInjective
  <2> QED
    BY <2>1, ScheduleAssumption DEF Init, NoDuplicates
<1>3. ScheduledAtHome
  BY HomeOfScheduled DEF Init, ScheduledAtHome
<1>4. FinishedIsMarked
  BY DEF Init, FinishedIsMarked
<1>5. PerishablesStayHome
  <2>1. Range(<<>>) = {}
    BY DEF Range
  <2> QED
    BY <2>1, NoOrderAssumption, OrderKindsAssumption DEF Init, PerishablesStayHome
<1> QED
  BY <1>1, <1>2, <1>3, <1>4, <1>5 DEF Placement

(* What a step that puts an order back changes.                            *)
LEMMA PutBackSteps ==
  ASSUME TypedControl, PushBack \/ HandOver
  PROVE  /\ held # NoOrder /\ held' = NoOrder
         /\ \E s \in Stores : queue' = [queue EXCEPT ![s] = Append(@, held)]
         /\ UNCHANGED <<schedule, hand, mergedInto, status, pickerPc>>
<1> USE DEF dispatchVars, orderVars, pickerVars, monitorFrame
<1>1. current \in Stores
  BY DEF TypedControl, TypeOK
<1>2. CASE PushBack
  BY <1>1, <1>2 DEF PushBack, StoreDone, TypedControl, Control, MonitorControl, HoldingPcs
<1>3. CASE HandOver
  BY <1>3 DEF HandOver, passFrame, TypedControl, Control, MonitorControl, HoldingPcs
<1> QED
  BY <1>2, <1>3

LEMMA MergeStepFrame ==
  ASSUME TypedControl, MergeStep
  PROVE  held = NoOrder /\ held' = NoOrder /\ UNCHANGED <<schedule, hand, status, pickerPc>>
BY DEF TypedControl, Control, MonitorControl, HoldingPcs, StoreDone, MergeStep, GroupCartStep,
       monitorFrame, dispatchVars, pickerVars

LEMMA PlacementStep == TypedControl /\ Placement /\ [Next]_vars => Placement'
<1> SUFFICES ASSUME TypedControl, Placement, [Next]_vars PROVE Placement'
  OBVIOUS
<1>1. CASE ~MovingStep
  BY <1>1, OtherStepsStay, NothingMoves
<1>2. ASSUME NEW s \in Stores, EnqueueArrival(s) PROVE Placement'
  BY <1>2, EnqueueMoves
<1>3. ASSUME NEW p \in Pickers, Pop(p) \/ PickerWork(p) PROVE Placement'
  BY <1>3, PopMoves, MarkingMoves, CompletedMoves DEF PickerWork
<1>4. CASE Extract
  BY <1>4, ExtractMoves, FruitlessExtractMoves
<1>5. CASE PushBack \/ HandOver
  BY <1>5, PutBackSteps, PutBackMoves
<1>6. CASE MergeStep
  BY <1>6, MergeStepFrame, MergeMoves DEF MergeStep
<1> QED
  BY <1>1, <1>2, <1>3, <1>4, <1>5, <1>6 DEF MovingStep

THEOREM OrdersArePlaced == Spec => [](TypedControl /\ Placement)
<1>1. Init => TypedControl /\ Placement
  BY TypedControlInit, PlacementInit
<1>2. TypedControl /\ Placement /\ [Next]_vars => (TypedControl /\ Placement)'
  BY TypedControlStep, PlacementStep
<1> QED
  BY <1>1, <1>2, PTL DEF Spec

(***************************************************************************)
(* No order is lost and none is in two places, although its pointer passes *)
(* between goroutines through separate critical sections.                  *)
(***************************************************************************)
THEOREM OrdersNeverLost == Spec => []NoOrderLostOrDuplicated
<1>1. Placement => NoOrderLostOrDuplicated
  BY PlaceOfFinds DEF Placement, OnePlace, NoDuplicates, NoOrderLostOrDuplicated
<1> QED
  BY <1>1, OrdersArePlaced, PTL

(***************************************************************************)
(* Extraction never takes a perishable order (queue.go:59), so one leaves  *)
(* the store it was placed at only inside a primary that is not perishable *)
(* (ConsolidateOrdersByCart, queue.go:83).                                 *)
(***************************************************************************)
THEOREM PerishablesNeverLeaveAlone == Spec => []PerishablesLeaveOnlyMerged
<1>1. ASSUME Placement PROVE PerishablesLeaveOnlyMerged
  <2> SUFFICES ASSUME NEW c \in Perishable
               PROVE  held # c /\ ~AwayFromHome(c)
    BY DEF PerishablesLeaveOnlyMerged
  <2> QED
    BY <1>1 DEF Placement, PerishablesStayHome, AwayFromHome
<1> QED
  BY <1>1, OrdersArePlaced, PTL

(***************************************************************************)
(* The refinement, step by step: each moving step of the engine is one     *)
(* action of OrderLifecycle, every other step a stutter.                   *)
(***************************************************************************)
LEMMA OneMove ==
  ASSUME Placement, NEW x \in Orders, NEW from, NEW d,
         Locations(x) = {from}, Moves({x}, d)
  PROVE  Lifecycle!Move(x, from, d)
<1>1. PlaceOf(x) = from
  BY PlaceOfFinds
<1>2. \A o \in Orders : PlaceOf(o)' = IF o \in {x} THEN d ELSE PlaceOf(o)
  BY MovedPlaces DEF Placement
<1> QED
  BY <1>1, <1>2 DEF Lifecycle!Move

LEMMA PlacedInHands ==
  ASSUME TypedControl, Placement, NEW o \in Orders
  PROVE  /\ \A p \in Pickers : PlaceOf(o) = <<"picker", p>> => hand[p] = o
         /\ PlaceOf(o) = <<"engine">> => held = o
         /\ \A s \in Stores : PlaceOf(o) = <<"queue", s>> => o \in Range(queue[s])
<1>1. PlaceOf(o) \in Locations(o)
  BY PlaceOfFinds DEF Placement, OnePlace
<1>2. \A p \in Pickers : <<"picker", p>> \in Locations(o) => hand[p] = o
  BY LocationsByKind, KindsDistinct DEF HandsWith
<1>3. <<"engine">> \in Locations(o) => held = o
  BY LocationsByKind, KindsDistinct
<1>4. \A s \in Stores : <<"queue", s>> \in Locations(o) => o \in Range(queue[s])
  BY LocationsByKind, KindsDistinct DEF QueuedAt
<1> QED
  BY <1>1, <1>2, <1>3, <1>4

LEMMA LifecycleInit == Init => Lifecycle!Init
<1> SUFFICES ASSUME Init PROVE Lifecycle!Init
  OBVIOUS
<1>1. \A o \in Orders : PlaceOf(o) = <<"schedule", Home[o]>>
  BY InitialLocations, PlaceOfFinds
<1> QED
  BY <1>1 DEF Lifecycle!Init, Lifecycle!Scheduled

LEMMA LifecycleMerge ==
  ASSUME Placement, NEW s \in Stores, NEW merged, NEW primary,
         merged # {}, merged \subseteq CartOrders(s),
         primary \in CartOrders(s) \ merged,
         Locations(primary) = {<<"queue", s>>},
         \A o \in merged : Locations(o) = {<<"queue", s>>},
         Moves(merged, <<"merged">>)
  PROVE  Lifecycle!Merge(s)
<1>1. CartOrders(s) \in SUBSET Orders
  BY OrderKindsAssumption DEF CartOrders
<1>2. /\ PlaceOf(primary) = <<"queue", s>>
      /\ \A o \in merged : PlaceOf(o) = <<"queue", s>>
  BY <1>1, PlaceOfFinds
<1>3. \A o \in Orders : PlaceOf(o)' = IF o \in merged THEN <<"merged">> ELSE PlaceOf(o)
  BY MovedPlaces DEF Placement
<1> DEFINE together ==
      {o \in Carted : Home[o] = s /\ [x \in Orders |-> PlaceOf(x)][o] = Lifecycle!Waiting(s)}
<1>4. /\ primary \in together \ merged
      /\ merged \in SUBSET together
  BY <1>1, <1>2 DEF CartOrders, Lifecycle!Waiting
<1>5. [o \in Orders |-> PlaceOf(o)]' =
        [o \in Orders |-> IF o \in merged THEN Lifecycle!Merged
                          ELSE [x \in Orders |-> PlaceOf(x)][o]]
  BY <1>3 DEF Lifecycle!Merged
<1> QED
  BY <1>4, <1>5 DEF Lifecycle!Merge

LEMMA LifecycleStep ==
  TypedControl /\ Placement /\ [Next]_vars => [Lifecycle!Next]_[o \in Orders |-> PlaceOf(o)]
<1> SUFFICES ASSUME TypedControl, Placement, [Next]_vars
             PROVE  Lifecycle!Next \/ UNCHANGED [o \in Orders |-> PlaceOf(o)]
  OBVIOUS
<1>0. ASSUME \A o \in Orders : PlaceOf(o)' = PlaceOf(o)
      PROVE  UNCHANGED [o \in Orders |-> PlaceOf(o)]
  BY <1>0
<1>1. CASE ~MovingStep
  BY <1>0, <1>1, OtherStepsStay, NothingMoves
<1>2. ASSUME NEW s \in Stores, EnqueueArrival(s) PROVE Lifecycle!Next
  <2>1. PICK x \in Orders : /\ Home[x] = s
                            /\ Locations(x) = {<<"schedule", s>>}
                            /\ Moves({x}, <<"queue", s>>)
    BY <1>2, EnqueueMoves
  <2>2. Lifecycle!Arrive(x)
    BY <2>1, OneMove DEF Lifecycle!Arrive, Lifecycle!Scheduled, Lifecycle!Waiting
  <2> QED
    BY <2>2 DEF Lifecycle!Next
<1>3. ASSUME NEW p \in Pickers, Pop(p) PROVE Lifecycle!Next
  <2>1. PICK x \in Orders : /\ hand[p] = NoOrder
                            /\ Locations(x) = {<<"queue", StoreOf[p]>>}
                            /\ Moves({x}, <<"picker", p>>)
    BY <1>3, PopMoves
  <2>2. \A o \in Orders : PlaceOf(o) # <<"picker", p>>
    BY <2>1, PlacedInHands, NoOrderAssumption
  <2>3. Lifecycle!StartPicking(p, x)
    BY <2>1, <2>2, OneMove DEF Lifecycle!StartPicking, Lifecycle!Waiting, Lifecycle!PickedBy
  <2> QED
    BY <2>3 DEF Lifecycle!Next
<1>4. ASSUME NEW p \in Pickers, IncrCompleted(p) PROVE Lifecycle!Next
  <2>1. PICK x \in Orders : Locations(x) = {<<"picker", p>>} /\ Moves({x}, <<"completed">>)
    BY <1>4, CompletedMoves
  <2>2. Lifecycle!Complete(p, x)
    BY <2>1, OneMove DEF Lifecycle!Complete, Lifecycle!PickedBy, Lifecycle!Completed
  <2> QED
    BY <2>2 DEF Lifecycle!Next
<1>5. ASSUME NEW p \in Pickers, IncrPicking(p) \/ DecrPicking(p)
      PROVE  UNCHANGED [o \in Orders |-> PlaceOf(o)]
  BY <1>0, <1>5, MarkingMoves
<1>6. ASSUME Extract, held' # NoOrder PROVE Lifecycle!Next
  <2>1. PICK x \in Orders : /\ held = NoOrder /\ x \notin Perishable
                            /\ Locations(x) = {<<"queue", current>>}
                            /\ Moves({x}, <<"engine">>)
    BY <1>6, ExtractMoves
  <2>2. current \in Stores
    BY DEF TypedControl, TypeOK
  <2>3. \A o \in Orders : PlaceOf(o) # <<"engine">>
    BY <2>1, PlacedInHands, NoOrderAssumption
  <2>4. Lifecycle!Withdraw(x, current)
    BY <2>1, <2>3, OneMove DEF Lifecycle!Withdraw, Lifecycle!Waiting, Lifecycle!Withdrawn
  <2> QED
    BY <2>2, <2>4 DEF Lifecycle!Next
<1>7. ASSUME Extract, held' = NoOrder PROVE UNCHANGED [o \in Orders |-> PlaceOf(o)]
  BY <1>0, <1>7, FruitlessExtractMoves
<1>8. ASSUME PushBack \/ HandOver PROVE Lifecycle!Next
  <2>1. PICK s : /\ held # NoOrder /\ held' = NoOrder
                 /\ queue' = [queue EXCEPT ![s] = Append(@, held)]
                 /\ UNCHANGED <<schedule, hand, mergedInto, status, pickerPc>>
                 /\ s \in Stores
    BY <1>8, PutBackSteps
  <2>2. /\ held \in Orders /\ Locations(held) = {<<"engine">>}
        /\ Moves({held}, <<"queue", s>>)
    BY <2>1, PutBackMoves
  <2>3. Lifecycle!PutBack(held, s)
    BY <2>2, OneMove DEF Lifecycle!PutBack, Lifecycle!Withdrawn, Lifecycle!Waiting
  <2> QED
    BY <2>1, <2>2, <2>3 DEF Lifecycle!Next
<1>9. ASSUME MergeStep PROVE Lifecycle!Next
  <2>1. current \in Stores
    BY DEF TypedControl, TypeOK
  <2>2. PICK primary, merged :
          /\ merged # {} /\ merged \subseteq CartOrders(current)
          /\ primary \in CartOrders(current) \ merged
          /\ Locations(primary) = {<<"queue", current>>}
          /\ \A o \in merged : Locations(o) = {<<"queue", current>>}
          /\ Moves(merged, <<"merged">>)
    BY <1>9, MergeStepFrame, MergeMoves DEF MergeStep
  <2>3. Lifecycle!Merge(current)
    BY <2>1, <2>2, LifecycleMerge
  <2> QED
    BY <2>1, <2>3 DEF Lifecycle!Next
<1> QED
  BY <1>1, <1>2, <1>3, <1>4, <1>5, <1>6, <1>7, <1>8, <1>9 DEF MovingStep, PickerWork

(***************************************************************************)
(* The engine keeps the safety part of its contract: whatever the          *)
(* interleaving, an order moves only as OrderLifecycle says.  That it does *)
(* not stay in a picker's or the engine's hands is a liveness property and *)
(* is model-checked (ImplementsLifecycle).                                 *)
(***************************************************************************)
THEOREM EngineImplementsLifecycle == Spec => Lifecycle!Safety
<1>1. Init => Lifecycle!Init
  BY LifecycleInit
<1>2. TypedControl /\ Placement /\ [Next]_vars
        => [Lifecycle!Next]_[o \in Orders |-> PlaceOf(o)]
  BY LifecycleStep
<1> QED
  BY <1>1, <1>2, OrdersArePlaced, PTL DEF Spec, Lifecycle!Safety

-----------------------------------------------------------------------------
(***************************************************************************)
(* Counting.  What the engine's summary counts: an evaluation begins, ends *)
(* with one outcome that is neither a merge nor a re-route, re-routes, or  *)
(* merges; every other step leaves the summary alone.                      *)
(***************************************************************************)
QuietOutcomes == Outcomes \ {"BatchingNudge", "Executed"}

BeginEvaluation ==
  /\ ~Evaluating /\ Evaluating'
  /\ summary' = [summary EXCEPT !["TotalEvaluations"] = @ + 1]

EndEvaluation(outcome) == Evaluating /\ ~Evaluating' /\ Report(outcome)

SummaryStep ==
  \/ /\ Evaluating' <=> Evaluating
     /\ UNCHANGED summary
  \/ BeginEvaluation
  \/ \E c \in QuietOutcomes : EndEvaluation(c)

MergesStay == UNCHANGED <<mergedInto, consolidatedCount>>

ReRoutesStay == UNCHANGED <<reRoutedIn, reRoutedOut>>

(* A re-route the stores have counted and the summary has not.             *)
CountingPcs == {"countIn", "handOver", "countExecuted"}
LeftUncounted == IF monitorPc \in CountingPcs THEN 1 ELSE 0
EnteredUncounted == IF monitorPc \in {"handOver", "countExecuted"} THEN 1 ELSE 0

LEMMA UncountedStays ==
  ASSUME [Next]_vars, ~CountReRoutedOut, ~CountReRoutedIn, ~CountExecuted
  PROVE  LeftUncounted' = LeftUncounted /\ EnteredUncounted' = EnteredUncounted
<1> DEFINE Quiet == monitorPc' = monitorPc \/ {monitorPc, monitorPc'} \cap CountingPcs = {}
<1> USE DEF CountingPcs
<1>1. ASSUME NEW s \in Stores, Dispatcher(s) PROVE Quiet
  BY <1>1 DEF Dispatcher, EnqueueArrival, CountArrival
<1>2. ASSUME NEW p \in Pickers, Picker(p) PROVE Quiet
  BY <1>2 DEF Picker, PickerWork, Pop, IncrPicking, DecrPicking, IncrCompleted, PickerExit
<1>3. CASE Main \/ Terminated \/ UNCHANGED vars
  <2>1. Quiet
    BY <1>3 DEF Main, BeginShutdown, StoreStopped, FinishRun, Terminated, vars
  <2> QED
    BY <2>1 DEF LeftUncounted, EnteredUncounted
<1>4. NoActionOrScan => monitorPc' \in {"queueLen", "verify", "idle", "scanLen"}
  BY ScanOnlyWhenOpen
<1>5. Tick \/ MonitorExit \/ MonitorReadLen \/ RecheckLen \/ ScanLen => Quiet
  BY DEF Tick, MonitorExit, MonitorReadLen, RecheckLen, ScanLen, ReadQueueLen
<1>6. MonitorReadActive \/ ScanActive \/ CostGate \/ Extract \/ PushBack => Quiet
  BY StoreDoneLeavesEvaluation DEF MonitorReadActive, ScanActive, CostGate, Extract, PushBack
<1>7. RecheckActive => Quiet
  BY <1>4, StoreDoneLeavesEvaluation DEF RecheckActive
<1>8. ASSUME NEW cartActive \in BOOLEAN, GroupCartStep(cartActive) PROVE Quiet
  BY <1>4, <1>8, StoreDoneLeavesEvaluation DEF GroupCartStep
<1>9. Reserve \/ StampReRoute => Quiet
  BY DEF Reserve, StampReRoute
<1>10. VerifyStart \/ VerifyCompleted \/ VerifyLen \/ VerifyActive => Quiet
  BY DEF VerifyStart, VerifyCompleted, VerifyLen, VerifyRead, VerifyActive
<1>11. Monitor => Quiet \/ HandOver
  BY <1>5, <1>6, <1>7, <1>8, <1>9, <1>10 DEF Monitor
<1>12. Quiet => LeftUncounted' = LeftUncounted /\ EnteredUncounted' = EnteredUncounted
  BY DEF LeftUncounted, EnteredUncounted
<1>13. HandOver => LeftUncounted' = LeftUncounted /\ EnteredUncounted' = EnteredUncounted
  BY DEF HandOver, LeftUncounted, EnteredUncounted
<1> QED
  BY <1>1, <1>2, <1>3, <1>11, <1>12, <1>13 DEF Next

LEMMA StoreDoneEnds == StoreDone => ~Evaluating'
  BY DEF StoreDone, Evaluating

LEMMA NoActionOrScanSummary ==
  ASSUME Evaluating, NoActionOrScan
  PROVE  \/ Evaluating' /\ UNCHANGED summary
         \/ EndEvaluation("NoAction")
<1>1. CASE Report("NoAction") /\ StoreDone
  BY <1>1, StoreDoneEnds DEF EndEvaluation
<1>2. CASE ~(Report("NoAction") /\ StoreDone)
  BY <1>2 DEF NoActionOrScan, Evaluating
<1> QED
  BY <1>1, <1>2

LEMMA SummarySteps ==
  ASSUME TypedControl, [Next]_vars
  PROVE  \/ SummaryStep /\ MergesStay /\ ReRoutesStay
         \/ MergeStep
         \/ CountReRoutedOut \/ CountReRoutedIn \/ CountExecuted
<1> USE DEF dispatchVars, orderVars, pickerVars, loopVars, engineVars, verifyVars,
            monitorFrame, MergesStay, ReRoutesStay
<1> DEFINE Goal == SummaryStep /\ MergesStay /\ ReRoutesStay
<1>1. ASSUME UNCHANGED <<summary, monitorPc>> PROVE SummaryStep
  BY <1>1 DEF SummaryStep, Evaluating
<1>2. ASSUME UNCHANGED summary, Evaluating' <=> Evaluating PROVE SummaryStep
  BY <1>2 DEF SummaryStep
<1>3. ASSUME NEW c \in QuietOutcomes, Evaluating, StoreDone, Report(c) PROVE SummaryStep
  BY <1>3, StoreDoneEnds DEF SummaryStep, EndEvaluation
<1>4. ASSUME Evaluating, NoActionOrScan PROVE SummaryStep
  BY <1>4, NoActionOrScanSummary DEF SummaryStep, QuietOutcomes, Outcomes
<1>5. CASE \E s \in Stores : Dispatcher(s)
  BY <1>1, <1>5 DEF Dispatcher, EnqueueArrival, CountArrival
<1>6. CASE \E p \in Pickers : Picker(p)
  BY <1>1, <1>6 DEF Picker, PickerWork, Pop, IncrPicking, DecrPicking, IncrCompleted, PickerExit
<1>7. CASE Main \/ Terminated \/ UNCHANGED vars
  BY <1>1, <1>7 DEF Main, BeginShutdown, StoreStopped, FinishRun, mainFrame, Terminated, vars
<1>8. CASE Monitor
  <2>1. CASE Tick \/ MonitorExit
    BY <1>2, <2>1 DEF Tick, MonitorExit, mainFrame, Evaluating
  <2>2. CASE MonitorReadLen \/ RecheckLen \/ ScanLen
    BY <1>2, <2>2 DEF MonitorReadLen, RecheckLen, ScanLen, ReadQueueLen, Evaluating
  <2>3. CASE MonitorReadActive
    <3>1. SummaryStep
      <4>1. CASE Overloaded(seenLen + activePicking[current])
        BY <2>3, <4>1 DEF MonitorReadActive, SummaryStep, BeginEvaluation, Evaluating
      <4>2. CASE ~Overloaded(seenLen + activePicking[current])
        <5>1. ~Evaluating /\ ~Evaluating' /\ UNCHANGED summary
          BY <2>3, <4>2, StoreDoneEnds DEF MonitorReadActive, Evaluating
        <5> QED
          BY <1>2, <5>1
      <4> QED
        BY <4>1, <4>2
    <3> QED
      BY <2>3, <3>1 DEF MonitorReadActive
  <2>4. CASE RecheckActive
    <3>1. Evaluating
      BY <2>4 DEF RecheckActive, Evaluating
    <3>2. CASE Report("NoAction") /\ StoreDone
      BY <1>3, <2>4, <3>1, <3>2 DEF RecheckActive, QuietOutcomes, Outcomes
    <3>3. CASE NoActionOrScan
      BY <1>4, <2>4, <3>1, <3>3 DEF RecheckActive
    <3>4. CASE monitorPc' = "groupCart" /\ UNCHANGED summary
      <4>1. Evaluating'
        BY <3>4 DEF Evaluating
      <4> QED
        BY <1>2, <2>4, <3>1, <3>4, <4>1 DEF RecheckActive
    <3> QED
      BY <2>4, <3>2, <3>3, <3>4 DEF RecheckActive
  <2>5. ASSUME NEW cartActive \in BOOLEAN, GroupCartStep(cartActive), ~MergeStep
        PROVE  Goal
    <3>1. Evaluating
      BY <2>5 DEF GroupCartStep, Evaluating
    <3>2. NoActionOrScan /\ UNCHANGED <<orderVars, reRoutedIn, reRoutedOut>>
      BY <2>5 DEF GroupCartStep, MergeStep
    <3> QED
      BY <1>4, <3>1, <3>2
  <2>6. CASE ScanActive
    <3>1. Evaluating
      BY <2>6 DEF ScanActive, Evaluating
    <3>2. CASE Report("NoAction") /\ StoreDone
      BY <1>3, <2>6, <3>1, <3>2 DEF ScanActive, QuietOutcomes, Outcomes
    <3>3. CASE monitorPc' \in {"gate", "scanLen"} /\ UNCHANGED summary
      <4>1. Evaluating'
        BY <3>3 DEF Evaluating
      <4> QED
        BY <1>2, <2>6, <3>1, <3>3, <4>1 DEF ScanActive
    <3> QED
      BY <2>6, <3>2, <3>3 DEF ScanActive
  <2>7. CASE CostGate
    <3>1. Evaluating
      BY <2>7 DEF CostGate, Evaluating
    <3>2. CASE Report("RejectedOnCost") /\ StoreDone
      BY <1>3, <2>7, <3>1, <3>2 DEF CostGate, QuietOutcomes, Outcomes
    <3>3. CASE monitorPc' = "extract" /\ UNCHANGED summary
      <4>1. Evaluating'
        BY <3>3 DEF Evaluating
      <4> QED
        BY <1>2, <2>7, <3>1, <3>3, <4>1 DEF CostGate
    <3> QED
      BY <2>7, <3>2, <3>3 DEF CostGate
  <2>8. CASE Extract
    <3>1. Evaluating
      BY <2>8 DEF Extract, Evaluating
    <3>2. CASE Report("NoAction") /\ StoreDone
      BY <1>3, <2>8, <3>1, <3>2 DEF Extract, QuietOutcomes, Outcomes
    <3>3. CASE monitorPc' = "reserve" /\ UNCHANGED summary
      <4>1. Evaluating'
        BY <3>3 DEF Evaluating
      <4> QED
        BY <1>2, <2>8, <3>1, <3>3, <4>1 DEF Extract
    <3> QED
      BY <2>8, <3>2, <3>3 DEF Extract
  <2>9. CASE Reserve
    BY <1>2, <2>9 DEF Reserve, Evaluating
  <2>10. CASE PushBack
    <3>1. Evaluating
      BY <2>10 DEF PushBack, Evaluating
    <3> QED
      BY <1>3, <2>10, <3>1 DEF PushBack, QuietOutcomes, Outcomes
  <2>11. CASE VerifyStart \/ VerifyCompleted \/ VerifyLen \/ VerifyActive
    BY <1>2, <2>11 DEF VerifyStart, VerifyCompleted, VerifyLen, VerifyRead, VerifyActive,
                       verifyFrame, Evaluating
  <2>12. CASE StampReRoute \/ HandOver
    <3>1. UNCHANGED <<summary, orderVars, reRoutedIn, reRoutedOut>> /\ Evaluating /\ Evaluating'
      BY <2>12 DEF StampReRoute, HandOver, passFrame, Evaluating
    <3> QED
      BY <1>2, <3>1
  <2> QED
    BY <1>8, <2>1, <2>2, <2>3, <2>4, <2>5, <2>6, <2>7, <2>8, <2>9, <2>10, <2>11, <2>12
       DEF Monitor
<1> QED
  BY <1>5, <1>6, <1>7, <1>8 DEF Next

(***************************************************************************)
(* The outcomes of the evaluations.                                        *)
(***************************************************************************)
LEMMA OutcomesFinite == IsFiniteSet(Outcomes)
<1> DEFINE counted == {"NoAction", "BatchingNudge", "RejectedOnCost", "Executed"}
<1>1. IsFiniteSet({"NoAction"})
  BY FS_Singleton
<1>2. IsFiniteSet({"NoAction", "BatchingNudge"})
  BY <1>1, FS_AddElement, {"NoAction", "BatchingNudge"} = {"NoAction"} \cup {"BatchingNudge"}
<1>3. IsFiniteSet({"NoAction", "BatchingNudge", "RejectedOnCost"})
  BY <1>2, FS_AddElement,
     {"NoAction", "BatchingNudge", "RejectedOnCost"}
       = {"NoAction", "BatchingNudge"} \cup {"RejectedOnCost"}
<1>4. IsFiniteSet(counted)
  BY <1>3, FS_AddElement,
     counted = {"NoAction", "BatchingNudge", "RejectedOnCost"} \cup {"Executed"}
<1>5. Outcomes = counted \cup {"FailedNoStock"}
  BY DEF Outcomes
<1> QED
  BY <1>4, <1>5, FS_AddElement

OutcomeCounts == [c \in Outcomes |-> summary[c]]

LEMMA OutcomeSumType ==
  ASSUME TypedControl
  PROVE  SumFunction(OutcomeCounts) \in Int
<1>1. DOMAIN OutcomeCounts = Outcomes /\ \A c \in Outcomes : OutcomeCounts[c] \in Int
  <2>1. summary \in [Summary -> Nat] /\ \A d \in Outcomes : d \in Summary
    BY DEF TypedControl, TypeOK, Summary
  <2> QED
    BY <2>1 DEF OutcomeCounts
<1> QED
  BY <1>1, OutcomesFinite, SumType, SumOfFunction

(* One more outcome is one more in their sum.                              *)
LEMMA OneMoreOutcome ==
  ASSUME TypedControl, NEW c \in Outcomes, summary'[c] = summary[c] + 1,
         \A d \in Outcomes \ {c} : summary'[d] = summary[d]
  PROVE  SumFunction(OutcomeCounts)' = SumFunction(OutcomeCounts) + 1
<1>1. \A d \in Outcomes : summary[d] \in Int
  <2>1. summary \in [Summary -> Nat] /\ \A d \in Outcomes : d \in Summary
    BY DEF TypedControl, TypeOK, Summary
  <2> QED
    BY <2>1
<1>2. PICK f : f = OutcomeCounts
  OBVIOUS
<1>3. PICK e : e = OutcomeCounts'
  OBVIOUS
<1>4. /\ DOMAIN f = Outcomes /\ \A d \in Outcomes : f[d] = summary[d]
      /\ DOMAIN e = Outcomes /\ \A d \in Outcomes : e[d] = summary'[d]
  BY <1>2, <1>3 DEF OutcomeCounts
<1>5. /\ \A d \in Outcomes : f[d] \in Int /\ e[d] \in Int
      /\ \A d \in Outcomes \ {c} : e[d] = f[d]
      /\ e[c] = f[c] + 1
  BY <1>1, <1>4
<1>6. SumFunctionOnSet(e, Outcomes) = SumFunctionOnSet(f, Outcomes) + e[c] - f[c]
  BY <1>5, OutcomesFinite, SumChange
<1>7. SumFunctionOnSet(f, Outcomes) \in Int
  BY <1>5, OutcomesFinite, SumType
<1>8. SumFunctionOnSet(e, Outcomes) = SumFunctionOnSet(f, Outcomes) + 1
  BY <1>5, <1>6, <1>7
<1>9. SumFunction(f) = SumFunctionOnSet(f, Outcomes) /\ SumFunction(e) = SumFunctionOnSet(e, Outcomes)
  BY <1>4, SumOfFunction
<1> QED
  BY <1>2, <1>3, <1>8, <1>9

LEMMA ChangeAtStore ==
  ASSUME NEW f, DOMAIN f = Stores, \A t \in Stores : f[t] \in Int,
         NEW s \in Stores, NEW d \in Int,
         NEW e, DOMAIN e = Stores, \A t \in Stores \ {s} : e[t] = f[t], e[s] = f[s] + d
  PROVE  SumFunction(e) = SumFunction(f) + d /\ SumFunction(f) \in Int
<1>1. \A t \in Stores : e[t] \in Int
  OBVIOUS
<1>2. SumFunctionOnSet(e, Stores) = SumFunctionOnSet(f, Stores) + e[s] - f[s]
  <2>1. IsFiniteSet(Stores)
    BY StoresFinite
  <2> QED
    BY <1>1, <2>1, SumChange
<1>3. SumFunctionOnSet(f, Stores) \in Int
  BY StoresFinite, SumType
<1>4. SumFunction(f) = SumFunctionOnSet(f, Stores) /\ SumFunction(e) = SumFunctionOnSet(e, Stores)
  BY SumOfFunction
<1> QED
  BY <1>2, <1>3, <1>4

OutcomesCounted == TypedControl /\ OutcomesExclusive

LEMMA OutcomesInit == Init => OutcomesExclusive
<1> SUFFICES ASSUME Init PROVE OutcomesExclusive
  OBVIOUS
<1>1. ~Evaluating
  BY DEF Init, Evaluating
<1>2. SumFunction(OutcomeCounts) = 0
  <2>1. DOMAIN OutcomeCounts = Outcomes /\ \A c \in Outcomes : OutcomeCounts[c] = 0
    BY DEF OutcomeCounts, Init, Summary
  <2> QED
    BY <2>1, OutcomesFinite, SumOfNothing, SumOfFunction
<1>3. \A f \in {reRoutedIn, reRoutedOut} : SumFunction(f) = 0
  <2>1. ASSUME NEW f \in {reRoutedIn, reRoutedOut} PROVE SumFunction(f) = 0
    <3>1. DOMAIN f = Stores /\ \A s \in Stores : f[s] = 0
      BY DEF Init
    <3> QED
      BY <3>1, StoresFinite, SumOfNothing, SumOfFunction
  <2> QED
    BY <2>1
<1>4. summary["TotalEvaluations"] = 0 /\ summary["Executed"] = 0 /\ monitorPc = "idle"
  BY DEF Init, Summary, Outcomes
<1> QED
  BY <1>1, <1>2, <1>3, <1>4 DEF OutcomesExclusive, OutcomeCounts

(* An evaluation that ends with outcome c.                                 *)
LEMMA OutcomeCounted ==
  ASSUME TypedControl, OutcomesExclusive, Evaluating, ~Evaluating',
         NEW c \in Outcomes, summary'[c] = summary[c] + 1,
         \A d \in (Outcomes \cup {"TotalEvaluations"}) \ {c} : summary'[d] = summary[d]
  PROVE  summary'["TotalEvaluations"] = SumFunction(OutcomeCounts)' + (IF Evaluating' THEN 1 ELSE 0)
<1>1. SumFunction(OutcomeCounts)' = SumFunction(OutcomeCounts) + 1
  BY OneMoreOutcome
<1>2. summary'["TotalEvaluations"] = summary["TotalEvaluations"]
  BY DEF Outcomes
<1>3. summary["TotalEvaluations"] = SumFunction(OutcomeCounts) + 1
  BY DEF OutcomesExclusive, OutcomeCounts
<1>4. summary["TotalEvaluations"] \in Nat
  BY DEF TypedControl, TypeOK, Summary
<1> QED
  BY <1>1, <1>2, <1>3, <1>4

LEMMA OutcomesStep == TypedControl /\ OutcomesExclusive /\ [Next]_vars => OutcomesExclusive'
<1> SUFFICES ASSUME TypedControl, OutcomesExclusive, [Next]_vars PROVE OutcomesExclusive'
  OBVIOUS
<1>0. /\ summary \in [Summary -> Nat]
      /\ {"TotalEvaluations", "TotalOrdersMerged"} \cap Outcomes = {}
      /\ Outcomes \cup {"TotalEvaluations", "TotalOrdersMerged"} \subseteq Summary
      /\ {"BatchingNudge", "Executed"} \subseteq Outcomes
  BY DEF TypedControl, TypeOK, Summary, Outcomes
<1>1. /\ summary["TotalEvaluations"] = SumFunction(OutcomeCounts) + (IF Evaluating THEN 1 ELSE 0)
      /\ summary["Executed"] + LeftUncounted = SumFunction(reRoutedOut)
      /\ summary["Executed"] + EnteredUncounted = SumFunction(reRoutedIn)
  BY DEF OutcomesExclusive, OutcomeCounts, LeftUncounted, EnteredUncounted, CountingPcs
<1>2. ASSUME /\ summary'["TotalEvaluations"]
                  = SumFunction(OutcomeCounts)' + (IF Evaluating' THEN 1 ELSE 0)
             /\ summary'["Executed"] + LeftUncounted' = SumFunction(reRoutedOut')
             /\ summary'["Executed"] + EnteredUncounted' = SumFunction(reRoutedIn')
      PROVE  OutcomesExclusive'
  BY <1>2 DEF OutcomesExclusive, OutcomeCounts, LeftUncounted, EnteredUncounted, CountingPcs
<1>3. CASE /\ SummaryStep /\ ReRoutesStay
           /\ LeftUncounted' = LeftUncounted /\ EnteredUncounted' = EnteredUncounted
  <2>1. CASE (Evaluating' <=> Evaluating) /\ UNCHANGED summary
    BY <1>1, <1>2, <1>3, <2>1 DEF ReRoutesStay, OutcomeCounts
  <2>2. CASE BeginEvaluation
    <3>1. /\ summary'["TotalEvaluations"] = summary["TotalEvaluations"] + 1
          /\ summary'["Executed"] = summary["Executed"]
          /\ \A c \in Outcomes : summary'[c] = summary[c]
      BY <1>0, <2>2 DEF BeginEvaluation
    <3>2. OutcomeCounts' = OutcomeCounts
      BY <3>1 DEF OutcomeCounts
    <3>3. summary["TotalEvaluations"] \in Nat
      BY <1>0
    <3>4. ~Evaluating /\ Evaluating' /\ UNCHANGED <<reRoutedIn, reRoutedOut>>
      BY <1>3, <2>2 DEF ReRoutesStay, BeginEvaluation
    <3>5. summary'["TotalEvaluations"] = SumFunction(OutcomeCounts)' + (IF Evaluating' THEN 1 ELSE 0)
      <4>1. SumFunction(OutcomeCounts)' = SumFunction(OutcomeCounts)
        BY <3>2
      <4>2. summary["TotalEvaluations"] = SumFunction(OutcomeCounts)
        BY <1>1, <3>3, <3>4, OutcomeSumType
      <4> QED
        BY <3>1, <3>4, <4>1, <4>2
    <3>6. /\ summary'["Executed"] + LeftUncounted' = SumFunction(reRoutedOut')
          /\ summary'["Executed"] + EnteredUncounted' = SumFunction(reRoutedIn')
      <4>1. reRoutedOut' = reRoutedOut /\ reRoutedIn' = reRoutedIn
        BY <3>4
      <4> QED
        BY <1>1, <1>3, <3>1, <4>1
    <3> QED
      BY <1>2, <3>5, <3>6
  <2>3. ASSUME NEW c \in QuietOutcomes, EndEvaluation(c) PROVE OutcomesExclusive'
    <3>1. /\ c \in Outcomes /\ c # "Executed"
          /\ summary'[c] = summary[c] + 1
          /\ \A d \in (Outcomes \cup {"TotalEvaluations"}) \ {c} : summary'[d] = summary[d]
          /\ summary'["Executed"] = summary["Executed"]
      BY <1>0, <2>3 DEF QuietOutcomes, EndEvaluation, Report
    <3>2. summary'["TotalEvaluations"] = SumFunction(OutcomeCounts)' + (IF Evaluating' THEN 1 ELSE 0)
      BY <2>3, <3>1, OutcomeCounted DEF EndEvaluation
    <3> QED
      BY <1>1, <1>2, <1>3, <3>1, <3>2 DEF ReRoutesStay
  <2> QED
    BY <1>3, <2>1, <2>2, <2>3 DEF SummaryStep
<1>4. CASE MergeStep
  <2> DEFINE n == Cardinality(MatchIndices(queue[current], Mergeable(current)))
  <2>1. /\ Evaluating /\ ~Evaluating' /\ UNCHANGED <<reRoutedIn, reRoutedOut>>
        /\ summary' = [summary EXCEPT !["BatchingNudge"] = @ + 1, !["TotalOrdersMerged"] = @ + n]
        /\ LeftUncounted' = LeftUncounted /\ EnteredUncounted' = EnteredUncounted
    BY <1>4, StoreDoneEnds, StoreDoneLeavesEvaluation
       DEF MergeStep, GroupCartStep, Consolidate, Evaluating, LeftUncounted, EnteredUncounted,
           CountingPcs
  <2> HIDE DEF n
  <2>2. /\ summary'["BatchingNudge"] = summary["BatchingNudge"] + 1
        /\ \A d \in (Outcomes \cup {"TotalEvaluations"}) \ {"BatchingNudge"} :
             summary'[d] = summary[d]
        /\ summary'["Executed"] = summary["Executed"]
    BY <1>0, <2>1
  <2>3. summary'["TotalEvaluations"] = SumFunction(OutcomeCounts)' + (IF Evaluating' THEN 1 ELSE 0)
    BY <1>0, <2>1, <2>2, OutcomeCounted
  <2> QED
    BY <1>1, <1>2, <2>1, <2>2, <2>3
<1>5. /\ current \in Stores
      /\ reRoutedOut \in [Stores -> Nat] /\ reRoutedIn \in [Stores -> Nat]
      /\ summary["Executed"] \in Nat
  BY <1>0 DEF TypedControl, TypeOK
<1>6. CASE CountReRoutedOut
  <2>1. /\ Evaluating /\ Evaluating' /\ UNCHANGED <<summary, reRoutedIn>>
        /\ reRoutedOut' = [reRoutedOut EXCEPT ![current] = reRoutedOut[current] + 1]
        /\ LeftUncounted = 0 /\ LeftUncounted' = 1
        /\ EnteredUncounted = 0 /\ EnteredUncounted' = 0
    BY <1>6 DEF CountReRoutedOut, Evaluating, LeftUncounted, EnteredUncounted, CountingPcs
  <2>2. SumFunction(reRoutedOut') = SumFunction(reRoutedOut) + 1
    <3>1. /\ DOMAIN reRoutedOut = Stores /\ DOMAIN reRoutedOut' = Stores
          /\ \A t \in Stores : reRoutedOut[t] \in Int
          /\ \A t \in Stores \ {current} : reRoutedOut'[t] = reRoutedOut[t]
          /\ reRoutedOut'[current] = reRoutedOut[current] + 1
      BY <1>5, <2>1
    <3>2. current \in Stores /\ 1 \in Int
      BY <1>5
    <3> QED
      BY <3>1, <3>2, ChangeAtStore
  <2>3. OutcomeCounts' = OutcomeCounts
    BY <2>1 DEF OutcomeCounts
  <2> QED
    BY <1>1, <1>2, <1>5, <2>1, <2>2, <2>3
<1>7. CASE CountReRoutedIn
  <2>1. /\ Evaluating /\ Evaluating' /\ UNCHANGED <<summary, reRoutedOut>>
        /\ reRoutedIn' = [reRoutedIn EXCEPT ![bestTarget] = reRoutedIn[bestTarget] + 1]
        /\ LeftUncounted = 1 /\ LeftUncounted' = 1
        /\ EnteredUncounted = 0 /\ EnteredUncounted' = 1
        /\ bestTarget \in Stores
    BY <1>7 DEF CountReRoutedIn, Evaluating, LeftUncounted, EnteredUncounted, CountingPcs,
                TypedControl, Control, MonitorControl, HoldingPcs
  <2>2. SumFunction(reRoutedIn') = SumFunction(reRoutedIn) + 1
    <3>1. /\ DOMAIN reRoutedIn = Stores /\ DOMAIN reRoutedIn' = Stores
          /\ \A t \in Stores : reRoutedIn[t] \in Int
          /\ \A t \in Stores \ {bestTarget} : reRoutedIn'[t] = reRoutedIn[t]
          /\ reRoutedIn'[bestTarget] = reRoutedIn[bestTarget] + 1
      BY <1>5, <2>1
    <3>2. bestTarget \in Stores /\ 1 \in Int
      BY <2>1
    <3> QED
      BY <3>1, <3>2, ChangeAtStore
  <2>3. OutcomeCounts' = OutcomeCounts
    BY <2>1 DEF OutcomeCounts
  <2> QED
    BY <1>1, <1>2, <1>5, <2>1, <2>2, <2>3
<1>8. CASE CountExecuted
  <2>1. /\ Evaluating /\ ~Evaluating'
        /\ Report("Executed") /\ UNCHANGED <<reRoutedIn, reRoutedOut>>
        /\ LeftUncounted = 1 /\ LeftUncounted' = 0
        /\ EnteredUncounted = 1 /\ EnteredUncounted' = 0
    BY <1>8, StoreDoneEnds, StoreDoneLeavesEvaluation
       DEF CountExecuted, Evaluating, LeftUncounted, EnteredUncounted, CountingPcs
  <2>2. /\ summary'["Executed"] = summary["Executed"] + 1
        /\ \A d \in (Outcomes \cup {"TotalEvaluations"}) \ {"Executed"} : summary'[d] = summary[d]
    BY <1>0, <2>1 DEF Report
  <2>3. summary'["TotalEvaluations"] = SumFunction(OutcomeCounts)' + (IF Evaluating' THEN 1 ELSE 0)
    BY <1>0, <2>1, <2>2, OutcomeCounted
  <2> QED
    BY <1>1, <1>2, <1>5, <2>1, <2>2, <2>3
<1> QED
  BY <1>3, <1>4, <1>6, <1>7, <1>8, SummarySteps, UncountedStays

(***************************************************************************)
(* Every evaluation that has returned counted exactly one outcome, and     *)
(* every executed re-route is one order out of a store and one into        *)
(* another (decision_engine.go, EvaluateBreach).                           *)
(***************************************************************************)
THEOREM EveryEvaluationCounted == Spec => []OutcomesExclusive
<1>1. Init => OutcomesCounted
  BY TypedControlInit, OutcomesInit DEF OutcomesCounted
<1>2. OutcomesCounted /\ [Next]_vars => OutcomesCounted'
  BY TypedControlStep, OutcomesStep DEF OutcomesCounted
<1>3. OutcomesCounted => OutcomesExclusive
  BY DEF OutcomesCounted
<1> QED
  BY <1>1, <1>2, <1>3, PTL DEF Spec

-----------------------------------------------------------------------------
(***************************************************************************)
(* Merging.  What a merge changes, and the invariant of the merge records: *)
(* an order others were merged into is marked consolidated, so it cannot   *)
(* be matched again (queue.go:77).                                         *)
(***************************************************************************)
AllMerged == {o \in Orders : mergedInto[o] # NoOrder}

PrimariesMarked ==
  \A p \in Orders : MergedOrdersOf(p) # {} => consolidatedCount[p] > 0

MergesInv ==
  /\ \A o \in Orders : mergedInto[o] # NoOrder =>
       LET p == mergedInto[o] IN
       /\ {o, p} \subseteq CartOrders(Home[p])
       /\ mergedInto[p] = NoOrder
  /\ \A p \in Orders : consolidatedCount[p] > 0 =>
       consolidatedCount[p] = 1 + Cardinality(MergedOrdersOf(p))
  /\ PrimariesMarked
  /\ summary["TotalOrdersMerged"] - summary["BatchingNudge"] = Cardinality(AllMerged)

LEMMA MergedFinite ==
  /\ IsFiniteSet(AllMerged) /\ Cardinality(AllMerged) \in Nat
  /\ \A p : IsFiniteSet(MergedOrdersOf(p)) /\ Cardinality(MergedOrdersOf(p)) \in Nat
<1>1. AllMerged \in SUBSET Orders /\ \A p : MergedOrdersOf(p) \in SUBSET Orders
  BY DEF AllMerged, MergedOrdersOf
<1>2. \A T \in SUBSET Orders : IsFiniteSet(T) /\ Cardinality(T) \in Nat
  BY FiniteAssumption, FS_Subset, FS_CardinalityType
<1> QED
  BY <1>1, <1>2

LEMMA MergeChanges ==
  ASSUME TypedControl, Placement, MergeStep
  PROVE  \E s, primary, merged :
           /\ s \in Stores /\ s = current
           /\ merged # {} /\ IsFiniteSet(merged) /\ Cardinality(merged) \in Nat
           /\ merged \subseteq Mergeable(s) /\ primary \in Mergeable(s) \ merged
           /\ merged \subseteq Range(queue[s]) /\ primary \in Range(queue[s])
           /\ Mergeable(s) \subseteq Orders
           /\ \A o \in merged \cup {primary} : mergedInto[o] = NoOrder
           /\ Len(queue'[s]) = Len(queue[s]) - Cardinality(merged)
           /\ \A t \in Stores \ {s} : queue'[t] = queue[t]
           /\ \A o \in Orders : mergedInto'[o] = IF o \in merged THEN primary ELSE mergedInto[o]
           /\ consolidatedCount' = [consolidatedCount EXCEPT ![primary] = Cardinality(merged) + 1]
           /\ summary'["BatchingNudge"] = summary["BatchingNudge"] + 1
           /\ summary'["TotalOrdersMerged"]
                = summary["TotalOrdersMerged"] + Cardinality(merged) + 1
<1>1. PICK s \in Stores : s = current
  BY DEF TypedControl, TypeOK
<1>2. PICK primary, merged, after, n :
        /\ primary = Primary(queue[s], Mergeable(s))
        /\ merged = MergedOrders(queue[s], Mergeable(s))
        /\ after = AfterConsolidate(queue[s], Mergeable(s))
        /\ n = Cardinality(MatchIndices(queue[s], Mergeable(s)))
  OBVIOUS
<1>3. /\ queue \in [Stores -> Seq(Orders)] /\ IsInjective(queue[s])
      /\ consolidatedCount \in [Orders -> Nat]
      /\ summary \in [Summary -> Nat]
      /\ queue' = [queue EXCEPT ![s] = after]
      /\ consolidatedCount' = [consolidatedCount EXCEPT ![primary] = n]
      /\ mergedInto' = [o \in Orders |-> IF o \in merged THEN primary ELSE mergedInto[o]]
      /\ summary' = [summary EXCEPT !["BatchingNudge"] = @ + 1, !["TotalOrdersMerged"] = @ + n]
      /\ {"BatchingNudge", "TotalOrdersMerged"} \subseteq Summary
  BY <1>1, <1>2 DEF TypedControl, TypeOK, Placement, NoDuplicates, MergeStep, Consolidate,
                    Summary, Outcomes
<1>4. /\ primary \in Range(queue[s]) /\ primary \in Mergeable(s) /\ primary \in Orders
      /\ merged \subseteq Range(queue[s]) /\ merged \subseteq Mergeable(s)
      /\ merged \subseteq Orders
      /\ primary \notin merged /\ merged # {} /\ IsFiniteSet(merged)
      /\ n = Cardinality(merged) + 1
      /\ Len(after) = Len(queue[s]) - Cardinality(merged)
  <2>1. queue[s] \in Seq(Orders) /\ CanConsolidate(queue[s], Mergeable(s))
    BY <1>1, <1>3 DEF MergeStep
  <2> QED
    BY <1>2, <1>3, <2>1, ConsolidateFacts
<1>5. Cardinality(merged) \in Nat
  BY <1>4, FS_CardinalityType
<1>6. \A o \in Orders : o \in Range(queue[s]) => mergedInto[o] = NoOrder
  <2>1. ASSUME NEW o \in Orders, o \in Range(queue[s]) PROVE ~IsMerged(o)
    <3>1. PICK l : Locations(o) = {l}
      BY DEF Placement, OnePlace
    <3>2. s \in QueuedAt(o)
      BY <2>1 DEF QueuedAt
    <3> QED
      BY <3>1, <3>2, OnlyQueued
  <2> QED
    BY <2>1 DEF IsMerged
<1>7. Mergeable(s) \subseteq Orders
  BY OrderKindsAssumption DEF Mergeable, CartOrders
<1>8. /\ Len(queue'[s]) = Len(queue[s]) - Cardinality(merged)
      /\ \A t \in Stores \ {s} : queue'[t] = queue[t]
  BY <1>3, <1>4
<1>9. /\ summary'["BatchingNudge"] = summary["BatchingNudge"] + 1
      /\ summary'["TotalOrdersMerged"] = summary["TotalOrdersMerged"] + Cardinality(merged) + 1
  <2>1. summary["TotalOrdersMerged"] \in Nat
    BY <1>3
  <2>2. /\ summary'["BatchingNudge"] = summary["BatchingNudge"] + 1
        /\ summary'["TotalOrdersMerged"] = summary["TotalOrdersMerged"] + n
    BY <1>3
  <2> QED
    BY <1>4, <1>5, <2>1, <2>2
<1>10. \A o \in merged \cup {primary} : mergedInto[o] = NoOrder
  BY <1>4, <1>6
<1>11. /\ \A o \in Orders : mergedInto'[o] = IF o \in merged THEN primary ELSE mergedInto[o]
       /\ consolidatedCount' = [consolidatedCount EXCEPT ![primary] = Cardinality(merged) + 1]
  BY <1>3, <1>4
<1> WITNESS s, primary, merged
<1> QED
  BY <1>1, <1>4, <1>5, <1>7, <1>8, <1>9, <1>10, <1>11

LEMMA MergesInit == Init => MergesInv
<1> SUFFICES ASSUME Init PROVE MergesInv
  OBVIOUS
<1>1. AllMerged = {} /\ \A p \in Orders : MergedOrdersOf(p) = {}
  BY NoOrderAssumption DEF Init, AllMerged, MergedOrdersOf
<1>2. Cardinality(AllMerged) = 0
  BY <1>1, FS_EmptySet
<1>3. summary["TotalOrdersMerged"] = 0 /\ summary["BatchingNudge"] = 0
  BY DEF Init, Summary, Outcomes
<1>4. \A o \in Orders : mergedInto[o] = NoOrder /\ consolidatedCount[o] = 0
  BY DEF Init
<1> QED
  BY <1>1, <1>2, <1>3, <1>4 DEF MergesInv, PrimariesMarked

LEMMA MergesKept ==
  ASSUME MergesInv, MergesStay,
         summary'["TotalOrdersMerged"] = summary["TotalOrdersMerged"],
         summary'["BatchingNudge"] = summary["BatchingNudge"]
  PROVE  MergesInv'
<1>1. AllMerged' = AllMerged /\ \A p \in Orders : MergedOrdersOf(p)' = MergedOrdersOf(p)
  BY DEF MergesStay, AllMerged, MergedOrdersOf
<1> QED
  BY <1>1 DEF MergesInv, MergesStay, PrimariesMarked

LEMMA MergesAfterMerge ==
  ASSUME TypedControl, Placement, MergesInv, MergeStep
  PROVE  MergesInv'
<1>1. PICK s, primary, merged :
        /\ s \in Stores /\ s = current
        /\ merged # {} /\ IsFiniteSet(merged) /\ Cardinality(merged) \in Nat
        /\ merged \subseteq Mergeable(s) /\ primary \in Mergeable(s) \ merged
        /\ merged \subseteq Range(queue[s]) /\ primary \in Range(queue[s])
        /\ Mergeable(s) \subseteq Orders
        /\ \A o \in merged \cup {primary} : mergedInto[o] = NoOrder
        /\ Len(queue'[s]) = Len(queue[s]) - Cardinality(merged)
        /\ \A t \in Stores \ {s} : queue'[t] = queue[t]
        /\ \A o \in Orders : mergedInto'[o] = IF o \in merged THEN primary ELSE mergedInto[o]
        /\ consolidatedCount' = [consolidatedCount EXCEPT ![primary] = Cardinality(merged) + 1]
        /\ summary'["BatchingNudge"] = summary["BatchingNudge"] + 1
        /\ summary'["TotalOrdersMerged"]
             = summary["TotalOrdersMerged"] + Cardinality(merged) + 1
  BY MergeChanges
<1>2. /\ \A o \in Mergeable(s) : o \in Orders /\ consolidatedCount[o] = 0
                                 /\ o \in CartOrders(s) /\ Home[o] = s
      /\ consolidatedCount \in [Orders -> Nat]
      /\ primary # NoOrder
  BY <1>1, NoOrderAssumption DEF Mergeable, CartOrders, TypedControl, TypeOK
(* Nothing was merged into an order that can still be matched.             *)
<1>3. \A p \in Mergeable(s) : MergedOrdersOf(p) = {}
  BY <1>2 DEF MergesInv, PrimariesMarked
<1>4. MergedOrdersOf(primary)' = merged
  BY <1>1, <1>2, <1>3 DEF MergedOrdersOf
<1>5. \A p \in Orders \ {primary} : MergedOrdersOf(p)' = MergedOrdersOf(p)
  <2>1. \A o \in merged : mergedInto[o] = NoOrder
    BY <1>1
  <2> QED
    BY <1>1, <2>1, NoOrderAssumption DEF MergedOrdersOf
<1>6. AllMerged' = AllMerged \cup merged /\ AllMerged \cap merged = {}
  BY <1>1, <1>2 DEF AllMerged
<1>7. Cardinality(AllMerged') = Cardinality(AllMerged) + Cardinality(merged)
  <2>0. IsFiniteSet(AllMerged) /\ Cardinality(AllMerged) \in Nat /\ Cardinality(merged) \in Nat
    BY <1>1, MergedFinite
  <2>1. Cardinality(AllMerged \cap merged) = 0
    BY <1>6, FS_EmptySet
  <2>2. Cardinality(AllMerged \cup merged)
          = Cardinality(AllMerged) + Cardinality(merged) - Cardinality(AllMerged \cap merged)
    BY <1>1, <2>0, FS_Union
  <2>3. Cardinality(AllMerged') = Cardinality(AllMerged \cup merged)
    BY <1>6
  <2> QED
    BY <2>0, <2>1, <2>2, <2>3
<1>8. summary'["TotalOrdersMerged"] - summary'["BatchingNudge"] = Cardinality(AllMerged')
  <2>1. /\ summary["TotalOrdersMerged"] \in Nat /\ summary["BatchingNudge"] \in Nat
        /\ summary["TotalOrdersMerged"] - summary["BatchingNudge"] = Cardinality(AllMerged)
    BY DEF TypedControl, TypeOK, Summary, Outcomes, MergesInv
  <2>2. Cardinality(AllMerged) \in Nat
    BY MergedFinite
  <2>3. /\ Cardinality(merged) \in Nat
        /\ summary'["BatchingNudge"] = summary["BatchingNudge"] + 1
        /\ summary'["TotalOrdersMerged"]
             = summary["TotalOrdersMerged"] + Cardinality(merged) + 1
    BY <1>1
  <2> QED
    BY <1>7, <2>1, <2>2, <2>3
<1>9. ASSUME NEW p \in Orders
      PROVE  /\ consolidatedCount'[p] > 0 =>
                  consolidatedCount'[p] = 1 + Cardinality(MergedOrdersOf(p)')
             /\ MergedOrdersOf(p)' # {} => consolidatedCount'[p] > 0
  <2>1. CASE p = primary
    BY <1>1, <1>2, <1>4, <2>1
  <2>2. CASE p # primary
    <3>1. consolidatedCount'[p] = consolidatedCount[p] /\ MergedOrdersOf(p)' = MergedOrdersOf(p)
      BY <1>1, <1>2, <1>5, <2>2
    <3> QED
      BY <3>1 DEF MergesInv, PrimariesMarked
  <2> QED
    BY <2>1, <2>2
<1>10. ASSUME NEW o \in Orders, mergedInto'[o] # NoOrder
       PROVE  LET p == mergedInto'[o] IN
              /\ {o, p} \subseteq CartOrders(Home[p])
              /\ mergedInto'[p] = NoOrder
  <2>1. CASE o \in merged
    BY <1>1, <1>2, <2>1
  <2>2. CASE o \notin merged
    <3>1. PICK p \in Orders : p = mergedInto[o] /\ p = mergedInto'[o]
      BY <1>1, <1>10, <2>2 DEF TypedControl, TypeOK
    <3>2. {o, p} \subseteq CartOrders(Home[p]) /\ mergedInto[p] = NoOrder
      BY <1>1, <1>10, <2>2, <3>1 DEF MergesInv
    <3>3. o \in MergedOrdersOf(p)
      BY <3>1 DEF MergedOrdersOf
    <3>4. p \notin merged
      BY <1>1, <1>3, <3>3
    <3> QED
      BY <1>1, <3>1, <3>2, <3>4
  <2> QED
    BY <2>1, <2>2
<1> QED
  BY <1>8, <1>9, <1>10 DEF MergesInv, PrimariesMarked

LEMMA MergesStep == TypedControl /\ Placement /\ MergesInv /\ [Next]_vars => MergesInv'
<1> SUFFICES ASSUME TypedControl, Placement, MergesInv, [Next]_vars PROVE MergesInv'
  OBVIOUS
<1>0. /\ summary \in [Summary -> Nat]
      /\ {"TotalOrdersMerged", "BatchingNudge"} \subseteq Summary
      /\ "TotalOrdersMerged" \notin Outcomes
  BY DEF TypedControl, TypeOK, Summary, Outcomes
<1>1. CASE SummaryStep /\ MergesStay
  <2>1. CASE UNCHANGED summary
    BY <1>1, <2>1, MergesKept
  <2>2. CASE BeginEvaluation
    BY <1>0, <1>1, <2>2, MergesKept DEF BeginEvaluation
  <2>3. ASSUME NEW c \in QuietOutcomes, EndEvaluation(c) PROVE MergesInv'
    BY <1>0, <1>1, <2>3, MergesKept DEF EndEvaluation, Report, QuietOutcomes
  <2> QED
    BY <1>1, <2>1, <2>2, <2>3 DEF SummaryStep
<1>2. CASE MergeStep
  BY <1>2, MergesAfterMerge
<1>3. CASE CountReRoutedOut \/ CountReRoutedIn
  BY <1>3, MergesKept DEF CountReRoutedOut, CountReRoutedIn, passFrame, MergesStay, orderVars
<1>4. CASE CountExecuted
  BY <1>0, <1>4, MergesKept DEF CountExecuted, Report, MergesStay, orderVars
<1> QED
  BY <1>1, <1>2, <1>3, <1>4, SummarySteps

(***************************************************************************)
(* An order is merged into a primary of its own cart and store that is     *)
(* itself not merged, the primary counts the orders it stands for, and the *)
(* net merged that the accounting subtracts is the number of merged orders *)
(* (accounting.go:27).                                                     *)
(***************************************************************************)
THEOREM MergesAlwaysAccounted == Spec => []MergesAccounted
<1>1. Init => TypedControl /\ Placement /\ MergesInv
  BY TypedControlInit, PlacementInit, MergesInit
<1>2. TypedControl /\ Placement /\ MergesInv /\ [Next]_vars
        => (TypedControl /\ Placement /\ MergesInv)'
  BY TypedControlStep, PlacementStep, MergesStep
<1>3. TypedControl /\ MergesInv => MergesAccounted
  <2> SUFFICES ASSUME TypedControl, MergesInv PROVE MergesAccounted
    OBVIOUS
  <2>1. summary["TotalOrdersMerged"] \in Nat /\ summary["BatchingNudge"] \in Nat
    BY DEF TypedControl, TypeOK, Summary, Outcomes
  <2>2. NetMerged = Cardinality(AllMerged)
    BY <2>1, MergedFinite DEF NetMerged, MergesInv
  <2> QED
    BY <2>2 DEF MergesInv, MergesAccounted, AllMerged
<1> QED
  BY <1>1, <1>2, <1>3, PTL DEF Spec

-----------------------------------------------------------------------------
(***************************************************************************)
(* The accounting.  For each store, and for the network, what came in is   *)
(* what is there: in the queue, with a picker, with the engine, completed  *)
(* or merged.  The counters lag behind the queues, so both balances count  *)
(* the goroutines that are between a queue operation and its counter.      *)
(***************************************************************************)
InHandover == {p \in Pickers : pickerPc[p] \in {"popped", "finishing"}}
Withdrawn  == IF held # NoOrder THEN 1 ELSE 0
Uncounted  == {s \in Stores : dispatchPc[s] = "count"}
AtStore(s) == completedCount[s] + Len(queue[s]) + activePicking[s]
AtStores   == [s \in Stores |-> AtStore(s)]

NetworkBalanced ==
  created + Cardinality(Uncounted)
    = SumFunction(AtStores) + Cardinality(InHandover) + Withdrawn + Cardinality(AllMerged)

Owed(s)     == IF dispatchPc[s] = "count" THEN 1 ELSE 0
InEngine(s) == IF HeldFor(s) THEN 1 ELSE 0

CameIn(s)  == receivedCount[s] + reRoutedIn[s] + Owed(s)
InHandoverAt(s) == Cardinality(PickersIn("popped", s)) + Cardinality(PickersIn("finishing", s))
Present(s) == AtStore(s) + InHandoverAt(s)
IsThere(s) ==
  reRoutedOut[s] + (InEngine(s) + Present(s) + Cardinality(MergedAt(s)))

Balance(s) == CameIn(s) = IsThere(s)

Balanced == (\A s \in Stores : Balance(s)) /\ NetworkBalanced

LEMMA FlowTypes ==
  ASSUME TypedControl
  PROVE  /\ created \in Int
         /\ \A s \in Stores :
              /\ receivedCount[s] \in Int /\ reRoutedIn[s] \in Int /\ reRoutedOut[s] \in Int
              /\ activePicking[s] \in Int /\ completedCount[s] \in Int
              /\ queue[s] \in Seq(Orders) /\ Len(queue[s]) \in Int
<1>1. ASSUME NEW s \in Stores
      PROVE  /\ receivedCount[s] \in Nat /\ reRoutedIn[s] \in Nat /\ reRoutedOut[s] \in Nat
             /\ activePicking[s] \in Int /\ completedCount[s] \in Nat
             /\ queue[s] \in Seq(Orders)
  BY DEF TypedControl, TypeOK
<1>2. created \in Nat
  BY DEF TypedControl, TypeOK
<1> QED
  BY <1>1, <1>2

LEMMA SetSizes ==
  /\ \A pc, s : IsFiniteSet(PickersIn(pc, s)) /\ Cardinality(PickersIn(pc, s)) \in Int
  /\ IsFiniteSet(InHandover) /\ Cardinality(InHandover) \in Int
  /\ IsFiniteSet(Uncounted) /\ Cardinality(Uncounted) \in Int
  /\ IsFiniteSet(AllMerged) /\ Cardinality(AllMerged) \in Int
  /\ \A s : IsFiniteSet(MergedAt(s)) /\ Cardinality(MergedAt(s)) \in Int
<1>1. \A T \in SUBSET Pickers : IsFiniteSet(T) /\ Cardinality(T) \in Int
  BY FiniteAssumption, FS_Subset, FS_CardinalityType
<1>2. \A T \in SUBSET Orders : IsFiniteSet(T) /\ Cardinality(T) \in Int
  BY FiniteAssumption, FS_Subset, FS_CardinalityType
<1>3. \A T \in SUBSET Stores : IsFiniteSet(T) /\ Cardinality(T) \in Int
  <2>1. IsFiniteSet(Stores)
    BY StoresFinite
  <2> QED
    BY <2>1, FS_Subset, FS_CardinalityType
<1>4. /\ \A pc, s : PickersIn(pc, s) \in SUBSET Pickers
      /\ InHandover \in SUBSET Pickers /\ Uncounted \in SUBSET Stores
      /\ AllMerged \in SUBSET Orders /\ \A s : MergedAt(s) \in SUBSET Orders
  BY DEF PickersIn, InHandover, Uncounted, AllMerged, MergedAt
<1> QED
  BY <1>1, <1>2, <1>3, <1>4

LEMMA OneMore ==
  ASSUME NEW A, IsFiniteSet(A), NEW x, x \notin A, NEW B, B = A \cup {x}
  PROVE  Cardinality(B) = Cardinality(A) + 1
  BY FS_AddElement

LEMMA OneLess ==
  ASSUME NEW A, IsFiniteSet(A), NEW x, x \in A, NEW B, B = A \ {x}
  PROVE  Cardinality(B) = Cardinality(A) - 1
  BY FS_RemoveElement

(* Sets of goroutines and of orders that a step leaves alone.              *)
LEMMA SameSets ==
  /\ UNCHANGED pickerPc => InHandover' = InHandover
                           /\ \A pc, s : PickersIn(pc, s)' = PickersIn(pc, s)
  /\ UNCHANGED mergedInto => AllMerged' = AllMerged /\ \A s : MergedAt(s)' = MergedAt(s)
  /\ UNCHANGED dispatchPc => Uncounted' = Uncounted
  BY DEF InHandover, PickersIn, AllMerged, MergedAt, Uncounted

(* A picker goes from one part of its loop to another.                     *)
Is(x, y) == IF x = y THEN 1 ELSE 0

LEMMA PickerMoves ==
  ASSUME TypedControl, NEW p \in Pickers, NEW b, pickerPc[p] # b,
         pickerPc' = [pickerPc EXCEPT ![p] = b], NEW pc
  PROVE  /\ \A s \in Stores \ {StoreOf[p]} : PickersIn(pc, s)' = PickersIn(pc, s)
         /\ Cardinality(PickersIn(pc, StoreOf[p])') =
              Cardinality(PickersIn(pc, StoreOf[p])) + (Is(b, pc) - Is(pickerPc[p], pc))
<1>1. pickerPc'[p] = b /\ \A r \in Pickers \ {p} : pickerPc'[r] = pickerPc[r]
  BY DEF TypedControl, TypeOK
<1>2. \A s \in Stores \ {StoreOf[p]} : PickersIn(pc, s)' = PickersIn(pc, s)
  BY <1>1 DEF PickersIn
<1>3. PICK s \in Stores : s = StoreOf[p]
  BY StoreOfAssumption
<1>4. IsFiniteSet(PickersIn(pc, s)) /\ Cardinality(PickersIn(pc, s)) \in Int
  BY SetSizes
<1>5. Cardinality(PickersIn(pc, s)') =
        Cardinality(PickersIn(pc, s)) + (Is(b, pc) - Is(pickerPc[p], pc))
  <2>1. CASE pc \notin {pickerPc[p], b}
    <3>1. PickersIn(pc, s)' = PickersIn(pc, s)
      BY <1>1, <1>3, <2>1 DEF PickersIn
    <3>2. Is(b, pc) = 0 /\ Is(pickerPc[p], pc) = 0
      BY <2>1 DEF Is
    <3> QED
      BY <1>4, <3>1, <3>2
  <2>2. CASE pc = b
    <3>1. p \notin PickersIn(pc, s) /\ PickersIn(pc, s)' = PickersIn(pc, s) \cup {p}
      BY <1>1, <1>3, <2>2 DEF PickersIn
    <3>2. Cardinality(PickersIn(pc, s)') = Cardinality(PickersIn(pc, s)) + 1
      BY <1>4, <3>1, OneMore
    <3>3. Is(b, pc) = 1 /\ Is(pickerPc[p], pc) = 0
      BY <2>2 DEF Is
    <3> QED
      BY <1>4, <3>2, <3>3
  <2>3. CASE pc = pickerPc[p]
    <3>1. p \in PickersIn(pc, s) /\ PickersIn(pc, s)' = PickersIn(pc, s) \ {p}
      BY <1>1, <1>3, <2>3 DEF PickersIn
    <3>2. Cardinality(PickersIn(pc, s)') = Cardinality(PickersIn(pc, s)) - 1
      BY <1>4, <3>1, OneLess
    <3>3. Is(b, pc) = 0 /\ Is(pickerPc[p], pc) = 1
      BY <2>3 DEF Is
    <3> QED
      BY <1>4, <3>2, <3>3
  <2> QED
    BY <2>1, <2>2, <2>3
<1> QED
  BY <1>2, <1>3, <1>5

LEMMA HandoverMoves ==
  ASSUME TypedControl, NEW p \in Pickers, NEW b,
         pickerPc' = [pickerPc EXCEPT ![p] = b]
  PROVE  Cardinality(InHandover') = Cardinality(InHandover)
             + (IF b \in {"popped", "finishing"} THEN 1 ELSE 0)
             - (IF pickerPc[p] \in {"popped", "finishing"} THEN 1 ELSE 0)
<1>0. IsFiniteSet(InHandover) /\ Cardinality(InHandover) \in Int
  BY SetSizes
<1>1. pickerPc'[p] = b /\ \A r \in Pickers \ {p} : pickerPc'[r] = pickerPc[r]
  BY DEF TypedControl, TypeOK
<1>2. CASE b \in {"popped", "finishing"} <=> pickerPc[p] \in {"popped", "finishing"}
  <2>1. InHandover' = InHandover
    BY <1>1, <1>2 DEF InHandover
  <2> QED
    BY <1>0, <1>2, <2>1
<1>3. CASE b \in {"popped", "finishing"} /\ pickerPc[p] \notin {"popped", "finishing"}
  <2>1. p \notin InHandover /\ InHandover' = InHandover \cup {p}
    BY <1>1, <1>3 DEF InHandover
  <2>2. Cardinality(InHandover') = Cardinality(InHandover) + 1
    BY <1>0, <2>1, OneMore
  <2> QED
    BY <1>0, <1>3, <2>2
<1>4. CASE b \notin {"popped", "finishing"} /\ pickerPc[p] \in {"popped", "finishing"}
  <2>1. p \in InHandover /\ InHandover' = InHandover \ {p}
    BY <1>1, <1>4 DEF InHandover
  <2>2. Cardinality(InHandover') = Cardinality(InHandover) - 1
    BY <1>0, <2>1, OneLess
  <2> QED
    BY <1>0, <1>4, <2>2
<1> QED
  BY <1>2, <1>3, <1>4

(***************************************************************************)
(* What a step changes at a store: the counters, the queue and the orders  *)
(* in the engine's hands.  Steps that change none of them keep both        *)
(* balances.                                                               *)
(***************************************************************************)
CountersStay == UNCHANGED <<created, receivedCount, dispatchPc, reRoutedIn, reRoutedOut>>
PickingStays == UNCHANGED <<pickerPc, activePicking, completedCount>>
EngineStays  ==
  /\ held' = NoOrder <=> held = NoOrder
  /\ \A s \in Stores : InEngine(s)' = InEngine(s)
LengthsStay  == \A s \in Stores : Len(queue'[s]) = Len(queue[s])

LEMMA FlowKept ==
  ASSUME TypedControl, Balanced, CountersStay, UNCHANGED mergedInto, EngineStays, LengthsStay,
         UNCHANGED <<activePicking, completedCount>>,
         Cardinality(InHandover') = Cardinality(InHandover),
         \A s \in Stores : \A pc \in {"popped", "finishing"} :
           Cardinality(PickersIn(pc, s)') = Cardinality(PickersIn(pc, s))
  PROVE  Balanced'
<1>1. /\ AllMerged' = AllMerged /\ Uncounted' = Uncounted
      /\ \A s : MergedAt(s)' = MergedAt(s)
  BY SameSets DEF CountersStay
<1>2. AtStores' = AtStores
  BY DEF AtStores, AtStore, LengthsStay
<1>3. NetworkBalanced'
  BY <1>1, <1>2 DEF Balanced, NetworkBalanced, Withdrawn, CountersStay, EngineStays
<1>4. ASSUME NEW s \in Stores
      PROVE  Balance(s)'
  <2>1. /\ Cardinality(PickersIn("popped", s)') = Cardinality(PickersIn("popped", s))
        /\ Cardinality(PickersIn("finishing", s)') = Cardinality(PickersIn("finishing", s))
        /\ Cardinality(MergedAt(s)') = Cardinality(MergedAt(s))
        /\ Len(queue'[s]) = Len(queue[s])
    BY <1>1 DEF LengthsStay
  <2>2. InEngine(s)' = InEngine(s)
    BY DEF EngineStays
  <2> QED
    BY <2>1, <2>2 DEF Balanced, Balance, CountersStay, CameIn, IsThere, AtStore,
                         Present, InHandoverAt, Owed
<1> QED
  BY <1>3, <1>4 DEF Balanced

(* Outside a re-route's two counters, an order in the engine's hands is on *)
(* the account of the store it was taken from.                             *)
LEMMA EngineRests ==
  ASSUME \/ held = NoOrder /\ held' = NoOrder
         \/ UNCHANGED <<held, current, bestTarget, monitorPc>>
         \/ /\ UNCHANGED <<held, current>>
            /\ {monitorPc, monitorPc'} \cap {"countIn", "handOver"} = {}
  PROVE  EngineStays
BY DEF EngineStays, InEngine, HeldFor

LEMMA OtherStepsKeepFlow ==
  ASSUME TypedControl, [Next]_vars, ~MovingStep,
         ~CountReRoutedOut, ~CountReRoutedIn,
         \A s \in Stores : ~CountArrival(s),
         \A p \in Pickers : ~PickerExit(p)
  PROVE  /\ CountersStay /\ PickingStays /\ EngineStays
         /\ UNCHANGED <<queue, mergedInto>>
<1> USE DEF dispatchVars, orderVars, pickerVars, monitorFrame
<1>1. UNCHANGED <<queue, held, mergedInto>>
  BY OtherStepsStay DEF OrdersStay
<1>2. ReRoutesStay
  <2>1. CountExecuted => ReRoutesStay
    BY DEF CountExecuted, ReRoutesStay
  <2> QED
    BY <2>1, SummarySteps DEF MovingStep
<1>3. UNCHANGED <<dispatchVars, pickerVars>>
  <2>1. CASE \E s \in Stores : Dispatcher(s)
    BY <2>1 DEF MovingStep, Dispatcher
  <2>2. CASE \E p \in Pickers : Picker(p)
    BY <2>2 DEF MovingStep, Picker
  <2>3. CASE Main \/ Terminated \/ UNCHANGED vars
    BY <2>3 DEF Main, BeginShutdown, StoreStopped, FinishRun, mainFrame, Terminated, vars
  <2>4. CASE Monitor
    BY <2>4 DEF Monitor, Tick, MonitorReadLen, RecheckLen, ScanLen, ReadQueueLen,
                MonitorReadActive, RecheckActive, GroupCartStep, ScanActive, CostGate, Extract,
                Reserve, PushBack, StampReRoute, CountReRoutedOut, CountReRoutedIn, HandOver,
                passFrame, CountExecuted, VerifyStart, VerifyCompleted, VerifyLen, VerifyRead,
                VerifyActive, verifyFrame, MonitorExit, mainFrame
  <2> QED
    BY <2>1, <2>2, <2>3, <2>4 DEF Next
<1>4. EngineStays
  <2>1. monitorPc \in HoldingPcs <=> held # NoOrder
    BY DEF TypedControl, Control, MonitorControl
  <2>2. CASE held = NoOrder
    BY <1>1, <2>2, EngineRests
  <2>3. CASE Monitor /\ held # NoOrder
    <3>1. Reserve \/ StampReRoute
      BY <2>1, <2>3 DEF HoldingPcs, MovingStep, Monitor, Tick, MonitorReadLen, RecheckLen, ScanLen,
                ReadQueueLen, MonitorReadActive, RecheckActive, GroupCartStep, ScanActive,
                CostGate, CountExecuted, VerifyStart, VerifyCompleted, VerifyLen, VerifyRead,
                VerifyActive, MonitorExit
    <3>2. /\ UNCHANGED <<held, current>>
          /\ {monitorPc, monitorPc'} \cap {"countIn", "handOver"} = {}
      BY <3>1 DEF Reserve, StampReRoute, passFrame, loopVars
    <3> QED
      BY <3>2, EngineRests
  <2>4. CASE ~Monitor
    <3> USE DEF loopVars
    <3>1. CASE \E s \in Stores : Dispatcher(s)
      BY <3>1 DEF MovingStep, Dispatcher
    <3>2. CASE \E p \in Pickers : Picker(p)
      BY <3>2 DEF MovingStep, Picker
    <3>3. CASE Main \/ Terminated \/ UNCHANGED vars
      <4>1. UNCHANGED <<held, current, bestTarget, monitorPc>>
        BY <3>3 DEF Main, BeginShutdown, StoreStopped, FinishRun, mainFrame, Terminated, vars
      <4> QED
        BY <4>1, EngineRests
    <3> QED
      BY <2>4, <3>1, <3>2, <3>3 DEF Next
  <2> QED
    BY <2>2, <2>3, <2>4
<1> QED
  BY <1>1, <1>2, <1>3, <1>4 DEF CountersStay, PickingStays, ReRoutesStay

(***************************************************************************)
(* The steps that change the flow do so at one store.                      *)
(***************************************************************************)
SameFlow(s) ==
  /\ CameIn(s)' = CameIn(s) /\ IsThere(s)' = IsThere(s) /\ AtStore(s)' = AtStore(s)

LEMMA FlowIntegers ==
  ASSUME TypedControl
  PROVE  \A t \in Stores :
           /\ Owed(t) \in Int /\ InEngine(t) \in Int
           /\ CameIn(t) \in Int /\ IsThere(t) \in Int /\ AtStore(t) \in Int
           /\ InHandoverAt(t) \in Int
<1>1. ASSUME NEW t \in Stores
      PROVE  /\ Owed(t) \in Int /\ InEngine(t) \in Int
             /\ CameIn(t) \in Int /\ IsThere(t) \in Int /\ AtStore(t) \in Int
             /\ InHandoverAt(t) \in Int
  <2>1. Owed(t) \in Int /\ InEngine(t) \in Int
    BY DEF Owed, InEngine
  <2>2. /\ Cardinality(PickersIn("popped", t)) \in Int
        /\ Cardinality(PickersIn("finishing", t)) \in Int
        /\ Cardinality(MergedAt(t)) \in Int
    BY SetSizes
  <2>3. /\ receivedCount[t] \in Int /\ reRoutedIn[t] \in Int /\ reRoutedOut[t] \in Int
        /\ activePicking[t] \in Int /\ completedCount[t] \in Int /\ Len(queue[t]) \in Int
    BY FlowTypes
  <2>4. CameIn(t) \in Int /\ AtStore(t) \in Int
    BY <2>1, <2>3 DEF CameIn, AtStore
  <2>5. InHandoverAt(t) \in Int
    BY <2>2 DEF InHandoverAt
  <2>6. IsThere(t) \in Int
    BY <2>1, <2>2, <2>3, <2>4, <2>5 DEF IsThere, Present
  <2> QED
    BY <2>1, <2>4, <2>5, <2>6
<1> QED
  BY <1>1

(* One store's share of the network sum changes by d.                      *)
LEMMA SumMoves ==
  ASSUME TypedControl, NEW s \in Stores, NEW d \in Int,
         AtStore(s)' = AtStore(s) + d,
         \A t \in Stores \ {s} : AtStore(t)' = AtStore(t)
  PROVE  SumFunction(AtStores)' = SumFunction(AtStores) + d /\ SumFunction(AtStores) \in Int
<1>1. PICK f : f = AtStores
  OBVIOUS
<1>2. PICK e : e = AtStores'
  OBVIOUS
<1>3. /\ DOMAIN f = Stores /\ DOMAIN e = Stores
      /\ \A t \in Stores : f[t] = AtStore(t) /\ e[t] = AtStore(t)'
  BY <1>1, <1>2 DEF AtStores
<1>4. \A t \in Stores : f[t] \in Int
  BY <1>3, FlowIntegers
<1>5. (\A t \in Stores \ {s} : e[t] = f[t]) /\ e[s] = f[s] + d
  BY <1>3, <1>4
<1>6. SumFunction(e) = SumFunction(f) + d /\ SumFunction(f) \in Int
  BY <1>3, <1>4, <1>5, ChangeAtStore
<1> QED
  BY <1>1, <1>2, <1>6

(* The network balance when the sum, the arrivals, the pickers between two *)
(* counters, the engine and the merges change by these amounts.            *)
LEMMA NetworkMoves ==
  ASSUME TypedControl, NetworkBalanced, NEW s \in Stores,
         NEW d \in Int, NEW c \in Int, NEW h \in Int, NEW e \in Int, NEW m \in Int,
         AtStore(s)' = AtStore(s) + d, \A t \in Stores \ {s} : AtStore(t)' = AtStore(t),
         created' + Cardinality(Uncounted') = created + Cardinality(Uncounted) + c,
         Cardinality(InHandover') = Cardinality(InHandover) + h,
         Withdrawn' = Withdrawn + e,
         Cardinality(AllMerged') = Cardinality(AllMerged) + m,
         c = d + h + e + m
  PROVE  NetworkBalanced'
<1>1. SumFunction(AtStores)' = SumFunction(AtStores) + d /\ SumFunction(AtStores) \in Int
  BY SumMoves
<1>2. /\ created \in Int /\ Cardinality(Uncounted) \in Int
      /\ Cardinality(InHandover) \in Int /\ Cardinality(AllMerged) \in Int
  BY FlowTypes, SetSizes
<1>3. Withdrawn \in Int
  BY DEF Withdrawn
<1>4. created + Cardinality(Uncounted)
        = SumFunction(AtStores) + Cardinality(InHandover) + Withdrawn + Cardinality(AllMerged)
  BY DEF NetworkBalanced
<1>5. created' + Cardinality(Uncounted')
        = SumFunction(AtStores)' + Cardinality(InHandover') + Withdrawn' + Cardinality(AllMerged')
  BY <1>1, <1>2, <1>3, <1>4
<1> QED
  BY <1>5 DEF NetworkBalanced

LEMMA BalancedAtOne ==
  ASSUME TypedControl, Balanced, NEW s \in Stores, \A t \in Stores \ {s} : SameFlow(t),
         NEW d \in Int, CameIn(s)' = CameIn(s) + d, IsThere(s)' = IsThere(s) + d,
         NetworkBalanced'
  PROVE  Balanced'
<1>1. \A t \in Stores \ {s} : Balance(t)'
  BY DEF Balanced, Balance, SameFlow
<1>2. Balance(s)'
  BY FlowIntegers DEF Balanced, Balance
<1> QED
  BY <1>1, <1>2 DEF Balanced

(* What is there, when its parts change by these amounts.                  *)
LEMMA ThereMoves ==
  ASSUME TypedControl, NEW s \in Stores,
         NEW o \in Int, NEW e \in Int, NEW a \in Int, NEW m \in Int,
         reRoutedOut'[s] = reRoutedOut[s] + o, InEngine(s)' = InEngine(s) + e,
         Present(s)' = Present(s) + a,
         Cardinality(MergedAt(s)') = Cardinality(MergedAt(s)) + m
  PROVE  IsThere(s)' = IsThere(s) + (o + e + a + m)
<1>1. /\ reRoutedOut[s] \in Int /\ InEngine(s) \in Int /\ AtStore(s) \in Int
      /\ InHandoverAt(s) \in Int /\ Cardinality(MergedAt(s)) \in Int
  BY FlowTypes, FlowIntegers, SetSizes
<1>2. Present(s) \in Int
  BY <1>1 DEF Present
<1> QED
  BY <1>1, <1>2 DEF IsThere

LEMMA AtStoreMoves ==
  ASSUME TypedControl, NEW s \in Stores, NEW c \in Int, NEW l \in Int, NEW a \in Int,
         completedCount'[s] = completedCount[s] + c,
         Len(queue'[s]) = Len(queue[s]) + l,
         activePicking'[s] = activePicking[s] + a
  PROVE  AtStore(s)' = AtStore(s) + (c + l + a)
<1>1. completedCount[s] \in Int /\ Len(queue[s]) \in Int /\ activePicking[s] \in Int
  BY FlowTypes
<1> QED
  BY <1>1 DEF AtStore

(* A store nothing happens at.                                             *)
LEMMA Untouched ==
  ASSUME NEW t \in Stores,
         receivedCount'[t] = receivedCount[t], reRoutedIn'[t] = reRoutedIn[t],
         reRoutedOut'[t] = reRoutedOut[t], Owed(t)' = Owed(t), InEngine(t)' = InEngine(t),
         Len(queue'[t]) = Len(queue[t]), activePicking'[t] = activePicking[t],
         completedCount'[t] = completedCount[t], InHandoverAt(t)' = InHandoverAt(t),
         Cardinality(MergedAt(t)') = Cardinality(MergedAt(t))
  PROVE  SameFlow(t)
BY DEF SameFlow, CameIn, IsThere, Present, AtStore

LEMMA EnqueueKeepsBalance ==
  ASSUME TypedControl, Balanced, NEW s \in Stores, EnqueueArrival(s)
  PROVE  Balanced'
<1>1. /\ dispatchPc[s] = "enqueue" /\ schedule[s] # <<>>
      /\ queue' = [queue EXCEPT ![s] = Append(queue[s], Head(schedule[s]))]
      /\ dispatchPc' = [dispatchPc EXCEPT ![s] = "count"]
      /\ UNCHANGED <<created, receivedCount, reRoutedIn, reRoutedOut, pickerPc, activePicking,
                     completedCount, mergedInto, held, current, bestTarget, monitorPc>>
  BY DEF EnqueueArrival, orderVars, pickerVars, loopVars, engineVars
<1>2. /\ dispatchPc \in [Stores -> {"enqueue", "count"}] /\ queue \in [Stores -> Seq(Orders)]
      /\ schedule[s] \in Seq(Orders)
  BY DEF TypedControl, TypeOK
<1>3. /\ Len(queue'[s]) = Len(queue[s]) + 1
      /\ \A t \in Stores \ {s} : queue'[t] = queue[t]
  <2>1. Len(Append(queue[s], Head(schedule[s]))) = Len(queue[s]) + 1
    BY <1>1, <1>2, PopFacts, PushFacts
  <2> QED
    BY <1>1, <1>2, <2>1
<1>4. /\ InHandover' = InHandover /\ AllMerged' = AllMerged
      /\ \A pc, t : PickersIn(pc, t)' = PickersIn(pc, t)
      /\ \A t : MergedAt(t)' = MergedAt(t) /\ InEngine(t)' = InEngine(t)
                /\ InHandoverAt(t)' = InHandoverAt(t)
  BY <1>1, SameSets DEF InEngine, HeldFor, InHandoverAt
<1>5. Owed(s) = 0 /\ Owed(s)' = 1 /\ \A t \in Stores \ {s} : Owed(t)' = Owed(t)
  BY <1>1, <1>2 DEF Owed
<1>6. Cardinality(Uncounted') = Cardinality(Uncounted) + 1
  <2>1. s \notin Uncounted /\ Uncounted' = Uncounted \cup {s}
    BY <1>1, <1>2 DEF Uncounted
  <2> QED
    BY <2>1, SetSizes, OneMore
<1>7. \A t \in Stores \ {s} : SameFlow(t)
  BY <1>1, <1>3, <1>4, <1>5, Untouched
<1>8. CameIn(s)' = CameIn(s) + 1
  BY <1>1, <1>5, FlowTypes DEF CameIn
<1>9. IsThere(s)' = IsThere(s) + 1 /\ AtStore(s)' = AtStore(s) + 1
  <2>1. AtStore(s)' = AtStore(s) + (0 + 1 + 0)
    <3>1. /\ completedCount'[s] = completedCount[s] + 0 /\ activePicking'[s] = activePicking[s] + 0
          /\ Len(queue'[s]) = Len(queue[s]) + 1
      BY <1>1, <1>3, FlowTypes
    <3>2. 0 \in Int /\ 1 \in Int
      OBVIOUS
    <3> QED
      BY <3>1, <3>2, AtStoreMoves
  <2>2. /\ reRoutedOut'[s] = reRoutedOut[s] + 0 /\ InEngine(s)' = InEngine(s) + 0
        /\ Cardinality(MergedAt(s)') = Cardinality(MergedAt(s)) + 0
    BY <1>1, <1>4, FlowTypes, FlowIntegers, SetSizes
  <2>3. Present(s)' = Present(s) + 1
    BY <1>4, <2>1, FlowIntegers DEF Present
  <2>4. 0 \in Int /\ 1 \in Int /\ 0 + 0 + 1 + 0 = 1
    OBVIOUS
  <2> QED
    BY <2>1, <2>2, <2>3, <2>4, ThereMoves
<1>10. NetworkBalanced'
  <2>1. NetworkBalanced /\ \A t \in Stores \ {s} : AtStore(t)' = AtStore(t)
    BY <1>7 DEF Balanced, SameFlow
  <2>2. created' + Cardinality(Uncounted') = created + Cardinality(Uncounted) + 1
    BY <1>1, <1>6, FlowTypes, SetSizes
  <2>3. /\ Cardinality(InHandover') = Cardinality(InHandover) + 0
        /\ Withdrawn' = Withdrawn + 0
        /\ Cardinality(AllMerged') = Cardinality(AllMerged) + 0
    BY <1>1, <1>4, SetSizes DEF Withdrawn
  <2>4. 0 \in Int /\ 1 \in Int /\ 1 = 1 + 0 + 0 + 0
    OBVIOUS
  <2> QED
    BY <1>9, <2>1, <2>2, <2>3, <2>4, NetworkMoves
<1> QED
  BY <1>7, <1>8, <1>9, <1>10, BalancedAtOne

LEMMA CountKeepsBalance ==
  ASSUME TypedControl, Balanced, NEW s \in Stores, CountArrival(s)
  PROVE  Balanced'
<1>1. /\ dispatchPc[s] = "count"
      /\ receivedCount' = [receivedCount EXCEPT ![s] = receivedCount[s] + 1]
      /\ created' = created + 1
      /\ dispatchPc' = [dispatchPc EXCEPT ![s] = "enqueue"]
      /\ UNCHANGED <<queue, reRoutedIn, reRoutedOut, pickerPc, activePicking,
                     completedCount, mergedInto, held, current, bestTarget, monitorPc>>
  BY DEF CountArrival, orderVars, pickerVars, loopVars, engineVars
<1>2. /\ dispatchPc \in [Stores -> {"enqueue", "count"}]
      /\ receivedCount \in [Stores -> Nat]
  BY DEF TypedControl, TypeOK
<1>3. /\ receivedCount'[s] = receivedCount[s] + 1
      /\ \A t \in Stores \ {s} : receivedCount'[t] = receivedCount[t]
  BY <1>1, <1>2
<1>4. /\ InHandover' = InHandover /\ AllMerged' = AllMerged
      /\ \A pc, t : PickersIn(pc, t)' = PickersIn(pc, t)
      /\ \A t : MergedAt(t)' = MergedAt(t) /\ InEngine(t)' = InEngine(t)
                /\ InHandoverAt(t)' = InHandoverAt(t)
  BY <1>1, SameSets DEF InEngine, HeldFor, InHandoverAt
<1>5. Owed(s) = 1 /\ Owed(s)' = 0 /\ \A t \in Stores \ {s} : Owed(t)' = Owed(t)
  BY <1>1, <1>2 DEF Owed
<1>6. Cardinality(Uncounted') = Cardinality(Uncounted) - 1
  <2>1. s \in Uncounted /\ Uncounted' = Uncounted \ {s}
    BY <1>1, <1>2 DEF Uncounted
  <2> QED
    BY <2>1, SetSizes, OneLess
<1>7. \A t \in Stores \ {s} : SameFlow(t)
  BY <1>1, <1>3, <1>4, <1>5, Untouched
<1>8. CameIn(s)' = CameIn(s) + 0
  <2>1. reRoutedIn'[s] = reRoutedIn[s] /\ reRoutedIn[s] \in Int /\ receivedCount[s] \in Int
    BY <1>1, FlowTypes
  <2> QED
    BY <1>3, <1>5, <2>1 DEF CameIn
<1>9. IsThere(s)' = IsThere(s) + 0 /\ AtStore(s)' = AtStore(s) + 0
  <2>1. IsThere(s)' = IsThere(s) /\ AtStore(s)' = AtStore(s)
    BY <1>1, <1>4 DEF IsThere, Present, AtStore
  <2> QED
    BY <2>1, FlowIntegers
<1>10. NetworkBalanced'
  <2>1. NetworkBalanced /\ \A t \in Stores \ {s} : AtStore(t)' = AtStore(t)
    BY <1>7 DEF Balanced, SameFlow
  <2>2. created' + Cardinality(Uncounted') = created + Cardinality(Uncounted) + 0
    BY <1>1, <1>6, FlowTypes, SetSizes
  <2>3. /\ Cardinality(InHandover') = Cardinality(InHandover) + 0
        /\ Withdrawn' = Withdrawn + 0
        /\ Cardinality(AllMerged') = Cardinality(AllMerged) + 0
    BY <1>1, <1>4, SetSizes DEF Withdrawn
  <2>4. 0 \in Int /\ 0 = 0 + 0 + 0 + 0
    OBVIOUS
  <2> QED
    BY <1>9, <2>1, <2>2, <2>3, <2>4, NetworkMoves
<1>11. 0 \in Int
  OBVIOUS
<1> QED
  BY <1>7, <1>8, <1>9, <1>10, <1>11, BalancedAtOne

(* Between two counters a picker holds an order neither of them counts.    *)
Handing(pc) == IF pc \in {"popped", "finishing"} THEN 1 ELSE 0

LEMMA PickersMove ==
  ASSUME TypedControl, NEW p \in Pickers, NEW b, pickerPc[p] # b,
         pickerPc' = [pickerPc EXCEPT ![p] = b]
  PROVE  LET h == Handing(b) - Handing(pickerPc[p]) IN
         /\ Cardinality(InHandover') = Cardinality(InHandover) + h
         /\ InHandoverAt(StoreOf[p])' = InHandoverAt(StoreOf[p]) + h
         /\ \A s \in Stores \ {StoreOf[p]} : InHandoverAt(s)' = InHandoverAt(s)
<1>1. Cardinality(InHandover) \in Int
  BY SetSizes
<1>2. Cardinality(InHandover') = Cardinality(InHandover) + (Handing(b) - Handing(pickerPc[p]))
  BY <1>1, HandoverMoves DEF Handing
<1>3. PICK s \in Stores : s = StoreOf[p]
  BY StoreOfAssumption
<1>4. /\ Cardinality(PickersIn("popped", s)) \in Int
      /\ Cardinality(PickersIn("finishing", s)) \in Int
  BY SetSizes
<1>5. Cardinality(PickersIn("popped", s)') = Cardinality(PickersIn("popped", s))
        + (Is(b, "popped") - Is(pickerPc[p], "popped"))
  BY <1>3, PickerMoves
<1>6. Cardinality(PickersIn("finishing", s)') = Cardinality(PickersIn("finishing", s))
        + (Is(b, "finishing") - Is(pickerPc[p], "finishing"))
  BY <1>3, PickerMoves
<1>7. \A x : Handing(x) = Is(x, "popped") + Is(x, "finishing")
  BY DEF Handing, Is
<1>8. \A x, y : Is(x, y) \in Int
  BY DEF Is
<1>9. InHandoverAt(s)' = InHandoverAt(s) + (Handing(b) - Handing(pickerPc[p]))
  BY <1>4, <1>5, <1>6, <1>7, <1>8 DEF InHandoverAt
<1>10. \A t \in Stores \ {s} : InHandoverAt(t)' = InHandoverAt(t)
  BY <1>3, PickerMoves DEF InHandoverAt
<1> QED
  BY <1>2, <1>3, <1>9, <1>10

(* A picker goes on: what its store counts changes by the opposite of what *)
(* it holds uncounted.                                                     *)
LEMMA PickerKeepsBalance ==
  ASSUME TypedControl, Balanced, NEW p \in Pickers, NEW b, pickerPc[p] # b,
         pickerPc' = [pickerPc EXCEPT ![p] = b],
         CountersStay, UNCHANGED <<mergedInto, held, current, bestTarget, monitorPc>>,
         AtStore(StoreOf[p])' = AtStore(StoreOf[p]) - (Handing(b) - Handing(pickerPc[p])),
         \A t \in Stores \ {StoreOf[p]} : /\ completedCount'[t] = completedCount[t]
                                         /\ queue'[t] = queue[t]
                                         /\ activePicking'[t] = activePicking[t]
  PROVE  Balanced'
<1> USE DEF CountersStay
<1>1. /\ AllMerged' = AllMerged /\ Uncounted' = Uncounted
      /\ \A t : MergedAt(t)' = MergedAt(t) /\ InEngine(t)' = InEngine(t) /\ Owed(t)' = Owed(t)
  BY SameSets DEF InEngine, HeldFor, Owed
<1>2. PICK s \in Stores : s = StoreOf[p]
  BY StoreOfAssumption
<1>3. PICK h \in Int : h = Handing(b) - Handing(pickerPc[p])
  <2>1. \A x : Handing(x) \in Int
    BY DEF Handing
  <2> QED
    BY <2>1
<1>4. /\ Cardinality(InHandover') = Cardinality(InHandover) + h
      /\ InHandoverAt(s)' = InHandoverAt(s) + h
      /\ \A t \in Stores \ {s} : InHandoverAt(t)' = InHandoverAt(t)
      /\ AtStore(s)' = AtStore(s) - h
  BY <1>2, <1>3, PickersMove
<1>5. \A t \in Stores \ {s} : SameFlow(t)
  BY <1>1, <1>2, <1>4, Untouched
<1>6. CameIn(s)' = CameIn(s)
  BY <1>1 DEF CameIn
<1>7. IsThere(s)' = IsThere(s)
  <2>1. /\ reRoutedOut'[s] = reRoutedOut[s] /\ InEngine(s)' = InEngine(s)
        /\ Cardinality(MergedAt(s)') = Cardinality(MergedAt(s))
    BY <1>1
  <2>2. Present(s)' = Present(s)
    <3>1. AtStore(s) \in Int /\ InHandoverAt(s) \in Int
      BY FlowIntegers
    <3> QED
      BY <1>4, <3>1 DEF Present
  <2> QED
    BY <2>1, <2>2 DEF IsThere
<1>8. NetworkBalanced'
  <2>1. NetworkBalanced /\ \A t \in Stores \ {s} : AtStore(t)' = AtStore(t)
    BY <1>5 DEF Balanced, SameFlow
  <2>2. /\ SumFunction(AtStores)' = SumFunction(AtStores) + (0 - h)
        /\ SumFunction(AtStores) \in Int
    <3>1. 0 - h \in Int /\ AtStore(s)' = AtStore(s) + (0 - h)
      BY <1>4, FlowIntegers
    <3> QED
      BY <2>1, <3>1, SumMoves
  <2>3. /\ created' = created /\ Withdrawn' = Withdrawn
        /\ Cardinality(Uncounted') = Cardinality(Uncounted)
        /\ Cardinality(AllMerged') = Cardinality(AllMerged)
    BY <1>1 DEF Withdrawn
  <2>4. /\ created \in Int /\ Cardinality(Uncounted) \in Int /\ Withdrawn \in Int
        /\ Cardinality(InHandover) \in Int /\ Cardinality(AllMerged) \in Int
    BY FlowTypes, SetSizes DEF Withdrawn
  <2>5. SumFunction(AtStores)' + Cardinality(InHandover')
          = SumFunction(AtStores) + Cardinality(InHandover)
    BY <1>4, <2>2, <2>4
  <2> QED
    BY <2>1, <2>3, <2>5 DEF NetworkBalanced
<1>9. CameIn(s)' = CameIn(s) + 0 /\ IsThere(s)' = IsThere(s) + 0 /\ 0 \in Int
  BY <1>6, <1>7, FlowIntegers
<1> QED
  BY <1>5, <1>8, <1>9, BalancedAtOne

LEMMA PickerStepsKeepBalance ==
  ASSUME TypedControl, Balanced, NEW p \in Pickers, Pop(p) \/ PickerWork(p)
  PROVE  Balanced'
<1> USE DEF dispatchVars, orderVars, loopVars, engineVars
<1>1. PICK s \in Stores : s = StoreOf[p]
  BY StoreOfAssumption
<1>2. /\ queue \in [Stores -> Seq(Orders)]
      /\ activePicking \in [Stores -> Int] /\ completedCount \in [Stores -> Nat]
  BY DEF TypedControl, TypeOK
<1>3. activePicking[s] \in Int /\ completedCount[s] \in Int /\ Len(queue[s]) \in Int
  BY FlowTypes
<1>4. AtStore(s) = completedCount[s] + Len(queue[s]) + activePicking[s]
  BY DEF AtStore
<1>5. CASE Pop(p)
  <2>1. /\ pickerPc[p] = "ready" /\ pickerPc' = [pickerPc EXCEPT ![p] = "popped"]
        /\ queue[s] # <<>> /\ queue' = [queue EXCEPT ![s] = Tail(queue[s])]
        /\ CountersStay
        /\ UNCHANGED <<mergedInto, held, current, bestTarget, monitorPc, activePicking, completedCount>>
    BY <1>1, <1>5 DEF Pop, CountersStay
  <2>2. Handing("popped") - Handing(pickerPc[p]) = 1 /\ pickerPc[p] # "popped"
    BY <2>1 DEF Handing
  <2>3. Len(queue'[s]) = Len(queue[s]) - 1
    BY <1>2, <2>1, PopFacts
  <2>4. AtStore(s)' = completedCount[s] + (Len(queue[s]) - 1) + activePicking[s]
    BY <2>1, <2>3 DEF AtStore
  <2>5. AtStore(s)' = AtStore(s) - 1
    BY <1>3, <1>4, <2>4
  <2>6. \A t \in Stores \ {s} : queue'[t] = queue[t]
    BY <1>2, <2>1
  <2> QED
    BY <1>1, <2>1, <2>2, <2>5, <2>6, PickerKeepsBalance
<1>6. CASE IncrPicking(p)
  <2>1. /\ pickerPc[p] = "popped" /\ pickerPc' = [pickerPc EXCEPT ![p] = "picking"]
        /\ activePicking' = [activePicking EXCEPT ![s] = activePicking[s] + 1]
        /\ CountersStay
        /\ UNCHANGED <<mergedInto, held, current, bestTarget, monitorPc, queue, completedCount>>
    BY <1>1, <1>6 DEF IncrPicking, CountersStay
  <2>2. Handing("picking") - Handing(pickerPc[p]) = -1 /\ pickerPc[p] # "picking"
    BY <2>1 DEF Handing
  <2>3. activePicking'[s] = activePicking[s] + 1
    BY <1>2, <2>1
  <2>4. AtStore(s)' = completedCount[s] + Len(queue[s]) + (activePicking[s] + 1)
    BY <2>1, <2>3 DEF AtStore
  <2>5. AtStore(s)' = AtStore(s) - (-1)
    BY <1>3, <1>4, <2>4
  <2>6. \A t \in Stores \ {s} : activePicking'[t] = activePicking[t]
    BY <1>2, <2>1
  <2> QED
    BY <1>1, <2>1, <2>2, <2>5, <2>6, PickerKeepsBalance
<1>7. CASE DecrPicking(p)
  <2>1. /\ pickerPc[p] = "picking" /\ pickerPc' = [pickerPc EXCEPT ![p] = "finishing"]
        /\ activePicking' = [activePicking EXCEPT ![s] = activePicking[s] - 1]
        /\ CountersStay
        /\ UNCHANGED <<mergedInto, held, current, bestTarget, monitorPc, queue, completedCount>>
    BY <1>1, <1>7 DEF DecrPicking, CountersStay
  <2>2. Handing("finishing") - Handing(pickerPc[p]) = 1 /\ pickerPc[p] # "finishing"
    BY <2>1 DEF Handing
  <2>3. activePicking'[s] = activePicking[s] - 1
    BY <1>2, <2>1
  <2>4. AtStore(s)' = completedCount[s] + Len(queue[s]) + (activePicking[s] - 1)
    BY <2>1, <2>3 DEF AtStore
  <2>5. AtStore(s)' = AtStore(s) - 1
    BY <1>3, <1>4, <2>4
  <2>6. \A t \in Stores \ {s} : activePicking'[t] = activePicking[t]
    BY <1>2, <2>1
  <2> QED
    BY <1>1, <2>1, <2>2, <2>5, <2>6, PickerKeepsBalance
<1>8. CASE IncrCompleted(p)
  <2>0. PICK b \in {"ready", "stopped"} : pickerPc' = [pickerPc EXCEPT ![p] = b]
    BY <1>8 DEF IncrCompleted
  <2>1. /\ pickerPc[p] = "finishing"
        /\ completedCount' = [completedCount EXCEPT ![s] = completedCount[s] + 1]
        /\ CountersStay
        /\ UNCHANGED <<mergedInto, held, current, bestTarget, monitorPc, queue, activePicking>>
    BY <1>1, <1>8 DEF IncrCompleted, CountersStay
  <2>2. Handing(b) - Handing(pickerPc[p]) = -1 /\ pickerPc[p] # b
    BY <2>1 DEF Handing
  <2>3. completedCount'[s] = completedCount[s] + 1
    BY <1>2, <2>1
  <2>4. AtStore(s)' = (completedCount[s] + 1) + Len(queue[s]) + activePicking[s]
    BY <2>1, <2>3 DEF AtStore
  <2>5. AtStore(s)' = AtStore(s) - (-1)
    BY <1>3, <1>4, <2>4
  <2>6. \A t \in Stores \ {s} : completedCount'[t] = completedCount[t]
    BY <1>2, <2>1
  <2> QED
    BY <1>1, <2>0, <2>1, <2>2, <2>5, <2>6, PickerKeepsBalance
<1> QED
  BY <1>5, <1>6, <1>7, <1>8 DEF PickerWork

LEMMA ExitKeepsBalance ==
  ASSUME TypedControl, Balanced, NEW p \in Pickers, PickerExit(p)
  PROVE  Balanced'
<1>1. /\ pickerPc[p] = "ready" /\ pickerPc' = [pickerPc EXCEPT ![p] = "stopped"]
      /\ CountersStay
      /\ UNCHANGED <<mergedInto, held, current, bestTarget, monitorPc, queue, activePicking,
                     completedCount>>
  BY DEF PickerExit, CountersStay, dispatchVars, orderVars, loopVars, engineVars
<1>2. /\ EngineStays /\ LengthsStay
  BY <1>1, EngineRests DEF LengthsStay
<1>3. \A r \in Pickers : \A pc \in {"popped", "finishing"} : pickerPc'[r] = pc <=> pickerPc[r] = pc
  BY <1>1 DEF TypedControl, TypeOK
<1>4. /\ InHandover' = InHandover
      /\ \A s \in Stores : \A pc \in {"popped", "finishing"} :
           PickersIn(pc, s)' = PickersIn(pc, s)
  BY <1>3 DEF InHandover, PickersIn
<1> QED
  BY <1>1, <1>2, <1>4, FlowKept

(* The engine takes l orders off the queue of store s (puts them there if  *)
(* l is negative), keeps e of them and merges m of them into others.       *)
LEMMA EngineKeepsBalance ==
  ASSUME TypedControl, Balanced, CountersStay, PickingStays,
         NEW s \in Stores, NEW l \in Int, NEW e \in Int, NEW m \in Int, l = e + m,
         Len(queue'[s]) = Len(queue[s]) - l,
         \A t \in Stores \ {s} : queue'[t] = queue[t],
         InEngine(s)' = InEngine(s) + e,
         \A t \in Stores \ {s} : InEngine(t)' = InEngine(t),
         Withdrawn' = Withdrawn + e,
         Cardinality(MergedAt(s)') = Cardinality(MergedAt(s)) + m,
         \A t \in Stores \ {s} : MergedAt(t)' = MergedAt(t),
         Cardinality(AllMerged') = Cardinality(AllMerged) + m
  PROVE  Balanced'
<1>1. /\ InHandover' = InHandover /\ Uncounted' = Uncounted
      /\ \A t : InHandoverAt(t)' = InHandoverAt(t) /\ Owed(t)' = Owed(t)
  BY SameSets DEF CountersStay, PickingStays, InHandoverAt, Owed
<1>2. \A t \in Stores \ {s} : SameFlow(t)
  <2>1. ASSUME NEW t \in Stores \ {s}
        PROVE  /\ receivedCount'[t] = receivedCount[t] /\ reRoutedIn'[t] = reRoutedIn[t]
               /\ reRoutedOut'[t] = reRoutedOut[t]
               /\ completedCount'[t] = completedCount[t] /\ activePicking'[t] = activePicking[t]
               /\ Cardinality(MergedAt(t)') = Cardinality(MergedAt(t))
    BY DEF CountersStay, PickingStays
  <2> QED
    BY <1>1, <2>1, Untouched
<1>3. AtStore(s) \in Int /\ InHandoverAt(s) \in Int /\ Len(queue[s]) \in Int
      /\ completedCount[s] \in Int /\ activePicking[s] \in Int
  BY FlowTypes, FlowIntegers
<1>4. AtStore(s)' = AtStore(s) - l
  <2>1. completedCount'[s] = completedCount[s] /\ activePicking'[s] = activePicking[s]
    BY DEF PickingStays
  <2>2. AtStore(s)' = completedCount[s] + (Len(queue[s]) - l) + activePicking[s]
    BY <2>1 DEF AtStore
  <2>3. AtStore(s) = completedCount[s] + Len(queue[s]) + activePicking[s]
    BY DEF AtStore
  <2> QED
    BY <1>3, <2>2, <2>3
<1>5. Present(s)' = Present(s) - l /\ Present(s) \in Int
  BY <1>1, <1>3, <1>4 DEF Present
<1>6. IsThere(s)' = IsThere(s)
  <2>1. reRoutedOut'[s] = reRoutedOut[s]
    BY DEF CountersStay
  <2>2. InEngine(s) \in Int /\ reRoutedOut[s] \in Int /\ Cardinality(MergedAt(s)) \in Int
    BY FlowTypes, FlowIntegers, SetSizes
  <2>3. InEngine(s)' + Present(s)' + Cardinality(MergedAt(s)')
          = InEngine(s) + Present(s) + Cardinality(MergedAt(s))
    BY <1>5, <2>2
  <2> QED
    BY <2>1, <2>3 DEF IsThere
<1>7. CameIn(s)' = CameIn(s)
  BY <1>1 DEF CameIn, CountersStay
<1>8. NetworkBalanced'
  <2>1. NetworkBalanced /\ \A t \in Stores \ {s} : AtStore(t)' = AtStore(t)
    BY <1>2 DEF Balanced, SameFlow
  <2>2. /\ SumFunction(AtStores)' = SumFunction(AtStores) + (0 - l)
        /\ SumFunction(AtStores) \in Int
    <3>1. 0 - l \in Int /\ AtStore(s)' = AtStore(s) + (0 - l)
      BY <1>3, <1>4
    <3> QED
      BY <2>1, <3>1, SumMoves
  <2>3. /\ created \in Int /\ Cardinality(Uncounted) \in Int /\ Withdrawn \in Int
        /\ Cardinality(InHandover) \in Int /\ Cardinality(AllMerged) \in Int
    BY FlowTypes, SetSizes DEF Withdrawn
  <2>4. Withdrawn' + Cardinality(AllMerged') = Withdrawn + Cardinality(AllMerged) + l
    BY <2>3
  <2>5. created' = created
    BY DEF CountersStay
  <2> QED
    BY <1>1, <2>1, <2>2, <2>3, <2>4, <2>5 DEF NetworkBalanced
<1>9. CameIn(s)' = CameIn(s) + 0 /\ IsThere(s)' = IsThere(s) + 0 /\ 0 \in Int
  BY <1>6, <1>7, FlowIntegers
<1> QED
  BY <1>2, <1>8, <1>9, BalancedAtOne

LEMMA ExtractKeepsBalance ==
  ASSUME TypedControl, Balanced, Extract
  PROVE  Balanced'
<1> USE DEF monitorFrame, dispatchVars, orderVars, pickerVars
<1>1. PICK s \in Stores : s = current
  BY DEF TypedControl, TypeOK
<1>2. PICK x, after : /\ x = Extracted(queue[s], Perishable, 1)
                      /\ after = RemainingAfterExtract(queue[s], Perishable, 1)
  OBVIOUS
<1>3. /\ queue \in [Stores -> Seq(Orders)] /\ queue[s] \in Seq(Orders)
      /\ held = NoOrder
      /\ queue' = [queue EXCEPT ![s] = after]
      /\ CountersStay /\ PickingStays /\ UNCHANGED mergedInto
  BY <1>1, <1>2 DEF TypedControl, TypeOK, Control, MonitorControl, HoldingPcs, Extract,
                    CountersStay, PickingStays
<1>4. queue'[s] = after /\ \A t \in Stores \ {s} : queue'[t] = queue[t]
  BY <1>3
<1>5. /\ AllMerged' = AllMerged /\ InHandover' = InHandover
      /\ \A t : MergedAt(t)' = MergedAt(t)
      /\ \A pc, t : PickersIn(pc, t)' = PickersIn(pc, t)
  BY <1>3, SameSets DEF PickingStays
<1>6. CASE x = <<>>
  <2>1. Len(after) = Len(queue[s])
    BY <1>2, <1>3, <1>6, ExtractFacts
  <2>2. held' = NoOrder
    BY <1>1, <1>2, <1>6 DEF Extract, StoreDone
  <2>3. LengthsStay /\ EngineStays
    BY <1>3, <1>4, <2>1, <2>2, EngineRests DEF LengthsStay
  <2> QED
    BY <1>3, <1>5, <2>3, FlowKept DEF PickingStays
<1>7. CASE x # <<>>
  <2>1. Len(after) = Len(queue[s]) - 1 /\ x[1] \in Orders
    BY <1>2, <1>3, <1>7, ExtractFacts
  <2>2. held' = x[1] /\ current' = current /\ monitorPc' = "reserve"
    BY <1>1, <1>2, <1>7 DEF Extract
  <2>3. Len(queue'[s]) = Len(queue[s]) - 1
    BY <1>4, <2>1
  <2>4. InEngine(s)' = InEngine(s) + 1 /\ Withdrawn' = Withdrawn + 1
    BY <1>1, <1>3, <2>1, <2>2, NoOrderAssumption DEF InEngine, HeldFor, Withdrawn
  <2>5. \A t \in Stores \ {s} : InEngine(t)' = InEngine(t)
    BY <1>1, <1>3, <2>2 DEF InEngine, HeldFor
  <2>6. /\ Cardinality(MergedAt(s)') = Cardinality(MergedAt(s)) + 0
        /\ Cardinality(AllMerged') = Cardinality(AllMerged) + 0
    BY <1>5, SetSizes
  <2>7. 1 \in Int /\ 0 \in Int /\ 1 = 1 + 0
    OBVIOUS
  <2> QED
    BY <1>3, <1>4, <1>5, <2>3, <2>4, <2>5, <2>6, <2>7, EngineKeepsBalance
<1> QED
  BY <1>6, <1>7

LEMMA PushBackKeepsBalance ==
  ASSUME TypedControl, Balanced, PushBack
  PROVE  Balanced'
<1> USE DEF monitorFrame, dispatchVars, orderVars, pickerVars
<1>1. PICK s \in Stores : s = current
  BY DEF TypedControl, TypeOK
<1>2. /\ queue \in [Stores -> Seq(Orders)] /\ queue[s] \in Seq(Orders)
      /\ held # NoOrder /\ held \in Orders /\ held' = NoOrder
      /\ queue' = [queue EXCEPT ![s] = Append(queue[s], held)]
      /\ CountersStay /\ PickingStays /\ UNCHANGED mergedInto /\ monitorPc = "pushBack"
  BY <1>1 DEF TypedControl, TypeOK, Control, MonitorControl, HoldingPcs, PushBack, StoreDone,
              CountersStay, PickingStays
<1>3. Len(queue'[s]) = Len(queue[s]) - (-1) /\ \A t \in Stores \ {s} : queue'[t] = queue[t]
  <2>1. Len(Append(queue[s], held)) = Len(queue[s]) + 1 /\ Len(queue[s]) \in Int
    BY <1>2, PushFacts, FlowTypes
  <2> QED
    BY <1>2, <2>1
<1>4. /\ AllMerged' = AllMerged /\ \A t : MergedAt(t)' = MergedAt(t)
  BY <1>2, SameSets
<1>5. InEngine(s)' = InEngine(s) + (-1) /\ Withdrawn' = Withdrawn + (-1)
  BY <1>1, <1>2 DEF InEngine, HeldFor, Withdrawn
<1>6. \A t \in Stores \ {s} : InEngine(t)' = InEngine(t)
  BY <1>1, <1>2 DEF InEngine, HeldFor
<1>7. /\ Cardinality(MergedAt(s)') = Cardinality(MergedAt(s)) + 0
      /\ Cardinality(AllMerged') = Cardinality(AllMerged) + 0
  BY <1>4, SetSizes
<1>8. -1 \in Int /\ 0 \in Int /\ -1 = -1 + 0
  OBVIOUS
<1> QED
  BY <1>2, <1>3, <1>4, <1>5, <1>6, <1>7, <1>8, EngineKeepsBalance

LEMMA MergeKeepsBalance ==
  ASSUME TypedControl, Placement, Balanced, MergeStep
  PROVE  Balanced'
<1>1. PICK s, primary, merged :
        /\ s \in Stores /\ s = current
        /\ merged # {} /\ IsFiniteSet(merged) /\ Cardinality(merged) \in Nat
        /\ merged \subseteq Mergeable(s) /\ primary \in Mergeable(s) \ merged
        /\ merged \subseteq Range(queue[s]) /\ primary \in Range(queue[s])
        /\ Mergeable(s) \subseteq Orders
        /\ \A o \in merged \cup {primary} : mergedInto[o] = NoOrder
        /\ Len(queue'[s]) = Len(queue[s]) - Cardinality(merged)
        /\ \A t \in Stores \ {s} : queue'[t] = queue[t]
        /\ \A o \in Orders : mergedInto'[o] = IF o \in merged THEN primary ELSE mergedInto[o]
        /\ consolidatedCount' = [consolidatedCount EXCEPT ![primary] = Cardinality(merged) + 1]
        /\ summary'["BatchingNudge"] = summary["BatchingNudge"] + 1
        /\ summary'["TotalOrdersMerged"]
             = summary["TotalOrdersMerged"] + Cardinality(merged) + 1
  BY MergeChanges
<1>2. CountersStay /\ PickingStays /\ held = NoOrder /\ held' = NoOrder
  BY MergeStepFrame DEF MergeStep, GroupCartStep, CountersStay, PickingStays, monitorFrame,
                        dispatchVars, pickerVars
<1>3. primary # NoOrder /\ \A o \in merged : Home[o] = s /\ o \in Orders
  BY <1>1, NoOrderAssumption DEF Mergeable, CartOrders
<1>4. /\ AllMerged' = AllMerged \cup merged /\ AllMerged \cap merged = {}
      /\ MergedAt(s)' = MergedAt(s) \cup merged /\ MergedAt(s) \cap merged = {}
      /\ \A t \in Stores \ {s} : MergedAt(t)' = MergedAt(t)
  BY <1>1, <1>3 DEF AllMerged, MergedAt
<1>5. \A T : IsFiniteSet(T) /\ T \cap merged = {} =>
        Cardinality(T \cup merged) = Cardinality(T) + Cardinality(merged)
  <2>1. ASSUME NEW T, IsFiniteSet(T), T \cap merged = {}
        PROVE  Cardinality(T \cup merged) = Cardinality(T) + Cardinality(merged)
    <3>1. Cardinality(T \cap merged) = 0
      BY <2>1, FS_EmptySet
    <3>2. Cardinality(T \cup merged)
            = Cardinality(T) + Cardinality(merged) - Cardinality(T \cap merged)
      BY <1>1, <2>1, FS_Union
    <3>3. Cardinality(T) \in Nat /\ Cardinality(merged) \in Nat
      BY <1>1, <2>1, FS_CardinalityType
    <3> QED
      BY <3>1, <3>2, <3>3
  <2> QED
    BY <2>1
<1>6. PICK n \in Int : n = Cardinality(merged)
  BY <1>1
<1>7. /\ Cardinality(AllMerged') = Cardinality(AllMerged) + n
      /\ Cardinality(MergedAt(s)') = Cardinality(MergedAt(s)) + n
  BY <1>4, <1>5, <1>6, SetSizes
<1>8. /\ InEngine(s)' = InEngine(s) + 0 /\ Withdrawn' = Withdrawn + 0
      /\ \A t \in Stores \ {s} : InEngine(t)' = InEngine(t)
  BY <1>2 DEF InEngine, HeldFor, Withdrawn
<1>9. /\ Len(queue'[s]) = Len(queue[s]) - n
      /\ \A t \in Stores \ {s} : queue'[t] = queue[t]
  BY <1>1, <1>6
<1>10. s \in Stores /\ 0 \in Int /\ n = 0 + n
  BY <1>1
<1> QED
  BY <1>2, <1>4, <1>7, <1>8, <1>9, <1>10, EngineKeepsBalance

(* The two counters of a re-route: the order passes from the account of    *)
(* the source to nobody's and on to the target's.                          *)
LEMMA AccountMoves ==
  ASSUME TypedControl, Balanced, NEW s \in Stores, NEW i \in Int, NEW o \in Int, NEW e \in Int,
         reRoutedIn'[s] = reRoutedIn[s] + i, reRoutedOut'[s] = reRoutedOut[s] + o,
         InEngine(s)' = InEngine(s) + e, i = o + e,
         \A t \in Stores \ {s} : /\ reRoutedIn'[t] = reRoutedIn[t]
                                 /\ reRoutedOut'[t] = reRoutedOut[t]
                                 /\ InEngine(t)' = InEngine(t),
         UNCHANGED <<created, receivedCount, dispatchPc, queue, held, mergedInto>>, PickingStays
  PROVE  Balanced'
<1>1. /\ AllMerged' = AllMerged /\ InHandover' = InHandover /\ Uncounted' = Uncounted
      /\ \A t : MergedAt(t)' = MergedAt(t) /\ Owed(t)' = Owed(t)
                /\ InHandoverAt(t)' = InHandoverAt(t)
  BY SameSets DEF PickingStays, Owed, InHandoverAt
<1>2. \A t \in Stores : AtStore(t)' = AtStore(t) /\ Present(t)' = Present(t)
  BY <1>1 DEF PickingStays, AtStore, Present
<1>3. \A t \in Stores \ {s} : SameFlow(t)
  <2>1. ASSUME NEW t \in Stores \ {s}
        PROVE  CameIn(t)' = CameIn(t) /\ IsThere(t)' = IsThere(t) /\ AtStore(t)' = AtStore(t)
    BY <1>1, <1>2 DEF CameIn, IsThere
  <2> QED
    BY <2>1 DEF SameFlow
<1>4. CameIn(s)' = CameIn(s) + i
  <2>1. receivedCount[s] \in Int /\ reRoutedIn[s] \in Int /\ Owed(s) \in Int
    BY FlowTypes, FlowIntegers
  <2>2. CameIn(s)' = receivedCount[s] + (reRoutedIn[s] + i) + Owed(s)
    BY <1>1 DEF CameIn
  <2> QED
    BY <2>1, <2>2 DEF CameIn
<1>5. IsThere(s)' = IsThere(s) + i
  <2>1. /\ Present(s)' = Present(s) + 0
        /\ Cardinality(MergedAt(s)') = Cardinality(MergedAt(s)) + 0
    <3>1. Present(s) \in Int
      BY FlowIntegers DEF Present
    <3> QED
      BY <1>1, <1>2, <3>1, SetSizes
  <2>2. IsThere(s)' = IsThere(s) + (o + e + 0 + 0)
    <3>1. 0 \in Int
      OBVIOUS
    <3> QED
      BY <2>1, <3>1, ThereMoves
  <2> QED
    BY <2>2
<1>6. NetworkBalanced'
  <2>1. AtStores' = AtStores
    BY <1>2 DEF AtStores
  <2>2. Withdrawn' = Withdrawn
    BY DEF Withdrawn
  <2> QED
    BY <1>1, <2>1, <2>2 DEF Balanced, NetworkBalanced
<1> QED
  BY <1>3, <1>4, <1>5, <1>6, BalancedAtOne

LEMMA CountingReRouteKeepsBalance ==
  ASSUME TypedControl, Balanced, CountReRoutedOut \/ CountReRoutedIn
  PROVE  Balanced'
<1> USE DEF monitorFrame, dispatchVars, orderVars, pickerVars, passFrame
<1>1. PICK s \in Stores, u \in Stores : s = current /\ u = bestTarget
  BY DEF TypedControl, TypeOK, Control, MonitorControl, HoldingPcs, CountReRoutedOut,
         CountReRoutedIn
<1>2. /\ reRoutedIn \in [Stores -> Nat] /\ reRoutedOut \in [Stores -> Nat]
      /\ held # NoOrder
  BY DEF TypedControl, TypeOK, Control, MonitorControl, HoldingPcs, CountReRoutedOut,
         CountReRoutedIn
<1>3. /\ UNCHANGED <<created, receivedCount, dispatchPc, queue, held, mergedInto>>
      /\ PickingStays
  BY DEF CountReRoutedOut, CountReRoutedIn, PickingStays
<1>4. 0 \in Int /\ 1 \in Int /\ -1 \in Int /\ 0 = 1 + (-1) /\ 1 = 0 + 1
  OBVIOUS
<1>5. CASE CountReRoutedOut
  <2>1. /\ reRoutedOut'[s] = reRoutedOut[s] + 1 /\ reRoutedIn'[s] = reRoutedIn[s] + 0
        /\ \A t \in Stores \ {s} : /\ reRoutedIn'[t] = reRoutedIn[t]
                                   /\ reRoutedOut'[t] = reRoutedOut[t]
    BY <1>1, <1>2, <1>5 DEF CountReRoutedOut
  <2>2. /\ InEngine(s)' = InEngine(s) + (-1)
        /\ \A t \in Stores \ {s} : InEngine(t)' = InEngine(t)
    BY <1>1, <1>2, <1>5 DEF CountReRoutedOut, InEngine, HeldFor
  <2> QED
    BY <1>3, <1>4, <2>1, <2>2, AccountMoves
<1>6. CASE CountReRoutedIn
  <2>1. /\ reRoutedIn'[u] = reRoutedIn[u] + 1 /\ reRoutedOut'[u] = reRoutedOut[u] + 0
        /\ \A t \in Stores \ {u} : /\ reRoutedIn'[t] = reRoutedIn[t]
                                   /\ reRoutedOut'[t] = reRoutedOut[t]
    BY <1>1, <1>2, <1>6 DEF CountReRoutedIn
  <2>2. /\ InEngine(u)' = InEngine(u) + 1
        /\ \A t \in Stores \ {u} : InEngine(t)' = InEngine(t)
    BY <1>1, <1>2, <1>6 DEF CountReRoutedIn, InEngine, HeldFor
  <2> QED
    BY <1>3, <1>4, <2>1, <2>2, AccountMoves
<1> QED
  BY <1>5, <1>6

LEMMA HandOverKeepsBalance ==
  ASSUME TypedControl, Balanced, HandOver
  PROVE  Balanced'
<1> USE DEF monitorFrame, dispatchVars, orderVars, pickerVars, passFrame
<1>1. PICK u \in Stores : u = bestTarget
  BY DEF TypedControl, TypeOK, Control, MonitorControl, HoldingPcs, HandOver
<1>2. /\ queue \in [Stores -> Seq(Orders)] /\ queue[u] \in Seq(Orders)
      /\ held # NoOrder /\ held \in Orders /\ held' = NoOrder
      /\ queue' = [queue EXCEPT ![u] = Append(queue[u], held)]
      /\ CountersStay /\ PickingStays /\ UNCHANGED mergedInto /\ monitorPc = "handOver"
  BY <1>1 DEF TypedControl, TypeOK, Control, MonitorControl, HoldingPcs, HandOver,
              CountersStay, PickingStays
<1>3. Len(queue'[u]) = Len(queue[u]) - (-1) /\ \A t \in Stores \ {u} : queue'[t] = queue[t]
  <2>1. Len(Append(queue[u], held)) = Len(queue[u]) + 1 /\ Len(queue[u]) \in Int
    BY <1>2, PushFacts, FlowTypes
  <2> QED
    BY <1>2, <2>1
<1>4. /\ AllMerged' = AllMerged /\ \A t : MergedAt(t)' = MergedAt(t)
  BY <1>2, SameSets
<1>5. InEngine(u)' = InEngine(u) + (-1) /\ Withdrawn' = Withdrawn + (-1)
  BY <1>1, <1>2 DEF InEngine, HeldFor, Withdrawn
<1>6. \A t \in Stores \ {u} : InEngine(t)' = InEngine(t)
  BY <1>1, <1>2 DEF InEngine, HeldFor
<1>7. /\ Cardinality(MergedAt(u)') = Cardinality(MergedAt(u)) + 0
      /\ Cardinality(AllMerged') = Cardinality(AllMerged) + 0
  BY <1>4, SetSizes
<1>8. -1 \in Int /\ 0 \in Int /\ -1 = -1 + 0
  OBVIOUS
<1> QED
  BY <1>2, <1>3, <1>4, <1>5, <1>6, <1>7, <1>8, EngineKeepsBalance

LEMMA BalancedInit == Init => Balanced
<1> SUFFICES ASSUME Init PROVE Balanced
  OBVIOUS
<1>1. /\ InHandover = {} /\ Uncounted = {} /\ AllMerged = {}
      /\ \A pc \in {"popped", "finishing"} : \A s : PickersIn(pc, s) = {}
      /\ \A s : MergedAt(s) = {}
  BY DEF Init, InHandover, Uncounted, AllMerged, PickersIn, MergedAt
<1>2. Cardinality({}) = 0
  BY FS_EmptySet
<1>3. ASSUME NEW s \in Stores
      PROVE  AtStore(s) = 0 /\ Balance(s)
  <2>1. /\ receivedCount[s] = 0 /\ reRoutedIn[s] = 0 /\ reRoutedOut[s] = 0
        /\ completedCount[s] = 0 /\ activePicking[s] = 0 /\ queue[s] = <<>>
        /\ Owed(s) = 0 /\ InEngine(s) = 0
    BY DEF Init, Owed, InEngine, HeldFor
  <2>2. AtStore(s) = 0
    BY <2>1 DEF AtStore
  <2>3. InHandoverAt(s) = 0 /\ Cardinality(MergedAt(s)) = 0
    BY <1>1, <1>2 DEF InHandoverAt
  <2>4. Present(s) = 0
    BY <2>2, <2>3 DEF Present
  <2> QED
    BY <2>1, <2>2, <2>3, <2>4 DEF Balance, CameIn, IsThere
<1>4. SumFunction(AtStores) = 0
  <2>1. DOMAIN AtStores = Stores /\ \A s \in Stores : AtStores[s] = 0
    BY <1>3 DEF AtStores
  <2> QED
    BY <2>1, StoresFinite, SumOfNothing, SumOfFunction
<1>5. NetworkBalanced
  <2>1. created = 0 /\ Withdrawn = 0
    BY DEF Init, Withdrawn
  <2> QED
    BY <1>1, <1>2, <1>4, <2>1 DEF NetworkBalanced
<1> QED
  BY <1>3, <1>5 DEF Balanced

LEMMA BalancedStep == TypedControl /\ Placement /\ Balanced /\ [Next]_vars => Balanced'
<1> SUFFICES ASSUME TypedControl, Placement, Balanced, [Next]_vars PROVE Balanced'
  OBVIOUS
<1>1. ASSUME NEW s \in Stores, EnqueueArrival(s) PROVE Balanced'
  BY <1>1, EnqueueKeepsBalance
<1>2. ASSUME NEW s \in Stores, CountArrival(s) PROVE Balanced'
  BY <1>2, CountKeepsBalance
<1>3. ASSUME NEW p \in Pickers, Pop(p) \/ PickerWork(p) PROVE Balanced'
  BY <1>3, PickerStepsKeepBalance
<1>4. ASSUME NEW p \in Pickers, PickerExit(p) PROVE Balanced'
  BY <1>4, ExitKeepsBalance
<1>5. CASE Extract
  BY <1>5, ExtractKeepsBalance
<1>6. CASE PushBack
  BY <1>6, PushBackKeepsBalance
<1>7. CASE HandOver
  BY <1>7, HandOverKeepsBalance
<1>10. CASE CountReRoutedOut \/ CountReRoutedIn
  BY <1>10, CountingReRouteKeepsBalance
<1>8. CASE MergeStep
  BY <1>8, MergeKeepsBalance
<1>9. CASE /\ ~MovingStep /\ ~CountReRoutedOut /\ ~CountReRoutedIn
           /\ \A s \in Stores : ~CountArrival(s)
           /\ \A p \in Pickers : ~PickerExit(p)
  <2>1. /\ CountersStay /\ PickingStays /\ EngineStays
        /\ UNCHANGED <<queue, mergedInto>>
    BY <1>9, OtherStepsKeepFlow
  <2>2. /\ InHandover' = InHandover
        /\ \A pc, s : PickersIn(pc, s)' = PickersIn(pc, s)
    BY <2>1, SameSets DEF PickingStays
  <2>3. LengthsStay
    BY <2>1 DEF LengthsStay
  <2> QED
    BY <2>1, <2>2, <2>3, FlowKept DEF PickingStays
<1> QED
  BY <1>1, <1>2, <1>3, <1>4, <1>5, <1>6, <1>7, <1>8, <1>9, <1>10 DEF MovingStep

(***************************************************************************)
(* The accounting of accounting.go, store by store: between any two steps, *)
(* the counters of a store and the goroutines on their way to them add up  *)
(* to what it received.                                                    *)
(***************************************************************************)
THEOREM FlowAlwaysBalanced == Spec => []StoreFlowBalanced
<1>1. Init => TypedControl /\ Placement /\ Balanced
  BY TypedControlInit, PlacementInit, BalancedInit
<1>2. TypedControl /\ Placement /\ Balanced /\ [Next]_vars => (TypedControl /\ Placement /\ Balanced)'
  BY TypedControlStep, PlacementStep, BalancedStep
<1>3. TypedControl /\ Balanced => StoreFlowBalanced
  <2> SUFFICES ASSUME TypedControl, Balanced, NEW s \in Stores
               PROVE  CameIn(s) = reRoutedOut[s] + InEngine(s) + Len(queue[s])
                        + Cardinality(PickersIn("popped", s)) + activePicking[s]
                        + Cardinality(PickersIn("finishing", s)) + completedCount[s]
                        + Cardinality(MergedAt(s))
    BY DEF StoreFlowBalanced, CameIn, Owed, InEngine
  <2>1. /\ reRoutedOut[s] \in Int /\ InEngine(s) \in Int /\ Len(queue[s]) \in Int
        /\ Cardinality(PickersIn("popped", s)) \in Int /\ activePicking[s] \in Int
        /\ Cardinality(PickersIn("finishing", s)) \in Int /\ completedCount[s] \in Int
        /\ Cardinality(MergedAt(s)) \in Int
    BY FlowTypes, FlowIntegers, SetSizes
  <2>2. CameIn(s) = reRoutedOut[s] + (InEngine(s)
          + ((completedCount[s] + Len(queue[s]) + activePicking[s])
             + (Cardinality(PickersIn("popped", s)) + Cardinality(PickersIn("finishing", s))))
          + Cardinality(MergedAt(s)))
    BY DEF Balanced, Balance, IsThere, Present, AtStore, InHandoverAt
  <2>3. \A a, b, c, d, e, f, g, h \in Int :
          a + (b + ((c + d + e) + (f + g)) + h) = a + b + d + f + e + g + c + h
    OBVIOUS
  <2> QED
    <3> DEFINE len    == Len(queue[s])
               popped == Cardinality(PickersIn("popped", s))
               ending == Cardinality(PickersIn("finishing", s))
               merged == Cardinality(MergedAt(s))
    <3>1. /\ len \in Int /\ popped \in Int /\ ending \in Int /\ merged \in Int
      BY <2>1
    <3>2. CameIn(s) = reRoutedOut[s] + (InEngine(s)
            + ((completedCount[s] + len + activePicking[s]) + (popped + ending)) + merged)
      BY <2>2
    <3> SUFFICES CameIn(s) = reRoutedOut[s] + InEngine(s) + len + popped + activePicking[s]
                               + ending + completedCount[s] + merged
      OBVIOUS
    <3> HIDE DEF len, popped, ending, merged
    <3> QED
      BY <2>1, <2>3, <3>1, <3>2
<1> QED
  BY <1>1, <1>2, <1>3, PTL DEF Spec

-----------------------------------------------------------------------------
(***************************************************************************)
(* The end of the run.  Main stops the stores in turn and waits for their  *)
(* pickers: behind the store being stopped no picker works any more, and   *)
(* at the end nobody holds an order on the way to a counter.               *)
(***************************************************************************)
Draining ==
  /\ shutdown >= 1 => \A s \in Stores : Dispatched(s)
  /\ \A p \in Pickers : StoreOf[p] < shutdown => pickerPc[p] = "stopped"
  /\ shutdown = RunOver => monitorPc = "stopped"

LEMMA DrainingInit == Init => Draining
<1> SUFFICES ASSUME Init PROVE Draining
  OBVIOUS
<1>1. \A p \in Pickers : StoreOf[p] \in Nat /\ StoreOf[p] >= 1
  BY StoreOfAssumption, NumStoresAssumption DEF Stores
<1>2. shutdown = 0
  BY DEF Init
<1>3. RunOver \in Nat /\ RunOver # 0
  BY NumStoresAssumption DEF RunOver
<1> QED
  BY <1>1, <1>2, <1>3 DEF Draining

LEMMA DrainingStep == TypedControl /\ Draining /\ [Next]_vars => Draining'
<1> SUFFICES ASSUME TypedControl, Draining, [Next]_vars PROVE Draining'
  OBVIOUS
<1> USE DEF dispatchVars, orderVars, pickerVars, loopVars, engineVars, verifyVars, monitorFrame
<1>01. /\ pickerPc \in [Pickers -> {"ready", "popped", "picking", "finishing", "stopped"}]
       /\ shutdown \in 0..RunOver
  BY DEF TypedControl, TypeOK
<1>02. NumStores \in Nat
  BY NumStoresAssumption
<1>03. RunOver = NumStores + 2
  BY DEF RunOver
<1>04. \A p \in Pickers : StoreOf[p] \in 1..NumStores
  BY StoreOfAssumption DEF Stores
<1>0. /\ pickerPc \in [Pickers -> {"ready", "popped", "picking", "finishing", "stopped"}]
      /\ shutdown \in 0..RunOver /\ NumStores \in Nat /\ RunOver \in Nat
      /\ \A p \in Pickers : StoreOf[p] \in 1..NumStores
  BY <1>01, <1>02, <1>03, <1>04
<1>1. ASSUME UNCHANGED <<schedule, dispatchPc, pickerPc, monitorPc, shutdown>> PROVE Draining'
  BY <1>1 DEF Draining, Dispatched
<1>2. ASSUME NEW s \in Stores, Dispatcher(s) PROVE Draining'
  <2>1. ~(shutdown >= 1)
    BY <1>2 DEF Dispatcher, EnqueueArrival, CountArrival, Draining, Dispatched
  <2>2. UNCHANGED <<shutdown, pickerPc, monitorPc>>
    BY <1>2 DEF Dispatcher, EnqueueArrival, CountArrival
  <2> QED
    BY <2>1, <2>2 DEF Draining
<1>3. ASSUME NEW p \in Pickers, Picker(p) PROVE Draining'
  <2>1. UNCHANGED <<schedule, dispatchPc, shutdown, monitorPc>>
    BY <1>3 DEF Picker, PickerWork, Pop, IncrPicking, DecrPicking, IncrCompleted, PickerExit
  <2>2. pickerPc[p] # "stopped" /\ \A r \in Pickers \ {p} : pickerPc'[r] = pickerPc[r]
    BY <1>0, <1>3
       DEF Picker, PickerWork, Pop, IncrPicking, DecrPicking, IncrCompleted, PickerExit
  <2> QED
    BY <2>1, <2>2 DEF Draining, Dispatched
<1>4. CASE Monitor
  <2>1. UNCHANGED <<schedule, dispatchPc, pickerPc, shutdown>>
    BY <1>4 DEF Monitor, Tick, MonitorReadLen, RecheckLen, ScanLen, ReadQueueLen,
                MonitorReadActive, RecheckActive, GroupCartStep, ScanActive, CostGate, Extract,
                Reserve, PushBack, StampReRoute, CountReRoutedOut, CountReRoutedIn, HandOver,
                CountExecuted, passFrame, VerifyStart, VerifyCompleted, VerifyLen,
                VerifyRead, VerifyActive, verifyFrame, MonitorExit, mainFrame
  <2>2. monitorPc # "stopped"
    BY <1>4 DEF Monitor, Tick, MonitorReadLen, RecheckLen, ScanLen, ReadQueueLen,
                MonitorReadActive, RecheckActive, GroupCartStep, ScanActive, CostGate, Extract,
                Reserve, PushBack, StampReRoute, CountReRoutedOut, CountReRoutedIn, HandOver,
                CountExecuted, passFrame, VerifyStart, VerifyCompleted, VerifyLen,
                VerifyRead, VerifyActive, MonitorExit
  <2> QED
    BY <2>1, <2>2 DEF Draining, Dispatched
<1>5. CASE BeginShutdown
  BY <1>0, <1>5 DEF BeginShutdown, mainFrame, Draining, Dispatched, RunOver
<1>6. CASE StoreStopped
  <2>1. /\ shutdown' = shutdown + 1 /\ UNCHANGED <<schedule, dispatchPc, pickerPc, monitorPc>>
        /\ \A p \in Pickers : StoreOf[p] = shutdown => pickerPc[p] = "stopped"
        /\ shutdown \in 1..NumStores
    BY <1>6 DEF StoreStopped, mainFrame, Stores
  <2>2. shutdown' # RunOver
    BY <1>0, <2>1 DEF RunOver
  <2>3. \A p \in Pickers : StoreOf[p] < shutdown' => StoreOf[p] < shutdown \/ StoreOf[p] = shutdown
    BY <1>0, <2>1
  <2> QED
    BY <1>0, <2>1, <2>2, <2>3 DEF Draining, Dispatched
<1>7. CASE FinishRun
  <2>1. /\ shutdown = NumStores + 1 /\ monitorPc = "stopped"
        /\ UNCHANGED <<schedule, dispatchPc, pickerPc, monitorPc>>
    BY <1>7 DEF FinishRun, mainFrame, MonitorStopping
  <2>2. shutdown >= 1 /\ \A p \in Pickers : StoreOf[p] < shutdown
    BY <1>0, <2>1
  <2> QED
    BY <2>1, <2>2 DEF Draining, Dispatched
<1>8. CASE Terminated \/ UNCHANGED vars
  BY <1>1, <1>8 DEF Terminated, vars
<1> QED
  BY <1>2, <1>3, <1>4, <1>5, <1>6, <1>7, <1>8 DEF Next, Main

(***************************************************************************)
(* The network accounting that main.go verifies when the run is over       *)
(* passes: no counter lags and none is wrong, whatever the interleaving.   *)
(***************************************************************************)
THEOREM FinalAccountingAlwaysPasses == Spec => []FinalAccountingPasses
<1> DEFINE Inv == TypedControl /\ Placement /\ MergesInv /\ Balanced /\ Draining
<1>1. Init => Inv
  BY TypedControlInit, PlacementInit, MergesInit, BalancedInit, DrainingInit
<1>2. Inv /\ [Next]_vars => Inv'
  BY TypedControlStep, PlacementStep, MergesStep, BalancedStep, DrainingStep
<1>3. Inv => FinalAccountingPasses
  <2> SUFFICES ASSUME Inv, shutdown = RunOver
               PROVE  created = SumFunction(AtStores) + NetMerged
    BY DEF FinalAccountingPasses, AtStores, AtStore
  <2>1. NumStores \in Nat \ {0} /\ \A p \in Pickers : StoreOf[p] \in 1..NumStores
    BY NumStoresAssumption, StoreOfAssumption DEF Stores
  <2>2. RunOver >= 1 /\ \A p \in Pickers : StoreOf[p] < RunOver
    BY <2>1 DEF RunOver
  <2>3. Uncounted = {} /\ InHandover = {}
    BY <2>2 DEF Draining, Dispatched, Uncounted, InHandover
  <2>4. Withdrawn = 0
    BY DEF Draining, TypedControl, Control, MonitorControl, HoldingPcs, Withdrawn
  <2>5. NetMerged = Cardinality(AllMerged)
    <3>1. summary["TotalOrdersMerged"] \in Nat /\ summary["BatchingNudge"] \in Nat
      BY DEF TypedControl, TypeOK, Summary, Outcomes
    <3> QED
      BY <3>1, MergedFinite DEF NetMerged, MergesInv
  <2>6. Cardinality({}) = 0
    BY FS_EmptySet
  <2>7. SumFunction(AtStores) \in Int
    <3>1. DOMAIN AtStores = Stores /\ \A s \in Stores : AtStores[s] \in Int
      BY FlowIntegers DEF AtStores
    <3> QED
      BY <3>1, StoresFinite, SumType, SumOfFunction
  <2>8. created + 0 = SumFunction(AtStores) + 0 + 0 + Cardinality(AllMerged)
    BY <2>3, <2>4, <2>6 DEF Balanced, NetworkBalanced
  <2> QED
    BY <2>5, <2>7, <2>8, FlowTypes, SetSizes
<1> QED
  BY <1>1, <1>2, <1>3, PTL DEF Spec

=============================================================================
