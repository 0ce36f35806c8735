-------------------------- MODULE OrderHistoryProofs ------------------------
(***************************************************************************)
(* What holds of the order history for every number of clients, orders and *)
(* saves.                                                                  *)
(***************************************************************************)
EXTENDS OrderHistory, FiniteSetTheorems, TLAPS

LEMMA TypeInit == Init => TypeOK
  BY HistoryAssumption DEF Init, TypeOK

LEMMA TypeStep == TypeOK /\ [Next]_vars => TypeOK'
<1> SUFFICES ASSUME TypeOK, [Next]_vars PROVE TypeOK'
  OBVIOUS
<1> USE HistoryAssumption DEF TypeOK
<1>1. ASSUME NEW c \in Savers, NEW o \in SavedOrders, SaveDuplicate(c, o) PROVE TypeOK'
  BY <1>1 DEF SaveDuplicate, Begin
<1>2. ASSUME NEW c \in Savers, NEW o \in SavedOrders, SaveNew(c, o) PROVE TypeOK'
  BY <1>2 DEF SaveNew, Begin
<1>3. ASSUME NEW c \in Savers, SavePush(c) PROVE TypeOK'
  <2>1. toPush[c] \in SavedOrders
    BY <1>3 DEF SavePush
  <2>2. QED
    BY <1>3, <2>1 DEF SavePush
<1>4. CASE Reset
  BY <1>4 DEF Reset
<1>5. CASE UNCHANGED vars
  BY <1>5 DEF vars
<1>6. QED
  BY <1>1, <1>2, <1>3, <1>4, <1>5 DEF Next

(* Every variable keeps its type. *)
THEOREM TypeCorrect == Spec => []TypeOK
  BY TypeInit, TypeStep, PTL DEF Spec
-----------------------------------------------------------------------------
PushingClients(o) == {c \in Savers : toPush[c] = o}

(* At most every client is about to push one order. *)
LEMMA PushingAtMostAll ==
  \A o : /\ IsFiniteSet(PushingClients(o)) /\ Pushing(o) = Cardinality(PushingClients(o))
         /\ Pushing(o) \in Nat /\ Cardinality(Savers) \in Nat
         /\ Pushing(o) <= Cardinality(Savers)
  BY HistoryAssumption, FS_Subset, FS_CardinalityType DEF Pushing, PushingClients

(* A client that begins to push an order adds itself to those that do. *)
LEMMA PushingOneMore ==
  ASSUME TypeOK, NEW c \in Savers, NEW o \in SavedOrders, toPush[c] = NoPush,
         toPush' = [toPush EXCEPT ![c] = o]
  PROVE  /\ Pushing(o)' = Pushing(o) + 1
         /\ \A p \in SavedOrders \ {o} : Pushing(p)' = Pushing(p)
<1>1. c \notin PushingClients(o) /\ PushingClients(o)' = PushingClients(o) \cup {c}
  BY HistoryAssumption DEF TypeOK, PushingClients
<1>2. Cardinality(PushingClients(o) \cup {c}) = Cardinality(PushingClients(o)) + 1
  BY <1>1, PushingAtMostAll, FS_AddElement
<1>3. Pushing(o)' = Cardinality(PushingClients(o)')
  BY DEF Pushing, PushingClients
<1>4. \A p \in SavedOrders \ {o} : PushingClients(p)' = PushingClients(p)
  BY HistoryAssumption DEF TypeOK, PushingClients
<1>5. QED
  BY <1>1, <1>2, <1>3, <1>4, PushingAtMostAll DEF Pushing, PushingClients

(* A client that has pushed leaves those that are about to. *)
LEMMA PushingOneLess ==
  ASSUME TypeOK, NEW c \in Savers, NEW o \in SavedOrders, toPush[c] = o,
         toPush' = [toPush EXCEPT ![c] = NoPush]
  PROVE  /\ Pushing(o)' = Pushing(o) - 1
         /\ \A p \in SavedOrders \ {o} : Pushing(p)' = Pushing(p)
<1>1. c \in PushingClients(o) /\ PushingClients(o)' = PushingClients(o) \ {c}
  BY HistoryAssumption DEF TypeOK, PushingClients
<1>2. Cardinality(PushingClients(o) \ {c}) = Cardinality(PushingClients(o)) - 1
  BY <1>1, PushingAtMostAll, FS_RemoveElement
<1>3. \A p \in SavedOrders \ {o} : PushingClients(p)' = PushingClients(p)
  BY HistoryAssumption DEF TypeOK, PushingClients
<1>4. QED
  BY <1>1, <1>2, <1>3 DEF Pushing, PushingClients
-----------------------------------------------------------------------------
LEMMA CopiesStep == TypeOK /\ CopiesBounded /\ [Next]_vars => CopiesBounded'
<1> SUFFICES ASSUME TypeOK, CopiesBounded, [Next]_vars,
                    NEW p \in SavedOrders \ Unidentified
             PROVE  copies'[p] + Pushing(p)' <= Cardinality(Savers) + misread'[p]
  BY DEF CopiesBounded, Pushing
<1>0. /\ copies[p] + Pushing(p) <= Cardinality(Savers) + misread[p]
      /\ copies[p] \in Nat /\ misread[p] \in Nat /\ Pushing(p) \in Nat
      /\ Cardinality(Savers) \in Nat
  BY PushingAtMostAll DEF CopiesBounded, TypeOK
<1>1. TypeOK' /\ misread'[p] \in Nat
  BY TypeStep DEF TypeOK
<1>2. Pushing(p)' \in Nat /\ Pushing(p)' <= Cardinality(Savers)
  <2>1. IsFiniteSet({c \in Savers : toPush'[c] = p})
        /\ Cardinality({c \in Savers : toPush'[c] = p}) <= Cardinality(Savers)
    BY HistoryAssumption, FS_Subset
  <2>2. QED
    BY <2>1, FS_CardinalityType DEF Pushing
<1>3. ASSUME NEW c \in Savers, NEW o \in SavedOrders, SaveDuplicate(c, o)
      PROVE  copies'[p] + Pushing(p)' <= Cardinality(Savers) + misread'[p]
  BY <1>0, <1>3 DEF SaveDuplicate, Pushing
<1>4. ASSUME NEW c \in Savers, NEW o \in SavedOrders, SaveNew(c, o)
      PROVE  copies'[p] + Pushing(p)' <= Cardinality(Savers) + misread'[p]
  <2>1. /\ Pushing(o)' = Pushing(o) + 1
        /\ \A q \in SavedOrders \ {o} : Pushing(q)' = Pushing(q)
    BY <1>4, PushingOneMore DEF SaveNew, Begin
  <2>2. copies' = copies
    BY <1>4 DEF SaveNew
  <2>3. CASE ~IsDuplicate(o) /\ UNCHANGED misread
    <3>1. CASE p = o
      <4>1. copies[p] = 0
        BY <1>0, <2>3, <3>1 DEF IsDuplicate, Listed
      <4>2. QED
        BY <1>0, <1>2, <2>2, <2>3, <4>1
    <3>2. CASE p # o
      BY <1>0, <2>1, <2>2, <2>3, <3>2
    <3>3. QED
      BY <3>1, <3>2
  <2>4. CASE misread' = [misread EXCEPT ![o] = @ + 1]
    BY <1>0, <2>1, <2>2, <2>4 DEF TypeOK
  <2>5. QED
    BY <1>4, <2>3, <2>4 DEF SaveNew
<1>5. ASSUME NEW c \in Savers, SavePush(c)
      PROVE  copies'[p] + Pushing(p)' <= Cardinality(Savers) + misread'[p]
  <2>1. PICK o \in SavedOrders : toPush[c] = o
    BY <1>5 DEF SavePush, TypeOK
  <2>2. /\ Pushing(o)' = Pushing(o) - 1
        /\ \A q \in SavedOrders \ {o} : Pushing(q)' = Pushing(q)
    BY <1>5, <2>1, PushingOneLess DEF SavePush
  <2>3. /\ copies' = [copies EXCEPT ![o] = @ + 1] \/ copies' = copies
        /\ misread' = misread
    BY <1>5, <2>1 DEF SavePush
  <2>4. Pushing(o) \in Nat
    BY PushingAtMostAll
  <2>5. QED
    BY <1>0, <2>2, <2>3, <2>4 DEF TypeOK
<1>6. CASE Reset
  BY <1>0, <1>2, <1>6 DEF Reset
<1>7. CASE UNCHANGED vars
  BY <1>0, <1>7 DEF vars, Pushing
<1>8. QED
  BY <1>3, <1>4, <1>5, <1>6, <1>7 DEF Next

(***************************************************************************)
(* The check for a duplicate and the push are two commands, yet no order   *)
(* with an id is ever listed more often than there are clients, plus once  *)
(* per failed read of the list (main.go:597-618).                          *)
(***************************************************************************)
THEOREM CopiesStayBounded == Spec => []CopiesBounded
<1>1. Init => CopiesBounded
  <2> SUFFICES ASSUME Init, NEW o \in SavedOrders \ Unidentified
               PROVE  copies[o] + Pushing(o) <= Cardinality(Savers) + misread[o]
    BY DEF CopiesBounded
  <2>1. copies[o] = 0 /\ misread[o] = 0
    BY DEF Init
  <2>2. QED
    BY <2>1, PushingAtMostAll
<1>2. QED
  BY <1>1, TypeCorrect, CopiesStep, PTL DEF Spec
-----------------------------------------------------------------------------
LEMMA ListedStep == TypeOK /\ AnsweredAreListed /\ [Next]_vars => AnsweredAreListed'
<1> SUFFICES ASSUME TypeOK, AnsweredAreListed, [Next]_vars, NEW p \in answered'
             PROVE  copies'[p] > 0 \/ p \in lost'
  BY DEF AnsweredAreListed, Listed
<1>0. answered \subseteq SavedOrders /\ \A o \in answered : copies[o] > 0 \/ o \in lost
  BY DEF AnsweredAreListed, Listed, TypeOK
<1>1. ASSUME NEW c \in Savers, NEW o \in SavedOrders, SaveDuplicate(c, o)
      PROVE  copies'[p] > 0 \/ p \in lost'
  BY <1>0, <1>1 DEF SaveDuplicate, IsDuplicate, Listed
<1>2. ASSUME NEW c \in Savers, NEW o \in SavedOrders, SaveNew(c, o)
      PROVE  copies'[p] > 0 \/ p \in lost'
  BY <1>0, <1>2 DEF SaveNew
<1>3. ASSUME NEW c \in Savers, SavePush(c) PROVE copies'[p] > 0 \/ p \in lost'
  <2>1. toPush[c] \in SavedOrders /\ (p \in answered \/ p = toPush[c])
    BY <1>3 DEF SavePush, TypeOK
  <2>2. CASE copies' = [copies EXCEPT ![toPush[c]] = @ + 1] /\ UNCHANGED lost
    BY <1>0, <2>1, <2>2 DEF TypeOK
  <2>3. CASE lost' = lost \cup {toPush[c]} /\ UNCHANGED copies
    BY <1>0, <2>1, <2>3
  <2>4. QED
    BY <1>3, <2>2, <2>3 DEF SavePush
<1>4. CASE Reset
  BY <1>4 DEF Reset
<1>5. CASE UNCHANGED vars
  BY <1>0, <1>5 DEF vars
<1>6. QED
  BY <1>1, <1>2, <1>3, <1>4, <1>5 DEF Next

(***************************************************************************)
(* What the clients were told is listed is listed, or was lost by a push   *)
(* whose failure the answer hides (main.go:608-620).                       *)
(***************************************************************************)
THEOREM AnswersAreTrue == Spec => []AnsweredAreListed
<1>1. Init => AnsweredAreListed
  BY DEF Init, AnsweredAreListed
<1>2. QED
  BY <1>1, TypeCorrect, ListedStep, PTL DEF Spec

=============================================================================
