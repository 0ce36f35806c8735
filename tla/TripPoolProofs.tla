--------------------------- MODULE TripPoolProofs ---------------------------
(***************************************************************************)
(* What holds of the rider's trips for every set of join requests, of      *)
(* clients, members and orders, every fee, distance and proximity, whether *)
(* commands fail or not: the rows of a trip, its fee, and who can lose a   *)
(* place in it.                                                            *)
(***************************************************************************)
EXTENDS TripPool, DataLemmas

(***************************************************************************)
(* A trip that some step has computed as a whole has a row per order.  It  *)
(* is neat while only its last row is a user's: with such a row, every     *)
(* joiner finds a row, so that no row is added any more, and a row of the  *)
(* joiner's own comes before it.                                           *)
(***************************************************************************)
RowsDistinct(trip) ==
  \A i, j \in DOMAIN trip.rows : trip.rows[i].member = trip.rows[j].member => i = j

UserRowLast(trip) == \A i \in DOMAIN trip.rows : IsUser(trip.rows[i]) => i = Len(trip.rows)

Neat(trip) == RowsDistinct(trip) /\ UserRowLast(trip)

Charged(trip) ==
  /\ Len(trip.rows) = Cardinality(trip.orders)
  /\ trip.fee = FeeFor(Cardinality(trip.orders))

Sound(trip) == trip \in Trip /\ Charged(trip)

-----------------------------------------------------------------------------
(* FeeFor, and the largest and the smallest element that the script takes. *)
LEMMA FeeType == \A count : FeeFor(count) \in Nat
<1>1. BaseFee \in Nat /\ BaseFee \div 2 \in Nat
  BY TripNumbersAssumption
<1> QED
  BY <1>1 DEF FeeFor

LEMMA MaxOfSame ==
  ASSUME NEW n \in Nat
  PROVE  Max({n, n}) = n
BY DEF Max

LEMMA FirstRow ==
  ASSUME NEW n \in Nat, NEW K \in SUBSET (1..n), K # {}
  PROVE  Min(K) \in K /\ \A k \in K : Min(K) <= k
<1>1. IsFiniteSet(K)
  <2>1. IsFiniteSet(1..n)
    BY FS_Interval
  <2> QED
    BY <2>1, FS_Subset
<1>2. K \in SUBSET Nat
  OBVIOUS
<1>3. \E i \in K : \A k \in K : i <= k
  BY <1>1, <1>2, LeastElement
<1> QED
  BY <1>3 DEF Min

LEMMA OrdersFinite ==
  ASSUME NEW orders \in SUBSET OrderIds
  PROVE  IsFiniteSet(orders) /\ Cardinality(orders) \in Nat
<1>1. IsFiniteSet(orders)
  BY TripJoinsAssumption, FS_Subset
<1> QED
  BY <1>1, FS_CardinalityType

(***************************************************************************)
(* A new trip.                                                             *)
(***************************************************************************)
LEMMA NewTripSound ==
  ASSUME NEW eta \in Nat
  PROVE  /\ Sound(NewTrip(eta)) /\ Neat(NewTrip(eta))
         /\ MembersOf(NewTrip(eta)) = Seeded
<1> DEFINE trip   == NewTrip(eta)
           row(i) == [member |-> SeedMembers[i], named |-> FALSE, flat304 |-> FALSE]
<1>1. /\ DOMAIN SeedMembers = 1..2 /\ DOMAIN SeedOrders = 1..2
      /\ SeedMembers[1] \in Members /\ SeedMembers[2] \in Members
      /\ SeedOrders[1] \in OrderIds /\ SeedOrders[2] \in OrderIds
      /\ SeedMembers[1] # SeedMembers[2] /\ SeedOrders[1] # SeedOrders[2]
  <2>1. /\ SeedMembers \in Seq(Members) /\ Len(SeedMembers) = 2
        /\ SeedOrders \in Seq(OrderIds) /\ Len(SeedOrders) = 2
        /\ SeedMembers[1] # SeedMembers[2] /\ SeedOrders[1] # SeedOrders[2]
    BY TripSeedsAssumption
  <2> QED
    BY <2>1
<1>2. /\ trip.rows = [i \in 1..2 |-> row(i)]
      /\ trip.orders = {SeedOrders[1]} \cup {SeedOrders[2]}
      /\ trip.fee = BaseFee \div 2 /\ trip.eta = eta
  BY <1>1 DEF NewTrip
<1>3. trip.rows \in Seq(Row) /\ Len(trip.rows) = 2 /\ DOMAIN trip.rows = 1..2
  <2>1. \A i \in 1..2 : row(i) \in Row
    BY <1>1 DEF Row
  <2> QED
    BY <1>2, <2>1
<1>4. Cardinality(trip.orders) = 2
  <2>1. IsFiniteSet({SeedOrders[1]}) /\ Cardinality({SeedOrders[1]}) = 1
    BY FS_Singleton
  <2>2. SeedOrders[2] \notin {SeedOrders[1]}
    BY <1>1
  <2>3. Cardinality({SeedOrders[1]} \cup {SeedOrders[2]}) = 1 + 1
    BY <2>1, <2>2, FS_AddElement
  <2> QED
    BY <1>2, <2>3
<1>5. trip \in Trip
  <2>1. trip.orders \in SUBSET OrderIds
    BY <1>1, <1>2
  <2>2. BaseFee \div 2 \in Nat
    BY TripNumbersAssumption
  <2> QED
    BY <1>1, <1>2, <1>3, <2>1, <2>2 DEF NewTrip, Trip
<1>6. Neat(trip)
  <2>1. RowsDistinct(trip)
    BY <1>1, <1>2, <1>3 DEF RowsDistinct
  <2>2. ASSUME NEW i \in 1..2 PROVE ~IsUser(trip.rows[i])
    <3>1. trip.rows[i] = row(i) /\ SeedMembers[i] \in Seeded
      BY <1>1, <1>2 DEF Seeded
    <3>2. SeedMembers[i] \notin WebIds
      BY <3>1, TripSeedsAssumption
    <3> QED
      BY <3>1, <3>2 DEF IsUser
  <2> QED
    BY <1>3, <2>1, <2>2 DEF Neat, UserRowLast
<1>7. Charged(trip)
  BY <1>2, <1>3, <1>4 DEF Charged, FeeFor
<1>8. MembersOf(trip) = Seeded
  BY <1>1, <1>2, <1>3 DEF MembersOf, Seeded
<1> QED
  BY <1>5, <1>6, <1>7, <1>8 DEF Sound

-----------------------------------------------------------------------------
(***************************************************************************)
(* The Lua script: a joiner without a row and without an order gets both,  *)
(* any other takes the first row with which it is identified, which keeps  *)
(* the rows of a neat trip distinct because a user's row is the last one.  *)
(***************************************************************************)
JoinedWell(trip, join, joined) ==
  /\ Sound(joined)
  /\ MembersOf(joined) \subseteq MembersOf(trip) \cup {join.member}
  /\ \A lost \in MembersOf(trip) \ MembersOf(joined) : HasUserRow(trip, lost)
  /\ Neat(trip) /\ ~Turns(trip.rows, join) => Neat(joined)

LEMMA JoinType ==
  ASSUME NEW join \in Joins
  PROVE  /\ join.member \in Members /\ join.named \in BOOLEAN
         /\ join.flat304 \in BOOLEAN /\ join.order \in OrderIds
<1>1. join \in [member : Members, named : BOOLEAN, flat304 : BOOLEAN, order : OrderIds]
  BY TripJoinsAssumption
<1> QED
  BY <1>1

LEMMA JoinAddsRow ==
  ASSUME NEW trip, Sound(trip), NEW join \in Joins,
         join.order \notin trip.orders, UserRows(trip.rows, join.member) = {}
  PROVE  JoinedWell(trip, join, Joined(trip, join))
<1> DEFINE row    == [member |-> join.member, named |-> join.named, flat304 |-> join.flat304]
           joined == Joined(trip, join)
           len    == Len(trip.rows)
<1>1. trip \in Trip /\ trip.rows \in Seq(Row) /\ trip.orders \in SUBSET OrderIds
      /\ DOMAIN trip.rows = 1..len /\ len \in Nat
  BY DEF Sound, Trip
<1>2. row \in Row /\ row.member = join.member
  BY JoinType DEF Row
<1>3. joined = [trip EXCEPT !.rows = Append(trip.rows, row),
                  !.orders = trip.orders \cup {join.order},
                  !.fee = FeeFor(Max({Len(Append(trip.rows, row)),
                                      Cardinality(trip.orders \cup {join.order})}))]
  BY DEF Joined
<1>4. /\ joined.rows = Append(trip.rows, row)
      /\ joined.orders = trip.orders \cup {join.order}
      /\ joined.fee = FeeFor(Max({Len(Append(trip.rows, row)),
                                  Cardinality(trip.orders \cup {join.order})}))
  BY <1>1, <1>3 DEF Trip
<1> HIDE DEF row
<1>5. /\ joined.rows \in Seq(Row) /\ Len(joined.rows) = len + 1
      /\ DOMAIN joined.rows = 1..(len + 1)
      /\ joined.rows[len + 1] = row
      /\ \A i \in 1..len : joined.rows[i] = trip.rows[i]
  BY <1>1, <1>2, <1>4
<1>6. \A i \in 1..len : trip.rows[i].member # join.member /\ ~IsUser(trip.rows[i])
  BY <1>1 DEF UserRows
<1>7. Cardinality(joined.orders) = len + 1
  <2>1. IsFiniteSet(trip.orders)
    BY <1>1, OrdersFinite
  <2>2. Cardinality(trip.orders) = len
    BY DEF Sound, Charged
  <2> QED
    BY <1>4, <2>1, <2>2, FS_AddElement
<1>8. Charged(joined)
  <2>1. joined.fee = FeeFor(Max({len + 1, len + 1}))
    BY <1>4, <1>5, <1>7
  <2>2. len + 1 \in Nat
    BY <1>1
  <2> QED
    BY <1>5, <1>7, <2>1, <2>2, MaxOfSame DEF Charged
<1>9. joined \in Trip
  <2>1. joined.orders \in SUBSET OrderIds /\ joined.fee \in Nat
    BY <1>1, <1>4, FeeType, JoinType
  <2> QED
    BY <1>1, <1>3, <1>4, <1>5, <2>1 DEF Trip
<1>10. ASSUME RowsDistinct(trip) PROVE RowsDistinct(joined)
  <2> SUFFICES ASSUME NEW i \in 1..(len + 1), NEW j \in 1..(len + 1),
                      joined.rows[i].member = joined.rows[j].member
               PROVE  i = j
    BY <1>5 DEF RowsDistinct
  <2>1. CASE i \in 1..len /\ j \in 1..len
    BY <1>1, <1>5, <1>10, <2>1 DEF RowsDistinct
  <2>2. CASE i = len + 1 /\ j \in 1..len
    BY <1>2, <1>5, <1>6, <2>2
  <2>3. CASE j = len + 1 /\ i \in 1..len
    BY <1>2, <1>5, <1>6, <2>3
  <2> QED
    BY <1>1, <2>1, <2>2, <2>3
<1>11. UserRowLast(joined)
  <2> SUFFICES ASSUME NEW i \in 1..(len + 1), IsUser(joined.rows[i])
               PROVE  i = len + 1
    BY <1>5 DEF UserRowLast
  <2>1. i \notin 1..len
    BY <1>5, <1>6
  <2> QED
    BY <1>1, <2>1
<1>12. MembersOf(joined) = MembersOf(trip) \cup {join.member}
  <2>1. \A i \in 1..len : i \in 1..(len + 1)
    BY <1>1
  <2>2. len + 1 \in 1..(len + 1) /\ \A i \in 1..(len + 1) : i \in 1..len \/ i = len + 1
    BY <1>1
  <2> QED
    BY <1>1, <1>2, <1>5, <2>1, <2>2 DEF MembersOf
<1> QED
  BY <1>8, <1>9, <1>10, <1>11, <1>12 DEF Sound, Neat, JoinedWell

LEMMA JoinTakesRow ==
  ASSUME NEW trip, Sound(trip), NEW join \in Joins, UserRows(trip.rows, join.member) # {}
  PROVE  JoinedWell(trip, join, Joined(trip, join))
<1> DEFINE m       == join.member
           first   == Min(UserRows(trip.rows, m))
           updated == [trip.rows EXCEPT ![first].member = m, ![first].named = join.named]
           joined  == Joined(trip, join)
           len     == Len(trip.rows)
<1>1. trip \in Trip /\ trip.rows \in Seq(Row) /\ trip.orders \in SUBSET OrderIds
      /\ DOMAIN trip.rows = 1..len /\ len \in Nat
  BY DEF Sound, Trip
<1>2. UserRows(trip.rows, m) \in SUBSET (1..len)
  BY <1>1 DEF UserRows
<1>3. first \in UserRows(trip.rows, m) /\ \A i \in UserRows(trip.rows, m) : first <= i
  BY <1>1, <1>2, FirstRow
<1>40. Turns(trip.rows, join) <=> join.named /\ first < len /\ ~IsUser(trip.rows[first])
  BY DEF Turns
<1>5. joined = [trip EXCEPT !.rows = updated, !.orders = trip.orders,
                  !.fee = FeeFor(Max({Len(updated), Cardinality(trip.orders)}))]
  BY DEF Joined
<1> HIDE DEF first
<1>4. /\ first \in 1..len
      /\ trip.rows[first].member = m \/ IsUser(trip.rows[first])
      /\ \A i \in 1..len : trip.rows[i].member = m => first <= i
  BY <1>1, <1>3 DEF UserRows
<1>6. /\ joined.rows = updated /\ joined.orders = trip.orders
      /\ joined.fee = FeeFor(Max({Len(updated), Cardinality(trip.orders)}))
  BY <1>1, <1>5 DEF Trip
<1>70. updated = [i \in 1..len |-> updated[i]] /\ DOMAIN updated = 1..len
  BY <1>1, <1>4
<1>7. /\ updated[first] = [trip.rows[first] EXCEPT !.member = m, !.named = join.named]
      /\ \A i \in 1..len : i # first => updated[i] = trip.rows[i]
  BY <1>1, <1>4
<1> HIDE DEF updated
<1>8. updated[first] \in Row /\ updated[first].member = m /\ updated[first].named = join.named
      /\ updated[first].flat304 = trip.rows[first].flat304
  <2>1. trip.rows[first] \in Row
    BY <1>1, <1>4
  <2> QED
    BY <1>7, <2>1, JoinType DEF Row
<1>9. updated \in Seq(Row) /\ Len(updated) = len
  <2>1. ASSUME NEW i \in 1..len PROVE updated[i] \in Row
    <3>1. CASE i = first
      BY <1>8, <3>1
    <3>2. CASE i # first
      BY <1>1, <1>7, <3>2
    <3> QED
      BY <3>1, <3>2
  <2>2. updated \in [1..len -> Row]
    BY <1>70, <2>1
  <2>3. updated \in Seq(Row)
    BY <1>1, <2>2
  <2> QED
    BY <1>1, <1>70, <2>3
<1>10. Charged(joined)
  <2>1. Cardinality(trip.orders) = len /\ trip.fee = FeeFor(len)
    BY DEF Sound, Charged
  <2>2. joined.fee = FeeFor(Max({len, len}))
    BY <1>6, <1>9, <2>1
  <2> QED
    BY <1>1, <1>6, <1>9, <2>1, <2>2, MaxOfSame DEF Charged
<1>11. joined \in Trip
  <2>1. joined.fee \in Nat
    BY <1>6, FeeType
  <2> QED
    BY <1>1, <1>5, <1>6, <1>9, <2>1 DEF Trip
<1>12. ASSUME Neat(trip), NEW i \in 1..len, trip.rows[i].member = m
       PROVE  i = first
  <2>1. CASE trip.rows[first].member = m
    BY <1>1, <1>4, <1>12, <2>1 DEF Neat, RowsDistinct
  <2>2. CASE IsUser(trip.rows[first])
    <3>1. first = len
      BY <1>1, <1>4, <1>12, <2>2 DEF Neat, UserRowLast
    <3>2. first <= i
      BY <1>4, <1>12
    <3> QED
      BY <1>1, <3>1, <3>2
  <2> QED
    BY <1>4, <2>1, <2>2
<1>13. ASSUME Neat(trip) PROVE RowsDistinct(joined)
  <2> SUFFICES ASSUME NEW i \in 1..len, NEW j \in 1..len, updated[i].member = updated[j].member
               PROVE  i = j
    BY <1>6, <1>70 DEF RowsDistinct
  <2>1. CASE i # first /\ j # first
    BY <1>1, <1>7, <1>13, <2>1 DEF Neat, RowsDistinct
  <2>2. CASE i = first /\ j # first
    BY <1>7, <1>8, <1>12, <1>13, <2>2
  <2>3. CASE i # first /\ j = first
    BY <1>7, <1>8, <1>12, <1>13, <2>3
  <2> QED
    BY <2>1, <2>2, <2>3
<1>14. ASSUME Neat(trip), ~Turns(trip.rows, join) PROVE UserRowLast(joined)
  <2> SUFFICES ASSUME NEW i \in 1..len, IsUser(updated[i])
               PROVE  i = len
    BY <1>6, <1>70, <1>9 DEF UserRowLast
  <2>1. CASE i # first
    BY <1>1, <1>7, <1>14, <2>1 DEF Neat, UserRowLast
  <2>2. CASE i = first /\ IsUser(trip.rows[first])
    BY <1>1, <1>4, <1>14, <2>2 DEF Neat, UserRowLast
  <2>3. CASE i = first /\ ~IsUser(trip.rows[first])
    <3>1. trip.rows[first].member = m
      BY <1>4, <2>3
    <3>2. join.named
      BY <1>8, <2>3, <3>1 DEF IsUser
    <3>3. ~(first < len)
      BY <1>14, <1>40, <2>3, <3>2
    <3> QED
      BY <1>1, <1>4, <2>3, <3>3
  <2> QED
    BY <2>1, <2>2, <2>3
<1>15. MembersOf(joined) \subseteq MembersOf(trip) \cup {m}
  <2> SUFFICES ASSUME NEW i \in 1..len
               PROVE  updated[i].member \in MembersOf(trip) \cup {m}
    BY <1>6, <1>70 DEF MembersOf
  <2>1. CASE i = first
    BY <1>8, <2>1
  <2>2. CASE i # first
    BY <1>1, <1>7, <2>2 DEF MembersOf
  <2> QED
    BY <2>1, <2>2
<1>16. ASSUME NEW lost \in MembersOf(trip), lost \notin MembersOf(joined)
       PROVE  HasUserRow(trip, lost)
  <2>1. PICK i \in 1..len : trip.rows[i].member = lost
    BY <1>1 DEF MembersOf
  <2>2. \A j \in 1..len : updated[j].member # lost
    BY <1>6, <1>70, <1>16 DEF MembersOf
  <2>3. i = first
    BY <1>7, <2>1, <2>2
  <2>4. trip.rows[i].member # m
    BY <1>8, <2>1, <2>2, <2>3
  <2>5. IsUser(trip.rows[i])
    BY <1>4, <2>3, <2>4
  <2> QED
    BY <1>1, <2>1, <2>5 DEF HasUserRow
<1> QED
  BY <1>10, <1>11, <1>13, <1>14, <1>15, <1>16 DEF Sound, Neat, JoinedWell

LEMMA JoinRepeated ==
  ASSUME NEW trip, Sound(trip), NEW join \in Joins,
         join.order \in trip.orders, UserRows(trip.rows, join.member) = {}
  PROVE  JoinedWell(trip, join, Joined(trip, join))
<1> DEFINE joined == Joined(trip, join)
<1>1. trip \in Trip /\ Len(trip.rows) \in Nat
  BY DEF Sound, Trip
<1>2. joined = [trip EXCEPT !.rows = trip.rows, !.orders = trip.orders,
                  !.fee = FeeFor(Max({Len(trip.rows), Cardinality(trip.orders)}))]
  BY DEF Joined
<1>3. FeeFor(Max({Len(trip.rows), Cardinality(trip.orders)})) = trip.fee
  BY <1>1, MaxOfSame DEF Sound, Charged
<1>4. joined = trip
  BY <1>1, <1>2, <1>3 DEF Trip
<1> QED
  BY <1>4 DEF JoinedWell

LEMMA JoinSound ==
  ASSUME NEW trip, Sound(trip), NEW join \in Joins
  PROVE  JoinedWell(trip, join, Joined(trip, join))
BY JoinAddsRow, JoinTakesRow, JoinRepeated

-----------------------------------------------------------------------------
(***************************************************************************)
(* The inductive invariant: every trip that is stored, or that the rider   *)
(* is about to store, is sound, and neat until it is turned; the rider's   *)
(* copy lacks only members in unseen, a fallback trip about to be written  *)
(* only members that its client has overlooked.                            *)
(***************************************************************************)
TripsNeat ==
  /\ \A t \in Trips : t \notin turned => Neat(trips[t])
  /\ "trip-rider-1" \notin turned => Neat(riderCopy)

LateJoinersOnly ==
  riderPc = "setTrip" => MembersStored("trip-rider-1") \ MembersOf(riderCopy) \subseteq unseen

OverlookedOnly ==
  \A k \in Clients :
    pc[k] = "setTrip" => MembersStored("trip-rider-v3") \ Seeded \subseteq overlooked[k]

TripInv ==
  /\ TypeOK
  /\ \A t \in Trips : Sound(trips[t])
  /\ Sound(riderCopy)
  /\ TripsNeat
  /\ LateJoinersOnly
  /\ OverlookedOnly

(* What the invariant says of a state in which nothing is primed.          *)
LEMMA SoundUnprimed ==
  /\ \A t : Sound(trips'[t]) <=> Sound(trips[t])'
  /\ \A t : Neat(trips'[t]) <=> Neat(trips[t])'
  /\ Sound(riderCopy') <=> Sound(riderCopy)'
  /\ Neat(riderCopy') <=> Neat(riderCopy)'
  /\ MembersOf(riderCopy') = MembersOf(riderCopy)'
BY DEF Sound, Neat, RowsDistinct, UserRowLast, Charged, MembersOf

LEMMA MembersTyped ==
  ASSUME NEW trip \in Trip
  PROVE  MembersOf(trip) \subseteq Members
<1> SUFFICES ASSUME NEW i \in DOMAIN trip.rows
             PROVE  trip.rows[i].member \in Members
  BY DEF MembersOf
<1>1. trip.rows \in Seq(Row)
  BY DEF Trip
<1>2. trip.rows[i] \in Row
  BY <1>1
<1> QED
  BY <1>2 DEF Row

LEMMA StoredTyped ==
  ASSUME TypeOK, NEW t \in Trips
  PROVE  MembersStored(t) \subseteq Members
<1>1. trips[t] \in Trip
  BY DEF TypeOK
<1> QED
  BY <1>1, MembersTyped DEF MembersStored

LEMMA TripNames == "trip-rider-1" \in Trips /\ "trip-rider-v3" \in Trips
BY DEF Trips

LEMMA TripInit == Init => TripInv
<1> SUFFICES ASSUME Init PROVE TripInv
  OBVIOUS
<1>1. Sound(NewTrip(0)) /\ Neat(NewTrip(0)) /\ NewTrip(0) \in Trip
  BY NewTripSound DEF Sound
<1>2. TypeOK
  BY <1>1, TripNumbersAssumption DEF Init, TypeOK
<1>3. TripsNeat
  BY <1>1 DEF Init, TripsNeat
<1>4. LateJoinersOnly /\ OverlookedOnly
  BY DEF Init, LateJoinersOnly, OverlookedOnly
<1> QED
  BY <1>1, <1>2, <1>3, <1>4 DEF Init, TripInv

(***************************************************************************)
(* A step that stores a sound trip, neat unless the trip is turned, or     *)
(* whose command fails.                                                    *)
(***************************************************************************)
Keeps(t, trip) == Sound(trip) /\ (t \notin turned => Neat(trip))

StoreKept(t, trip) ==
  /\ exists' \subseteq Trips /\ expiring' \subseteq exists'
  /\ trips' \in [Trips -> Trip]
  /\ \A u \in Trips : Sound(trips'[u]) /\ (u \notin turned => Neat(trips'[u]))
  /\ \A u \in Trips : u # t => trips'[u] = trips[u] /\ (u \in exists' <=> u \in exists)

LEMMA SetTripSound ==
  ASSUME TripInv, NEW t \in Trips, NEW trip, Keeps(t, trip), SetTrip(t, trip)
  PROVE  StoreKept(t, trip)
<1>1. /\ trip \in Trip /\ trips \in [Trips -> Trip]
      /\ exists \subseteq Trips /\ expiring \subseteq exists
  BY DEF Keeps, Sound, TripInv, TypeOK
<1>2. CASE UNCHANGED <<exists, trips, expiring>>
  BY <1>1, <1>2 DEF TripInv, TripsNeat, StoreKept
<1>3. CASE /\ trips' = [trips EXCEPT ![t] = trip] /\ exists' = exists \cup {t}
           /\ expiring' = expiring \cup {t}
  <2>1. /\ trips' \in [Trips -> Trip] /\ trips'[t] = trip
        /\ \A u \in Trips : u # t => trips'[u] = trips[u]
    BY <1>1, <1>3
  <2>2. ASSUME NEW u \in Trips PROVE Sound(trips'[u]) /\ (u \notin turned => Neat(trips'[u]))
    <3>1. CASE u = t
      BY <2>1, <3>1 DEF Keeps
    <3>2. CASE u # t
      BY <2>1, <3>2 DEF TripInv, TripsNeat
    <3> QED
      BY <3>1, <3>2
  <2> QED
    BY <1>1, <1>3, <2>1, <2>2 DEF StoreKept
<1> QED
  BY <1>2, <1>3 DEF SetTrip

LEMMA JoinTripStep ==
  ASSUME TripInv, NEW join \in Joins, NEW t \in Trips, JoinTrip(join, t)
  PROVE  TripInv'
<1> DEFINE joined == Joined(trips[t], join)
<1>0. TypeOK /\ join.member \in Members
  BY JoinType DEF TripInv
<1>1. /\ t \in exists /\ trips' = [trips EXCEPT ![t] = joined]
      /\ expiring' = expiring \ {t}
      /\ UNCHANGED <<exists, pointer, riderPc, distance, riderCopy, pc>>
      /\ joins < MaxJoins /\ joins' = joins + 1
  BY DEF JoinTrip, riderVars
<1>2. /\ unseen' = IF t = "trip-rider-1" /\ riderPc = "setTrip"
                     THEN unseen \cup {join.member} ELSE unseen
      /\ overlooked' = [k \in Clients |-> IF t = "trip-rider-v3" /\ pc[k] = "setTrip"
                                THEN overlooked[k] \cup {join.member} ELSE overlooked[k]]
      /\ turned' = IF Turns(trips[t].rows, join) THEN turned \cup {t} ELSE turned
  BY DEF JoinTrip
<1>3. JoinedWell(trips[t], join, joined)
  BY JoinSound DEF TripInv
<1>4. joined \in Trip
  BY <1>3 DEF JoinedWell, Sound
<1> HIDE DEF joined
<1>5. /\ trips' \in [Trips -> Trip] /\ trips'[t] = joined
      /\ \A u \in Trips : u # t => trips'[u] = trips[u]
  BY <1>0, <1>1, <1>4 DEF TypeOK
<1>6. TypeOK'
  <2>1. unseen' \subseteq Members /\ overlooked' \in [Clients -> SUBSET Members]
        /\ turned' \subseteq Trips
    BY <1>0, <1>2 DEF TypeOK
  <2>2. joins' \in 0..MaxJoins
    BY <1>0, <1>1, TripNumbersAssumption DEF TypeOK
  <2> QED
    BY <1>0, <1>1, <1>5, <2>1, <2>2 DEF TypeOK
<1>7. ASSUME NEW u \in Trips
      PROVE  Sound(trips'[u]) /\ (u \notin turned' => Neat(trips'[u]))
  <2>1. CASE u = t
    BY <1>2, <1>3, <1>5, <2>1 DEF JoinedWell, TripInv, TripsNeat
  <2>2. CASE u # t
    BY <1>2, <1>5, <2>2 DEF TripInv, TripsNeat
  <2> QED
    BY <2>1, <2>2
<1>8. Sound(riderCopy)' /\ TripsNeat'
  <2>1. "trip-rider-1" \notin turned' => Neat(riderCopy')
    BY <1>1, <1>2 DEF TripInv, TripsNeat
  <2>2. Sound(riderCopy')
    BY <1>1 DEF TripInv
  <2> QED
    BY <1>7, <2>1, <2>2, SoundUnprimed DEF TripsNeat
<1>9. ASSUME NEW u \in Trips, NEW m \in MembersStored(u)'
      PROVE  m \in MembersStored(u) \/ (u = t /\ m = join.member)
  <2>1. u \in exists /\ m \in MembersOf(trips'[u])
    BY <1>1, <1>9 DEF MembersStored, MembersOf
  <2>2. CASE u = t
    BY <1>3, <1>5, <2>1, <2>2 DEF JoinedWell, MembersStored
  <2>3. CASE u # t
    BY <1>5, <2>1, <2>3 DEF MembersStored
  <2> QED
    BY <2>2, <2>3
<1>10. LateJoinersOnly'
  <2> SUFFICES ASSUME riderPc = "setTrip", NEW m \in MembersStored("trip-rider-1")',
                      m \notin MembersOf(riderCopy)
               PROVE  m \in unseen'
    BY <1>1, SoundUnprimed DEF LateJoinersOnly
  <2> QED
    BY <1>2, <1>9, TripNames DEF TripInv, LateJoinersOnly
<1>11. OverlookedOnly'
  <2> SUFFICES ASSUME NEW k \in Clients, pc[k] = "setTrip",
                      NEW m \in MembersStored("trip-rider-v3")', m \notin Seeded
               PROVE  m \in overlooked'[k]
    BY <1>1 DEF OverlookedOnly
  <2> QED
    BY <1>2, <1>9, TripNames DEF TripInv, OverlookedOnly
<1> QED
  BY <1>6, <1>7, <1>8, <1>10, <1>11, SoundUnprimed DEF TripInv

LEMMA ExpiryStep ==
  ASSUME TripInv, PointerExpires \/ \E t \in Trips : TripExpires(t)
  PROVE  TripInv'
<1>0. TypeOK
  BY DEF TripInv
<1>1. /\ UNCHANGED <<riderPc, distance, riderCopy, pc, joins, unseen, overlooked, turned>>
  BY DEF PointerExpires, TripExpires, riderVars, historyVars
<1>2. CASE PointerExpires
  <2>1. UNCHANGED <<exists, trips, expiring>> /\ pointer' = NoTrip
    BY <1>2 DEF PointerExpires
  <2>2. TypeOK'
    BY <1>0, <1>1, <2>1 DEF TypeOK
  <2>3. TripsNeat' /\ (\A t \in Trips : Sound(trips[t])') /\ Sound(riderCopy)'
    BY <1>1, <2>1, SoundUnprimed DEF TripInv, TripsNeat
  <2>4. LateJoinersOnly' /\ OverlookedOnly'
    BY <1>1, <2>1 DEF TripInv, LateJoinersOnly, OverlookedOnly, MembersStored, MembersOf
  <2> QED
    BY <2>2, <2>3, <2>4 DEF TripInv
<1>3. ASSUME NEW t \in Trips, TripExpires(t) PROVE TripInv'
  <2>1. /\ t \in expiring /\ exists' = exists \ {t} /\ expiring' = expiring \ {t}
        /\ trips' = [trips EXCEPT ![t] = NewTrip(0)] /\ UNCHANGED pointer
    BY <1>3 DEF TripExpires
  <2>2. Sound(NewTrip(0)) /\ Neat(NewTrip(0)) /\ NewTrip(0) \in Trip
    BY NewTripSound DEF Sound
  <2>3. /\ trips' \in [Trips -> Trip] /\ trips'[t] = NewTrip(0)
        /\ \A u \in Trips : u # t => trips'[u] = trips[u]
    BY <1>0, <2>1, <2>2 DEF TypeOK
  <2>4. TypeOK'
    BY <1>0, <1>1, <2>1, <2>3 DEF TypeOK
  <2>5. ASSUME NEW u \in Trips PROVE Sound(trips'[u]) /\ (u \notin turned => Neat(trips'[u]))
    BY <2>2, <2>3 DEF TripInv, TripsNeat
  <2>6. TripsNeat' /\ (\A u \in Trips : Sound(trips[u])') /\ Sound(riderCopy)'
    BY <1>1, <2>5, SoundUnprimed DEF TripInv, TripsNeat
  <2>7. ASSUME NEW u \in Trips PROVE MembersStored(u)' \subseteq MembersStored(u)
    BY <2>1, <2>3 DEF MembersStored, MembersOf
  <2>8. LateJoinersOnly' /\ OverlookedOnly'
    BY <1>1, <2>7, TripNames, SoundUnprimed DEF TripInv, LateJoinersOnly, OverlookedOnly
  <2> QED
    BY <2>4, <2>6, <2>8 DEF TripInv
<1> QED
  BY <1>2, <1>3

LEMMA ActiveStep ==
  ASSUME TripInv, NEW k \in Clients, Active(k)
  PROVE  TripInv'
<1>0. TypeOK
  BY DEF TripInv
<1>1. UNCHANGED <<riderPc, distance, riderCopy, joins, unseen, turned>>
  BY DEF Active, ActiveReadPointer, ActiveReadTrip, ActiveSetTrip, ActiveSetPointer, riderVars,
         historyVars
<1>2. Sound(riderCopy)' /\ ("trip-rider-1" \notin turned' => Neat(riderCopy)')
  BY <1>1, SoundUnprimed DEF TripInv, TripsNeat
<1>3. CASE ActiveReadPointer(k) \/ ActiveReadTrip(k)
  <2>1. /\ UNCHANGED <<exists, trips, pointer, expiring>>
        /\ \/ \E to \in Trips \cup {"idle"} :
                pc' = [pc EXCEPT ![k] = to] /\ UNCHANGED overlooked
           \/ FallBack(k)
    BY <1>0, <1>3 DEF ActiveReadPointer, ActiveReadTrip, Become, TypeOK
  <2>2. \A t \in Trips : Sound(trips[t])' /\ (t \notin turned' => Neat(trips[t])')
    BY <1>1, <2>1, SoundUnprimed DEF TripInv, TripsNeat
  <2>3. LateJoinersOnly'
    BY <1>1, <2>1 DEF TripInv, LateJoinersOnly, MembersStored, MembersOf
  <2>4. MembersStored("trip-rider-v3")' = MembersStored("trip-rider-v3")
    BY <2>1 DEF MembersStored, MembersOf
  <2>5. CASE \E to \in Trips \cup {"idle"} : pc' = [pc EXCEPT ![k] = to] /\ UNCHANGED overlooked
    <3>1. PICK to \in Trips \cup {"idle"} : pc' = [pc EXCEPT ![k] = to] /\ UNCHANGED overlooked
      BY <2>5
    <3>2. to # "setTrip"
      BY DEF Trips
    <3>3. TypeOK'
      BY <1>0, <1>1, <2>1, <3>1 DEF TypeOK
    <3>4. \A j \in Clients : pc'[j] = "setTrip" => pc[j] = "setTrip"
      BY <1>0, <3>1, <3>2 DEF TypeOK
    <3>5. OverlookedOnly'
      BY <2>4, <3>1, <3>4 DEF TripInv, OverlookedOnly
    <3> QED
      BY <1>2, <2>2, <2>3, <3>3, <3>5 DEF TripInv, TripsNeat
  <2>6. CASE FallBack(k)
    <3>1. /\ pc' = [pc EXCEPT ![k] = "setTrip"]
          /\ overlooked' = [overlooked EXCEPT ![k] = MembersStored("trip-rider-v3")]
      BY <2>6 DEF FallBack, Become
    <3>2. MembersStored("trip-rider-v3") \subseteq Members
      BY <1>0, StoredTyped, TripNames
    <3>3. TypeOK'
      BY <1>0, <1>1, <2>1, <3>1, <3>2 DEF TypeOK
    <3>4. OverlookedOnly'
      <4> SUFFICES ASSUME NEW j \in Clients, pc'[j] = "setTrip",
                          NEW m \in MembersStored("trip-rider-v3"), m \notin Seeded
                   PROVE  m \in overlooked'[j]
        BY <2>4 DEF OverlookedOnly
      <4>1. CASE j = k
        BY <1>0, <3>1, <4>1 DEF TypeOK
      <4>2. CASE j # k
        BY <1>0, <3>1, <4>2 DEF TypeOK, TripInv, OverlookedOnly
      <4> QED
        BY <4>1, <4>2
    <3> QED
      BY <1>2, <2>2, <2>3, <3>3, <3>4 DEF TripInv, TripsNeat
  <2> QED
    BY <2>1, <2>5, <2>6
<1>4. CASE ActiveSetTrip(k)
  <2> DEFINE fallback == NewTrip(StartDistance)
  <2>1. /\ SetTrip("trip-rider-v3", fallback) /\ UNCHANGED pointer
        /\ pc' = [pc EXCEPT ![k] = "setPointer"]
        /\ overlooked' = [overlooked EXCEPT ![k] = {}]
    BY <1>4 DEF ActiveSetTrip, Become
  <2>2. Sound(fallback) /\ Neat(fallback) /\ MembersOf(fallback) = Seeded
    BY NewTripSound, TripNumbersAssumption
  <2> HIDE DEF fallback
  <2>3. StoreKept("trip-rider-v3", fallback)
    BY <2>1, <2>2, SetTripSound, TripNames DEF Keeps
  <2>4. TypeOK'
    BY <1>0, <1>1, <2>1, <2>3 DEF TypeOK, StoreKept
  <2>5. MembersStored("trip-rider-1")' = MembersStored("trip-rider-1")
    BY <2>3, TripNames DEF StoreKept, MembersStored, MembersOf
  <2>6. LateJoinersOnly'
    BY <1>1, <2>5, SoundUnprimed DEF TripInv, LateJoinersOnly
  <2>7. MembersStored("trip-rider-v3")' \subseteq MembersStored("trip-rider-v3") \cup Seeded
    <3>1. CASE UNCHANGED <<exists, trips>>
      BY <3>1 DEF MembersStored, MembersOf
    <3>2. CASE trips' = [trips EXCEPT !["trip-rider-v3"] = fallback]
      <4>1. trips'["trip-rider-v3"] = fallback
        BY <1>0, <3>2, TripNames DEF TypeOK
      <4> QED
        BY <2>2, <4>1 DEF MembersStored, MembersOf
    <3> QED
      BY <2>1, <3>1, <3>2 DEF SetTrip
  <2>8. OverlookedOnly'
    <3> SUFFICES ASSUME NEW j \in Clients, pc'[j] = "setTrip",
                        NEW m \in MembersStored("trip-rider-v3")', m \notin Seeded
                 PROVE  m \in overlooked'[j]
      BY DEF OverlookedOnly
    <3>1. j # k /\ pc[j] = "setTrip" /\ overlooked'[j] = overlooked[j]
      BY <1>0, <2>1 DEF TypeOK
    <3> QED
      BY <2>7, <3>1 DEF TripInv, OverlookedOnly
  <2>9. \A t \in Trips : Sound(trips[t])' /\ (t \notin turned' => Neat(trips[t])')
    BY <1>1, <2>3, SoundUnprimed DEF StoreKept
  <2> QED
    BY <1>2, <2>4, <2>6, <2>8, <2>9 DEF TripInv, TripsNeat
<1>5. CASE ActiveSetPointer(k)
  <2>1. /\ UNCHANGED <<exists, trips, expiring, overlooked>>
        /\ pointer' \in {pointer, "trip-rider-v3"} /\ pc' = [pc EXCEPT ![k] = "idle"]
    BY <1>5 DEF ActiveSetPointer, SetPointer, Become, historyVars
  <2>2. TypeOK'
    BY <1>0, <1>1, <2>1, TripNames DEF TypeOK
  <2>3. \A j \in Clients : pc'[j] = "setTrip" => pc[j] = "setTrip"
    BY <1>0, <2>1 DEF TypeOK
  <2>4. \A t \in Trips : Sound(trips[t])' /\ (t \notin turned' => Neat(trips[t])')
    BY <1>1, <2>1, SoundUnprimed DEF TripInv, TripsNeat
  <2>5. LateJoinersOnly' /\ OverlookedOnly'
    BY <1>1, <2>1, <2>3 DEF TripInv, LateJoinersOnly, OverlookedOnly, MembersStored, MembersOf
  <2> QED
    BY <1>2, <2>2, <2>4, <2>5 DEF TripInv, TripsNeat
<1> QED
  BY <1>3, <1>4, <1>5 DEF Active

LEMMA RiderStep ==
  ASSUME TripInv, Rider
  PROVE  TripInv'
<1>0. TypeOK /\ distance \in Nat /\ "trip-rider-1" \in Trips
  BY TripNumbersAssumption DEF TripInv, TypeOK, Trips
<1>1. UNCHANGED <<pc, joins, overlooked, turned>>
  BY DEF Rider, RiderTick, RiderReadTrip, RiderSetTrip, RiderSetPointer, historyVars
<1>2. ASSUME UNCHANGED trips
      PROVE  \A t \in Trips : Sound(trips[t])' /\ (t \notin turned' => Neat(trips[t])')
  BY <1>1, <1>2, SoundUnprimed DEF TripInv, TripsNeat
<1>3. ASSUME UNCHANGED riderCopy
      PROVE  Sound(riderCopy)' /\ ("trip-rider-1" \notin turned' => Neat(riderCopy)')
  BY <1>1, <1>3, SoundUnprimed DEF TripInv, TripsNeat
<1>4. ASSUME UNCHANGED <<exists, trips>> PROVE OverlookedOnly'
  BY <1>1, <1>4 DEF TripInv, OverlookedOnly, MembersStored, MembersOf
<1>5. CASE RiderTick
  <2>1. /\ UNCHANGED <<exists, trips, pointer, expiring, riderCopy, unseen>>
        /\ distance > 0 /\ distance' = distance - 1 /\ riderPc' \in {"readTrip", "idle"}
    BY <1>5 DEF RiderTick, historyVars
  <2>2. distance' \in 0..StartDistance
    BY <1>0, <2>1, TripNumbersAssumption DEF TypeOK
  <2>3. TypeOK'
    BY <1>0, <1>1, <2>1, <2>2 DEF TypeOK
  <2>4. LateJoinersOnly'
    BY <2>1 DEF LateJoinersOnly
  <2> QED
    BY <1>2, <1>3, <1>4, <2>1, <2>3, <2>4 DEF TripInv, TripsNeat
<1>6. CASE RiderReadTrip
  <2>1. UNCHANGED <<exists, trips, pointer, expiring, distance>> /\ riderPc' = "setTrip"
    BY <1>6 DEF RiderReadTrip
  <2>2. /\ Keeps("trip-rider-1", riderCopy') /\ unseen' \subseteq Members
        /\ MembersStored("trip-rider-1") \ MembersOf(riderCopy') \subseteq unseen'
    <3>1. CASE riderCopy' = [trips["trip-rider-1"] EXCEPT !.eta = distance] /\ unseen' = unseen
      <4>1. Sound(trips["trip-rider-1"])
            /\ ("trip-rider-1" \notin turned => Neat(trips["trip-rider-1"]))
        BY <1>0 DEF TripInv, TripsNeat
      <4>2. /\ riderCopy' \in Trip
            /\ riderCopy'.rows = trips["trip-rider-1"].rows
            /\ riderCopy'.orders = trips["trip-rider-1"].orders
            /\ riderCopy'.fee = trips["trip-rider-1"].fee
        BY <1>0, <3>1, <4>1 DEF Sound, Trip
      <4>3. Keeps("trip-rider-1", riderCopy')
        BY <4>1, <4>2 DEF Keeps, Sound, Neat, RowsDistinct, UserRowLast, Charged
      <4>4. MembersStored("trip-rider-1") \subseteq MembersOf(riderCopy')
        BY <4>2 DEF MembersOf, MembersStored
      <4> QED
        BY <1>0, <3>1, <4>3, <4>4 DEF TypeOK
    <3>2. CASE riderCopy' = NewTrip(distance) /\ unseen' = MembersStored("trip-rider-1")
      <4>1. Keeps("trip-rider-1", riderCopy')
        BY <1>0, <3>2, NewTripSound DEF Keeps
      <4>2. MembersStored("trip-rider-1") \subseteq Members
        BY <1>0, StoredTyped
      <4> QED
        BY <3>2, <4>1, <4>2
    <3> QED
      BY <1>6, <3>1, <3>2 DEF RiderReadTrip
  <2>3. TypeOK'
    BY <1>0, <1>1, <2>1, <2>2 DEF TypeOK, Keeps, Sound
  <2>4. MembersStored("trip-rider-1")' = MembersStored("trip-rider-1")
    BY <2>1 DEF MembersStored, MembersOf
  <2>5. LateJoinersOnly'
    BY <2>2, <2>4, SoundUnprimed DEF LateJoinersOnly
  <2>6. Sound(riderCopy)' /\ ("trip-rider-1" \notin turned' => Neat(riderCopy)')
    BY <1>1, <2>2, SoundUnprimed DEF Keeps
  <2> QED
    BY <1>2, <1>4, <2>1, <2>3, <2>5, <2>6 DEF TripInv, TripsNeat
<1>7. CASE RiderSetTrip
  <2>1. /\ SetTrip("trip-rider-1", riderCopy) /\ riderPc' = "setPointer" /\ unseen' = {}
        /\ UNCHANGED <<pointer, distance>> /\ riderCopy' = NewTrip(0)
    BY <1>7 DEF RiderSetTrip
  <2>2. Keeps("trip-rider-1", riderCopy)
    BY DEF TripInv, TripsNeat, Keeps
  <2>3. StoreKept("trip-rider-1", riderCopy)
    BY <1>0, <2>1, <2>2, SetTripSound
  <2>4. Sound(NewTrip(0)) /\ Neat(NewTrip(0)) /\ NewTrip(0) \in Trip
    BY NewTripSound DEF Sound
  <2>5. TypeOK'
    BY <1>0, <1>1, <2>1, <2>3, <2>4 DEF TypeOK, StoreKept
  <2>6. \A t \in Trips : Sound(trips[t])' /\ (t \notin turned' => Neat(trips[t])')
    BY <1>1, <2>3, SoundUnprimed DEF StoreKept
  <2>7. Sound(riderCopy)' /\ Neat(riderCopy)'
    BY <2>1, <2>4, SoundUnprimed
  <2>8. LateJoinersOnly'
    BY <2>1 DEF LateJoinersOnly
  <2>9. MembersStored("trip-rider-v3")' = MembersStored("trip-rider-v3")
    BY <2>3, TripNames DEF StoreKept, MembersStored, MembersOf
  <2>10. OverlookedOnly'
    BY <1>1, <2>9 DEF TripInv, OverlookedOnly
  <2> QED
    BY <2>5, <2>6, <2>7, <2>8, <2>10 DEF TripInv, TripsNeat
<1>8. CASE RiderSetPointer
  <2>1. /\ riderPc' = "idle" /\ pointer' \in {pointer, "trip-rider-1"}
        /\ UNCHANGED <<exists, trips, expiring, distance, riderCopy, unseen>>
    BY <1>8 DEF RiderSetPointer, SetPointer, historyVars
  <2>2. TypeOK'
    BY <1>0, <1>1, <2>1 DEF TypeOK
  <2>3. LateJoinersOnly'
    BY <2>1 DEF LateJoinersOnly
  <2> QED
    BY <1>2, <1>3, <1>4, <2>1, <2>2, <2>3 DEF TripInv, TripsNeat
<1> QED
  BY <1>5, <1>6, <1>7, <1>8 DEF Rider

LEMMA TripStep == TripInv /\ [Next]_vars => TripInv'
<1> SUFFICES ASSUME TripInv, [Next]_vars PROVE TripInv'
  OBVIOUS
<1>1. CASE UNCHANGED vars
  <2>1. UNCHANGED <<exists, trips, pointer, expiring, riderPc, distance, riderCopy, pc, joins,
                    unseen, overlooked, turned>>
    BY <1>1 DEF vars, riderVars, historyVars
  <2>2. TypeOK'
    BY <2>1 DEF TripInv, TypeOK
  <2>3. TripsNeat' /\ (\A t \in Trips : Sound(trips[t])') /\ Sound(riderCopy)'
    BY <2>1, SoundUnprimed DEF TripInv, TripsNeat
  <2>4. LateJoinersOnly' /\ OverlookedOnly'
    BY <2>1 DEF TripInv, LateJoinersOnly, OverlookedOnly, MembersStored, MembersOf
  <2> QED
    BY <2>2, <2>3, <2>4 DEF TripInv
<1> QED
  BY <1>1, JoinTripStep, ExpiryStep, ActiveStep, RiderStep DEF Next

LEMMA TripInvariant == Spec => []TripInv
BY TripInit, TripStep, PTL DEF Spec

-----------------------------------------------------------------------------
(* Type correctness of the trips and of all who use them (internal/trip).  *)
THEOREM TripTypesCorrect == Spec => []TypeOK
<1>1. TripInv => TypeOK
  BY DEF TripInv
<1> QED
  BY <1>1, TripInvariant, PTL

(***************************************************************************)
(* No member has two rows of a stored trip in which no re-join has given a *)
(* row before the last a user's name (redis_store.go:50-82).               *)
(***************************************************************************)
THEOREM MembersStayDistinct == Spec => []MembersDistinct
<1>1. TripInv => MembersDistinct
  BY DEF TripInv, TypeOK, TripsNeat, Neat, RowsDistinct, MembersDistinct
<1> QED
  BY <1>1, TripInvariant, PTL

(***************************************************************************)
(* The fee of a stored trip is that of its orders, whichever of the rider, *)
(* the fallback and the script wrote it last (redis_store.go:84-100).      *)
(***************************************************************************)
THEOREM FeeAlwaysMatchesTier == Spec => []FeeMatchesTier
<1>1. TripInv => FeeMatchesTier
  BY DEF TripInv, TypeOK, Sound, Charged, FeeMatchesTier
<1> QED
  BY <1>1, TripInvariant, PTL

(***************************************************************************)
(* The rider's write loses only members its read did not return, or who    *)
(* joined after it, the fallback write only members its client has not     *)
(* looked at, a join only a user's row, and nothing else loses any         *)
(* (simulator.go:88-155, main.go:478-516, redis_store.go:50-70).           *)
(***************************************************************************)
THEOREM OnlyOverlookedAreLost == Spec => OnlyOverlookedMembersAreLost
<1>1. ASSUME TripInv, Next, NEW t \in exists \cap exists', NEW m \in MembersLost(t)
      PROVE  LossExplained(t, m)
  <2>1. /\ t \in Trips /\ TypeOK /\ t \in exists /\ t \in exists'
        /\ m \in MembersOf(trips[t]) /\ m \notin MembersOf(trips'[t])
        /\ trips'[t] # trips[t] /\ m \in MembersStored(t)
    BY <1>1 DEF MembersLost, MembersStored, TripInv, TypeOK
  <2>2. ASSUME NEW k \in Clients, Active(k) PROVE LossExplained(t, m)
    <3>1. ActiveSetTrip(k)
      BY <2>1, <2>2 DEF Active, ActiveReadPointer, ActiveReadTrip, ActiveSetPointer
    <3>2. /\ pc[k] = "setTrip" /\ pc'[k] # "setTrip"
          /\ trips' = [trips EXCEPT !["trip-rider-v3"] = NewTrip(StartDistance)]
      BY <2>1, <3>1 DEF ActiveSetTrip, SetTrip, Become, TypeOK
    <3>3. t = "trip-rider-v3" /\ trips'[t] = NewTrip(StartDistance)
      BY <2>1, <3>2, TripNames DEF TypeOK
    <3>4. MembersOf(trips'[t]) = Seeded
      BY <3>3, NewTripSound, TripNumbersAssumption
    <3> QED
      BY <1>1, <2>1, <3>2, <3>3, <3>4 DEF TripInv, OverlookedOnly, LossExplained
  <2>3. ASSUME NEW join \in Joins, NEW u \in Trips, JoinTrip(join, u)
        PROVE  LossExplained(t, m)
    <3>1. /\ trips' = [trips EXCEPT ![u] = Joined(trips[u], join)] /\ UNCHANGED <<riderPc, pc>>
      BY <2>3 DEF JoinTrip, riderVars
    <3>2. t = u /\ trips'[t] = Joined(trips[t], join)
      BY <2>1, <3>1 DEF TypeOK
    <3>3. JoinedWell(trips[t], join, trips'[t])
      BY <1>1, <2>1, <3>2, JoinSound DEF TripInv
    <3> QED
      BY <2>1, <3>1, <3>3 DEF JoinedWell, LossExplained
  <2>4. ASSUME PointerExpires \/ \E u \in Trips : TripExpires(u) PROVE FALSE
    <3>1. PICK u \in Trips : TripExpires(u)
      BY <2>1, <2>4 DEF PointerExpires
    <3>2. trips' = [trips EXCEPT ![u] = NewTrip(0)] /\ exists' = exists \ {u}
      BY <3>1 DEF TripExpires
    <3> QED
      BY <2>1, <3>2 DEF TypeOK
  <2>5. CASE Rider
    <3>1. RiderSetTrip
      BY <2>1, <2>5 DEF Rider, RiderTick, RiderReadTrip, RiderSetPointer
    <3>2. riderPc = "setTrip" /\ trips' = [trips EXCEPT !["trip-rider-1"] = riderCopy]
      BY <2>1, <3>1 DEF RiderSetTrip, SetTrip
    <3>3. t = "trip-rider-1" /\ trips'[t] = riderCopy
      BY <2>1, <3>2, TripNames DEF TypeOK
    <3> QED
      BY <1>1, <2>1, <3>2, <3>3 DEF TripInv, LateJoinersOnly, LossExplained
  <2> QED
    BY <1>1, <2>2, <2>3, <2>4, <2>5 DEF Next
<1>2. TripInv /\ [Next]_vars =>
        [\A t \in exists \cap exists' : \A m \in MembersLost(t) : LossExplained(t, m)]_vars
  BY <1>1
<1> QED
  BY <1>2, TripInvariant, PTL DEF Spec, OnlyOverlookedMembersAreLost

=============================================================================
