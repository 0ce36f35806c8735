------------------------------ MODULE TripPool ------------------------------
(***************************************************************************)
(* Rider trip pooling (internal/trip), kept in Redis, for one rider and    *)
(* one geofence.  The rider simulator ticks: it reads the trip and writes  *)
(* it back with a new ETA, or creates it.  Members join a trip through a   *)
(* Lua script; clients ask for the geofence's active trip, which creates a *)
(* fallback trip when there is none (cmd/sim/main.go).  A step is one      *)
(* Redis command, which may fail; the keys that Go writes expire.          *)
(*                                                                         *)
(* The rider's position is its distance in ticks, the ETA that distance.   *)
(* Of a member's data a row keeps what the script looks at: its id and     *)
(* whether its display name and its flat are those of a user, "You (Web    *)
(* User)" or "Vikram Kumar", and Flat 304, the join handler's defaults.    *)
(***************************************************************************)
EXTENDS Integers, Sequences, FiniteSets, FiniteSetsExt

CONSTANTS
  Members,        \* member ids
  WebIds,         \* the member ids that begin with mem-user- or mem-web-
  OrderIds,       \* order ids, sent by the client or generated, not always anew
  SeedMembers, SeedOrders,  \* two sequences: the members and orders of a new trip
  Joins,          \* the join requests: member, named, flat304, order
  Clients,        \* requests for the active trip that may be under way at once
  BaseFee,        \* BaseDeliveryFeePaise
  StartDistance,  \* from the pickup to the destination, in ticks
  Proximity,      \* proximityThreshold, in ticks
  RedisMayFail,   \* a command may return an error without having been executed
  MaxJoins        \* bound: the joins of a run

Seeded == {SeedMembers[i] : i \in DOMAIN SeedMembers}
Row    == [member : Members, named : BOOLEAN, flat304 : BOOLEAN]
Trips  == {"trip-rider-1", "trip-rider-v3"}
NoTrip == "none"

ASSUME TripSeedsAssumption ==
  /\ SeedMembers \in Seq(Members) /\ Len(SeedMembers) = 2 /\ SeedMembers[1] # SeedMembers[2]
  /\ SeedOrders \in Seq(OrderIds) /\ Len(SeedOrders) = 2 /\ SeedOrders[1] # SeedOrders[2]
  /\ Seeded \cap WebIds = {}
ASSUME TripJoinsAssumption ==
  /\ IsFiniteSet(OrderIds)
  /\ Joins \subseteq [member : Members, named : BOOLEAN, flat304 : BOOLEAN, order : OrderIds]
ASSUME TripNumbersAssumption ==
  BaseFee \in Nat /\ StartDistance \in Nat /\ Proximity \in Nat /\ MaxJoins \in Nat
ASSUME TripFailuresAssumption == RedisMayFail \in BOOLEAN

VARIABLES
  exists, trips, pointer,        \* Redis: trip:<id> and geofence_trip:<geofence>
  expiring,                      \* the trips whose key has a time to live
  riderPc, distance, riderCopy,  \* RiderSimulator.Tick
  pc,                            \* /api/trips/active in progress
  joins,                         \* the joins served, up to MaxJoins
  unseen,      \* history: the trip's members that riderCopy was made without
  overlooked,  \* history: the fallback trip's members a client has not looked at
  turned       \* history: trips in which a row before the last became a user's

riderVars == <<riderPc, distance, riderCopy>>
historyVars == <<unseen, overlooked, turned>>
vars == <<exists, trips, pointer, expiring, riderVars, pc, joins, historyVars>>

(* Mutant: the fee is waived from the second order on. *)
FeeWaivedEarly(count) == IF count >= 2 THEN 0 ELSE BaseFee

(* The fee of a trip of `count` orders.                                    *)
FeeFor(count) ==
  IF count = 2 THEN BaseFee \div 2 ELSE IF count >= 3 THEN 0 ELSE BaseFee

(* CurrentDeliveryFeePaise is a literal, half of the fee, in a new trip.   *)
NewTrip(eta) ==
  [rows |-> [i \in DOMAIN SeedMembers |->
               [member |-> SeedMembers[i], named |-> FALSE, flat304 |-> FALSE]],
   orders |-> {SeedOrders[i] : i \in DOMAIN SeedOrders}, fee |-> BaseFee \div 2, eta |-> eta]

MembersOf(trip) == {trip.rows[i].member : i \in DOMAIN trip.rows}
MembersStored(t) == IF t \in exists THEN MembersOf(trips[t]) ELSE {}

Init ==
  /\ exists = {} /\ expiring = {}
  /\ trips = [t \in Trips |-> NewTrip(0)]
  /\ pointer = NoTrip
  /\ riderPc = "idle"
  /\ distance = StartDistance
  /\ riderCopy = NewTrip(0)
  /\ pc = [k \in Clients |-> "idle"]
  /\ joins = 0
  /\ unseen = {}
  /\ overlooked = [k \in Clients |-> {}]
  /\ turned = {}

(***************************************************************************)
(* The commands of CreateOrUpdateTrip's pipeline, whose error its callers  *)
(* ignore.                                                                 *)
(***************************************************************************)
SetTrip(t, trip) ==
  \/ /\ trips' = [trips EXCEPT ![t] = trip]
     /\ exists' = exists \cup {t}
     /\ expiring' = expiring \cup {t}
  \/ RedisMayFail /\ UNCHANGED <<exists, trips, expiring>>

SetPointer(t) ==
  \/ pointer' = t
  \/ RedisMayFail /\ UNCHANGED pointer

(***************************************************************************)
(* joinTripLuaScript: the joiner's order, or a row of the joiner or of any *)
(* user, makes it a repetition; the first such row becomes the joiner's.   *)
(***************************************************************************)
IsUser(row) == row.named \/ row.flat304 \/ row.member \in WebIds

(* Mutant: the joiner's own row is not looked for. *)
PersonaRows(rows, m) == {i \in DOMAIN rows : IsUser(rows[i])}

UserRows(rows, m) == {i \in DOMAIN rows : rows[i].member = m \/ IsUser(rows[i])}

Joined(trip, join) ==
  LET found == UserRows(trip.rows, join.member)
      isNew == join.order \notin trip.orders /\ found = {}
      updated == IF found = {} THEN trip.rows
                 ELSE [trip.rows EXCEPT ![Min(found)].member = join.member,
                                        ![Min(found)].named = join.named]
      row    == [member |-> join.member, named |-> join.named, flat304 |-> join.flat304]
      rows   == IF isNew THEN Append(updated, row) ELSE updated
      orders == IF isNew THEN trip.orders \cup {join.order} ELSE trip.orders
  IN  [trip EXCEPT !.rows = rows, !.orders = orders,
                   !.fee = FeeFor(Max({Len(rows), Cardinality(orders)}))]

(* The row the join takes becomes a user's and has rows after it.          *)
Turns(rows, join) ==
  LET found == UserRows(rows, join.member)
  IN  /\ found # {} /\ join.named
      /\ Min(found) < Len(rows) /\ ~IsUser(rows[Min(found)])

(* The script's SET has no expiry, so it takes the time to live away.      *)
JoinTrip(join, t) ==
  /\ t \in exists
  /\ joins < MaxJoins
  /\ joins' = joins + 1
  /\ trips' = [trips EXCEPT ![t] = Joined(trips[t], join)]
  /\ expiring' = expiring \ {t}
  /\ unseen' = IF t = "trip-rider-1" /\ riderPc = "setTrip"
                 THEN unseen \cup {join.member} ELSE unseen
  /\ overlooked' = [k \in Clients |-> IF t = "trip-rider-v3" /\ pc[k] = "setTrip"
                                        THEN overlooked[k] \cup {join.member} ELSE overlooked[k]]
  /\ turned' = IF Turns(trips[t].rows, join) THEN turned \cup {t} ELSE turned
  /\ UNCHANGED <<exists, pointer, riderVars, pc>>

(* A key with a time to live may be gone before any step.                  *)
TripExpires(t) ==
  /\ t \in expiring
  /\ exists' = exists \ {t}
  /\ expiring' = expiring \ {t}
  /\ trips' = [trips EXCEPT ![t] = NewTrip(0)]
  /\ UNCHANGED <<pointer, riderVars, pc, joins, historyVars>>

PointerExpires ==
  /\ pointer # NoTrip
  /\ pointer' = NoTrip
  /\ UNCHANGED <<exists, trips, expiring, riderVars, pc, joins, historyVars>>

(***************************************************************************)
(* /api/trips/active: read the pointer, and the trip it names, whose id is *)
(* then the value of pc[k]; without either, write the fallback trip and    *)
(* the pointer.                                                            *)
(***************************************************************************)
Become(k, to) == pc' = [pc EXCEPT ![k] = to]

FallBack(k) ==
  /\ Become(k, "setTrip")
  /\ overlooked' = [overlooked EXCEPT ![k] = MembersStored("trip-rider-v3")]

ActiveReadPointer(k) ==
  /\ pc[k] = "idle"
  /\ \/ pointer # NoTrip /\ Become(k, pointer) /\ UNCHANGED overlooked
     \/ (pointer = NoTrip \/ RedisMayFail) /\ FallBack(k)
  /\ UNCHANGED <<exists, trips, pointer, expiring, riderVars, joins, unseen, turned>>

ActiveReadTrip(k) ==
  /\ pc[k] \in Trips
  /\ \/ pc[k] \in exists /\ Become(k, "idle") /\ UNCHANGED overlooked
     \/ (pc[k] \notin exists \/ RedisMayFail) /\ FallBack(k)
  /\ UNCHANGED <<exists, trips, pointer, expiring, riderVars, joins, unseen, turned>>

ActiveSetTrip(k) ==
  /\ pc[k] = "setTrip"
  /\ SetTrip("trip-rider-v3", NewTrip(StartDistance))
  /\ Become(k, "setPointer")
  /\ overlooked' = [overlooked EXCEPT ![k] = {}]
  /\ UNCHANGED <<pointer, riderVars, joins, unseen, turned>>

ActiveSetPointer(k) ==
  /\ pc[k] = "setPointer"
  /\ SetPointer("trip-rider-v3")
  /\ Become(k, "idle")
  /\ UNCHANGED <<exists, trips, expiring, riderVars, joins, historyVars>>

(***************************************************************************)
(* RiderSimulator.Tick: the rider advances; within the proximity threshold *)
(* the trip is read, then created or written back with the new ETA, then   *)
(* the pointer is written.  An arrived rider is not looked at any more.    *)
(***************************************************************************)
(* Mutant: an arrived rider goes on. *)
ArrivedRiderTicks ==
  /\ riderPc = "idle"
  /\ distance' = distance - 1
  /\ riderPc' = IF distance' <= Proximity THEN "readTrip" ELSE "idle"
  /\ UNCHANGED <<exists, trips, pointer, expiring, riderCopy, pc, joins, historyVars>>

RiderTick ==
  /\ riderPc = "idle"
  /\ distance > 0
  /\ distance' = distance - 1
  /\ riderPc' = IF distance' <= Proximity THEN "readTrip" ELSE "idle"
  /\ UNCHANGED <<exists, trips, pointer, expiring, riderCopy, pc, joins, historyVars>>

(* Mutant: the trip that was read is forgotten and created anew. *)
RiderCreatesTrip ==
  /\ riderPc = "readTrip"
  /\ riderPc' = "setTrip"
  /\ riderCopy' = NewTrip(distance)
  /\ UNCHANGED <<exists, trips, pointer, expiring, distance, pc, joins, historyVars>>

RiderReadTrip ==
  /\ riderPc = "readTrip"
  /\ riderPc' = "setTrip"
  /\ \/ /\ "trip-rider-1" \in exists
        /\ riderCopy' = [trips["trip-rider-1"] EXCEPT !.eta = distance]
        /\ UNCHANGED unseen
     \/ /\ "trip-rider-1" \notin exists \/ RedisMayFail
        /\ riderCopy' = NewTrip(distance)
        /\ unseen' = MembersStored("trip-rider-1")
  /\ UNCHANGED <<exists, trips, pointer, expiring, distance, pc, joins, overlooked, turned>>

RiderSetTrip ==
  /\ riderPc = "setTrip"
  /\ SetTrip("trip-rider-1", riderCopy)
  /\ riderPc' = "setPointer"
  /\ riderCopy' = NewTrip(0)
  /\ unseen' = {}
  /\ UNCHANGED <<pointer, distance, pc, joins, overlooked, turned>>

RiderSetPointer ==
  /\ riderPc = "setPointer"
  /\ SetPointer("trip-rider-1")
  /\ riderPc' = "idle"
  /\ UNCHANGED <<exists, trips, expiring, distance, riderCopy, pc, joins, historyVars>>

Active(k) == ActiveReadPointer(k) \/ ActiveReadTrip(k) \/ ActiveSetTrip(k) \/ ActiveSetPointer(k)
Rider == RiderTick \/ RiderReadTrip \/ RiderSetTrip \/ RiderSetPointer

Next ==
  \/ \E k \in Clients : Active(k)
  \/ \E t \in Trips : TripExpires(t) \/ \E join \in Joins : JoinTrip(join, t)
  \/ PointerExpires
  \/ Rider

Spec == Init /\ [][Next]_vars
-----------------------------------------------------------------------------
Trip == [rows : Seq(Row), orders : SUBSET OrderIds, fee : Nat, eta : Nat]

(* The type of every variable.                                             *)
TypeOK ==
  /\ exists \subseteq Trips /\ expiring \subseteq exists
  /\ trips \in [Trips -> Trip]
  /\ pointer \in Trips \cup {NoTrip}
  /\ riderPc \in {"idle", "readTrip", "setTrip", "setPointer"}
  /\ distance \in 0..StartDistance
  /\ riderCopy \in Trip
  /\ pc \in [Clients -> Trips \cup {"idle", "setTrip", "setPointer"}]
  /\ joins \in 0..MaxJoins
  /\ unseen \subseteq Members
  /\ overlooked \in [Clients -> SUBSET Members]
  /\ turned \subseteq Trips

(***************************************************************************)
(* Although a joiner may take over another member's row, no member has two *)
(* rows, however joins, rider ticks and fallbacks interleave, unless a     *)
(* member's re-join gave a row before the last a user's name: as long as   *)
(* only the last row is a user's, it stays behind the joiner's own row and *)
(* no row is ever added after it (redis_store.go:50-82).                   *)
(***************************************************************************)
MembersDistinct ==
  \A t \in exists \ turned :
    \A i, j \in DOMAIN trips[t].rows :
      trips[t].rows[i].member = trips[t].rows[j].member => i = j

(***************************************************************************)
(* The fee of a stored trip is that of its number of orders, and it has as *)
(* many orders as rows, whichever of the rider, the fallback and the       *)
(* script wrote it last (redis_store.go:84-100, ASSUMPTIONS.md:134-139).   *)
(***************************************************************************)
FeeMatchesTier ==
  \A t \in exists :
    /\ Len(trips[t].rows) = Cardinality(trips[t].orders)
    /\ trips[t].fee = FeeFor(Cardinality(trips[t].orders))

(***************************************************************************)
(* Who can lose a place in a trip that is there before and after a step:   *)
(* the rider's write loses only members who joined after its read, or whom *)
(* its failed read did not return (simulator.go:88-155); the fallback      *)
(* write only members of trip-rider-v3 that a request which found no trip  *)
(* has not looked at (main.go:478-516); a join only a member whose row is  *)
(* a user's, of any flat and name (redis_store.go:50-70).                  *)
(***************************************************************************)
MembersLost(t) == MembersOf(trips[t]) \ MembersOf(trips'[t])
HasUserRow(trip, m) == \E i \in DOMAIN trip.rows : trip.rows[i].member = m /\ IsUser(trip.rows[i])

LossExplained(t, m) ==
  \/ t = "trip-rider-1" /\ riderPc = "setTrip" /\ m \in unseen
  \/ /\ t = "trip-rider-v3"
     /\ \E k \in Clients : pc[k] = "setTrip" /\ pc'[k] # "setTrip" /\ m \in overlooked[k]
  \/ UNCHANGED <<riderPc, pc>> /\ HasUserRow(trips[t], m)

OnlyOverlookedMembersAreLost ==
  [][\A t \in exists \cap exists' : \A m \in MembersLost(t) : LossExplained(t, m)]_vars

=============================================================================
