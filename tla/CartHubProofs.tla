---------------------------- MODULE CartHubProofs ---------------------------
(***************************************************************************)
(* What holds of the WebSocket hub for every number of members,            *)
(* connections and events and all capacities of the channels: the hub's    *)
(* map, the Send channels and the subscription agree.                      *)
(***************************************************************************)
EXTENDS CartHub, FiniteSetTheorems, TLAPS

(***************************************************************************)
(* The inductive invariant.  A goroutine that is about to send has an      *)
(* event in hand; a connection knows its member from Register on and is    *)
(* untouched before; subscriptions, live or cancelled, have a listener.    *)
(***************************************************************************)
EventInHand ==
  \A s \in Conns :
    /\ listener[s] = "deliver" => delivering[s] \in Events
    /\ forwarder[s] = "send" => forwarding[s] \in Events

MemberKnown == \A c \in Conns : handler[c] # "new" => memberOf[c] \in Members

UntouchedBefore ==
  \A c \in Conns : handler[c] = "new" => ~closed[c] /\ listener[c] = "none"

SubscriptionStarted ==
  \A s \in cancelled \cup ({subscription} \ {NoConn}) : listener[s] # "none"

HubInv ==
  /\ TypeOK
  /\ EventInHand
  /\ MemberKnown
  /\ UntouchedBefore
  /\ SubscriptionStarted
  /\ RegisteredOpen
  /\ OneLiveSubscription

USE DEF NoConn, NoMember, NoEvent

(* Connections and events take their numbers from within the bound. *)
LEMMA PublishedWithinBound ==
  ASSUME TypeOK, WithinBound
  PROVE  published + 1 \in Events
<1>1. Opened \subseteq Conns
  BY DEF Opened
<1>2. Cardinality(Opened) \in Nat
  BY <1>1, NumberedAssumption, FS_Subset, FS_CardinalityType
<1>3. QED
  BY <1>2, CapacityAssumption DEF TypeOK, WithinBound, Events

LEMMA HubInit == Init => HubInv
<1> SUFFICES ASSUME Init PROVE HubInv
  OBVIOUS
<1>1. TypeOK
  BY NumberedAssumption, CapacityAssumption DEF Init, TypeOK, Events, Frame
<1>2. QED
  BY <1>1, NumberedAssumption
     DEF Init, HubInv, EventInHand, MemberKnown, UntouchedBefore, SubscriptionStarted,
         RegisteredOpen, OneLiveSubscription, Connected
-----------------------------------------------------------------------------
(* The steps that change the hub's map. *)
LEMMA RegisterStep ==
  ASSUME HubInv, NEW c \in Conns, NEW m \in Members, Register(c, m)
  PROVE  HubInv'
<1> USE NumberedAssumption DEF HubInv
<1>1. /\ handler[c] = "new" /\ ~closed[c] /\ listener[c] = "none" /\ c # NoConn
      /\ c \notin cancelled /\ subscription # c
      /\ \A n \in Members : registered[n] # c
  BY DEF Register, Opened, UntouchedBefore, SubscriptionStarted, RegisteredOpen, TypeOK
<1>2. /\ registered' = [registered EXCEPT ![m] = c]
      /\ memberOf' = [memberOf EXCEPT ![c] = m]
      /\ handler' = [handler EXCEPT ![c] = "reading"]
      /\ UNCHANGED <<send, closed, cancelled, confirmed, arrived, forwarding, channel,
                     delivering, published, received>>
  BY DEF Register
<1>3. \/ Connected(registered) /\ UNCHANGED <<subscription, forwarder, listener>>
      \/ /\ ~Connected(registered)
         /\ subscription' = c
         /\ forwarder' = [forwarder EXCEPT ![c] = "select"]
         /\ listener' = [listener EXCEPT ![c] = "select"]
  BY DEF Register, SubscribeIfFirst
<1>4. Connected(registered')
  BY <1>1, <1>2 DEF Connected, TypeOK
<1>5. TypeOK'
  <2>1. /\ subscription' \in Conns \cup {NoConn}
        /\ forwarder' \in [Conns -> {"none", "select", "send", "ended"}]
        /\ listener' \in [Conns -> {"none", "select", "deliver", "ended"}]
    <3>1. CASE UNCHANGED <<subscription, forwarder, listener>>
      BY <3>1 DEF TypeOK
    <3>2. CASE /\ subscription' = c
               /\ forwarder' = [forwarder EXCEPT ![c] = "select"]
               /\ listener' = [listener EXCEPT ![c] = "select"]
      BY <3>2 DEF TypeOK
    <3>3. QED
      BY <1>3, <3>1, <3>2
  <2>2. pump' \in [Conns -> {"new", "running", "ended"}]
    BY DEF Register, TypeOK
  <2>3. owed' \in [Conns -> SUBSET Events]
    BY DEF Register, TypeOK
  <2>4. QED
    BY <1>2, <2>1, <2>2, <2>3 DEF TypeOK
<1>6. EventInHand'
  BY <1>2, <1>3 DEF EventInHand, TypeOK
<1>7. MemberKnown' /\ UntouchedBefore'
  BY <1>1, <1>2, <1>3 DEF MemberKnown, UntouchedBefore, TypeOK
<1>8. SubscriptionStarted'
  BY <1>1, <1>2, <1>3 DEF SubscriptionStarted, TypeOK
<1>9. RegisteredOpen'
  BY <1>1, <1>2 DEF RegisteredOpen, TypeOK
<1>10. OneLiveSubscription'
  <2>1. CASE Connected(registered) /\ UNCHANGED <<subscription, forwarder, listener>>
    BY <1>2, <1>4, <2>1 DEF OneLiveSubscription
  <2>2. CASE /\ ~Connected(registered)
             /\ subscription' = c
             /\ listener' = [listener EXCEPT ![c] = "select"]
    <3>1. subscription = NoConn
      BY <2>2 DEF OneLiveSubscription
    <3>2. \A s \in Conns \ {c} : listener[s] # "none" => s \in cancelled
      BY <3>1 DEF OneLiveSubscription
    <3>3. QED
      BY <1>1, <1>2, <1>4, <2>2, <3>2 DEF OneLiveSubscription, SubscriptionStarted, TypeOK
  <2>3. QED
    BY <1>3, <2>1, <2>2
<1>11. QED
  BY <1>5, <1>6, <1>7, <1>8, <1>9, <1>10

LEMMA UnregisterStep ==
  ASSUME HubInv, NEW c \in Conns, Unregister(c)
  PROVE  HubInv'
<1> DEFINE m == memberOf[c]
<1> USE NumberedAssumption DEF HubInv
<1>1. m \in Members /\ handler[c] = "unregister"
  BY DEF Unregister, MemberKnown
<1>2. /\ handler' = [handler EXCEPT ![c] = "ended"]
      /\ UNCHANGED <<memberOf, pump, send, confirmed, arrived, forwarder, forwarding, channel,
                     listener, delivering, published, received>>
  BY DEF Unregister
<1>3. \/ /\ registered[m] # NoConn
         /\ closed' = [closed EXCEPT ![registered[m]] = TRUE]
         /\ owed' = [owed EXCEPT ![registered[m]] = {}]
         /\ registered' = [registered EXCEPT ![m] = NoConn]
      \/ UNCHANGED <<closed, registered, owed>>
  BY DEF Unregister, CloseRegistered
<1>4. \/ /\ Connected(registered) /\ ~Connected(registered')
         /\ subscription' = NoConn
         /\ cancelled' = cancelled \cup {subscription}
      \/ /\ ~(Connected(registered) /\ ~Connected(registered'))
         /\ UNCHANGED <<subscription, cancelled>>
  BY DEF Unregister, CancelSubscription
<1>5. Connected(registered) => subscription \in Conns
  BY DEF OneLiveSubscription, TypeOK
<1>6. TypeOK'
  <2>1. /\ registered' \in [Members -> Conns \cup {NoConn}]
        /\ closed' \in [Conns -> BOOLEAN]
        /\ owed' \in [Conns -> SUBSET Events]
    BY <1>1, <1>3 DEF TypeOK
  <2>2. subscription' \in Conns \cup {NoConn} /\ cancelled' \subseteq Conns
    BY <1>4, <1>5 DEF TypeOK
  <2>3. QED
    BY <1>2, <2>1, <2>2 DEF TypeOK
<1>7. EventInHand' /\ MemberKnown'
  BY <1>1, <1>2 DEF EventInHand, MemberKnown, TypeOK
<1>8. UntouchedBefore'
  <2>1. registered[m] # NoConn => handler[registered[m]] # "new"
    BY <1>1 DEF RegisteredOpen
  <2>2. QED
    BY <1>1, <1>2, <1>3, <2>1 DEF UntouchedBefore, TypeOK
<1>9. SubscriptionStarted'
  BY <1>2, <1>4, <1>5 DEF SubscriptionStarted
<1>10. RegisteredOpen'
  <2> SUFFICES ASSUME NEW n \in Members, registered'[n] # NoConn
               PROVE  /\ memberOf'[registered'[n]] = n /\ ~closed'[registered'[n]]
                      /\ handler'[registered'[n]] # "new"
    BY DEF RegisteredOpen
  <2>1. registered'[n] = registered[n]
    BY <1>1, <1>3 DEF TypeOK
  <2>2. /\ registered[n] \in Conns /\ memberOf[registered[n]] = n /\ ~closed[registered[n]]
        /\ handler[registered[n]] # "new"
    BY <2>1 DEF RegisteredOpen, TypeOK
  <2>3. ~closed'[registered[n]]
    <3>1. CASE UNCHANGED closed
      BY <2>2, <3>1
    <3>2. CASE /\ registered[m] # NoConn
               /\ closed' = [closed EXCEPT ![registered[m]] = TRUE]
               /\ registered' = [registered EXCEPT ![m] = NoConn]
      <4>1. n # m
        BY <1>1, <3>2 DEF TypeOK
      <4>2. memberOf[registered[m]] = m
        BY <1>1, <3>2 DEF RegisteredOpen
      <4>3. registered[n] # registered[m]
        BY <2>2, <4>1, <4>2
      <4>4. QED
        BY <2>2, <3>2, <4>3 DEF TypeOK
    <3>3. QED
      BY <1>3, <3>1, <3>2
  <2>4. QED
    BY <1>2, <2>1, <2>2, <2>3 DEF TypeOK
<1>11. OneLiveSubscription'
  <2>1. CASE /\ Connected(registered) /\ ~Connected(registered')
             /\ subscription' = NoConn
             /\ cancelled' = cancelled \cup {subscription}
    BY <1>2, <2>1 DEF OneLiveSubscription
  <2>2. CASE /\ ~(Connected(registered) /\ ~Connected(registered'))
             /\ UNCHANGED <<subscription, cancelled>>
    <3>1. Connected(registered') => Connected(registered)
      BY <1>1, <1>3 DEF Connected, TypeOK
    <3>2. QED
      BY <1>2, <2>2, <3>1 DEF OneLiveSubscription
  <2>3. QED
    BY <1>4, <2>1, <2>2
<1>12. QED
  BY <1>6, <1>7, <1>8, <1>9, <1>10, <1>11
-----------------------------------------------------------------------------
(* What no other step touches. *)
LEMMA HubUntouched ==
  ASSUME HubInv, TypeOK', EventInHand',
         UNCHANGED <<registered, subscription, memberOf, closed, cancelled>>,
         \A c \in Conns : handler'[c] = "new" <=> handler[c] = "new",
         \A s \in Conns : listener'[s] = "none" <=> listener[s] = "none"
  PROVE  HubInv'
<1> USE DEF HubInv
<1>1. MemberKnown' /\ UntouchedBefore' /\ SubscriptionStarted'
  BY DEF MemberKnown, UntouchedBefore, SubscriptionStarted, TypeOK
<1>2. RegisteredOpen'
  <2>1. \A n \in Members : registered[n] # NoConn => registered[n] \in Conns
    BY DEF TypeOK
  <2>2. QED
    BY <2>1 DEF RegisteredOpen
<1>3. OneLiveSubscription'
  BY DEF OneLiveSubscription, Connected
<1>4. QED
  BY <1>1, <1>2, <1>3

(* The steps of connections, of Redis and of the goroutines of a subscription. *)
LEMMA PublishStep ==
  ASSUME HubInv, Publish
  PROVE  HubInv'
<1>1. TypeOK'
  <2>1. published' \in Events /\ published' \in 0..MaxInputs
    BY PublishedWithinBound DEF HubInv, Publish, Events
  <2>2. arrived' \in [Conns -> Seq(Events)]
    BY <2>1 DEF HubInv, Publish, TypeOK
  <2>3. owed' \in [Conns -> SUBSET Events]
    BY <2>1 DEF HubInv, Publish, TypeOK
  <2>4. QED
    BY <2>1, <2>2, <2>3
       DEF HubInv, Publish, TypeOK, hubVars, connVars
<1>2. QED
  BY <1>1, HubUntouched DEF HubInv, Publish, EventInHand, hubVars, connVars

LEMMA PumpWritesStep ==
  ASSUME HubInv, NEW c \in Conns, PumpWrites(c)
  PROVE  HubInv'
<1>1. TypeOK'
  <2>1. Head(send[c]) \in Frame /\ Tail(send[c]) \in Seq(Frame)
        /\ Len(Tail(send[c])) <= SendCap
    BY CapacityAssumption DEF HubInv, PumpWrites, TypeOK
  <2>2. send' \in [Conns -> Seq(Frame)] /\ \A d \in Conns : Len(send'[d]) <= SendCap
    BY <2>1 DEF HubInv, PumpWrites, TypeOK
  <2>3. received' \in [Conns -> Seq(Frame)] /\ owed' \in [Conns -> SUBSET Events]
    BY <2>1 DEF HubInv, PumpWrites, TypeOK
  <2>4. QED
    BY <2>2, <2>3 DEF HubInv, PumpWrites, TypeOK, hubVars, subVars
<1>2. QED
  BY <1>1, HubUntouched DEF HubInv, PumpWrites, EventInHand, hubVars, subVars

LEMMA PumpEndsStep ==
  ASSUME HubInv, NEW c \in Conns, PumpEnds(c)
  PROVE  HubInv'
<1>1. TypeOK'
  BY CapacityAssumption DEF HubInv, PumpEnds, TypeOK, hubVars, subVars
<1>2. QED
  BY <1>1, HubUntouched DEF HubInv, PumpEnds, EventInHand, hubVars, subVars

LEMMA ReadFailsStep ==
  ASSUME HubInv, NEW c \in Conns, ReadFails(c)
  PROVE  HubInv'
<1>1. TypeOK'
  BY DEF HubInv, ReadFails, TypeOK, hubVars, subVars
<1>2. QED
  BY <1>1, HubUntouched DEF HubInv, ReadFails, TypeOK, EventInHand, hubVars, subVars

LEMMA ForwarderStep ==
  ASSUME HubInv, NEW s \in Conns, Confirm(s) \/ Forwarder(s)
  PROVE  HubInv'
<1> USE DEF HubInv
<1>1. CASE Confirm(s)
  <2>1. TypeOK'
    BY <1>1 DEF Confirm, TypeOK, hubVars, connVars
  <2>2. QED
    BY <1>1, <2>1, HubUntouched DEF Confirm, EventInHand, hubVars, connVars
<1>2. CASE ForwarderTakes(s)
  <2>1. Head(arrived[s]) \in Events /\ Tail(arrived[s]) \in Seq(Events)
    BY <1>2 DEF ForwarderTakes, TypeOK
  <2>2. TypeOK'
    BY <1>2, <2>1 DEF ForwarderTakes, TypeOK, hubVars, connVars
  <2>3. EventInHand'
    BY <1>2, <2>1 DEF ForwarderTakes, EventInHand, TypeOK
  <2>4. QED
    BY <1>2, <2>2, <2>3, HubUntouched DEF ForwarderTakes, hubVars, connVars
<1>3. CASE ForwarderSends(s)
  <2>1. forwarding[s] \in Events
    BY <1>3 DEF ForwarderSends, EventInHand
  <2>2. Append(channel[s], forwarding[s]) \in Seq(Events)
        /\ Len(Append(channel[s], forwarding[s])) <= ChannelCap
    BY <1>3, <2>1, CapacityAssumption DEF ForwarderSends, TypeOK
  <2>3. channel' \in [Conns -> Seq(Events)] /\ \A d \in Conns : Len(channel'[d]) <= ChannelCap
    BY <1>3, <2>2 DEF ForwarderSends, TypeOK
  <2>4. TypeOK'
    BY <1>3, <2>3 DEF ForwarderSends, TypeOK, hubVars, connVars
  <2>5. EventInHand'
    BY <1>3 DEF ForwarderSends, EventInHand, TypeOK
  <2>6. QED
    BY <1>3, <2>4, <2>5, HubUntouched DEF ForwarderSends, hubVars, connVars
<1>4. CASE ForwarderStops(s)
  <2>1. TypeOK'
    BY <1>4 DEF ForwarderStops, TypeOK, hubVars, connVars
  <2>2. EventInHand'
    BY <1>4 DEF ForwarderStops, EventInHand, TypeOK
  <2>3. QED
    BY <1>4, <2>1, <2>2, HubUntouched DEF ForwarderStops, hubVars, connVars
<1>5. QED
  BY <1>1, <1>2, <1>3, <1>4 DEF Forwarder

LEMMA ListenerStep ==
  ASSUME HubInv, NEW s \in Conns, Listener(s)
  PROVE  HubInv'
<1> USE DEF HubInv
<1>1. CASE ListenerTakes(s)
  <2>1. Head(channel[s]) \in Events /\ Tail(channel[s]) \in Seq(Events)
        /\ Len(Tail(channel[s])) <= ChannelCap
    BY <1>1, CapacityAssumption DEF ListenerTakes, TypeOK
  <2>2. channel' \in [Conns -> Seq(Events)] /\ \A d \in Conns : Len(channel'[d]) <= ChannelCap
    BY <1>1, <2>1 DEF ListenerTakes, TypeOK
  <2>3. TypeOK'
    BY <1>1, <2>1, <2>2 DEF ListenerTakes, TypeOK, hubVars, connVars
  <2>4. EventInHand'
    BY <1>1, <2>1 DEF ListenerTakes, EventInHand, TypeOK
  <2>5. QED
    BY <1>1, <2>3, <2>4, HubUntouched DEF ListenerTakes, hubVars, connVars, TypeOK
<1>2. CASE ListenerStops(s)
  <2>1. TypeOK'
    BY <1>2 DEF ListenerStops, TypeOK, hubVars, connVars
  <2>2. EventInHand'
    BY <1>2 DEF ListenerStops, EventInHand, TypeOK
  <2>3. QED
    BY <1>2, <2>1, <2>2, HubUntouched DEF ListenerStops, hubVars, connVars, TypeOK
<1>3. CASE Deliver(s)
  <2> DEFINE f == [event |-> delivering[s], via |-> s]
  <2>1. f \in Frame
    BY <1>3 DEF Deliver, EventInHand, Frame
  <2>2. \A c \in Conns : HasRoom(c) => /\ Append(send[c], f) \in Seq(Frame)
                                       /\ Len(Append(send[c], f)) <= SendCap
    BY <2>1, CapacityAssumption DEF HasRoom, TypeOK
  <2>3. send' \in [Conns -> Seq(Frame)] /\ \A d \in Conns : Len(send'[d]) <= SendCap
    BY <1>3, <2>2 DEF Deliver, TypeOK
  <2>4. owed' \in [Conns -> SUBSET Events]
    BY <1>3 DEF Deliver, TypeOK
  <2>5. TypeOK'
    BY <1>3, <2>3, <2>4 DEF Deliver, TypeOK, hubVars
  <2>6. EventInHand'
    BY <1>3 DEF Deliver, EventInHand, TypeOK
  <2>7. QED
    BY <1>3, <2>5, <2>6, HubUntouched DEF Deliver, hubVars, TypeOK
<1>4. QED
  BY <1>1, <1>2, <1>3 DEF Listener

LEMMA HubStep == HubInv /\ [Next]_vars => HubInv'
<1> SUFFICES ASSUME HubInv, [Next]_vars PROVE HubInv'
  OBVIOUS
<1>1. CASE Publish
  BY <1>1, PublishStep
<1>2. ASSUME NEW c \in Conns, NEW m \in Members, Register(c, m) PROVE HubInv'
  BY <1>2, RegisterStep
<1>3. ASSUME NEW c \in Conns, Handler(c) PROVE HubInv'
  BY <1>3, ReadFailsStep, UnregisterStep DEF Handler
<1>4. ASSUME NEW c \in Conns, Pump(c) \/ PumpFails(c) PROVE HubInv'
  BY <1>4, PumpWritesStep, PumpEndsStep DEF Pump, PumpFails, PumpStops
<1>5. ASSUME NEW s \in Conns, Confirm(s) \/ Forwarder(s) PROVE HubInv'
  BY <1>5, ForwarderStep
<1>6. ASSUME NEW s \in Conns, Listener(s) PROVE HubInv'
  BY <1>6, ListenerStep
<1>7. CASE UNCHANGED vars
  <2>1. TypeOK' /\ EventInHand'
    BY <1>7 DEF HubInv, TypeOK, EventInHand, vars, hubVars, connVars, subVars
  <2>2. QED
    BY <1>7, <2>1, HubUntouched DEF HubInv, vars, hubVars, connVars, subVars
<1>8. QED
  BY <1>1, <1>2, <1>3, <1>4, <1>5, <1>6, <1>7 DEF Next

THEOREM HubInvariant == Spec => []HubInv
  BY HubInit, HubStep, PTL DEF Spec

(* Every variable keeps its type and no channel exceeds its capacity. *)
THEOREM TypeCorrect == Spec => []TypeOK
<1>1. HubInv => TypeOK
  BY DEF HubInv
<1>2. QED
  BY <1>1, HubInvariant, PTL

(***************************************************************************)
(* The listener never sends on a closed channel and no channel is closed   *)
(* twice, however connections of one member follow each other              *)
(* (ws_server.go:68-84, 101-110).                                          *)
(***************************************************************************)
THEOREM RegisteredAreOpen == Spec => []RegisteredOpen
<1>1. HubInv => RegisteredOpen
  BY DEF HubInv
<1>2. QED
  BY <1>1, HubInvariant, PTL

(***************************************************************************)
(* There is one live subscription while somebody is registered and none    *)
(* otherwise (ws_server.go:52-61, 77-83).                                  *)
(***************************************************************************)
THEOREM SubscriptionIsSingle == Spec => []OneLiveSubscription
<1>1. HubInv => OneLiveSubscription
  BY DEF HubInv
<1>2. QED
  BY <1>1, HubInvariant, PTL

-----------------------------------------------------------------------------
(***************************************************************************)
(* What one subscription of the WebSocket hub brings to a viewer is in the *)
(* order of publication, for every number of connections and events and    *)
(* all capacities.  The argument follows an event through its stages: the  *)
(* events arrived from Redis, the one the forwarder holds, the channel,    *)
(* the one the listener holds, the viewers' channels.  At any moment every *)
(* event of a stage is older than every event of the stages before it.     *)
(***************************************************************************)

Increasing(q) == \A i, j \in 1..Len(q) : i < j => q[i] < q[j]

(* Event e is older than what has arrived, what the forwarder holds, what  *)
(* is in the channel, what the listener holds.                             *)
AheadOfArrived(e, s) == \A i \in 1..Len(arrived[s]) : e < arrived[s][i]
AheadOfForwarder(e, s) == AheadOfArrived(e, s) /\ (forwarder[s] = "send" => e < forwarding[s])
AheadOfChannel(e, s) ==
  AheadOfForwarder(e, s) /\ \A i \in 1..Len(channel[s]) : e < channel[s][i]
AheadOfListener(e, s) == AheadOfChannel(e, s) /\ (listener[s] = "deliver" => e < delivering[s])

PipelineOrdered(s) ==
  /\ Increasing(arrived[s])
  /\ \A i \in 1..Len(arrived[s]) : arrived[s][i] <= published
  /\ forwarder[s] = "send" => forwarding[s] <= published /\ AheadOfArrived(forwarding[s], s)
  /\ Increasing(channel[s])
  /\ \A i \in 1..Len(channel[s]) :
       channel[s][i] <= published /\ AheadOfForwarder(channel[s][i], s)
  /\ listener[s] = "deliver" => delivering[s] <= published /\ AheadOfChannel(delivering[s], s)

(* A frame that has left a subscription is older than all it still holds.  *)
Departed(f) == f.event <= published /\ AheadOfListener(f.event, f.via)

Before(f, g) == f.via = g.via => f.event < g.event

FramesOrdered(c) ==
  /\ \A i \in 1..Len(received[c]) : Departed(received[c][i])
  /\ \A i \in 1..Len(send[c]) : Departed(send[c][i])
  /\ \A i, j \in 1..Len(received[c]) : i < j => Before(received[c][i], received[c][j])
  /\ \A i, j \in 1..Len(send[c]) : i < j => Before(send[c][i], send[c][j])
  /\ \A i \in 1..Len(received[c]), j \in 1..Len(send[c]) : Before(received[c][i], send[c][j])

OrderInv ==
  /\ \A s \in Conns : PipelineOrdered(s)
  /\ \A c \in Conns : FramesOrdered(c)

LEMMA OrderInit == Init => OrderInv
  BY NumberedAssumption
     DEF Init, OrderInv, PipelineOrdered, FramesOrdered, Increasing, AheadOfArrived,
         AheadOfForwarder, AheadOfChannel
-----------------------------------------------------------------------------
(* The first and the others of a sequence. *)
LEMMA HeadAndTail ==
  ASSUME NEW S, NEW q \in Seq(S), q # <<>>
  PROVE  /\ Len(q) \in Nat \ {0}
         /\ Head(q) = q[1]
         /\ Tail(q) \in Seq(S) /\ Len(Tail(q)) = Len(q) - 1
         /\ \A i \in 1..Len(Tail(q)) : Tail(q)[i] = q[i + 1] /\ i + 1 \in 2..Len(q)
  OBVIOUS

LEMMA Appended ==
  ASSUME NEW S, NEW q \in Seq(S), NEW e \in S
  PROVE  /\ Append(q, e) \in Seq(S)
         /\ Len(q) \in Nat
         /\ Len(Append(q, e)) = Len(q) + 1
         /\ Append(q, e)[Len(q) + 1] = e
         /\ \A i \in 1..Len(Append(q, e)) : i = Len(q) + 1 \/ i \in 1..Len(q)
         /\ \A i \in 1..Len(q) : Append(q, e)[i] = q[i]
  OBVIOUS

LEMMA Elements ==
  ASSUME NEW q \in Seq(Events)
  PROVE  Len(q) \in Nat /\ \A i \in 1..Len(q) : q[i] \in Nat
<1>1. \A i \in 1..Len(q) : q[i] \in Events
  OBVIOUS
<1>2. \A e \in Events : e \in Nat
  BY CapacityAssumption DEF Events
<1>3. QED
  BY <1>1, <1>2

(* The types the arguments below need. *)
LEMMA Typed ==
  ASSUME HubInv
  PROVE  /\ published \in Nat /\ Events \subseteq Nat
         /\ \A s \in Conns : /\ arrived[s] \in Seq(Events) /\ channel[s] \in Seq(Events)
                             /\ forwarding[s] \in Nat /\ delivering[s] \in Nat
         /\ \A c \in Conns : received[c] \in Seq(Frame) /\ send[c] \in Seq(Frame)
         /\ \A f \in Frame : f.event \in Nat /\ f.via \in Conns
<1>1. Events \subseteq Nat /\ published \in Nat
  BY CapacityAssumption DEF HubInv, TypeOK, Events
<1>2. \A s \in Conns : arrived[s] \in Seq(Events) /\ channel[s] \in Seq(Events)
  BY DEF HubInv, TypeOK
<1>3. \A s \in Conns : forwarding[s] \in Nat /\ delivering[s] \in Nat
  <2>0. \A e \in Events \cup {0} : e \in Nat
    BY <1>1
  <2>1. \A s \in Conns : /\ forwarding[s] \in Events \cup {0}
                         /\ delivering[s] \in Events \cup {0}
    BY DEF HubInv, TypeOK, NoEvent
  <2>2. QED
    BY <2>0, <2>1
<1>4. \A c \in Conns : received[c] \in Seq(Frame) /\ send[c] \in Seq(Frame)
  BY DEF HubInv, TypeOK
<1>5. QED
  BY <1>1, <1>2, <1>3, <1>4 DEF Frame

(* A subscription a step leaves alone stays ordered. *)
LEMMA SubscriptionUntouched ==
  ASSUME NEW s \in Conns, PipelineOrdered(s), published' = published,
         arrived'[s] = arrived[s], forwarder'[s] = forwarder[s], forwarding'[s] = forwarding[s],
         channel'[s] = channel[s], listener'[s] = listener[s], delivering'[s] = delivering[s]
  PROVE  /\ PipelineOrdered(s)'
         /\ \A e \in Nat : AheadOfListener(e, s) => AheadOfListener(e, s)'
BY DEF PipelineOrdered, Increasing, AheadOfArrived, AheadOfForwarder, AheadOfChannel,
       AheadOfListener

(* Frames that stay where they are stay ordered if they stay ahead. *)
LEMMA FramesStay ==
  ASSUME HubInv, NEW c \in Conns, FramesOrdered(c),
         published' \in Nat, published' >= published, received'[c] = received[c], send'[c] = send[c],
         \A s \in Conns, e \in Nat :
           e <= published /\ AheadOfListener(e, s) => AheadOfListener(e, s)'
  PROVE  FramesOrdered(c)'
<1>1. \A f \in Frame : Departed(f) => f.event <= published' /\ AheadOfListener(f.event, f.via)'
  BY Typed DEF Departed
<1>2. /\ \A i \in 1..Len(received[c]) : received[c][i] \in Frame
      /\ \A i \in 1..Len(send[c]) : send[c][i] \in Frame
  BY Typed
<1>3. /\ \A i \in 1..Len(received'[c]) : Departed(received[c][i])'
      /\ \A i \in 1..Len(send'[c]) : Departed(send[c][i])'
  BY <1>1, <1>2 DEF FramesOrdered, Departed, AheadOfListener, AheadOfChannel, AheadOfForwarder,
                    AheadOfArrived
<1>4. QED
  BY <1>3 DEF FramesOrdered, Before
-----------------------------------------------------------------------------
LEMMA PublishOrder ==
  ASSUME HubInv, OrderInv, Publish
  PROVE  OrderInv'
<1> DEFINE new == published + 1
<1>1. /\ published' = new /\ new \in Events /\ published \in Nat
      /\ UNCHANGED <<forwarder, forwarding, channel, listener, delivering, received, send>>
  BY PublishedWithinBound, Typed DEF HubInv, Publish, connVars
<1>2. ASSUME NEW s \in Conns
      PROVE  /\ PipelineOrdered(s)'
             /\ \A e \in Nat : e <= published /\ AheadOfListener(e, s) => AheadOfListener(e, s)'
  <2>1. PipelineOrdered(s)
    BY DEF OrderInv
  <2>2. /\ arrived[s] \in Seq(Events) /\ channel[s] \in Seq(Events)
        /\ forwarding[s] \in Nat /\ delivering[s] \in Nat
    BY Typed
  <2>3. arrived'[s] = arrived[s] \/ arrived'[s] = Append(arrived[s], new)
    BY <1>1 DEF Publish
  <2>4. \A e \in Nat : e <= published /\ AheadOfArrived(e, s) => AheadOfArrived(e, s)'
    <3>1. CASE arrived'[s] = arrived[s]
      BY <3>1 DEF AheadOfArrived
    <3>2. CASE arrived'[s] = Append(arrived[s], new)
      BY <1>1, <2>2, <3>2, Appended DEF AheadOfArrived
    <3>3. QED
      BY <2>3, <3>1, <3>2
  <2>5. /\ Increasing(arrived'[s])
        /\ \A i \in 1..Len(arrived'[s]) : arrived'[s][i] <= new
    <3>1. /\ Increasing(arrived[s])
          /\ \A i \in 1..Len(arrived[s]) : arrived[s][i] <= published /\ arrived[s][i] \in Nat
      BY <2>1, <2>2, Typed DEF PipelineOrdered
    <3>2. CASE arrived'[s] = arrived[s]
      BY <1>1, <3>1, <3>2
    <3>3. CASE arrived'[s] = Append(arrived[s], new)
      BY <1>1, <2>2, <3>1, <3>3, Appended DEF Increasing
    <3>4. QED
      BY <2>3, <3>2, <3>3
  <2>6. \A e \in Nat : e <= published =>
          /\ AheadOfForwarder(e, s) => AheadOfForwarder(e, s)'
          /\ AheadOfChannel(e, s) => AheadOfChannel(e, s)'
          /\ AheadOfListener(e, s) => AheadOfListener(e, s)'
    BY <1>1, <2>4 DEF AheadOfForwarder, AheadOfChannel, AheadOfListener
  <2>7. forwarder'[s] = "send" => forwarding'[s] <= new /\ AheadOfArrived(forwarding[s], s)'
    <3>1. forwarder[s] = "send" => forwarding[s] <= published /\ AheadOfArrived(forwarding[s], s)
      BY <2>1 DEF PipelineOrdered
    <3>2. PICK e \in Nat : e = forwarding[s]
      BY <2>2
    <3>3. forwarder[s] = "send" => AheadOfArrived(e, s)'
      BY <2>4, <3>1, <3>2
    <3>4. QED
      BY <1>1, <3>1, <3>2, <3>3 DEF AheadOfArrived
  <2>8. \A i \in 1..Len(channel'[s]) :
          channel'[s][i] <= new /\ AheadOfForwarder(channel[s][i], s)'
    <3> SUFFICES ASSUME NEW i \in 1..Len(channel[s])
                 PROVE  channel[s][i] <= new /\ AheadOfForwarder(channel[s][i], s)'
      BY <1>1
    <3>1. /\ channel[s][i] \in Nat /\ channel[s][i] <= published
          /\ AheadOfForwarder(channel[s][i], s)
      BY <2>1, <2>2, Typed DEF PipelineOrdered
    <3>2. PICK e \in Nat : e = channel[s][i]
      BY <3>1
    <3>3. AheadOfForwarder(e, s)'
      BY <2>6, <3>1, <3>2
    <3>4. QED
      BY <1>1, <3>1, <3>2, <3>3 DEF AheadOfForwarder, AheadOfArrived
  <2>9. listener'[s] = "deliver" => delivering'[s] <= new /\ AheadOfChannel(delivering[s], s)'
    <3>1. listener[s] = "deliver" => delivering[s] <= published /\ AheadOfChannel(delivering[s], s)
      BY <2>1 DEF PipelineOrdered
    <3>2. PICK e \in Nat : e = delivering[s]
      BY <2>2
    <3>3. listener[s] = "deliver" => AheadOfChannel(e, s)'
      BY <2>6, <3>1, <3>2
    <3>4. QED
      BY <1>1, <3>1, <3>2, <3>3 DEF AheadOfChannel, AheadOfForwarder, AheadOfArrived
  <2>10. Increasing(channel'[s])
    BY <1>1, <2>1 DEF PipelineOrdered
  <2>11. QED
    BY <1>1, <2>5, <2>6, <2>7, <2>8, <2>9, <2>10 DEF PipelineOrdered
<1>3. \A c \in Conns : FramesOrdered(c)'
  BY <1>1, <1>2, FramesStay DEF OrderInv
<1>4. QED
  BY <1>2, <1>3 DEF OrderInv
-----------------------------------------------------------------------------
(* Steps of one subscription. *)
LEMMA OneSubscription ==
  ASSUME HubInv, OrderInv, NEW s \in Conns,
         UNCHANGED <<published, received, send>>,
         \A t \in Conns \ {s} :
           /\ arrived'[t] = arrived[t] /\ forwarder'[t] = forwarder[t]
           /\ forwarding'[t] = forwarding[t] /\ channel'[t] = channel[t]
           /\ listener'[t] = listener[t] /\ delivering'[t] = delivering[t],
         PipelineOrdered(s)',
         \A e \in Nat : e <= published /\ AheadOfListener(e, s) => AheadOfListener(e, s)'
  PROVE  OrderInv'
<1>1. ASSUME NEW t \in Conns \ {s}
      PROVE  /\ PipelineOrdered(t)'
             /\ \A e \in Nat : AheadOfListener(e, t) => AheadOfListener(e, t)'
  BY <1>1, SubscriptionUntouched DEF OrderInv
<1>2. \A t \in Conns, e \in Nat :
        e <= published /\ AheadOfListener(e, t) => AheadOfListener(e, t)'
  BY <1>1
<1>3. \A c \in Conns : FramesOrdered(c)'
  BY <1>2, FramesStay, Typed DEF OrderInv
<1>4. QED
  BY <1>1, <1>3 DEF OrderInv

LEMMA ForwarderTakesOrder ==
  ASSUME HubInv, OrderInv, NEW s \in Conns, ForwarderTakes(s)
  PROVE  OrderInv'
<1> DEFINE q == arrived[s]
<1>1. /\ forwarding' = [forwarding EXCEPT ![s] = Head(arrived[s])]
      /\ arrived' = [arrived EXCEPT ![s] = Tail(@)]
      /\ forwarder' = [forwarder EXCEPT ![s] = "send"]
      /\ forwarder[s] = "select" /\ arrived[s] # <<>>
      /\ UNCHANGED <<channel, listener, delivering, published, received, send>>
  BY DEF ForwarderTakes, connVars
<1>2. /\ PipelineOrdered(s) /\ q \in Seq(Events) /\ Events \subseteq Nat
      /\ channel[s] \in Seq(Events) /\ delivering[s] \in Nat /\ published \in Nat
  BY Typed DEF OrderInv
<1>0. /\ \A i \in 1..Len(q) : q[i] \in Nat
      /\ \A i \in 1..Len(channel[s]) : channel[s][i] \in Nat
  BY <1>2, Elements
<1>3. /\ forwarding'[s] = q[1] /\ q[1] \in Nat
      /\ forwarder'[s] = "send"
      /\ arrived'[s] = Tail(q) /\ Len(q) \in Nat \ {0} /\ Len(Tail(q)) = Len(q) - 1
      /\ \A i \in 1..Len(Tail(q)) : Tail(q)[i] = q[i + 1] /\ i + 1 \in 2..Len(q)
  <2>1. /\ forwarding'[s] = Head(q) /\ forwarder'[s] = "send" /\ arrived'[s] = Tail(q)
    BY <1>1 DEF HubInv, TypeOK
  <2>2. /\ Len(q) \in Nat \ {0} /\ Head(q) = q[1] /\ Len(Tail(q)) = Len(q) - 1
        /\ \A i \in 1..Len(Tail(q)) : Tail(q)[i] = q[i + 1] /\ i + 1 \in 2..Len(q)
    BY <1>1, <1>2, HeadAndTail
  <2>3. q[1] \in Nat
    BY <1>0, <2>2
  <2>4. QED
    BY <2>1, <2>2, <2>3
<1>4. /\ \A i, j \in 1..Len(q) : i < j => q[i] < q[j]
      /\ \A i \in 1..Len(q) : q[i] <= published
  BY <1>2 DEF PipelineOrdered, Increasing
<1>5. Increasing(Tail(q)) /\ \A i \in 1..Len(Tail(q)) : Tail(q)[i] <= published
  <2>1. \A i \in 1..Len(Tail(q)) : Tail(q)[i] <= published
    BY <1>3, <1>4
  <2>2. ASSUME NEW i \in 1..Len(Tail(q)), NEW j \in 1..Len(Tail(q)), i < j
        PROVE  Tail(q)[i] < Tail(q)[j]
    <3>1. i + 1 \in 1..Len(q) /\ j + 1 \in 1..Len(q) /\ i + 1 < j + 1
      BY <1>3, <2>2
    <3>2. q[i + 1] < q[j + 1]
      BY <1>4, <3>1
    <3>3. QED
      BY <1>3, <3>2
  <2>3. QED
    BY <2>1, <2>2 DEF Increasing
<1>6. \A i \in 1..Len(Tail(q)) : q[1] < Tail(q)[i]
  BY <1>3, <1>4
<1>7. \A e \in Nat : AheadOfArrived(e, s) => AheadOfArrived(e, s)' /\ e < q[1]
  BY <1>3 DEF AheadOfArrived
<1>8. \A e \in Nat : AheadOfForwarder(e, s) => AheadOfForwarder(e, s)'
  BY <1>3, <1>7 DEF AheadOfForwarder
<1>9. \A e \in Nat : /\ AheadOfChannel(e, s) => AheadOfChannel(e, s)'
                     /\ AheadOfListener(e, s) => AheadOfListener(e, s)'
  BY <1>1, <1>8 DEF AheadOfChannel, AheadOfListener
<1>10. forwarding'[s] <= published /\ AheadOfArrived(forwarding[s], s)'
  BY <1>3, <1>4, <1>6 DEF AheadOfArrived
<1>11. \A i \in 1..Len(channel[s]) :
         channel[s][i] <= published /\ AheadOfForwarder(channel[s][i], s)'
  <2> SUFFICES ASSUME NEW i \in 1..Len(channel[s])
               PROVE  channel[s][i] <= published /\ AheadOfForwarder(channel[s][i], s)'
    OBVIOUS
  <2>1. PICK e \in Nat : e = channel[s][i] /\ e <= published /\ AheadOfForwarder(e, s)
    BY <1>0, <1>2 DEF PipelineOrdered
  <2>2. AheadOfForwarder(e, s)'
    BY <1>8, <2>1
  <2>3. QED
    BY <1>1, <2>1, <2>2 DEF AheadOfForwarder, AheadOfArrived
<1>12. listener[s] = "deliver" => delivering[s] <= published /\ AheadOfChannel(delivering[s], s)'
  <2> SUFFICES ASSUME listener[s] = "deliver"
               PROVE  delivering[s] <= published /\ AheadOfChannel(delivering[s], s)'
    OBVIOUS
  <2>1. PICK e \in Nat : e = delivering[s] /\ e <= published /\ AheadOfChannel(e, s)
    BY <1>2 DEF PipelineOrdered
  <2>2. AheadOfChannel(e, s)'
    BY <1>9, <2>1
  <2>3. QED
    BY <1>1, <2>1, <2>2 DEF AheadOfChannel, AheadOfForwarder, AheadOfArrived
<1>13. PipelineOrdered(s)'
  BY <1>1, <1>2, <1>3, <1>5, <1>10, <1>11, <1>12 DEF PipelineOrdered
<1>14. QED
  BY <1>1, <1>9, <1>13, OneSubscription DEF HubInv, TypeOK

LEMMA ForwarderSendsOrder ==
  ASSUME HubInv, OrderInv, NEW s \in Conns, ForwarderSends(s)
  PROVE  OrderInv'
<1> DEFINE q == channel[s]
<1> DEFINE f == forwarding[s]
<1>1. /\ channel' = [channel EXCEPT ![s] = Append(@, forwarding[s])]
      /\ forwarding' = [forwarding EXCEPT ![s] = NoEvent]
      /\ forwarder' = [forwarder EXCEPT ![s] = "select"]
      /\ forwarder[s] = "send"
      /\ UNCHANGED <<arrived, listener, delivering, published, received, send>>
  BY DEF ForwarderSends, connVars
<1>2. /\ PipelineOrdered(s) /\ q \in Seq(Events) /\ f \in Events /\ Events \subseteq Nat
      /\ delivering[s] \in Nat /\ published \in Nat
  BY <1>1, Typed DEF OrderInv, HubInv, EventInHand
<1>3. /\ channel'[s] = Append(q, f) /\ forwarder'[s] = "select"
      /\ Len(q) \in Nat /\ Len(Append(q, f)) = Len(q) + 1
      /\ Append(q, f)[Len(q) + 1] = f
      /\ \A i \in 1..Len(Append(q, f)) : i = Len(q) + 1 \/ i \in 1..Len(q)
      /\ \A i \in 1..Len(q) : Append(q, f)[i] = q[i]
  BY <1>1, <1>2, Appended DEF HubInv, TypeOK
<1>4. f <= published /\ AheadOfArrived(f, s)
  BY <1>1, <1>2 DEF PipelineOrdered
<1>5. /\ \A i, j \in 1..Len(q) : i < j => q[i] < q[j]
      /\ \A i \in 1..Len(q) : q[i] <= published /\ AheadOfForwarder(q[i], s) /\ q[i] < f
  BY <1>1, <1>2 DEF PipelineOrdered, Increasing, AheadOfForwarder
<1>6. Increasing(Append(q, f))
  BY <1>3, <1>5 DEF Increasing
<1>7. \A e \in Nat : AheadOfArrived(e, s) => AheadOfForwarder(e, s)'
  BY <1>1, <1>3 DEF AheadOfForwarder, AheadOfArrived
<1>8. \A e \in Nat : /\ AheadOfChannel(e, s) => AheadOfChannel(e, s)'
                     /\ AheadOfListener(e, s) => AheadOfListener(e, s)'
  BY <1>1, <1>3, <1>7 DEF AheadOfForwarder, AheadOfChannel, AheadOfListener
<1>9. \A i \in 1..Len(channel'[s]) :
        channel'[s][i] <= published /\ AheadOfForwarder(channel[s][i], s)'
  <2> SUFFICES ASSUME NEW i \in 1..Len(Append(q, f))
               PROVE  channel'[s][i] <= published /\ AheadOfForwarder(channel[s][i], s)'
    BY <1>3
  <2>0. \A j \in 1..Len(q) : q[j] \in Nat
    BY <1>2, Elements
  <2>1. PICK e \in Nat : e = channel'[s][i] /\ e <= published /\ AheadOfArrived(e, s)
    <3>1. CASE i = Len(q) + 1
      BY <1>2, <1>3, <1>4, <3>1
    <3>2. CASE i \in 1..Len(q)
      BY <2>0, <1>3, <1>5, <3>2 DEF AheadOfForwarder
    <3>3. QED
      BY <1>3, <3>1, <3>2
  <2>2. AheadOfForwarder(e, s)'
    BY <1>7, <2>1
  <2>3. QED
    BY <2>1, <2>2 DEF AheadOfForwarder, AheadOfArrived
<1>10. listener[s] = "deliver" => delivering[s] <= published /\ AheadOfChannel(delivering[s], s)'
  <2> SUFFICES ASSUME listener[s] = "deliver"
               PROVE  delivering[s] <= published /\ AheadOfChannel(delivering[s], s)'
    OBVIOUS
  <2>1. PICK e \in Nat : e = delivering[s] /\ e <= published /\ AheadOfChannel(e, s)
    BY <1>2 DEF PipelineOrdered
  <2>2. AheadOfChannel(e, s)'
    BY <1>8, <2>1
  <2>3. QED
    BY <1>1, <2>1, <2>2 DEF AheadOfChannel, AheadOfForwarder, AheadOfArrived
<1>11. PipelineOrdered(s)'
  BY <1>1, <1>2, <1>3, <1>6, <1>9, <1>10 DEF PipelineOrdered
<1>12. QED
  BY <1>1, <1>8, <1>11, OneSubscription DEF HubInv, TypeOK

LEMMA ListenerTakesOrder ==
  ASSUME HubInv, OrderInv, NEW s \in Conns, ListenerTakes(s)
  PROVE  OrderInv'
<1> DEFINE q == channel[s]
<1>1. /\ delivering' = [delivering EXCEPT ![s] = Head(channel[s])]
      /\ channel' = [channel EXCEPT ![s] = Tail(@)]
      /\ listener' = [listener EXCEPT ![s] = "deliver"]
      /\ channel[s] # <<>>
      /\ UNCHANGED <<arrived, forwarder, forwarding, published, received, send>>
  BY DEF ListenerTakes, connVars
<1>2. /\ PipelineOrdered(s) /\ q \in Seq(Events) /\ published \in Nat
      /\ \A i \in 1..Len(q) : q[i] \in Nat
  BY Typed, Elements DEF OrderInv
<1>3. /\ delivering'[s] = q[1] /\ q[1] \in Nat
      /\ channel'[s] = Tail(q) /\ Len(q) \in Nat \ {0} /\ Len(Tail(q)) = Len(q) - 1
      /\ \A i \in 1..Len(Tail(q)) : Tail(q)[i] = q[i + 1] /\ i + 1 \in 2..Len(q)
  <2>1. delivering'[s] = Head(q) /\ channel'[s] = Tail(q)
    BY <1>1 DEF HubInv, TypeOK
  <2>2. /\ Len(q) \in Nat \ {0} /\ Head(q) = q[1] /\ Len(Tail(q)) = Len(q) - 1
        /\ \A i \in 1..Len(Tail(q)) : Tail(q)[i] = q[i + 1] /\ i + 1 \in 2..Len(q)
    BY <1>1, <1>2, HeadAndTail
  <2>3. q[1] \in Nat
    BY <1>2, <2>2
  <2>4. QED
    BY <2>1, <2>2, <2>3
<1>4. /\ \A i, j \in 1..Len(q) : i < j => q[i] < q[j]
      /\ \A i \in 1..Len(q) : q[i] <= published /\ AheadOfForwarder(q[i], s)
  BY <1>2 DEF PipelineOrdered, Increasing
<1>5. Increasing(Tail(q)) /\ \A i \in 1..Len(Tail(q)) : q[1] < Tail(q)[i]
  <2>1. ASSUME NEW i \in 1..Len(Tail(q)), NEW j \in 1..Len(Tail(q)), i < j
        PROVE  Tail(q)[i] < Tail(q)[j]
    <3>1. i + 1 \in 1..Len(q) /\ j + 1 \in 1..Len(q) /\ i + 1 < j + 1
      BY <1>3, <2>1
    <3>2. q[i + 1] < q[j + 1]
      BY <1>4, <3>1
    <3>3. QED
      BY <1>3, <3>2
  <2>2. \A i \in 1..Len(Tail(q)) : q[1] < Tail(q)[i]
    BY <1>3, <1>4
  <2>3. QED
    BY <2>1, <2>2 DEF Increasing
<1>6. \A e \in Nat : AheadOfForwarder(e, s) => AheadOfForwarder(e, s)'
  BY <1>1 DEF AheadOfForwarder, AheadOfArrived
<1>7. \A e \in Nat : AheadOfChannel(e, s) => AheadOfChannel(e, s)' /\ e < q[1]
  BY <1>3, <1>6 DEF AheadOfChannel
<1>8. \A e \in Nat : AheadOfListener(e, s) => AheadOfListener(e, s)'
  BY <1>3, <1>7 DEF AheadOfListener
<1>9. \A i \in 1..Len(channel'[s]) :
        channel'[s][i] <= published /\ AheadOfForwarder(channel[s][i], s)'
  <2> SUFFICES ASSUME NEW i \in 1..Len(Tail(q))
               PROVE  channel'[s][i] <= published /\ AheadOfForwarder(channel[s][i], s)'
    BY <1>3
  <2>1. PICK e \in Nat : e = channel'[s][i] /\ e <= published /\ AheadOfForwarder(e, s)
    <3>1. i + 1 \in 1..Len(q) /\ channel'[s][i] = q[i + 1]
      BY <1>3
    <3>2. QED
      BY <1>2, <1>4, <3>1
  <2>2. AheadOfForwarder(e, s)'
    BY <1>6, <2>1
  <2>3. QED
    BY <2>1, <2>2 DEF AheadOfForwarder, AheadOfArrived
<1>10. delivering'[s] <= published /\ AheadOfChannel(delivering[s], s)'
  <2>1. PICK e \in Nat : e = q[1] /\ e <= published /\ AheadOfForwarder(e, s)
    BY <1>3, <1>4
  <2>2. AheadOfForwarder(e, s)'
    BY <1>6, <2>1
  <2>3. QED
    BY <1>3, <1>5, <2>1, <2>2 DEF AheadOfChannel, AheadOfForwarder, AheadOfArrived
<1>11. forwarder[s] = "send" => forwarding[s] <= published /\ AheadOfArrived(forwarding[s], s)'
  BY <1>1, <1>2 DEF PipelineOrdered, AheadOfArrived
<1>12. Increasing(arrived[s]) /\ \A i \in 1..Len(arrived[s]) : arrived[s][i] <= published
  BY <1>2 DEF PipelineOrdered
<1>13. PipelineOrdered(s)'
  BY <1>1, <1>3, <1>5, <1>9, <1>10, <1>11, <1>12 DEF PipelineOrdered
<1>14. QED
  BY <1>1, <1>8, <1>13, OneSubscription DEF HubInv, TypeOK

(* A subscription begins, or one of its goroutines ends. *)
LEMMA RegisterOrder ==
  ASSUME HubInv, OrderInv, NEW c \in Conns, NEW m \in Members, Register(c, m)
  PROVE  OrderInv'
<1>1. UNCHANGED <<arrived, forwarding, channel, delivering, published, received, send>>
  BY DEF Register
<1>2. \/ UNCHANGED <<forwarder, listener>>
      \/ /\ forwarder' = [forwarder EXCEPT ![c] = "select"]
         /\ listener' = [listener EXCEPT ![c] = "select"]
  BY DEF Register, SubscribeIfFirst
<1>3. PipelineOrdered(c)
  BY DEF OrderInv
<1>4. \/ forwarder'[c] = forwarder[c] /\ listener'[c] = listener[c]
      \/ forwarder'[c] = "select" /\ listener'[c] = "select"
  BY <1>2 DEF HubInv, TypeOK
<1>5. \A e \in Nat : /\ AheadOfForwarder(e, c) => AheadOfForwarder(e, c)'
                     /\ AheadOfListener(e, c) => AheadOfListener(e, c)'
  BY <1>1, <1>4 DEF AheadOfListener, AheadOfChannel, AheadOfForwarder, AheadOfArrived
<1>6. PipelineOrdered(c)'
  BY <1>1, <1>3, <1>4
     DEF PipelineOrdered, Increasing, AheadOfChannel, AheadOfForwarder, AheadOfArrived
<1>7. QED
  BY <1>1, <1>2, <1>5, <1>6, OneSubscription DEF HubInv, TypeOK

LEMMA StopsOrder ==
  ASSUME HubInv, OrderInv, NEW s \in Conns, ForwarderStops(s) \/ ListenerStops(s)
  PROVE  OrderInv'
<1>1. PipelineOrdered(s)
  BY DEF OrderInv
<1>2. CASE ForwarderStops(s)
  <2>1. /\ forwarder' = [forwarder EXCEPT ![s] = "ended"]
        /\ arrived' = [arrived EXCEPT ![s] = <<>>]
        /\ UNCHANGED <<forwarding, channel, listener, delivering, published, received, send>>
    BY <1>2 DEF ForwarderStops, connVars
  <2>2. forwarder'[s] = "ended" /\ arrived'[s] = <<>>
    BY <2>1 DEF HubInv, TypeOK
  <2>3. \A e \in Nat : AheadOfListener(e, s) => AheadOfListener(e, s)'
    BY <2>1, <2>2 DEF AheadOfListener, AheadOfChannel, AheadOfForwarder, AheadOfArrived
  <2>4. PipelineOrdered(s)'
    BY <1>1, <2>1, <2>2
       DEF PipelineOrdered, Increasing, AheadOfChannel, AheadOfForwarder, AheadOfArrived
  <2>5. QED
    BY <2>1, <2>3, <2>4, OneSubscription DEF HubInv, TypeOK
<1>3. CASE ListenerStops(s)
  <2>1. /\ listener' = [listener EXCEPT ![s] = "ended"]
        /\ UNCHANGED <<arrived, forwarder, forwarding, channel, delivering, published, received, send>>
    BY <1>3 DEF ListenerStops, connVars
  <2>2. listener'[s] = "ended"
    BY <2>1 DEF HubInv, TypeOK
  <2>3. \A e \in Nat : AheadOfListener(e, s) => AheadOfListener(e, s)'
    BY <2>1, <2>2 DEF AheadOfListener, AheadOfChannel, AheadOfForwarder, AheadOfArrived
  <2>4. PipelineOrdered(s)'
    BY <1>1, <2>1, <2>2
       DEF PipelineOrdered, Increasing, AheadOfChannel, AheadOfForwarder, AheadOfArrived
  <2>5. QED
    BY <2>1, <2>3, <2>4, OneSubscription DEF HubInv, TypeOK
<1>4. QED
  BY <1>2, <1>3
-----------------------------------------------------------------------------
(* Steps that move frames, or nothing that matters here. *)
LEMMA PipelinesUntouched ==
  ASSUME HubInv, OrderInv,
         UNCHANGED <<arrived, forwarder, forwarding, channel, listener, delivering, published>>
  PROVE  /\ \A s \in Conns : PipelineOrdered(s)'
         /\ \A f \in Frame : Departed(f) => Departed(f)'
<1>1. \A s \in Conns : PipelineOrdered(s)'
  BY SubscriptionUntouched DEF OrderInv
<1>2. \A f \in Frame : Departed(f) => Departed(f)'
  BY DEF Departed, AheadOfListener, AheadOfChannel, AheadOfForwarder, AheadOfArrived
<1>3. QED
  BY <1>1, <1>2

LEMMA NothingMoves ==
  ASSUME HubInv, OrderInv,
         UNCHANGED <<arrived, forwarder, forwarding, channel, listener, delivering, published,
                     received, send>>
  PROVE  OrderInv'
<1>1. \A s \in Conns, e \in Nat : AheadOfListener(e, s) => AheadOfListener(e, s)'
  BY DEF AheadOfListener, AheadOfChannel, AheadOfForwarder, AheadOfArrived
<1>2. \A c \in Conns : FramesOrdered(c)'
  BY <1>1, FramesStay, Typed DEF OrderInv
<1>3. QED
  BY <1>2, PipelinesUntouched DEF OrderInv

LEMMA PumpWritesOrder ==
  ASSUME HubInv, OrderInv, NEW c \in Conns, PumpWrites(c)
  PROVE  OrderInv'
<1> DEFINE r == received[c]
<1> DEFINE q == send[c]
<1>1. /\ received' = [received EXCEPT ![c] = Append(@, Head(send[c]))]
      /\ send' = [send EXCEPT ![c] = Tail(@)]
      /\ send[c] # <<>>
      /\ UNCHANGED <<arrived, forwarder, forwarding, channel, listener, delivering, published>>
  BY DEF PumpWrites, subVars
<1>2. r \in Seq(Frame) /\ q \in Seq(Frame)
  BY Typed
<1>3. /\ Len(q) \in Nat \ {0} /\ Head(q) = q[1] /\ Len(Tail(q)) = Len(q) - 1
      /\ \A i \in 1..Len(Tail(q)) : Tail(q)[i] = q[i + 1] /\ i + 1 \in 2..Len(q)
  BY <1>1, <1>2, HeadAndTail
<1>4. \A i \in 1..Len(q) : q[i] \in Frame
  BY <1>2
<1>5. /\ Len(r) \in Nat /\ Len(Append(r, q[1])) = Len(r) + 1
      /\ Append(r, q[1])[Len(r) + 1] = q[1]
      /\ \A i \in 1..Len(Append(r, q[1])) : i = Len(r) + 1 \/ i \in 1..Len(r)
      /\ \A i \in 1..Len(r) : Append(r, q[1])[i] = r[i]
  BY <1>2, <1>3, <1>4, Appended
<1>6. received'[c] = Append(r, q[1]) /\ send'[c] = Tail(q)
  BY <1>1, <1>3 DEF HubInv, TypeOK
<1>7. /\ \A i \in 1..Len(r) : Departed(r[i]) /\ r[i] \in Frame
      /\ \A i \in 1..Len(q) : Departed(q[i]) /\ q[i] \in Frame
      /\ \A i, j \in 1..Len(r) : i < j => Before(r[i], r[j])
      /\ \A i, j \in 1..Len(q) : i < j => Before(q[i], q[j])
      /\ \A i \in 1..Len(r), j \in 1..Len(q) : Before(r[i], q[j])
  BY <1>2 DEF OrderInv, FramesOrdered
<1>8. /\ \A i \in 1..Len(received'[c]) :
           received'[c][i] \in Frame /\ Departed(received'[c][i])
      /\ \A i \in 1..Len(send'[c]) : send'[c][i] \in Frame /\ Departed(send'[c][i])
  <2>1. \A i \in 1..Len(send'[c]) : send'[c][i] \in Frame /\ Departed(send'[c][i])
    BY <1>3, <1>6, <1>7
  <2>2. \A i \in 1..Len(received'[c]) :
          \/ \E j \in 1..Len(r) : received'[c][i] = r[j]
          \/ received'[c][i] = q[1]
    BY <1>5, <1>6
  <2>3. 1 \in 1..Len(q)
    BY <1>3
  <2>4. QED
    BY <1>7, <2>1, <2>2, <2>3
<1>9. \A i, j \in 1..Len(received'[c]) : i < j => Before(received'[c][i], received'[c][j])
  <2> SUFFICES ASSUME NEW i \in 1..Len(Append(r, q[1])), NEW j \in 1..Len(Append(r, q[1])), i < j
               PROVE  Before(Append(r, q[1])[i], Append(r, q[1])[j])
    BY <1>6
  <2>1. i \in 1..Len(r) /\ Append(r, q[1])[i] = r[i]
    BY <1>5
  <2>2. CASE j = Len(r) + 1
    BY <1>3, <1>5, <1>7, <2>1, <2>2
  <2>3. CASE j \in 1..Len(r)
    BY <1>5, <1>7, <2>1, <2>3
  <2>4. QED
    BY <1>5, <2>2, <2>3
<1>10. \A i, j \in 1..Len(send'[c]) : i < j => Before(send'[c][i], send'[c][j])
  <2> SUFFICES ASSUME NEW i \in 1..Len(Tail(q)), NEW j \in 1..Len(Tail(q)), i < j
               PROVE  Before(Tail(q)[i], Tail(q)[j])
    BY <1>6
  <2>1. i + 1 \in 1..Len(q) /\ j + 1 \in 1..Len(q) /\ i + 1 < j + 1
    BY <1>3
  <2>2. QED
    BY <1>3, <1>7, <2>1
<1>11. \A i \in 1..Len(received'[c]), j \in 1..Len(send'[c]) :
         Before(received'[c][i], send'[c][j])
  <2> SUFFICES ASSUME NEW i \in 1..Len(Append(r, q[1])), NEW j \in 1..Len(Tail(q))
               PROVE  Before(Append(r, q[1])[i], Tail(q)[j])
    BY <1>6
  <2>1. j + 1 \in 1..Len(q) /\ 1 \in 1..Len(q) /\ 1 < j + 1 /\ Tail(q)[j] = q[j + 1]
    BY <1>3
  <2>2. CASE i = Len(r) + 1
    BY <1>5, <1>7, <2>1, <2>2
  <2>3. CASE i \in 1..Len(r)
    BY <1>5, <1>7, <2>1, <2>3
  <2>4. QED
    BY <1>5, <2>2, <2>3
<1>12. FramesOrdered(c)'
  <2>1. /\ \A i \in 1..Len(received'[c]) : Departed(received[c][i])'
        /\ \A i \in 1..Len(send'[c]) : Departed(send[c][i])'
    BY <1>1, <1>8 DEF Departed, AheadOfListener, AheadOfChannel, AheadOfForwarder, AheadOfArrived
  <2>2. QED
    BY <1>9, <1>10, <1>11, <2>1 DEF FramesOrdered, Before
<1>13. ASSUME NEW d \in Conns \ {c} PROVE FramesOrdered(d)'
  <2>1. received'[d] = received[d] /\ send'[d] = send[d]
    BY <1>1 DEF HubInv, TypeOK
  <2>2. \A s \in Conns, e \in Nat : AheadOfListener(e, s) => AheadOfListener(e, s)'
    BY <1>1 DEF AheadOfListener, AheadOfChannel, AheadOfForwarder, AheadOfArrived
  <2>3. QED
    BY <1>1, <2>1, <2>2, FramesStay, Typed DEF OrderInv
<1>14. QED
  BY <1>1, <1>12, <1>13, PipelinesUntouched DEF OrderInv

LEMMA PumpEndsOrder ==
  ASSUME HubInv, OrderInv, NEW c \in Conns, PumpEnds(c)
  PROVE  OrderInv'
<1>1. /\ received' = [received EXCEPT ![c] = <<>>]
      /\ send' = [send EXCEPT ![c] = <<>>]
      /\ UNCHANGED <<arrived, forwarder, forwarding, channel, listener, delivering, published>>
  BY DEF PumpEnds, subVars
<1>2. \A s \in Conns, e \in Nat : AheadOfListener(e, s) => AheadOfListener(e, s)'
  BY <1>1 DEF AheadOfListener, AheadOfChannel, AheadOfForwarder, AheadOfArrived
<1>3. ASSUME NEW d \in Conns PROVE FramesOrdered(d)'
  <2>1. CASE d = c
    <3>1. received'[d] = <<>> /\ send'[d] = <<>>
      BY <1>1, <2>1 DEF HubInv, TypeOK
    <3>2. QED
      BY <3>1 DEF FramesOrdered
  <2>2. CASE d # c
    <3>1. received'[d] = received[d] /\ send'[d] = send[d]
      BY <1>1, <2>2 DEF HubInv, TypeOK
    <3>2. QED
      BY <1>1, <1>2, <3>1, FramesStay, Typed DEF OrderInv
  <2>3. QED
    BY <2>1, <2>2
<1>4. QED
  BY <1>1, <1>3, PipelinesUntouched DEF OrderInv

LEMMA DeliverOrder ==
  ASSUME HubInv, OrderInv, NEW s \in Conns, Deliver(s)
  PROVE  OrderInv'
<1>0. [event |-> delivering[s], via |-> s] \in Frame
  BY DEF HubInv, EventInHand, Frame, Deliver
<1>f. PICK f \in Frame : f = [event |-> delivering[s], via |-> s]
  BY <1>0
<1>1. /\ send' = [c \in Conns |-> IF Viewing(c) /\ HasRoom(c) THEN Append(send[c], f) ELSE send[c]]
      /\ delivering' = [delivering EXCEPT ![s] = NoEvent]
      /\ listener' = [listener EXCEPT ![s] = "select"]
      /\ listener[s] = "deliver"
      /\ UNCHANGED <<arrived, forwarder, forwarding, channel, published, received>>
  BY <1>f DEF Deliver
<1>2. /\ f \in Frame /\ f.event = delivering[s] /\ f.via = s /\ delivering[s] \in Nat
      /\ PipelineOrdered(s) /\ published \in Nat
  BY <1>f, Typed DEF OrderInv
<1>3. \A t \in Conns, e \in Nat : AheadOfListener(e, t) => AheadOfListener(e, t)'
  <2> SUFFICES ASSUME NEW t \in Conns, NEW e \in Nat, AheadOfListener(e, t)
               PROVE  AheadOfListener(e, t)'
    OBVIOUS
  <2>1. AheadOfChannel(e, t)'
    BY <1>1 DEF AheadOfListener, AheadOfChannel, AheadOfForwarder, AheadOfArrived
  <2>2. CASE t = s
    <3>1. listener'[t] = "select"
      BY <1>1, <2>2 DEF HubInv, TypeOK
    <3>2. QED
      BY <2>1, <3>1 DEF AheadOfListener
  <2>3. CASE t # s
    <3>1. listener'[t] = listener[t] /\ delivering'[t] = delivering[t]
      BY <1>1, <2>3 DEF HubInv, TypeOK
    <3>2. QED
      BY <2>1, <3>1 DEF AheadOfListener
  <2>4. QED
    BY <2>2, <2>3
<1>4. ASSUME NEW t \in Conns PROVE PipelineOrdered(t)'
  <2>0. PipelineOrdered(t)
    BY DEF OrderInv
  <2>1. CASE t = s
    <3>1. listener'[t] = "select"
      BY <1>1, <2>1 DEF HubInv, TypeOK
    <3>2. QED
      BY <1>1, <2>0, <3>1 DEF PipelineOrdered, Increasing, AheadOfForwarder, AheadOfArrived
  <2>2. CASE t # s
    <3>1. listener'[t] = listener[t] /\ delivering'[t] = delivering[t]
      BY <1>1, <2>2 DEF HubInv, TypeOK
    <3>2. QED
      BY <1>1, <2>0, <3>1, SubscriptionUntouched
  <2>3. QED
    BY <2>1, <2>2
<1>5. Departed(f)'
  <2>1. delivering[s] <= published /\ AheadOfChannel(delivering[s], s)
    BY <1>1, <1>2 DEF PipelineOrdered
  <2>2. PICK e \in Nat : e = delivering[s] /\ e <= published /\ AheadOfChannel(e, s)
    BY <1>2, <2>1
  <2>3. AheadOfChannel(e, s)'
    BY <1>1, <2>2 DEF AheadOfChannel, AheadOfForwarder, AheadOfArrived
  <2>4. listener'[s] = "select"
    BY <1>1 DEF HubInv, TypeOK
  <2>5. AheadOfListener(e, s)'
    BY <2>3, <2>4 DEF AheadOfListener
  <2>6. f.event = e /\ f.via = s
    BY <1>2, <2>2
  <2>7. QED
    BY <1>1, <2>2, <2>5, <2>6
       DEF Departed, AheadOfListener, AheadOfChannel, AheadOfForwarder, AheadOfArrived
<1>6. \A g \in Frame : Departed(g) => Departed(g)' /\ Before(g, f)
  <2> SUFFICES ASSUME NEW g \in Frame, Departed(g)
               PROVE  Departed(g)' /\ Before(g, f)
    OBVIOUS
  <2>1. g.event \in Nat /\ g.via \in Conns
    BY Typed
  <2>2. g.event <= published /\ AheadOfListener(g.event, g.via)
    BY DEF Departed
  <2>3. AheadOfListener(g.event, g.via)'
    BY <1>3, <2>1, <2>2
  <2>4. g.via = s => g.event < delivering[s]
    BY <1>1, <2>2 DEF AheadOfListener
  <2>5. QED
    BY <1>1, <1>2, <2>2, <2>3, <2>4 DEF Departed, Before
<1>7. ASSUME NEW c \in Conns PROVE FramesOrdered(c)'
  <2> DEFINE r == received[c]
  <2> DEFINE q == send[c]
  <2>1. /\ r \in Seq(Frame) /\ q \in Seq(Frame)
        /\ \A i \in 1..Len(r) : Departed(r[i]) /\ r[i] \in Frame
        /\ \A i \in 1..Len(q) : Departed(q[i]) /\ q[i] \in Frame
        /\ \A i, j \in 1..Len(r) : i < j => Before(r[i], r[j])
        /\ \A i, j \in 1..Len(q) : i < j => Before(q[i], q[j])
        /\ \A i \in 1..Len(r), j \in 1..Len(q) : Before(r[i], q[j])
    <3>1. r \in Seq(Frame) /\ q \in Seq(Frame)
      BY Typed
    <3>2. FramesOrdered(c)
      BY DEF OrderInv
    <3>3. (\A i \in 1..Len(r) : r[i] \in Frame) /\ (\A i \in 1..Len(q) : q[i] \in Frame)
      BY <3>1
    <3>4. QED
      BY <3>1, <3>2, <3>3 DEF FramesOrdered
  <2>2. CASE send'[c] = q
    <3>1. received'[c] = received[c] /\ published' = published
      BY <1>1
    <3>2. QED
      BY <1>2, <1>3, <2>2, <3>1, FramesStay DEF OrderInv
  <2>3. CASE send'[c] = Append(q, f)
    <3>1. /\ Len(q) \in Nat /\ Len(Append(q, f)) = Len(q) + 1
          /\ Append(q, f)[Len(q) + 1] = f
          /\ \A i \in 1..Len(Append(q, f)) : i = Len(q) + 1 \/ i \in 1..Len(q)
          /\ \A i \in 1..Len(q) : Append(q, f)[i] = q[i]
      BY <1>2, <2>1, Appended
    <3>2. /\ \A i \in 1..Len(received'[c]) : Departed(received[c][i])'
          /\ \A i \in 1..Len(send'[c]) : Departed(send[c][i])'
      <4>1. ASSUME NEW i \in 1..Len(received'[c]) PROVE Departed(received[c][i])'
        <5>1. PICK g \in Frame : g = received'[c][i] /\ Departed(g)'
          BY <1>1, <1>6, <2>1
        <5>2. QED
          BY <5>1 DEF Departed, AheadOfListener, AheadOfChannel, AheadOfForwarder, AheadOfArrived
      <4>2. ASSUME NEW i \in 1..Len(send'[c]) PROVE Departed(send[c][i])'
        <5>1. PICK g \in Frame : g = send'[c][i] /\ Departed(g)'
          BY <1>2, <1>5, <1>6, <2>1, <2>3, <3>1
        <5>2. QED
          BY <5>1 DEF Departed, AheadOfListener, AheadOfChannel, AheadOfForwarder, AheadOfArrived
      <4>3. QED
        BY <4>1, <4>2
    <3>3. \A i, j \in 1..Len(Append(q, f)) :
            i < j => Before(Append(q, f)[i], Append(q, f)[j])
      <4> SUFFICES ASSUME NEW i \in 1..Len(Append(q, f)), NEW j \in 1..Len(Append(q, f)), i < j
                   PROVE  Before(Append(q, f)[i], Append(q, f)[j])
        OBVIOUS
      <4>1. i \in 1..Len(q) /\ Append(q, f)[i] = q[i]
        BY <3>1
      <4>2. CASE j = Len(q) + 1
        BY <1>6, <2>1, <3>1, <4>1, <4>2
      <4>3. CASE j \in 1..Len(q)
        BY <2>1, <3>1, <4>1, <4>3
      <4>4. QED
        BY <3>1, <4>2, <4>3
    <3>4. \A i \in 1..Len(r), j \in 1..Len(Append(q, f)) : Before(r[i], Append(q, f)[j])
      <4> SUFFICES ASSUME NEW i \in 1..Len(r), NEW j \in 1..Len(Append(q, f))
                   PROVE  Before(r[i], Append(q, f)[j])
        OBVIOUS
      <4>1. CASE j = Len(q) + 1
        BY <1>6, <2>1, <3>1, <4>1
      <4>2. CASE j \in 1..Len(q)
        BY <2>1, <3>1, <4>2
      <4>3. QED
        BY <3>1, <4>1, <4>2
    <3>5. /\ \A i, j \in 1..Len(received'[c]) : i < j => Before(received'[c][i], received'[c][j])
          /\ \A i, j \in 1..Len(send'[c]) : i < j => Before(send'[c][i], send'[c][j])
          /\ \A i \in 1..Len(received'[c]), j \in 1..Len(send'[c]) :
               Before(received'[c][i], send'[c][j])
      <4>1. received'[c] = r
        BY <1>1
      <4>2. QED
        BY <2>1, <2>3, <3>3, <3>4, <4>1
    <3>6. QED
      BY <3>2, <3>5 DEF FramesOrdered, Before
  <2>4. QED
    BY <1>1, <2>2, <2>3
<1>8. QED
  BY <1>4, <1>7 DEF OrderInv

LEMMA OrderStep ==
  ASSUME HubInv, OrderInv, [Next]_vars
  PROVE  OrderInv'
<1>1. CASE Publish
  BY <1>1, PublishOrder
<1>2. ASSUME NEW c \in Conns, NEW m \in Members, Register(c, m)
      PROVE  OrderInv'
  BY <1>2, RegisterOrder
<1>3. ASSUME NEW c \in Conns, Handler(c) PROVE OrderInv'
  <2>1. UNCHANGED <<arrived, forwarder, forwarding, channel, listener, delivering, published,
                    received, send>>
    BY <1>3 DEF Handler, ReadFails, Unregister, subVars
  <2>2. QED
    BY <2>1, NothingMoves
<1>4. ASSUME NEW c \in Conns, Pump(c) \/ PumpFails(c) PROVE OrderInv'
  BY <1>4, PumpWritesOrder, PumpEndsOrder DEF Pump, PumpStops, PumpFails
<1>5. ASSUME NEW s \in Conns, Confirm(s) PROVE OrderInv'
  <2>1. UNCHANGED <<arrived, forwarder, forwarding, channel, listener, delivering, published,
                    received, send>>
    BY <1>5 DEF Confirm, connVars
  <2>2. QED
    BY <2>1, NothingMoves
<1>6. ASSUME NEW s \in Conns, Forwarder(s) PROVE OrderInv'
  BY <1>6, ForwarderTakesOrder, ForwarderSendsOrder, StopsOrder DEF Forwarder
<1>7. ASSUME NEW s \in Conns, Listener(s) PROVE OrderInv'
  BY <1>7, ListenerTakesOrder, StopsOrder, DeliverOrder DEF Listener
<1>8. CASE UNCHANGED vars
  <2>1. UNCHANGED <<arrived, forwarder, forwarding, channel, listener, delivering, published,
                    received, send>>
    BY <1>8 DEF vars, connVars, subVars
  <2>2. QED
    BY <2>1, NothingMoves
<1>9. QED
  BY <1>1, <1>2, <1>3, <1>4, <1>5, <1>6, <1>7, <1>8 DEF Next

LEMMA Concatenated ==
  ASSUME NEW S, NEW r \in Seq(S), NEW q \in Seq(S),
         \A k, l \in 1..Len(r) : k < l => Before(r[k], r[l]),
         \A k, l \in 1..Len(q) : k < l => Before(q[k], q[l]),
         \A k \in 1..Len(r), l \in 1..Len(q) : Before(r[k], q[l]),
         NEW i \in DOMAIN (r \o q), NEW j \in DOMAIN (r \o q), i < j
  PROVE  Before((r \o q)[i], (r \o q)[j])
<1>1. /\ Len(r) \in Nat /\ Len(q) \in Nat
      /\ i \in 1..(Len(r) + Len(q)) /\ j \in 1..(Len(r) + Len(q))
  OBVIOUS
<1>2. \A k \in 1..Len(r) : (r \o q)[k] = r[k]
  OBVIOUS
<1>3. \A k \in 1..(Len(r) + Len(q)) : k > Len(r) =>
        k - Len(r) \in 1..Len(q) /\ (r \o q)[k] = q[k - Len(r)]
  OBVIOUS
<1>4. CASE j <= Len(r)
  <2>1. i \in 1..Len(r) /\ j \in 1..Len(r)
    BY <1>1, <1>4
  <2>2. QED
    BY <1>2, <2>1
<1>5. CASE i <= Len(r) /\ j > Len(r)
  <2>1. i \in 1..Len(r)
    BY <1>1, <1>5
  <2>2. QED
    BY <1>1, <1>2, <1>3, <1>5, <2>1
<1>6. CASE i > Len(r)
  <2>1. j > Len(r) /\ i - Len(r) < j - Len(r)
    BY <1>1, <1>6
  <2>2. QED
    BY <1>1, <1>3, <1>6, <2>1
<1>7. QED
  BY <1>1, <1>4, <1>5, <1>6

(* The frames of a viewer, written and waiting, in one sequence. *)
LEMMA OrderedFrames ==
  ASSUME HubInv, OrderInv
  PROVE  FramesInPublishOrder
<1> SUFFICES ASSUME NEW c \in Conns,
                    NEW i \in DOMAIN (received[c] \o send[c]),
                    NEW j \in DOMAIN (received[c] \o send[c]), i < j
             PROVE  Before((received[c] \o send[c])[i], (received[c] \o send[c])[j])
  BY DEF FramesInPublishOrder, Before
<1>1. received[c] \in Seq(Frame) /\ send[c] \in Seq(Frame)
  BY Typed
<1> DEFINE r == received[c]
<1> DEFINE q == send[c]
<1>2. /\ Len(r) \in Nat /\ Len(q) \in Nat
      /\ \A k, l \in 1..Len(r) : k < l => Before(r[k], r[l])
      /\ \A k, l \in 1..Len(q) : k < l => Before(q[k], q[l])
      /\ \A k \in 1..Len(r), l \in 1..Len(q) : Before(r[k], q[l])
  BY <1>1 DEF OrderInv, FramesOrdered
<1>3. QED
  BY <1>1, <1>2, Concatenated

(***************************************************************************)
(* What one subscription brings to a viewer is in the order of             *)
(* publication, each event once (redis_store.go:33-58,                     *)
(* ws_server.go:87-114).                                                   *)
(***************************************************************************)
THEOREM FramesInOrder == Spec => []FramesInPublishOrder
<1>1. Init => OrderInv
  BY OrderInit
<1>2. HubInv /\ OrderInv /\ [Next]_vars => OrderInv'
  BY OrderStep
<1>3. HubInv /\ OrderInv => FramesInPublishOrder
  BY OrderedFrames
<1>4. Spec => []HubInv
  BY HubInvariant
<1>5. QED
  BY <1>1, <1>2, <1>3, <1>4, PTL DEF Spec

=============================================================================
