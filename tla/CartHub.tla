------------------------------- MODULE CartHub ------------------------------
(***************************************************************************)
(* The WebSocket hub of internal/groupcart (ws_server.go) for one cart,    *)
(* with the subscription that feeds it (SubscribeCartEvents in             *)
(* redis_store.go).  Viewers connect and go away; the first connection of  *)
(* a cart subscribes to its events, the last one to leave cancels the      *)
(* subscription.  An event passes from Redis to the forwarder goroutine,   *)
(* through the channel ch to the listener goroutine, which offers it to    *)
(* the Send channel of every registered connection, and from there by the  *)
(* connection's WritePump to the viewer.                                   *)
(*                                                                         *)
(* A step is one critical section of h.mu, one channel operation or one    *)
(* Redis command.  A subscription is named by the connection whose         *)
(* Register made it.  Events are numbered as Redis publishes them.         *)
(* Redis and go-redis are external: a SUBSCRIBE takes effect some time     *)
(* after Subscribe returned, and a subscription loses nothing from then on.*)
(***************************************************************************)
EXTENDS Integers, Sequences, FiniteSets

CONSTANTS
  Members,      \* numbered in the order in which they first connect
  Conns,        \* one per request to /ws/cart, numbered in the order they register
  SendCap,      \* capacity of ClientConnection.Send (256)
  ChannelCap,   \* capacity of the channel of a subscription (100)
  MaxInputs     \* bound: connections and events together

ASSUME NumberedAssumption ==
  /\ IsFiniteSet(Conns) /\ Conns \subseteq Nat \ {0}
  /\ Members \subseteq Nat \ {0}
ASSUME CapacityAssumption == {SendCap, ChannelCap} \subseteq Nat \ {0} /\ MaxInputs \in Nat

VARIABLES
  (* the hub, under h.mu *)
  registered,   \* connections[cart], by member
  subscription, \* subscriptions[cart]
  (* connections *)
  memberOf,     \* the member_id of each connection
  handler,      \* HandleWebSocket
  pump,         \* WritePump
  send, closed, \* the Send channel, and whether it is closed
  (* subscriptions *)
  cancelled,    \* those whose context is cancelled
  confirmed,    \* those that Redis sends events to
  arrived,      \* events received from Redis and not yet forwarded
  forwarder, forwarding,  \* goroutine of SubscribeCartEvents, event in hand
  channel,      \* ch
  listener, delivering,   \* listenPubSubChannel, event in hand
  (* history *)
  published,    \* number of events published so far
  received,     \* frames written to each viewer
  owed          \* events still on their way to each viewer

hubVars  == <<registered, subscription>>
connVars == <<memberOf, handler, pump, send, closed>>
subVars  == <<cancelled, confirmed, arrived, forwarder, forwarding, channel, listener, delivering>>
vars == <<hubVars, connVars, subVars, published, received, owed>>

NoConn == 0
NoMember == 0   \* no member_id yet
NoEvent == 0
Events == 1..MaxInputs

(* An event as one subscription delivers it.                               *)
Frame == [event : Events, via : Conns]

Init ==
  /\ registered = [m \in Members |-> NoConn]
  /\ subscription = NoConn
  /\ memberOf = [c \in Conns |-> NoMember]
  /\ handler = [c \in Conns |-> "new"]
  /\ pump = [c \in Conns |-> "new"]
  /\ send = [c \in Conns |-> <<>>]
  /\ closed = [c \in Conns |-> FALSE]
  /\ cancelled = {}
  /\ confirmed = {}
  /\ arrived = [s \in Conns |-> <<>>]
  /\ forwarder = [s \in Conns |-> "none"]
  /\ forwarding = [s \in Conns |-> NoEvent]
  /\ channel = [s \in Conns |-> <<>>]
  /\ listener = [s \in Conns |-> "none"]
  /\ delivering = [s \in Conns |-> NoEvent]
  /\ published = 0
  /\ received = [c \in Conns |-> <<>>]
  /\ owed = [c \in Conns |-> {}]

(***************************************************************************)
(* Connections: HandleWebSocket, Register, Unregister, WritePump.          *)
(***************************************************************************)
InHub(c) == \E m \in Members : registered[m] = c
Viewing(c) == InHub(c) /\ pump[c] = "running"
Connected(reg) == \E m \in Members : reg[m] # NoConn

(* Mutant: every connection subscribes, whoever is there already. *)
SubscribeAlways(c) ==
  /\ subscription' = c
  /\ forwarder' = [forwarder EXCEPT ![c] = "select"]
  /\ listener' = [listener EXCEPT ![c] = "select"]

SubscribeIfFirst(c) ==
  IF Connected(registered)
    THEN UNCHANGED <<subscription, forwarder, listener>>
    ELSE /\ subscription' = c
         /\ forwarder' = [forwarder EXCEPT ![c] = "select"]
         /\ listener' = [listener EXCEPT ![c] = "select"]

Opened == {c \in Conns : handler[c] # "new"}
WithinBound == Cardinality(Opened) + published < MaxInputs

(* An earlier connection of the member is replaced and left as it is.      *)
Register(c, m) ==
  /\ WithinBound
  /\ Opened = {d \in Conns : d < c}
  /\ \A n \in Members : n < m => \E d \in Opened : memberOf[d] = n
  /\ SubscribeIfFirst(c)
  /\ registered' = [registered EXCEPT ![m] = c]
  /\ owed' = [d \in Conns |-> IF d = registered[m] THEN {} ELSE owed[d]]
  /\ memberOf' = [memberOf EXCEPT ![c] = m]
  /\ handler' = [handler EXCEPT ![c] = "reading"]
  /\ pump' = [pump EXCEPT ![c] = "running"]
  /\ UNCHANGED <<send, closed, cancelled, confirmed, arrived, forwarding, channel, delivering,
                 published, received>>

(* The viewer went away, or the pump closed the connection: the read fails *)
(* and the connection's context is cancelled.                              *)
ReadFails(c) ==
  /\ handler[c] = "reading"
  /\ handler' = [handler EXCEPT ![c] = "unregister"]
  /\ UNCHANGED <<hubVars, memberOf, pump, send, closed, subVars, published, received, owed>>

(* Mutant: the channel is closed, the member stays in the map. *)
CloseOnly(m) ==
  /\ closed' = [closed EXCEPT ![registered[m]] = TRUE]
  /\ owed' = [owed EXCEPT ![registered[m]] = {}]
  /\ UNCHANGED registered

CloseRegistered(m) ==
  /\ closed' = [closed EXCEPT ![registered[m]] = TRUE]
  /\ owed' = [owed EXCEPT ![registered[m]] = {}]
  /\ registered' = [registered EXCEPT ![m] = NoConn]

CancelSubscription ==
  /\ subscription' = NoConn
  /\ cancelled' = cancelled \cup {subscription}

(* By member: whichever connection of that member is registered.           *)
Unregister(c) ==
  LET m == memberOf[c]
  IN  /\ handler[c] = "unregister"
      /\ IF registered[m] # NoConn THEN CloseRegistered(m) ELSE UNCHANGED <<closed, registered, owed>>
      /\ IF Connected(registered) /\ ~Connected(registered')
           THEN CancelSubscription
           ELSE UNCHANGED <<subscription, cancelled>>
      /\ handler' = [handler EXCEPT ![c] = "ended"]
      /\ UNCHANGED <<memberOf, pump, send, confirmed, arrived, forwarder, forwarding, channel,
                     listener, delivering, published, received>>

PumpWrites(c) ==
  /\ pump[c] = "running"
  /\ send[c] # <<>>
  /\ received' = [received EXCEPT ![c] = Append(@, Head(send[c]))]
  /\ send' = [send EXCEPT ![c] = Tail(@)]
  /\ owed' = [owed EXCEPT ![c] = @ \ {Head(send[c]).event}]
  /\ UNCHANGED <<hubVars, memberOf, handler, pump, closed, subVars, published>>

(* The connection is closed; what its channel holds is of no interest now. *)
PumpEnds(c) ==
  /\ pump[c] = "running"
  /\ pump' = [pump EXCEPT ![c] = "ended"]
  /\ send' = [send EXCEPT ![c] = <<>>]
  /\ received' = [received EXCEPT ![c] = <<>>]
  /\ owed' = [owed EXCEPT ![c] = {}]
  /\ UNCHANGED <<hubVars, memberOf, handler, closed, subVars, published>>

(* The viewer is gone: a ping, or the write of a message, fails.           *)
PumpFails(c) == PumpEnds(c)

(* The context is cancelled, or the Send channel is closed and empty.      *)
PumpStops(c) ==
  /\ handler[c] \in {"unregister", "ended"} \/ (closed[c] /\ send[c] = <<>>)
  /\ PumpEnds(c)

(***************************************************************************)
(* Redis: a subscription takes effect; an event is published.  Events that *)
(* nobody subscribes to have no effect and are left out.                   *)
(***************************************************************************)
Confirm(s) ==
  /\ forwarder[s] \in {"select", "send"}
  /\ s \notin confirmed
  /\ confirmed' = confirmed \cup {s}
  /\ UNCHANGED <<hubVars, connVars, cancelled, arrived, forwarder, forwarding, channel, listener,
                 delivering, published, received, owed>>

Publish ==
  /\ WithinBound
  /\ confirmed # {}
  /\ published' = published + 1
  /\ arrived' = [s \in Conns |-> IF s \in confirmed THEN Append(arrived[s], published') ELSE arrived[s]]
  /\ owed' = [c \in Conns |-> IF Viewing(c) /\ subscription \in confirmed
                                 THEN owed[c] \cup {published'} ELSE owed[c]]
  /\ UNCHANGED <<hubVars, connVars, cancelled, confirmed, forwarder, forwarding, channel, listener,
                 delivering, received>>

(***************************************************************************)
(* The forwarder: select between the context and the next event; the send  *)
(* to ch does not look at the context.                                     *)
(***************************************************************************)
(* Mutant: events are forwarded by a goroutine each, in any order. *)
ForwarderTakesAny(s) ==
  /\ forwarder[s] = "select"
  /\ \E i \in DOMAIN arrived[s] :
       /\ forwarding' = [forwarding EXCEPT ![s] = arrived[s][i]]
       /\ arrived' = [arrived EXCEPT ![s] =
                        SubSeq(@, 1, i - 1) \o SubSeq(@, i + 1, Len(@))]
  /\ forwarder' = [forwarder EXCEPT ![s] = "send"]
  /\ UNCHANGED <<hubVars, connVars, cancelled, confirmed, channel, listener, delivering,
                 published, received, owed>>

ForwarderTakes(s) ==
  /\ forwarder[s] = "select"
  /\ arrived[s] # <<>>
  /\ forwarding' = [forwarding EXCEPT ![s] = Head(arrived[s])]
  /\ arrived' = [arrived EXCEPT ![s] = Tail(@)]
  /\ forwarder' = [forwarder EXCEPT ![s] = "send"]
  /\ UNCHANGED <<hubVars, connVars, cancelled, confirmed, channel, listener, delivering,
                 published, received, owed>>

ForwarderSends(s) ==
  /\ forwarder[s] = "send"
  /\ Len(channel[s]) < ChannelCap
  /\ channel' = [channel EXCEPT ![s] = Append(@, forwarding[s])]
  /\ forwarding' = [forwarding EXCEPT ![s] = NoEvent]
  /\ forwarder' = [forwarder EXCEPT ![s] = "select"]
  /\ UNCHANGED <<hubVars, connVars, cancelled, confirmed, arrived, listener, delivering,
                 published, received, owed>>

(* Mutant: the goroutine ends only with the Redis connection. *)
ForwarderIgnoresContext(s) == FALSE /\ UNCHANGED vars

ForwarderStops(s) ==
  /\ forwarder[s] = "select"
  /\ s \in cancelled
  /\ forwarder' = [forwarder EXCEPT ![s] = "ended"]
  /\ confirmed' = confirmed \ {s}
  /\ arrived' = [arrived EXCEPT ![s] = <<>>]
  /\ UNCHANGED <<hubVars, connVars, cancelled, forwarding, channel, listener, delivering,
                 published, received, owed>>

(***************************************************************************)
(* The listener: select between the context and the next event.            *)
(***************************************************************************)
ListenerTakes(s) ==
  /\ listener[s] = "select"
  /\ channel[s] # <<>>
  /\ delivering' = [delivering EXCEPT ![s] = Head(channel[s])]
  /\ channel' = [channel EXCEPT ![s] = Tail(@)]
  /\ listener' = [listener EXCEPT ![s] = "deliver"]
  /\ UNCHANGED <<hubVars, connVars, cancelled, confirmed, arrived, forwarder, forwarding,
                 published, received, owed>>

ListenerStops(s) ==
  /\ listener[s] = "select"
  /\ s \in cancelled \/ (forwarder[s] = "ended" /\ channel[s] = <<>>)
  /\ listener' = [listener EXCEPT ![s] = "ended"]
  /\ UNCHANGED <<hubVars, connVars, cancelled, confirmed, arrived, forwarder, forwarding, channel,
                 delivering, published, received, owed>>

(* Mutant: room is found where there is none. *)
HasRoomForOneMore(c) == Len(send[c]) <= SendCap

HasRoom(c) == Len(send[c]) < SendCap

(* Mutant: a full channel ends the listener, as a return in the default    *)
(* case would.                                                             *)
DeliverOrQuit(s) ==
  LET e == delivering[s]
      full == \E c \in Conns : Viewing(c) /\ ~HasRoom(c)
  IN  /\ listener[s] = "deliver"
      /\ send' = [c \in Conns |-> IF Viewing(c) /\ ~full
                                    THEN Append(send[c], [event |-> e, via |-> s])
                                    ELSE send[c]]
      /\ owed' = [c \in Conns |-> IF Viewing(c) /\ ~HasRoom(c) THEN owed[c] \ {e} ELSE owed[c]]
      /\ delivering' = [delivering EXCEPT ![s] = NoEvent]
      /\ listener' = [listener EXCEPT ![s] = IF full THEN "ended" ELSE "select"]
      /\ UNCHANGED <<hubVars, memberOf, handler, pump, closed, cancelled, confirmed, arrived, forwarder,
                     forwarding, channel, published, received>>

(* Whoever is registered now, though the context may be cancelled.         *)
Deliver(s) ==
  LET e == delivering[s]
  IN  /\ listener[s] = "deliver"
      /\ send' = [c \in Conns |-> IF Viewing(c) /\ HasRoom(c)
                                    THEN Append(send[c], [event |-> e, via |-> s])
                                    ELSE send[c]]
      /\ owed' = [c \in Conns |-> IF Viewing(c) /\ ~HasRoom(c) THEN owed[c] \ {e} ELSE owed[c]]
      /\ delivering' = [delivering EXCEPT ![s] = NoEvent]
      /\ listener' = [listener EXCEPT ![s] = "select"]
      /\ UNCHANGED <<hubVars, memberOf, handler, pump, closed, cancelled, confirmed, arrived, forwarder,
                     forwarding, channel, published, received>>

Handler(c) == ReadFails(c) \/ Unregister(c)
Pump(c) == PumpWrites(c) \/ PumpStops(c)
Forwarder(s) == ForwarderTakes(s) \/ ForwarderSends(s) \/ ForwarderStops(s)
Listener(s) == ListenerTakes(s) \/ ListenerStops(s) \/ Deliver(s)

Next ==
  \/ Publish
  \/ \E c \in Conns :
       \/ \E m \in Members : Register(c, m)
       \/ Handler(c) \/ Pump(c) \/ PumpFails(c)
       \/ Confirm(c) \/ Forwarder(c) \/ Listener(c)

(* The goroutines are scheduled; a read ends once the connection is closed.*)
(* Nobody is obliged to connect or to publish.                             *)
Spec ==
  /\ Init /\ [][Next]_vars
  /\ \A c \in Conns :
       /\ WF_vars(Unregister(c) \/ (pump[c] = "ended" /\ ReadFails(c)))
       /\ WF_vars(Pump(c))
       /\ WF_vars(Forwarder(c)) /\ WF_vars(Listener(c))
-----------------------------------------------------------------------------
(* The type of every variable, with the bounds of the channels.            *)
TypeOK ==
  /\ registered \in [Members -> Conns \cup {NoConn}]
  /\ subscription \in Conns \cup {NoConn}
  /\ memberOf \in [Conns -> Members \cup {NoMember}]
  /\ handler \in [Conns -> {"new", "reading", "unregister", "ended"}]
  /\ pump \in [Conns -> {"new", "running", "ended"}]
  /\ send \in [Conns -> Seq(Frame)]
  /\ closed \in [Conns -> BOOLEAN]
  /\ cancelled \subseteq Conns
  /\ confirmed \subseteq Conns
  /\ arrived \in [Conns -> Seq(Events)]
  /\ forwarder \in [Conns -> {"none", "select", "send", "ended"}]
  /\ forwarding \in [Conns -> Events \cup {NoEvent}]
  /\ channel \in [Conns -> Seq(Events)]
  /\ listener \in [Conns -> {"none", "select", "deliver", "ended"}]
  /\ delivering \in [Conns -> Events \cup {NoEvent}]
  /\ published \in 0..MaxInputs
  /\ received \in [Conns -> Seq(Frame)]
  /\ owed \in [Conns -> SUBSET Events]
  /\ \A c \in Conns : Len(send[c]) <= SendCap /\ Len(channel[c]) <= ChannelCap

(***************************************************************************)
(* A registered connection belongs to its member and its Send channel is   *)
(* open, so the listener never sends on a closed channel and Unregister    *)
(* never closes one twice, either of which would panic: closing and        *)
(* deleting are one critical section (ws_server.go:73-76, 101-110).        *)
(***************************************************************************)
RegisteredOpen ==
  \A m \in Members : registered[m] # NoConn =>
    memberOf[registered[m]] = m /\ ~closed[registered[m]] /\ handler[registered[m]] # "new"

(***************************************************************************)
(* The cart has a live subscription exactly while somebody is registered,  *)
(* and only one: every subscription made before it is cancelled            *)
(* (ws_server.go:52-61, 77-83).                                            *)
(***************************************************************************)
OneLiveSubscription ==
  /\ subscription # NoConn <=> Connected(registered)
  /\ \A s \in Conns : listener[s] # "none" => (s \in cancelled <=> s # subscription)

(***************************************************************************)
(* Whatever buffers and goroutines a frame passes, what one subscription   *)
(* brings to a viewer is in the order of publication, each event once      *)
(* (redis_store.go:33-58, ws_server.go:87-114).  Across subscriptions this *)
(* does not hold: a cancelled one may still deliver what it has in hand to *)
(* connections of the next.                                                *)
(***************************************************************************)
FramesInPublishOrder ==
  \A c \in Conns :
    LET frames == received[c] \o send[c]
    IN  \A i, j \in DOMAIN frames :
          (i < j /\ frames[i].via = frames[j].via) => frames[i].event < frames[j].event

(***************************************************************************)
(* An event that has reached the live subscription gets to every viewer    *)
(* registered then, unless the viewer's buffer is full, the viewer leaves  *)
(* or another connection of the same member takes its place                *)
(* (ws_server.go:101-110, 116-141).                                        *)
(***************************************************************************)
ArrivedReachesViewers == \A c \in Conns : owed[c] # {} ~> owed[c] = {}

(***************************************************************************)
(* The goroutines of a cancelled subscription end, except a forwarder that *)
(* holds an event for a full channel nobody reads any more: it leaks with  *)
(* its Redis connection (redis_store.go:51, ws_server.go:90-91).           *)
(***************************************************************************)
CancelledSubscriptionsEnd ==
  \A s \in Conns :
    s \in cancelled ~>
      /\ listener[s] = "ended"
      /\ forwarder[s] = "ended" \/ (forwarder[s] = "send" /\ Len(channel[s]) = ChannelCap)

(***************************************************************************)
(* "When the client reconnects via WS ... they fetch the current Redis     *)
(* cart state and resume receiving live Pub/Sub events"                    *)
(* (PHASE_REPORT_2.md:219): a member's latest connection, while it is      *)
(* being read and written, is the one the hub delivers to.                 *)
(***************************************************************************)
ReconnectedResumes ==
  \A c \in Conns :
    (/\ handler[c] = "reading" /\ pump[c] = "running"
     /\ \A d \in Conns : memberOf[d] = memberOf[c] => d <= c) => InHub(c)

=============================================================================
