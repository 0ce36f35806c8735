------------------------------- MODULE OpsFeed ------------------------------
(***************************************************************************)
(* The operations console feed of cmd/sim (OpsServer in main.go): a set of *)
(* viewers under one mutex, which a broadcast holds while it writes to     *)
(* every viewer, without a deadline.  Who broadcasts: HTTP handlers, and   *)
(* the goroutines that read the channels of the decision engine and of the *)
(* Redis trip events.  Both channels are filled by a send that gives up    *)
(* when there is no room (publishEvent, SubscribeTripEvents).              *)
(***************************************************************************)
EXTENDS Integers, FiniteSets

CONSTANTS
  Feeds,        \* the channels, each with the goroutine that reads it
  Callers,      \* who else broadcasts
  Viewers,      \* connections to /ws/ops
  FeedCap,      \* capacity of the channels (1000 and 100)
  MaxProduced   \* bound: events produced for each channel

Broadcasters == Feeds \cup Callers

ASSUME FeedAssumption ==
  Feeds \cap Callers = {} /\ FeedCap \in Nat \ {0} /\ MaxProduced \in Nat

VARIABLES
  clients,     \* OpsServer.clients
  locked,      \* the broadcasters that hold OpsServer.mu
  unwritten,   \* by broadcaster: viewers its broadcast has yet to reach
  broadcasting,\* the broadcasters that have an event in hand
  buffered,    \* number of events in each channel
  connection,  \* state of each viewer's connection
  produced     \* history: number of events produced for each channel

feedVars == <<clients, locked, unwritten, broadcasting, buffered, connection, produced>>

FeedInit ==
  /\ clients = {}
  /\ locked = {}
  /\ unwritten = [b \in Broadcasters |-> {}]
  /\ broadcasting = {}
  /\ buffered = [f \in Feeds |-> 0]
  /\ connection = [v \in Viewers |-> "new"]
  /\ produced = [f \in Feeds |-> 0]

-----------------------------------------------------------------------------
(* Viewers.  HandleWS registers, and unregisters once a read has failed.   *)
Enter(v) ==
  /\ connection[v] = "new"
  /\ locked = {}
  /\ connection' = [connection EXCEPT ![v] = "open"]
  /\ clients' = clients \cup {v}
  /\ UNCHANGED <<locked, unwritten, broadcasting, buffered, produced>>

(* A viewer stops reading, goes on, or its connection breaks.              *)
ConnectionChanges(v) ==
  /\ connection[v] \in {"open", "stalled"}
  /\ \E state \in {"open", "stalled", "broken"} \ {connection[v]} :
       connection' = [connection EXCEPT ![v] = state]
  /\ UNCHANGED <<clients, locked, unwritten, broadcasting, buffered, produced>>

(* Mutant: the viewer is deleted without the mutex. *)
LeaveUnlocked(v) ==
  /\ connection[v] = "broken"
  /\ clients' = clients \ {v}
  /\ connection' = [connection EXCEPT ![v] = "closed"]
  /\ UNCHANGED <<locked, unwritten, broadcasting, buffered, produced>>

Leave(v) ==
  /\ connection[v] = "broken"
  /\ locked = {}
  /\ clients' = clients \ {v}
  /\ connection' = [connection EXCEPT ![v] = "closed"]
  /\ UNCHANGED <<locked, unwritten, broadcasting, buffered, produced>>

(***************************************************************************)
(* A broadcast: the mutex is taken, the viewers are written to in the      *)
(* order in which the map yields them, the mutex is released.              *)
(***************************************************************************)
Lock(b) ==
  /\ b \in broadcasting
  /\ locked = {}
  /\ locked' = {b}
  /\ unwritten' = [unwritten EXCEPT ![b] = clients]
  /\ UNCHANGED <<clients, broadcasting, buffered, connection, produced>>

(* The write to a stalled viewer blocks; an error is ignored.              *)
Write(b, v) ==
  /\ v \in unwritten[b]
  /\ connection[v] # "stalled"
  /\ unwritten' = [unwritten EXCEPT ![b] = @ \ {v}]
  /\ UNCHANGED <<clients, locked, broadcasting, buffered, connection, produced>>

(* Mutant: without defer, a failed write returns with the mutex locked. *)
UnlockUnlessFailed(b) ==
  /\ b \in locked
  /\ unwritten[b] = {}
  /\ locked' = IF \E v \in clients : connection[v] = "broken" THEN locked ELSE locked \ {b}
  /\ broadcasting' = broadcasting \ {b}
  /\ UNCHANGED <<clients, unwritten, buffered, connection, produced>>

Unlock(b) ==
  /\ b \in locked
  /\ unwritten[b] = {}
  /\ locked' = locked \ {b}
  /\ broadcasting' = broadcasting \ {b}
  /\ UNCHANGED <<clients, unwritten, buffered, connection, produced>>

Broadcast(b) == Lock(b) \/ Unlock(b) \/ \E v \in Viewers : Write(b, v)

-----------------------------------------------------------------------------
(* A handler or the rider loop calls BroadcastEvent.                       *)
Call(b) ==
  /\ b \notin broadcasting
  /\ broadcasting' = broadcasting \cup {b}
  /\ UNCHANGED <<clients, locked, unwritten, buffered, connection, produced>>

(* Mutant: the producer waits for room. *)
PutWhenRoom(f) ==
  /\ produced[f] < MaxProduced
  /\ buffered[f] < FeedCap
  /\ produced' = [produced EXCEPT ![f] = @ + 1]
  /\ buffered' = [buffered EXCEPT ![f] = @ + 1]
  /\ UNCHANGED <<clients, locked, unwritten, broadcasting, connection>>

Put(f) ==
  /\ produced[f] < MaxProduced
  /\ produced' = [produced EXCEPT ![f] = @ + 1]
  /\ buffered' = [buffered EXCEPT ![f] = IF @ < FeedCap THEN @ + 1 ELSE @]
  /\ UNCHANGED <<clients, locked, unwritten, broadcasting, connection>>

Take(f) ==
  /\ buffered[f] > 0
  /\ f \notin broadcasting
  /\ broadcasting' = broadcasting \cup {f}
  /\ buffered' = [buffered EXCEPT ![f] = @ - 1]
  /\ UNCHANGED <<clients, locked, unwritten, connection, produced>>

FeedNext ==
  \/ \E v \in Viewers : Enter(v) \/ ConnectionChanges(v) \/ Leave(v)
  \/ \E b \in Broadcasters : Broadcast(b)
  \/ \E f \in Feeds : Put(f) \/ Take(f)

-----------------------------------------------------------------------------
Stalled == \E v \in Viewers : connection[v] = "stalled"

(***************************************************************************)
(* Whoever produces decisions or trip events is never held up, not even by *)
(* a viewer that has stopped reading and blocks the goroutine that reads   *)
(* the channel (decision_engine.go:262-267, trip/redis_store.go:244-247).  *)
(***************************************************************************)
ProducersNeverWait == \A f \in Feeds : <>(produced[f] = MaxProduced)

=============================================================================
