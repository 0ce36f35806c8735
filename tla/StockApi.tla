------------------------------ MODULE StockApi ------------------------------
(***************************************************************************)
(* HTTP clients of cmd/sim (main.go) that update stock and accept or       *)
(* reject substitutes, while viewers of the operations console come, stall *)
(* and go.  A stock update to zero looks for a substitute in a second      *)
(* critical section of the engine, publishes it to a cart and broadcasts   *)
(* to the console before it answers.                                       *)
(*                                                                         *)
(* The clients are the Callers of OpsFeed.  The publication to the cart    *)
(* goes to Redis and has no effect here.                                   *)
(***************************************************************************)
EXTENDS Substitution, OpsFeed

CONSTANTS
  Clients,
  MaxRequests   \* bound: requests of all clients together

ASSUME ClientsAssumption == Callers = Clients /\ MaxRequests \in Nat

VARIABLES
  request,     \* where the request of each client is
  target,      \* the item whose stock it set
  suggestion,  \* the substitute it found
  served       \* requests so far

clientVars == <<request, target, suggestion, served>>
vars == <<engineVars, feedVars, clientVars>>

Init ==
  /\ EngineInit /\ FeedInit
  /\ request = [c \in Clients |-> "idle"]
  /\ target = [c \in Clients |-> NoItem]
  /\ suggestion = [c \in Clients |-> NoItem]
  /\ served = 0

Accept(c) ==
  /\ request[c] = "idle"
  /\ served < MaxRequests
  /\ served' = served + 1

Goto(c, state) == request' = [request EXCEPT ![c] = state]

-----------------------------------------------------------------------------
(* /api/stock/update *)
SetStock(c) ==
  /\ Accept(c)
  /\ \E i \in Items, quantity \in StockLevels :
       /\ UpdateStock(i, quantity)
       /\ target' = [target EXCEPT ![c] = i]
       /\ Goto(c, IF quantity <= 0 THEN "search" ELSE "idle")
  /\ UNCHANGED <<feedVars, suggestion>>

Search(c) ==
  /\ request[c] = "search"
  /\ \E found \in SearchResults(target[c]) :
       /\ suggestion' = [suggestion EXCEPT ![c] = found]
       /\ Goto(c, IF found = NoItem THEN "idle" ELSE "publish")
  /\ UNCHANGED <<engineVars, feedVars, target, served>>

Suggest(c) ==
  /\ request[c] = "publish"
  /\ Call(c)
  /\ Goto(c, "broadcast")
  /\ UNCHANGED <<engineVars, target, suggestion, served>>

AnswerUpdate(c) ==
  /\ request[c] = "broadcast"
  /\ c \notin broadcasting
  /\ Goto(c, "idle")
  /\ UNCHANGED <<engineVars, feedVars, target, suggestion, served>>

(* /api/substitution/action *)
TakeAction(c) ==
  /\ Accept(c)
  /\ \E action \in {"accept", "reject"} : RecordAction(action)
  /\ UNCHANGED <<feedVars, request, target, suggestion>>

Continue(c) == Search(c) \/ Suggest(c) \/ AnswerUpdate(c)

Alone == UNCHANGED <<engineVars, clientVars>>
Feed == FeedNext /\ Alone

Next ==
  \/ Feed
  \/ \E c \in Clients : SetStock(c) \/ TakeAction(c) \/ Continue(c)

(* Handlers and goroutines are scheduled and a Go mutex starves nobody;    *)
(* events keep coming.  Nobody is obliged to issue a request, and a viewer *)
(* may stay stalled.                                                       *)
Spec ==
  /\ Init /\ [][Next]_vars
  /\ \A c \in Clients : WF_vars(Continue(c))
  /\ \A b \in Broadcasters : WF_vars(Broadcast(b) /\ Alone)
  /\ \A f \in Feeds : WF_vars(Put(f) /\ Alone) /\ WF_vars(Take(f) /\ Alone)
  /\ \A v \in Viewers : WF_vars(Leave(v) /\ Alone)
-----------------------------------------------------------------------------
(* The type of every variable.                                             *)
TypeOK ==
  /\ stock \in [Items -> StockLevels \cup {0, 2}]
  /\ {stockoutCount, acceptCount, rejectCount, outages, negatives, served} \subseteq Nat
  /\ clients \subseteq Viewers
  /\ Cardinality(locked) <= 1 /\ locked \subseteq Broadcasters
  /\ \A b \in Broadcasters : unwritten[b] \subseteq clients
  /\ broadcasting \subseteq Broadcasters
  /\ buffered \in [Feeds -> 0..FeedCap]
  /\ produced \in [Feeds -> 0..MaxProduced]
  /\ connection \in [Viewers -> {"new", "open", "stalled", "broken", "closed"}]
  /\ request \in [Clients -> {"idle", "search", "publish", "broadcast"}]
  /\ target \in [Clients -> Items \cup {NoItem}]
  /\ suggestion \in [Clients -> Items \cup {NoItem}]

(***************************************************************************)
(* Whatever the order in which the map yields the catalog, a search finds  *)
(* an item in stock that no other item in stock beats, and of the kind of  *)
(* the target if there is one; it finds nothing only if nothing else is in *)
(* stock (substitution_engine.go:205-239).                                 *)
(***************************************************************************)
BestOf(t, found) ==
  IF found = NoItem THEN Candidates(t) = {}
  ELSE /\ found \in Candidates(t)
       /\ \A c \in Candidates(t) : ScoreSubstitute(t, c) <= ScoreSubstitute(t, found)
       /\ WrongKind(t, found) => \A c \in Candidates(t) : WrongKind(t, c)

SuggestsBest ==
  [][\A c \in Clients : request[c] = "search" /\ request'[c] # "search"
       => BestOf(target[c], suggestion'[c])]_vars

(***************************************************************************)
(* The stockout counter is the number of times an item ran out, up to one  *)
(* per update that set a negative quantity: the shop treats that as out of *)
(* stock (main.go:333, 270), the counter as neither                        *)
(* (substitution_engine.go:119-124).                                       *)
(***************************************************************************)
StockoutsMatchOutages ==
  stockoutCount - outages \in -negatives..negatives

(***************************************************************************)
(* A request is answered unless a viewer of the console stalls: its write  *)
(* has no deadline and holds up every broadcaster (main.go:69-81).         *)
(***************************************************************************)
RequestsAnswered ==
  \A c \in Clients :
    request[c] # "idle" ~> request[c] = "idle" \/ Stalled

=============================================================================
