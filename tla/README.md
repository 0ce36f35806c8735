# Adaptive Load Orchestrator: TLA+ models, checks and proofs

This directory specifies the concurrent core of the orchestrator: the dark-store
fulfillment engine, the group carts kept in Redis with the WebSocket hub that streams
them, the rider trips, the substitution engine with the operations console, and the
order history. TLC checks the models on small instances; TLAPS proves theorems about
them for every value of their constants.

## 1. The system

| Component | Source | State it keeps | Operations |
|---|---|---|---|
| Order queue | `internal/fulfillment/queue.go` | a slice of `*Order` under `q.mu` | `Push`, `Pop`, `Len`, `ExtractNonPerishables`, `ConsolidateOrdersByCart` |
| Pickers | `picker.go` | one goroutine each, an order in hand | pop, start, finish, stop |
| Store | `store.go` | queue, atomic counters | `ComputeLoad`, counters |
| Decision engine | `decision_engine.go`, `costmodel.go` | last nudge and last re-route per store, outcome counters | `EvaluateBreach` |
| Stock reservation | `reservation.go` | Redis `stock:<store>:<sku>` | a Lua script: compare, then decrement |
| Load monitor | `monitor.go` | breach episodes | one goroutine: tick, look at each store, evaluate, check the accounting |
| Accounting | `accounting.go` | none | compares created with completed + queued + picked + merged |
| Simulation run | `cmd/sim/main.go` | schedules, created counter | dispatchers, shutdown, HTTP endpoints |
| Group cart store | `internal/groupcart/redis_store.go` | Redis `cart:<id>`, `geofence_cart:<geofence>` | join or create, add (Lua), remove (GET, SET), finalize (GET, SET) |
| Cart reaper | `reaper.go` | none | finalizes carts past `ExpiresAt`; started by a test only |
| Cart handlers, bill split | `ws_server.go`, `billsplit.go` | none | find the item to remove, split the bill |
| WebSocket hub | `ws_server.go`, `redis_store.go` | connections and one subscription per cart | register, unregister, forward, fan out, write |
| Rider trips | `internal/trip` | Redis `trip:<id>`, `geofence_trip:<geofence>`, rider position | rider tick, join (Lua), active trip |
| Substitution engine | `substitution_engine.go` | catalog with stock, counters, under `se.mu` | `UpdateStock`, `FindBestSubstitute`, `RecordAction` |
| Operations console | `cmd/sim/main.go` | viewers, under one mutex | enter, leave, broadcast |
| Order history | `cmd/sim/main.go` | Redis list `orders:<session>` | save (LRANGE, LPUSH), reset |
| Legacy re-router, benchmark, simulation mathematics, dashboards | | | not modelled, see section 7 |

How they interact. Dispatchers push to the queues; pickers pop; the monitor's goroutine
calls the decision engine, which reads group carts in Redis, merges or extracts orders
of a queue, reserves stock in Redis and pushes to another queue. All of this shares
memory through one mutex per queue and through atomic counters; no lock covers an
operation on two of them. Carts, trips and the order history live in Redis: HTTP
handlers, the reaper and the rider simulator issue single commands and scripts against
them, and only a script is atomic. Cart updates are published in Redis; the hub holds
one subscription per cart, and an event passes from the forwarder goroutine through a
channel to the listener goroutine, and through each connection's channel to its write
pump. Decisions and trip events pass through buffered channels to goroutines that
broadcast them to the operations console, as HTTP handlers and the rider loop do
directly.

What is hard: an order is in no queue between extraction and push; loads are read in two
steps and used later; counters lag behind queues; a reservation's answer may be lost
after the script ran; a shutdown meets an evaluation in the middle; a GET followed by a
SET overwrites what others wrote in between; a key's TTL races with the reaper; events
are published after the state they describe has changed again; connections are
registered by member, so that a late disconnect meets its successor; a cancelled
subscription still has events in hand; a broadcast holds a mutex while it writes to a
viewer that may have stopped reading. The hazards in `PROJECT.json` give each its line
and the properties aimed at it.

What makes each component correct:

- queues, pickers, engine: no order is lost or duplicated, a perishable is never
  re-routed on its own, every re-route has a reserved unit of stock, the accounting adds
  up;
- engine: outcomes are exclusive, the cooldown bounds the re-route rate, a batching
  nudge delays re-routing;
- run: it ends, with accounts that match;
- monitor: the incremental episode counters agree with what an episode is;
- carts: the stored cart is consistent and its bill can be split, additions are kept, a
  removal takes what was asked for, an unlocked cart is announced, and only once, and no
  cart is finalized before it expires;
- hub: no send on a closed channel, one live subscription, frames in order, delivery to
  whoever is registered and has room, no goroutine left behind;
- trips: members are distinct and lost in known ways only, the fee matches the number of
  orders;
- substitution: the search finds the best candidate, whatever order the catalog is
  visited in; counters match what happened;
- console: producers never wait for viewers, requests are answered unless one stalls;
- history: few copies of an order, and no acknowledged order missing.

## 2. Modules

| Module | Models | How state and actions correspond |
|---|---|---|
| `QueueOps` | the critical sections of `queue.go` | operators from the old slice to the new one; `Keep(q, K)` is the loop that keeps a subsequence, defined with ranks so that facts about it can be proved |
| `OrderLifecycle` | the contract of the engine, no Go code | one location per order and the edges it may move along |
| `Fulfillment` | `fulfillment/*.go` and the run in `main.go` | a step is one critical section or one atomic operation; `pickerPc`, `monitorPc`, `dispatchPc` are the program counters; `current`, `scan`, `seenLen`, `bestTarget`, `held` are the locals of the monitor's loop and of `EvaluateBreach`; a re-route is five steps: the stamp, each of the two stores' counters, the push, the outcome |
| `BreachEpisodes` | the episode counters and `GetBreachSummary` | `Look` is one iteration of the loop over the stores; the load is an input |
| `GroupCart` | `redis_store.go`, `reaper.go`, `billsplit.go`, the HTTP handlers of `ws_server.go` | a step is one Redis command, which may fail; `local` is the Go copy of a cart between two commands, `wanted` the `targetItemID` of a removal |
| `CartHub` | the hub of `ws_server.go` and `SubscribeCartEvents`, for one cart | a step is one critical section of `h.mu`, one channel operation or one Redis command; `handler`, `pump`, `forwarder`, `listener` are the program counters of the four kinds of goroutine; a subscription is named by the connection whose `Register` made it |
| `TripPool` | `trip/*.go`, the trip endpoints and the rider loop of `main.go` | a step is one Redis command, which may fail, and a key with a TTL may go before any step; `riderCopy` is the trip the rider holds between GET and SET; a row keeps what the join script tests: the member's id, whether its display name is a user's, whether its flat is Flat 304 |
| `Substitution` | `substitution_engine.go` | stock and counters, a step per critical section of `se.mu`; scores are operators, in tenths of a point; the loop over the catalog is a fold over an order of the candidates, the map's order any of them |
| `OpsFeed` | `OpsServer` and `publishEvent` | a broadcast is lock, one write per viewer, unlock; a channel is its number of events |
| `StockApi` | the stock and substitution endpoints | clients that use `Substitution` and are callers of `OpsFeed` |
| `OrderHistory` | `/api/orders/save` and `/reset` | a step is one Redis command; the list is the number of copies of each order |
| `MCFulfillment`, `MCGroupCart`, `MCTripPool`, `MCStockApi` | | instances for TLC (`CartHub`, `OrderHistory` and `BreachEpisodes` are run directly) |
| `FulfillmentProofs`, `BreachEpisodesProofs`, `GroupCartProofs`, `CartHubProofs`, `TripPoolProofs`, `StockApiProofs`, `OrderHistoryProofs` | | the theorems about the module of that name |
| `DataLemmas` | | lemmas about queues, sums, folds and least elements that the proofs share |

`Fulfillment` uses `QueueOps` and instantiates `OrderLifecycle` with the mapping
`PlaceOf`. `BreachEpisodes` runs on the same loop as `Fulfillment`, but its counters
never influence the engine, so it is a module of its own with the loads as inputs.
`GroupCart` and the engine meet in one read (`GroupCartStep`): whether Redis returns an
active cart is a free choice there, since carts are changed by clients at any time.
`CartHub` and `GroupCart` meet in PUBLISH, whose payload no property of the hub looks
at: events are numbered as they are published. `StockApi` composes `Substitution` and
`OpsFeed`: a stock update changes the engine, searches in a second critical section and
then broadcasts. `OpsFeed` meets the engine in its event channel.

Abstractions: the location of a store is a table of distances; thresholds are integer
comparisons (`100 * items > 85 * Capacity`); the cost gate counts delay per waiting
order; sim time is an integer that each monitor tick advances; service times are
arbitrary; prices, totals and fees are small integers, those that a request brings
negative ones too, and the width of Lua's numbers and of `int64` is left out; names,
avatars and log lines are left out, but for the display names that the join script looks
at. The item a removal by name finds in a cart is any of that name: the order of items
is not kept. In `CartHub` a connection that has ended drops what its channel holds, and
events nobody is subscribed to are not published, since neither is observed. Mutants
(definitions preceded by a comment `Mutant:`) are defective variants of an operation
that the properties must reject; no specification uses them.

## 3. Runs that pass

| Run | Question | Bounds | States |
|---|---|---|---|
| `Surge` | Do the engine's safety properties survive every interleaving of a surge at one store, and does the engine implement `OrderLifecycle`, fairness included? | 2 stores, a picker each, 3 orders (one perishable, all of one cart), 3 ticks, stock 2, cooldown and grace of 2 ticks | 202 thousand |
| `Termination` | Does the shutdown always complete? | mode naive with the per-tick check, 2 ticks | 315 thousand |
| `Episodes` | Do the episode counters agree with the definition of an episode? | 2 stores, 4 ticks of 1 or 2 units, every sequence of loads | 161 thousand |
| `CartRaces` | Is the stored cart consistent whatever overwrites what, what can a race lose, is every unlocked cart announced, and is none finalized before its time? | 2 clients, one cart, a seed item (the demo geofence, where joining seeds again), an item of price 1 and one of price -1, all of one name, one addition, removals by id and by name, TTL 1, clock to 3, requests that fail, every operation | 2.3 million |
| `CartAdds` | Are concurrent additions kept, is a cart unlocked from the threshold on, and is that published once? | 2 clients, 2 cart ids, 3 items, one of price -1, no seeds, requests that fail | 247 thousand |
| `TripRaces` | Are members distinct and fees right under all races, and who can be lost? | 5 members (2 of the demo, 1 with a web id), 5 join requests, of which 3 are served, 2 clients, a rider that starts 2 ticks away, failing commands, keys that expire | 773 thousand |
| `HubFrames` | Does the hub keep its channels, subscriptions and frames straight while viewers come and go? | 2 connections of one or two members, channels of capacity 1, 4 connections and events together | 67 thousand |
| `StockUpdates` | Is the best substitute found, is every request answered, does a producer ever wait? | 2 clients, 2 requests, 3 items, stock -1, 0 or 2, one viewer, one channel of capacity 1 with 3 events | 244 thousand |
| `OrderSaves` | What do unsynchronized saves leave in the list? | 2 clients, 3 orders (one without id), 5 saves, resets, failing reads and pushes | 13 thousand |

Why these bounds are enough for the cases to happen. With capacity 2 a store is
overloaded by two items and a target has room with one at most, so three orders are a
surge: TLC reaches merges of two and three orders, two re-routes by one store, both
kinds of failed reservation, and shutdown inside an evaluation. What is out of reach at
this size is a race with arrivals at the target store (section 7). Three ticks with
windows of two ticks place evaluations inside and outside of each window. Two clients
are what each cart race needs: one between the two commands of the other; the reaper is
a third actor. Two items that share a name make a removal by name choose, and make its
second read differ from its first; one addition is enough for it to be overwritten, and
the item of negative price for the clamp to leave the total above the sum. In the hub
two connections are enough for each race: a member's second connection and the late end
of the first; a second subscription next to the listener of the first; a full channel
next to one with room. With channels of capacity 1, two events in flight fill the
channel and the buffer of a viewer. Two clients of the history hold the same order
between read and push; five saves pass a reset. Butter has the brand and category of the
missing dahi and outscores its substitute but for the matching of kinds. Three joins
after the two demo members pass the fee tiers, take over a row under each of the
script's four tests, and turn a row before the last into a user's. Each bound is a
constant of its module (`MaxSimTime`, `MaxTicks`, `MaxTime`, `MaxAdds`, `MaxJoins`,
`MaxInputs`, `MaxProduced`, `MaxRequests`, `MaxSaves`, the finite sets); the clock's
bound only cuts off later ticks. `CartRaces` and `TripRaces` use the symmetry of their
two clients, which no constant tells apart and no liveness property is checked under; no
other run uses symmetry. `CHECK_DEADLOCK FALSE` is set where the model really stops:
episodes at the last tick, the others when every request, connection and event the
bounds allow has been issued. `Fulfillment` checks deadlock: `Terminated` is the only
way to stop.

## 4. Fairness

- `Fulfillment`: weak fairness of each dispatcher, each picker, the monitor and main.
  They are goroutines that the Go runtime schedules; no mutex is held across a wait
  (`m.mu` is held during an evaluation, but no other goroutine of a run takes it), and
  Redis calls return, with an error if need be. Weak fairness is enough: a goroutine's
  next step stays enabled until it takes it, except that a picker's queue may be emptied
  by the engine, in which case it is not obliged to pop.
- `OrderLifecycle`: who holds an order passes it on; `Surge` derives this from the
  fairness of the goroutines.
- `CartHub`: weak fairness of the write pump, forwarder and listener of each connection
  or subscription and of the handler's `Unregister`; a read ends once the pump has
  closed the connection. All wait in `select`, and `h.mu` is never held across a wait
  (sends under it have a `default`). Nobody is obliged to connect, to leave or to
  publish. A `select` with its context and its channel both ready may choose either: the
  actions of one goroutine are one fair disjunction, so nothing relies on the choice.
- `StockApi`: weak fairness of each handler, of each broadcast's steps, of the goroutine
  that reads the channel, and of the producers. That a broadcaster which waits for the
  mutex gets it is the starvation freedom of Go's mutexes; a viewer's leaving is fair
  too, since a failed read ends its loop. A viewer that has stalled is not obliged to go
  on: `RequestsAnswered` names it as the one exception.
- `BreachEpisodes`, `GroupCart`, `TripPool`, `OrderHistory`: none; all their properties
  are safety properties. A client may go away at any point, and neither binary starts
  the reaper (`groupcart_test.go:179` does), so that nothing has to happen to a cart.

## 5. Where code and documents disagree

Each run below stops at a behaviour of the model that contradicts the quoted line;
`PROJECT.json` (findings) has the details.

| Run | Claim | What the code does |
|---|---|---|
| `ClaimAtomicRemoval` | removals are atomic scripts (`ASSUMPTIONS.md:57`) | GET, then SET: an item added in between leaves with it. `LosesOnlyUnread` bounds the damage |
| `ClaimReconnect` | a reconnecting member resumes receiving events (`PHASE_REPORT_2.md:219`) | the end of the old connection unregisters the new one |
| `ClaimPerishablesStay` | what is transferred is not perishable (`ASSUMPTIONS.md:25`) | consolidation (`queue.go:83`) does not look at `IsPerishable`: a perishable merged into another order leaves inside it when that is re-routed. `PerishablesLeaveOnlyMerged` says that this is the only way |

Shown by the models, but without a run of their own; where a property makes an exception
of such a behaviour, this list says so, and the property does not endorse it.

- The per-tick accounting check reads counters one by one while they change and may
  report an error although nothing is lost (`accounting_test.go:77` says it holds on
  every tick); `FinalAccountingPasses` states it for the end of a run only.
- The add handler and the script take an item of any price (`ws_server.go:217-230`). One
  of a negative price takes an unlocked cart below its threshold without locking it, and
  once a removal has clamped the total at zero (`redis_store.go:315-317`) the total
  differs from the sum of the items for good, so that the bill cannot be split
  (`billsplit.go:31`). `StoredCartConsistent` makes an exception of carts that were
  given such an item.
- A trip can list a member twice, although the join script checks for that
  (`trip/redis_store.go:50`): alice joins with a name and flat of her own, bob with the
  default flat, alice joins again without a name, so that her row, which is not the
  last, becomes "You (Web User)" (`main.go:434`), and bob's next join takes that row
  over while his own stays. `MembersDistinct` makes an exception of trips in which this
  renaming has happened.
- A joiner takes over the first row that looks like a user's, by name, flat or id,
  whoever it belongs to (`trip/redis_store.go:53-56`), and the rider's and the
  fallback's writes lose members who joined meanwhile (`ARCHITECTURE.md:99`);
  `OnlyOverlookedMembersAreLost` says that there is no further way.
- "Deduplicate order" (`main.go:583`) is a read and a push: `CopiesBounded` gives the
  number of copies. The push's error is ignored (`main.go:618`): `AnsweredAreListed`
  makes an exception of orders whose push failed.
- A forwarder that waits on a full channel whose listener is gone waits for ever
  (`redis_store.go:51`): `CancelledSubscriptionsEnd` makes an exception of it.
- A broadcast has no write deadline, so a stalled viewer holds up every handler that
  broadcasts (`main.go:79`): `RequestsAnswered` makes an exception of a stalled viewer.
- The search for a substitute takes its first candidate whatever its score
  (`substitution_engine.go:228`), so that butter alone replaces dahi, which "must swap
  with dahi" (`substitution_engine.go:148`); `SuggestsBest` asks for the best candidate
  only.
- `SubscribeCartEvents` is called to "synchronously establish" the subscription
  (`ws_server.go:58`), but go-redis does not wait for Redis to confirm it, so events
  right after the first connection may be missed.

Read off single lines, and given no run: the summary counts an open episode twice, when
it opens and again as open (`monitor.go:169`, `114`), against "distinct breach episodes"
(`PHASE_REPORT_1.md:17`), and no property speaks of that number; a failed reservation
puts an order at the end of its queue and a merge puts one at the head, in a queue
documented as FIFO (`decision_engine.go:209`, `queue.go:8,99`); a store that receives a
re-route is not stamped with a cooldown (`decision_engine.go:233`, `ASSUMPTIONS.md:29`);
the target's load is not read again before the push (`decision_engine.go:239`,
`ASSUMPTIONS.md:32`); removing an item re-arms the unlock event (`redis_store.go:320`,
`ASSUMPTIONS.md:60`); an untouched cart's key has the TTL of its `ExpiresAt`, so Redis
as a rule deletes it before a reaper could finalize it (`redis_store.go:163`,
`groupcart_test.go:194`), while a cart that was written back stays for good, since no
binary starts a reaper; a removal or join that read a cart before it was finalized
writes it back active (`redis_store.go:328`); updates are published after the script
returned and may overtake each other (`redis_store.go:272`); the catalog endpoint reads
stock after the engine has released its lock (`main.go:262-272`), a data race with
`UpdateStock`; the session "global" that a save falls back to is not what a reset
without a session deletes (`main.go:579`, `635`); the event of a rider's tick reaches
the console twice, directly and through `trip_events` (`main.go:846`, `226`); the carts
that `main.go` pre-populates have a total and no items, so their bill cannot be split
(`main.go:693-704`).

## 6. Theorems

Every invariant and action property that a passing run checks, and the safety part of
the refinement, is also proved by TLAPS for every value of the constants, without
unproved leaves. The assumptions are the `ASSUME`s of the modules, which TLC evaluates
in the runs: that sets of orders, members or items are finite, that schedules, seeds and
catalogs are of the right kind, that settings are natural numbers. One is more than
that: `PricesAssumption` of `Substitution` says that no price of the catalog is more
than 600 times another. The proof of `SuggestsBest` needs it: a candidate of a wrong
kind scores 0, and one of the right kind, if of another category and brand, has a score
for its price only, which with a greater ratio is rounded to 0 too, so that the search
may keep the wrong one if the map yields it first. The catalog of
`substitution_engine.go:50-69` is within a factor of 6.

### The engine: `FulfillmentProofs`

Its parts build on each other; most have an inductive invariant of their own.

- Types and control (`TypeCorrect`). `TypeOK` alone is not inductive: a picker may only
  push the counters on for an order it holds, and the engine may only push an order it
  holds to a target it has chosen. `TypedControl` adds this: a picker holds an order
  exactly while it is busy, the engine exactly between extraction and push, and `scan`
  and `bestTarget` name stores while they are in use.
- Time windows (`CooldownBoundsRate`, `GraceDelaysReRoute`, `StockCoversReRoutes`).
  `Windows`: from the scan on, both windows of the evaluated store are over, because
  their stamps and the sim time stand still during an evaluation; only full
  orchestration nudges; and n re-routes of a store take more than n - 1 windows up to
  its last stamp. The bound on the rate alone is not inductive, since it does not
  mention the stamp. `StepKinds` reduces the actions to the five kinds that matter.
- Places (`OrdersArePlaced`, `OrdersNeverLost`, `PerishablesNeverLeaveAlone`).
  `Placement`: each order has exactly one location among schedules, queues, hands, the
  engine, the merged and the completed; queues and schedules repeat nothing; what is
  scheduled at a store has its home there; and a perishable that is not merged is held
  by nobody but its home. The last two conjuncts need each other: an order in the
  engine's hand came out of `ExtractNonPerishables`, so a push to another store moves no
  perishable but those merged into what is pushed. What extraction and consolidation do
  to a queue of any length is cited from `DataLemmas`.
- Refinement (`EngineImplementsLifecycle`): `Spec => Lifecycle!Safety`. Under `PlaceOf`
  the initial states of `Fulfillment` are those of `OrderLifecycle`, and each action is
  matched with an edge or a stutter, one lemma per action. With the fairness part, which
  `Surge` checks, this is `ImplementsLifecycle`.
- Counting (`EveryEvaluationCounted`). An evaluation that has not returned has not
  counted an outcome; each of its exits counts one. A re-route counts in three steps
  (out, in, `Executed`), so that the sums of the stores' re-routes and the outcome agree
  only up to the one that is under way: `LeftUncounted` and `EnteredUncounted` say
  between which steps.
- Merging (`MergesAlwaysAccounted`). `MergesInv` adds that whoever others were merged
  into is marked consolidated, and therefore matches no later consolidation
  (`queue.go:77`): this is what keeps merges one level deep.
- Accounting (`FlowAlwaysBalanced`). Counters lag behind queues, so the balance of a
  store counts the goroutines that stand between a queue operation and its counter: a
  dispatcher about to count, a picker that has popped or is finishing, the engine with
  an order in hand, which the source owns until it has counted it out, nobody until the
  target has counted it in, and the target until the push (`HeldFor`). `NetworkBalanced`
  is the same for the sum of the stores, where a re-route cancels out.
- End of the run (`FinalAccountingAlwaysPasses`). `Draining` follows `main`'s shutdown:
  it passes a store once the store's pickers have stopped, so that when the run is over
  no goroutine stands in such a gap, and the balance becomes the equation main prints.

### The monitor: `BreachEpisodesProofs`

`EpisodesTypeCorrect`, `EpisodesNeverOverlap` (closed episodes of a store end before its
open one starts), `EpisodesAlwaysMatch` and `SummariesAlwaysExact`. The monitor forgets
the loads it has seen; `HistoriesMatch` says that its flag and its `episodeStart`
remember what the history needs: outside of a breach every high load has a later low
one, in a breach there is exactly one open episode and it began at `episodeStart`. The
lemmas `Grown...` say what one more observation does to the episodes of a history.

### Carts: `GroupCartProofs`

- `CartTypesCorrect`, `StoredCartsStayConsistent`, `NeverFinalizedEarly` and
  `RequestsLoseOnlyUnread`, for all operations and prices. `CartInv` says of every cart
  that somebody is about to write what it says of the stored ones: its total is no less
  than the sum of its items, equal to it, and on the right side of the threshold, unless
  the cart was given a discount (`Sound`, `Plain`, `Discount`), and its items come from
  additions or seeds. An id is reserved for its creator until it is written, and no
  write changes `ExpiresAt`; therefore the reaper's time, taken before its read, is
  still past the expiry when it writes.
- `UnlocksAlwaysAnnounced`, for all operations too. `UnlockInv` extends what the
  property says of the stored carts to the copies that requests and the reaper hold,
  since they write the flag back; and what is announced stays so.
- `AddedItemsNeverLost` and `UnlockedOnlyOnce` have the hypothesis `OnlyScripts`:
  requests only create carts and add to them. With joins, removals or the reaper both
  properties fail, since these write back what they have read (section 5). `AddInv` says
  that then nobody is between a read and a write, that what has been added stays, and
  that the script that crosses the threshold is the only one to publish.

### Hub: `CartHubProofs`

- `HubInvariant`, and from it `TypeCorrect`, `RegisteredAreOpen` and
  `SubscriptionIsSingle`. `HubInv` adds to them what makes them inductive: a connection
  knows its member from `Register` on, before that it owns neither a closed channel nor
  a listener, every subscription, live or cancelled, has had its listener started, and a
  goroutine about to send has an event in hand. That event numbers stay within their
  bound rests on the cardinality facts of `FiniteSetTheorems`.
- `FramesInOrder`. The order of the frames alone says nothing of what is still on its
  way. `OrderInv` follows an event through its stages (arrived, held by the forwarder,
  in the channel, held by the listener, in a viewer's channel, written) and says that
  whatever is in a later stage is older than everything in the stages before it; each
  step moves one event by one stage. The definitions `AheadOf...` state this relation
  stage by stage.

### Trips: `TripPoolProofs`

`TripTypesCorrect`, `MembersStayDistinct`, `FeeAlwaysMatchesTier` and
`OnlyOverlookedAreLost`. `TripInv` says that the stored trips and the rider's copy are
`Sound` (the fee is that of the number of orders, which is that of rows) and, until
`turned`, `Neat`: members are distinct and only the last row may be a user's. The last
part is what makes the first inductive: the script takes the first row it can identify
the joiner with, and this finds the joiner's own row before a user's; a row is appended
only when there is no user's row at all. A pointer may name a trip that has expired. The
rider's copy lacks only members in `unseen`, those who joined since its read or whom a
failed read did not return, and a fallback write is that of a client that has not looked
at the members in `overlooked`.

### Substitution and console: `StockApiProofs`

- `StockTypesCorrect`. A viewer that has left is not written to: only the holder of the
  mutex has viewers left to write to.
- `StockoutsAlwaysMatch`. The counter may lag behind the outages because an update to a
  negative quantity is not counted, and run ahead because one from a negative quantity
  to zero is. `EngineInv` bounds the second: each uses up an item that an earlier update
  made negative, so the items that are negative now are still to be paid for.
- `SearchAlwaysSuggestsBest`. The search is a fold over the candidates in any order;
  that it returns the best of any number of them is shown from the fold's own equations
  by the least position at which it would go wrong (`LoopFindsBest`).

### History: `OrderHistoryProofs`

`TypeCorrect`, `CopiesStayBounded` and `AnswersAreTrue`. The bound on copies is
inductive only when it counts the clients that are about to push the order: at the
moment a save finds nothing, no copy is listed, and each client holds at most one.

### Data: `DataLemmas`

What the operators of `QueueOps` return, for every queue: extraction splits a queue
without repetition into the extracted orders and the rest, keeps both free of repetition
and extracts no perishable; consolidation keeps the primary and what does not match and
drops exactly the merged orders. They rest on `RankBijective`: ranks number a finite set
of indices without gaps. For sums, of integers: how they change when one summand does,
split over disjoint sets, and when they are natural numbers. The library's induction
theorems take an operator as a parameter, which the installed provers cannot
instantiate; these lemmas argue with a smallest counterexample instead. `FoldExists`
does so once: over a finite set there is a function that satisfies the equations of the
fold, in some order of the set; the sums and the search are derived from it.

### Only model-checked

Liveness: `RunTerminates`, `ArrivedReachesViewers`, `CancelledSubscriptionsEnd`,
`RequestsAnswered`, `ProducersNeverWait`, and the fairness part of
`ImplementsLifecycle`. The installed provers do not handle `ENABLED`, so fairness says
nothing to them.

## 7. Not modelled, and the plan

Not modelled: the legacy re-router (`eventbus.go`), which the program no longer starts;
the fallback of the accounting check without merged counts, used by a test only; random
generators and haversine distance (floating point); the benchmark; reports, flags and
the restart of a finished run; the dashboards; the endpoints that only read (health,
metrics, catalog, lists of orders); the in-memory fallback of the reservations without
Redis, which the program never uses; the carts that `main.go` pre-populates without
items or expiry, of which the engine uses only the id and status. A slow go-redis
subscription drops messages after a minute; the model takes Redis and go-redis as
lossless once a subscription is confirmed.

Order of work:

1. Done: `QueueOps`, `OrderLifecycle`, `Fulfillment`, `BreachEpisodes`, `GroupCart`,
   `TripPool`, their runs, type correctness of the engine, its windows and its stock.
2. Done: `CartHub` with its theorems, the frames' order included; `Substitution`,
   `OpsFeed` and `StockApi`; `OrderHistory` with its theorems; the removal by name and
   the bill split in `GroupCart`; what races can lose in carts and trips.
3. Done: the theorems of section 6, which cover every invariant and action property of
   the passing runs.
4. Left: theorems that go beyond the runs, such as where merged orders go once their
   primary is completed, and an abstract specification of a cart and of the hub's
   delivery; larger instances of the engine: arrivals at the target store, three stores
   (ties and the nearest target), the mode cost-gated.

## 8. Running

    tlc -config Surge.cfg MCFulfillment      # a run: its cfg and module are listed in PROJECT.json
    tlapm FulfillmentProofs.tla              # the proofs of a module
