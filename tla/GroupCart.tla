------------------------------ MODULE GroupCart -----------------------------
(***************************************************************************)
(* The group carts of internal/groupcart, kept in Redis, for one geofence. *)
(* Clients issue HTTP requests: join (CreateOrGetActiveCart), add an item  *)
(* (the Lua script), remove an item (GET, GET, then SET); the TTL reaper   *)
(* finalizes carts that have expired (GET, GET, then SET); only the tests  *)
(* start it (groupcart_test.go:179), so that no step of it is assumed.  A  *)
(* step is one Redis command, which Redis executes atomically; between two *)
(* commands of a request, those of the others may run.  A request may end  *)
(* early, when its client goes away or Redis does not answer, and a join   *)
(* whose read fails goes on to create a cart.                              *)
(*                                                                         *)
(* Redis is external: a key written with a TTL is gone at its deadline,    *)
(* and a SET without one forgets the deadline.  Redis and the application  *)
(* share one clock.  An item is its id, name (which stands for the SKU     *)
(* too), price and member; ids are unique; prices and the threshold come   *)
(* from the requests and may be negative (ws_server.go:164-205, 217-230);  *)
(* the order of the items, which only says which of several with one name  *)
(* a removal takes, is left open.                                          *)
(* Members' names, the location and the TTL chosen per request are left    *)
(* out.                                                                    *)
(***************************************************************************)
EXTENDS Integers, FiniteSets, Functions

CONSTANTS
  Members,
  Clients,      \* the members that issue requests, one at a time each
  Carts,        \* cart ids, one per creation (UnixNano)
  NoCart,       \* no cart id
  Items,        \* item ids: one per add request (UnixNano), and the seeds
  NameOf,       \* Name of each item
  NoTarget,     \* the empty item id, which no item has
  Price,        \* PricePaise of each item, which nothing checks
  AddedBy,      \* AddedByMemberID of each item
  SeedsOf,      \* the demo items of a member; empty outside the demo geofence
  Threshold,    \* UnlockThresholdPaise
  Ttl,
  Operations,   \* the kinds of request issued
  RequestsMayFail,
  MaxAdds,      \* bound: items the clients add, out of Items
  MaxTime       \* bound: the clock stops here

ASSUME NoCartAssumption == NoCart \notin Carts
ASSUME CartSetsAssumption ==
  /\ IsFiniteSet(Items) /\ IsFiniteSet(Carts) /\ IsFiniteSet(Members)
  /\ Clients \subseteq Members
Names == {NameOf[i] : i \in Items}

ASSUME CartItemsAssumption ==
  /\ NameOf \in [Items -> Names] /\ Names \cap Items = {}
  /\ NoTarget \notin Items \cup Names
  /\ Price \in [Items -> Int]
  /\ AddedBy \in [Items -> Members]
  /\ SeedsOf \in [Members -> SUBSET Items]
  /\ \A m \in Members : \A i \in SeedsOf[m] : AddedBy[i] = m /\ Price[i] \in Nat
ASSUME CartNumbersAssumption == Threshold \in Int /\ {MaxAdds, MaxTime} \subseteq Nat /\ Ttl \in Nat \ {0}
ASSUME OperationsAssumption == Operations \subseteq {"create", "join", "add", "remove", "reap"}
ASSUME FailuresAssumption == RequestsMayFail \in BOOLEAN

Seeds == UNION {SeedsOf[m] : m \in Members}
Total(items) == SumFunctionOnSet(Price, items)

Cart == [members : SUBSET Members, items : SUBSET Items, total : Int,
         unlocked : BOOLEAN, status : {"ACTIVE", "FINALIZED"}, expires : Nat]
Blank == [members |-> {}, items |-> {}, total |-> 0, unlocked |-> FALSE,
          status |-> "FINALIZED", expires |-> 0]

NoTtl == 0

VARIABLES
  (* Redis *)
  now,
  stored,       \* the value last written to cart:<id>
  deadline,     \* when that key goes, or NoTtl
  pointer, pointerDeadline,  \* geofence_cart:<geofence>
  (* requests in progress *)
  pc,
  cartOf,       \* the cart a request is about
  local,        \* the cart as the request has read it, or will create it
  wanted,       \* targetItemID of a removal
  (* the reaper *)
  reaperPc, todo, reaperNow, reaped, finalized,
  (* history *)
  written,      \* cart ids whose key has been written
  addedTo,      \* the cart the script added an item to
  unlocks,      \* CART_UNLOCKED events published, per cart
  unannounced   \* carts of which such an event was not published: its request ended

redisVars   == <<stored, deadline, pointer, pointerDeadline>>
requestVars == <<pc, cartOf, local, wanted>>
reaperVars  == <<reaperPc, todo, reaperNow, reaped, finalized>>
historyVars == <<written, addedTo, unlocks, unannounced>>
vars == <<now, redisVars, requestVars, reaperVars, historyVars>>

Gone(d) == d # NoTtl /\ now >= d
Present(c) == c \in written /\ ~Gone(deadline[c])
Pointed == IF Gone(pointerDeadline) THEN NoCart ELSE pointer
Active(c) == Present(c) /\ stored[c].status = "ACTIVE"

Init ==
  /\ now = 1
  /\ stored = [c \in Carts |-> Blank]
  /\ deadline = [c \in Carts |-> NoTtl]
  /\ pointer = NoCart
  /\ pointerDeadline = NoTtl
  /\ pc = [k \in Clients |-> "idle"]
  /\ cartOf = [k \in Clients |-> NoCart]
  /\ local = [k \in Clients |-> Blank]
  /\ wanted = [k \in Clients |-> NoTarget]
  /\ reaperPc = "idle"
  /\ todo = {}
  /\ reaperNow = 0
  /\ reaped = NoCart
  /\ finalized = Blank
  /\ written = {}
  /\ addedTo = [i \in Items |-> NoCart]
  /\ unlocks = [c \in Carts |-> 0]
  /\ unannounced = {}

Go(k, to, c, cart) ==
  /\ pc' = [pc EXCEPT ![k] = to]
  /\ cartOf' = [cartOf EXCEPT ![k] = c]
  /\ local' = [local EXCEPT ![k] = cart]
  /\ wanted' = [wanted EXCEPT ![k] = IF to = "removeWrite" THEN @ ELSE NoTarget]

Done(k) == Go(k, "idle", NoCart, Blank)

(* SET cart:<c> with an expiration, 0 for none.                            *)
SetCart(c, cart, ttl) ==
  /\ stored' = [stored EXCEPT ![c] = cart]
  /\ deadline' = [deadline EXCEPT ![c] = IF ttl = 0 THEN NoTtl ELSE now + ttl]
  /\ written' = written \cup {c}
  /\ UNCHANGED <<pointer, pointerDeadline>>

(***************************************************************************)
(* CreateOrGetActiveCart for member k: read the geofence key, then the     *)
(* cart; write it back without a TTL if it is active; else, and when       *)
(* either read fails, create one with a pipeline of two SETs (which others *)
(* may interleave with).                                                   *)
(***************************************************************************)
(* Mutant: the id names the geofence only, so that creations share it. *)
NotInProgress(c) == \A k \in Clients : cartOf[k] # c

FreshCart(c) == c \notin written /\ \A k \in Clients : cartOf[k] # c

NewCart(k) ==
  [members |-> {k} \cup {m \in Members : SeedsOf[m] # {}},
   items |-> Seeds, total |-> Total(Seeds), unlocked |-> Total(Seeds) >= Threshold,
   status |-> "ACTIVE", expires |-> now + Ttl]

PrepareCreate(k) ==
  /\ "create" \in Operations
  /\ \E c \in Carts : FreshCart(c) /\ Go(k, "createCart", c, NewCart(k))

(* In the demo geofence, members without items get their seeds again.      *)
Joined(cart, k) ==
  LET lacking == {m \in Members : \A i \in cart.items : AddedBy[i] # m}
      items == cart.items \cup UNION {SeedsOf[m] : m \in lacking}
  IN  [cart EXCEPT !.members = @ \cup {k}, !.items = items,
                   !.total = IF Seeds = {} THEN @ ELSE Total(items)]

JoinReadPointer(k) ==
  /\ pc[k] = "idle"
  /\ \/ Pointed = NoCart /\ PrepareCreate(k)
     \/ Pointed # NoCart /\ "join" \in Operations /\ Go(k, "joinRead", Pointed, Blank)
     \/ RequestsMayFail /\ PrepareCreate(k)
  /\ UNCHANGED <<now, redisVars, reaperVars, historyVars>>

JoinReadCart(k) ==
  /\ pc[k] = "joinRead"
  /\ \/ Active(cartOf[k]) /\ Go(k, "joinWrite", cartOf[k], stored[cartOf[k]])
     \/ ~Active(cartOf[k]) /\ PrepareCreate(k)
     \/ RequestsMayFail /\ PrepareCreate(k)
  /\ UNCHANGED <<now, redisVars, reaperVars, historyVars>>

JoinWrite(k) ==
  /\ pc[k] = "joinWrite"
  /\ SetCart(cartOf[k], Joined(local[k], k), 0)
  /\ Done(k)
  /\ UNCHANGED <<now, reaperVars, addedTo, unlocks, unannounced>>

CreateCart(k) ==
  /\ pc[k] = "createCart"
  /\ SetCart(cartOf[k], local[k], Ttl)
  /\ Go(k, "createPointer", cartOf[k], Blank)
  /\ UNCHANGED <<now, reaperVars, addedTo, unlocks, unannounced>>

CreatePointer(k) ==
  /\ pc[k] = "createPointer"
  /\ pointer' = cartOf[k]
  /\ pointerDeadline' = now + Ttl
  /\ Done(k)
  /\ UNCHANGED <<now, stored, deadline, reaperVars, historyVars>>

(***************************************************************************)
(* AddItemAtomic: the script, then CART_UPDATED, then, if this very write  *)
(* unlocked the cart, CART_UNLOCKED.                                       *)
(***************************************************************************)
WithItem(cart, i) ==
  LET total == cart.total + Price[i]
  IN  [cart EXCEPT !.items = @ \cup {i}, !.total = total,
                   !.unlocked = @ \/ total >= Threshold]

(* Mutant: whether the cart was unlocked before is not asked. *)
ReachesThreshold(cart, i) == cart.total + Price[i] >= Threshold

(* Mutant: the total before the addition is compared. *)
WasAtThreshold(cart, i) == cart.total >= Threshold /\ ~cart.unlocked

JustUnlocks(cart, i) == cart.total + Price[i] >= Threshold /\ ~cart.unlocked

AddItem(k, c, i) ==
  /\ "add" \in Operations
  /\ pc[k] = "idle"
  /\ i \notin Seeds /\ addedTo[i] = NoCart
  /\ Cardinality({j \in Items : addedTo[j] # NoCart}) < MaxAdds
  /\ Active(c)
  /\ SetCart(c, WithItem(stored[c], i), 0)
  /\ addedTo' = [addedTo EXCEPT ![i] = c]
  /\ Go(k, IF JustUnlocks(stored[c], i) THEN "publishBoth" ELSE "publish", c, Blank)
  /\ UNCHANGED <<now, reaperVars, unlocks, unannounced>>

PublishUpdate(k) ==
  /\ pc[k] \in {"publish", "publishBoth"}
  /\ IF pc[k] = "publishBoth" THEN Go(k, "publishUnlock", cartOf[k], Blank) ELSE Done(k)
  /\ UNCHANGED <<now, redisVars, reaperVars, historyVars>>

PublishUnlock(k) ==
  /\ pc[k] = "publishUnlock"
  /\ unlocks' = [unlocks EXCEPT ![cartOf[k]] = @ + 1]
  /\ Done(k)
  /\ UNCHANGED <<now, redisVars, reaperVars, written, addedTo, unannounced>>

(***************************************************************************)
(* HandleRemoveItem reads the cart to find the id that goes with a name;   *)
(* failing that, it takes the name for an id, or, given a SKU, the empty   *)
(* id.  RemoveItemAtomic reads the cart again, writes it back without the  *)
(* first item of that id or name and without a TTL, and publishes          *)
(* CART_UPDATED.                                                           *)
(***************************************************************************)
Named(cart, asked) == {i \in cart.items : NameOf[i] = asked}

RemoveLookup(k, c, asked) ==
  /\ "remove" \in Operations
  /\ pc[k] = "idle"
  /\ Present(c)
  /\ \E target \in IF asked \in Items THEN {asked}
                    ELSE IF Named(stored[c], asked) # {} THEN Named(stored[c], asked)
                    ELSE {asked, NoTarget} :
       wanted' = [wanted EXCEPT ![k] = target]
  /\ pc' = [pc EXCEPT ![k] = "removeRead"]
  /\ cartOf' = [cartOf EXCEPT ![k] = c]
  /\ UNCHANGED <<now, redisVars, local, reaperVars, historyVars>>

RemoveRead(k) ==
  /\ pc[k] = "removeRead"
  /\ IF Active(cartOf[k]) THEN Go(k, "removeWrite", cartOf[k], stored[cartOf[k]]) ELSE Done(k)
  /\ UNCHANGED <<now, redisVars, reaperVars, historyVars>>

(* Mutant: it goes on after the first match. *)
EveryMatch(cart, target) ==
  {{i \in cart.items : i = target \/ NameOf[i] = target}}

(* What a removal may take: nothing only if nothing matches.               *)
FirstMatch(cart, target) ==
  LET matches == {i \in cart.items : i = target \/ NameOf[i] = target}
  IN  IF matches = {} THEN {{}} ELSE {{i} : i \in matches}

(* Mutant: the unlock flag is not reconsidered. *)
WithoutStillUnlocked(cart, gone) ==
  LET left == cart.total - Total(gone)
  IN  [cart EXCEPT !.items = @ \ gone, !.total = IF left < 0 THEN 0 ELSE left]

Without(cart, gone) ==
  LET left  == cart.total - Total(gone)
      total == IF left < 0 THEN 0 ELSE left
  IN  [cart EXCEPT !.items = @ \ gone, !.total = total,
                   !.unlocked = @ /\ total >= Threshold]

RemoveWrite(k) ==
  /\ pc[k] = "removeWrite"
  /\ \E gone \in FirstMatch(local[k], wanted[k]) :
       SetCart(cartOf[k], Without(local[k], gone), 0)
  /\ Go(k, "publish", cartOf[k], Blank)
  /\ UNCHANGED <<now, reaperVars, addedTo, unlocks, unannounced>>

(* The request's context ends, or Redis does not answer: what it had still *)
(* to publish is not.                                                      *)
Unlocking(k, c) == pc[k] \in {"publishBoth", "publishUnlock"} /\ cartOf[k] = c

EndEarly(k) ==
  /\ RequestsMayFail
  /\ pc[k] # "idle"
  /\ Done(k)
  /\ unannounced' = unannounced \cup {c \in Carts : Unlocking(k, c)}
  /\ UNCHANGED <<now, redisVars, reaperVars, written, addedTo, unlocks>>

(***************************************************************************)
(* The reaper: one pass over the cart keys, with the time taken once and   *)
(* forgotten at its end.                                                   *)
(***************************************************************************)
ReapNext(left) ==
  /\ reaperPc' = IF left = {} THEN "idle" ELSE "check"
  /\ reaperNow' = IF left = {} THEN 0 ELSE reaperNow
  /\ reaped' = NoCart
  /\ finalized' = Blank

(* Mutant: the pass looks one time to live ahead. *)
ReapKeysAhead ==
  /\ "reap" \in Operations
  /\ reaperPc = "idle"
  /\ todo' = {c \in Carts : Present(c)}
  /\ todo' # {}
  /\ reaperNow' = now + Ttl
  /\ reaperPc' = "check"
  /\ UNCHANGED <<now, redisVars, requestVars, reaped, finalized, historyVars>>

ReapKeys ==
  /\ "reap" \in Operations
  /\ reaperPc = "idle"
  /\ todo' = {c \in Carts : Present(c)}
  /\ todo' # {}
  /\ reaperNow' = now
  /\ reaperPc' = "check"
  /\ UNCHANGED <<now, redisVars, requestVars, reaped, finalized, historyVars>>

(* Mutant: the time to live is compared from the wrong side. *)
NotYetExpired(c) == reaperNow <= stored[c].expires

Expired(c) == reaperNow > stored[c].expires

ReapCheck(c) ==
  /\ reaperPc = "check"
  /\ c \in todo
  /\ todo' = todo \ {c}
  /\ IF Active(c) /\ Expired(c)
       THEN reaperPc' = "finalizeRead" /\ reaped' = c /\ UNCHANGED <<reaperNow, finalized>>
       ELSE ReapNext(todo')
  /\ UNCHANGED <<now, redisVars, requestVars, historyVars>>

(* FinalizeCart: whatever the cart's status is by now.                     *)
FinalizeRead ==
  /\ reaperPc = "finalizeRead"
  /\ IF Present(reaped)
       THEN /\ reaperPc' = "finalizeWrite"
            /\ finalized' = [stored[reaped] EXCEPT !.status = "FINALIZED"]
            /\ UNCHANGED <<reaped, reaperNow>>
       ELSE ReapNext(todo)
  /\ UNCHANGED <<now, redisVars, requestVars, todo, historyVars>>

FinalizeWrite ==
  /\ reaperPc = "finalizeWrite"
  /\ SetCart(reaped, finalized, 0)
  /\ UNCHANGED todo
  /\ ReapNext(todo)
  /\ UNCHANGED <<now, requestVars, addedTo, unlocks, unannounced>>

ClockTicks ==
  /\ now < MaxTime
  /\ now' = now + 1
  /\ UNCHANGED <<redisVars, requestVars, reaperVars, historyVars>>

Continue(k) ==
  \/ JoinReadCart(k) \/ JoinWrite(k) \/ CreateCart(k) \/ CreatePointer(k)
  \/ PublishUpdate(k) \/ PublishUnlock(k) \/ RemoveRead(k) \/ RemoveWrite(k)
Request(k) ==
  \/ JoinReadPointer(k)
  \/ \E c \in Carts : \/ \E i \in Items : AddItem(k, c, i)
                      \/ \E asked \in Items \cup Names : RemoveLookup(k, c, asked)
Reaper == ReapKeys \/ (\E c \in Carts : ReapCheck(c)) \/ FinalizeRead \/ FinalizeWrite

Next ==
  \/ \E k \in Clients : Request(k) \/ Continue(k) \/ EndEarly(k)
  \/ Reaper
  \/ ClockTicks

(* Nothing has to happen: clients ask when they like, and no binary of the *)
(* repository starts the reaper.                                           *)
Spec == Init /\ [][Next]_vars

(***************************************************************************)
(* ComputeBillSplit: what each member pays, whoever added the items.  It   *)
(* fails when the items do not add up to the total.                        *)
(***************************************************************************)
BillSplits(cart) == Total(cart.items) = cart.total

(* Mutant: only members have a share. *)
MembersTotals(cart) ==
  [m \in cart.members |-> Total({i \in cart.items : AddedBy[i] = m})]

MemberTotals(cart) ==
  [m \in cart.members \cup {AddedBy[i] : i \in cart.items} |->
     Total({i \in cart.items : AddedBy[i] = m})]
-----------------------------------------------------------------------------
(* The type of every variable.                                             *)
TypeOK ==
  /\ now \in 1..(IF MaxTime > 1 THEN MaxTime ELSE 1)
  /\ stored \in [Carts -> Cart]
  /\ deadline \in [Carts -> Nat]
  /\ pointer \in Carts \cup {NoCart}
  /\ pointerDeadline \in Nat
  /\ pc \in [Clients -> {"idle", "joinRead", "joinWrite", "createCart", "createPointer",
                         "publish", "publishBoth", "publishUnlock", "removeRead", "removeWrite"}]
  /\ cartOf \in [Clients -> Carts \cup {NoCart}]
  /\ local \in [Clients -> Cart]
  /\ wanted \in [Clients -> Items \cup Names \cup {NoTarget}]
  /\ reaperPc \in {"idle", "check", "finalizeRead", "finalizeWrite"}
  /\ todo \subseteq Carts
  /\ reaperNow \in 0..now
  /\ reaped \in Carts \cup {NoCart}
  /\ finalized \in Cart
  /\ written \subseteq Carts
  /\ addedTo \in [Items -> Carts \cup {NoCart}]
  /\ unlocks \in [Carts -> Nat]
  /\ unannounced \in SUBSET Carts

(***************************************************************************)
(* Whatever overwrites what, a stored cart is one that some request        *)
(* computed as a whole: its bill can be split, to the last unit, between   *)
(* members and others whose items it holds; it is unlocked only if it      *)
(* reaches the threshold and, outside the demo geofence, whenever it does  *)
(* (redis_store.go:140, 206-213, 313-321, billsplit.go:20-34).  The add    *)
(* handler takes an item of a negative price too (ws_server.go:217-230):   *)
(* of a cart that has been given one, only this much is left, that its     *)
(* total is no less than its items cost, since a removal never lets it     *)
(* fall below zero (redis_store.go:315-317).                               *)
(***************************************************************************)
Discounted(c) == \E i \in Items : addedTo[i] = c /\ Price[i] < 0

StoredCartConsistent ==
  \A c \in written :
    /\ stored[c].total >= Total(stored[c].items)
    /\ ~Discounted(c) =>
         /\ BillSplits(stored[c])
         /\ SumFunction(MemberTotals(stored[c])) = stored[c].total
         /\ stored[c].unlocked => stored[c].total >= Threshold
         /\ Seeds = {} => (stored[c].unlocked <=> stored[c].total >= Threshold)

(***************************************************************************)
(* The reaper finalizes no cart before its time, although it compares a    *)
(* time it took before it read the cart (reaper.go:66-76).                 *)
(***************************************************************************)
FinalizedOnlyAfterExpiry ==
  \A c \in written : stored[c].status = "FINALIZED" => now > stored[c].expires

(***************************************************************************)
(* However additions interleave with each other and with creations, an     *)
(* item the script has added stays in the stored cart                      *)
(* (redis_store.go:186-226, groupcart_test.go:41-68).                      *)
(***************************************************************************)
AddedItemsKept ==
  \A i \in Items : addedTo[i] # NoCart => i \in stored[addedTo[i]].items

(***************************************************************************)
(* "Item additions, removals, and running total re-computations execute    *)
(* atomically inside a single Redis Lua script" (ASSUMPTIONS.md:57): an    *)
(* item leaves a cart only when a removal of it writes.                    *)
(***************************************************************************)
Lost(c)   == stored[c].items \ stored'[c].items
Gained(c) == stored'[c].items \ stored[c].items
Asked(k, i) == pc[k] = "removeWrite" /\ (i = wanted[k] \/ NameOf[i] = wanted[k])

OnlyAskedItemsLeave ==
  [][\A c \in Carts : \A i \in Lost(c) : \E k \in Clients : cartOf[k] = c /\ Asked(k, i)]_vars

(***************************************************************************)
(* What the overlap of a join, a removal or the reaper with other requests *)
(* can cost: of the items it has read a request takes out at most one, one *)
(* it was asked for, so that only items added since are lost with it; and  *)
(* only items it has read come back, besides the demo items of a join      *)
(* (redis_store.go:81-125, 302-329, 355-365).                              *)
(***************************************************************************)
LosesOnlyUnread ==
  [][\A c \in Carts : stored'[c] # stored[c] =>
       /\ \A k \in Clients : cartOf[k] = c /\ pc'[k] # pc[k] =>
            LET taken == Lost(c) \cap local[k].items IN
            /\ Cardinality(taken) <= 1 /\ \A i \in taken : Asked(k, i)
            /\ Gained(c) \subseteq local[k].items \cup Seeds
       /\ reaped = c /\ reaperPc' # reaperPc =>
            /\ Lost(c) \cap finalized.items = {}
            /\ Gained(c) \subseteq finalized.items]_vars

(***************************************************************************)
(* CART_UNLOCKED is published at most once for a cart, however additions   *)
(* interleave with each other and with creations (redis_store.go:209-213,  *)
(* 274-288, ASSUMPTIONS.md:60); a removal re-arms it.                      *)
(***************************************************************************)
UnlockedOnce == \A c \in Carts : unlocks[c] <= 1

(***************************************************************************)
(* Whatever races with the additions, and even where a join or a removal   *)
(* writes back a cart it had read before, a cart shows as unlocked only if *)
(* a CART_UNLOCKED event of it was published or is about to be: unless it  *)
(* was born unlocked, or the request that unlocked it ended before it      *)
(* could publish (redis_store.go:209-213, 274-285).                        *)
(***************************************************************************)
BornUnlocked == Total(Seeds) >= Threshold

Announced(c) ==
  \/ unlocks[c] > 0 \/ c \in unannounced \/ BornUnlocked
  \/ \E k \in Clients : Unlocking(k, c)

UnlocksAnnounced == \A c \in written : stored[c].unlocked => Announced(c)

=============================================================================
