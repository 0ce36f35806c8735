--------------------------- MODULE GroupCartProofs --------------------------
(***************************************************************************)
(* What holds of the group carts for every number of members, clients,     *)
(* carts and items, all prices and thresholds, and every interleaving of   *)
(* requests, the reaper and the clock.                                     *)
(***************************************************************************)
EXTENDS GroupCart, DataLemmas

(***************************************************************************)
(* A cart that some request has computed as a whole, and whose items come  *)
(* from the seeds or from the script.  It is plain as long as the script   *)
(* has added nothing of a negative price to it; origin is the history      *)
(* addedTo.                                                                *)
(***************************************************************************)
Sound(cart) == cart \in Cart /\ cart.total >= Total(cart.items)

Flagged(cart) ==
  /\ cart.unlocked => cart.total >= Threshold
  /\ Seeds = {} => (cart.unlocked <=> cart.total >= Threshold)

Plain(cart) ==
  /\ \A i \in cart.items : Price[i] \in Nat
  /\ cart.total = Total(cart.items)
  /\ Flagged(cart)

Discount(c, origin) == \E i \in Items : origin[i] = c /\ Price[i] < 0

Good(cart, c, origin) == Sound(cart) /\ (~Discount(c, origin) => Plain(cart))

ItemsFrom(items, origin) == \A i \in items : i \in Seeds \/ origin[i] # NoCart

-----------------------------------------------------------------------------
(* Totals.                                                                 *)
LEMMA TotalInteger ==
  ASSUME NEW items \in SUBSET Items
  PROVE  IsFiniteSet(items) /\ Total(items) \in Int
<1>1. IsFiniteSet(items)
  BY CartSetsAssumption, FS_Subset
<1>2. \A i \in items : Price[i] \in Int
  BY CartItemsAssumption
<1> QED
  BY <1>1, <1>2, SumType DEF Total

LEMMA TotalNatural ==
  ASSUME NEW items \in SUBSET Items, \A i \in items : Price[i] \in Nat
  PROVE  Total(items) \in Nat
BY TotalInteger, SumNatural DEF Total

LEMMA TotalOfUnion ==
  ASSUME NEW items \in SUBSET Items, NEW more \in SUBSET Items, items \cap more = {}
  PROVE  Total(items \cup more) = Total(items) + Total(more)
<1>1. IsFiniteSet(items) /\ IsFiniteSet(more)
  BY TotalInteger
<1>2. \A i \in items \cup more : Price[i] \in Int
  BY CartItemsAssumption
<1> QED
  BY <1>1, <1>2, SumOfUnion DEF Total

LEMMA TotalOfSubset ==
  ASSUME NEW items \in SUBSET Items, NEW some \in SUBSET items
  PROVE  Total(items) = Total(some) + Total(items \ some)
<1>1. some \in SUBSET Items /\ items \ some \in SUBSET Items
  OBVIOUS
<1>2. some \cup (items \ some) = items /\ some \cap (items \ some) = {}
  OBVIOUS
<1> QED
  BY <1>1, <1>2, TotalOfUnion

LEMMA TotalOfOne ==
  ASSUME NEW items \in SUBSET Items, NEW i \in Items \ items
  PROVE  Total(items \cup {i}) = Total(items) + Price[i]
<1>1. IsFiniteSet(items \cup {i}) /\ \A j \in items \cup {i} : Price[j] \in Int
  <2>1. items \cup {i} \in SUBSET Items
    OBVIOUS
  <2> QED
    BY <2>1, TotalInteger, CartItemsAssumption
<1>2. (items \cup {i}) \ {i} = items /\ i \in items \cup {i}
  OBVIOUS
<1>3. Total(items \cup {i}) = Price[i] + Total(items)
  BY <1>1, <1>2, SumSplit DEF Total
<1>4. Price[i] \in Int /\ Total(items) \in Int
  BY TotalInteger, CartItemsAssumption
<1> QED
  BY <1>3, <1>4

LEMMA SeedsAreItems == Seeds \in SUBSET Items
BY CartItemsAssumption DEF Seeds

LEMMA BlankCart == Blank \in Cart
BY DEF Blank, Cart

LEMMA GoodStays ==
  ASSUME NEW cart, NEW c \in Carts, NEW origin, NEW after,
         \A i \in Items : origin[i] # NoCart => after[i] = origin[i], Good(cart, c, origin)
  PROVE  Good(cart, c, after)
<1>1. Discount(c, origin) => Discount(c, after)
  BY NoCartAssumption DEF Discount
<1> QED
  BY <1>1 DEF Good

-----------------------------------------------------------------------------
(***************************************************************************)
(* What the requests compute is sound, and plain if what they start from   *)
(* is.                                                                     *)
(***************************************************************************)
LEMMA SeedTotal == Total(Seeds) \in Nat /\ \A i \in Seeds : Price[i] \in Nat
<1>1. \A i \in Seeds : Price[i] \in Nat
  BY CartItemsAssumption DEF Seeds
<1> QED
  BY <1>1, SeedsAreItems, TotalNatural

LEMMA NewCartGood ==
  ASSUME NEW k \in Clients, now \in Nat
  PROVE  /\ Sound(NewCart(k)) /\ Plain(NewCart(k)) /\ NewCart(k).status = "ACTIVE"
         /\ NewCart(k).items = Seeds
<1> DEFINE cart == NewCart(k)
<1>1. /\ cart.members \in SUBSET Members /\ cart.items = Seeds /\ cart.total = Total(Seeds)
      /\ cart.unlocked = (Total(Seeds) >= Threshold) /\ cart.status = "ACTIVE"
      /\ cart.expires = now + Ttl
  BY CartSetsAssumption DEF NewCart
<1>2. Total(Seeds) \in Int /\ now + Ttl \in Nat
  BY SeedTotal, CartNumbersAssumption
<1>3. (Total(Seeds) >= Threshold) \in BOOLEAN
  OBVIOUS
<1>4. cart \in Cart
  BY <1>1, <1>2, <1>3, SeedsAreItems DEF NewCart, Cart
<1> HIDE DEF cart
<1>5. Sound(cart)
  BY <1>1, <1>2, <1>4 DEF Sound
<1>6. Plain(cart)
  BY <1>1, SeedTotal DEF Plain, Flagged
<1> QED
  BY <1>1, <1>5, <1>6 DEF cart

LEMMA JoinedGood ==
  ASSUME NEW cart, Sound(cart), NEW k \in Clients
  PROVE  /\ Sound(Joined(cart, k))
         /\ Plain(cart) => Plain(Joined(cart, k))
         /\ Joined(cart, k).status = cart.status /\ Joined(cart, k).expires = cart.expires
         /\ Joined(cart, k).unlocked = cart.unlocked
         /\ cart.items \subseteq Joined(cart, k).items
         /\ Joined(cart, k).items \subseteq cart.items \cup Seeds
<1> DEFINE lacking == {m \in Members : \A i \in cart.items : AddedBy[i] # m}
           items   == cart.items \cup UNION {SeedsOf[m] : m \in lacking}
           total   == IF Seeds = {} THEN cart.total ELSE Total(items)
           joined  == Joined(cart, k)
<1>1. cart \in Cart /\ cart.items \in SUBSET Items /\ cart.total \in Int
      /\ cart.total >= Total(cart.items)
  BY DEF Sound, Cart
<1>2. cart.items \subseteq items /\ items \subseteq cart.items \cup Seeds /\ items \in SUBSET Items
  <2>1. UNION {SeedsOf[m] : m \in lacking} \subseteq Seeds
    BY DEF Seeds
  <2> QED
    BY <1>1, <2>1, SeedsAreItems
<1>3. joined = [cart EXCEPT !.members = cart.members \cup {k}, !.items = items, !.total = total]
  BY <1>1 DEF Joined, Cart
<1> HIDE DEF items
<1>4. Total(items) \in Int
  BY <1>2, TotalInteger
<1>5. total \in Int /\ total >= Total(items)
  <2>1. CASE Seeds = {}
    <3>1. items = cart.items
      BY <1>2, <2>1
    <3> QED
      BY <1>1, <2>1, <3>1
  <2>2. CASE Seeds # {}
    BY <1>4, <2>2
  <2> QED
    BY <2>1, <2>2
<1>6. /\ Seeds = {} => total = cart.total /\ items = cart.items
      /\ Seeds # {} => total = Total(items)
  BY <1>2
<1> HIDE DEF total, joined
<1>7. /\ joined \in Cart /\ joined.items = items /\ joined.total = total
      /\ joined.unlocked = cart.unlocked /\ joined.status = cart.status
      /\ joined.expires = cart.expires
  BY <1>1, <1>2, <1>3, <1>5, CartSetsAssumption DEF Cart
<1>8. Sound(joined)
  BY <1>5, <1>7 DEF Sound
<1>9. ASSUME Plain(cart) PROVE Plain(joined)
  <2>1. \A i \in items : Price[i] \in Nat
    BY <1>2, <1>9, SeedTotal DEF Plain
  <2>2. Total(items) >= Total(cart.items)
    <3>1. Total(items) = Total(cart.items) + Total(items \ cart.items)
      BY <1>2, TotalOfSubset
    <3>2. Total(items \ cart.items) \in Nat
      <4>1. items \ cart.items \in SUBSET Items /\ \A i \in items \ cart.items : Price[i] \in Nat
        BY <1>2, <2>1
      <4> QED
        BY <4>1, TotalNatural
    <3>3. Total(cart.items) \in Int
      BY <1>1, TotalInteger
    <3> QED
      BY <3>1, <3>2, <3>3
  <2>3. cart.total = Total(cart.items)
    BY <1>9 DEF Plain
  <2>4. total = Total(items) /\ total >= cart.total
    BY <1>4, <1>6, <2>2, <2>3
  <2>5. cart.unlocked => cart.total >= Threshold
    BY <1>9 DEF Plain, Flagged
  <2>6. joined.unlocked => joined.total >= Threshold
    BY <1>1, <1>5, <1>7, <2>4, <2>5, CartNumbersAssumption
  <2>7. Seeds = {} => (joined.unlocked <=> joined.total >= Threshold)
    BY <1>6, <1>7, <1>9 DEF Plain, Flagged
  <2> QED
    BY <1>7, <2>1, <2>4, <2>6, <2>7 DEF Plain, Flagged
<1> QED
  BY <1>2, <1>7, <1>8, <1>9 DEF joined

LEMMA WithItemGood ==
  ASSUME NEW cart, Sound(cart), NEW i \in Items \ cart.items
  PROVE  /\ Sound(WithItem(cart, i))
         /\ Plain(cart) /\ Price[i] \in Nat => Plain(WithItem(cart, i))
         /\ WithItem(cart, i).status = cart.status /\ WithItem(cart, i).expires = cart.expires
         /\ WithItem(cart, i).items = cart.items \cup {i}
         /\ WithItem(cart, i).unlocked <=> cart.unlocked \/ JustUnlocks(cart, i)
<1> DEFINE total  == cart.total + Price[i]
           joined == WithItem(cart, i)
<1>1. cart \in Cart /\ cart.items \in SUBSET Items /\ cart.total \in Int
      /\ cart.unlocked \in BOOLEAN /\ cart.total >= Total(cart.items)
  BY DEF Sound, Cart
<1>2. Price[i] \in Int /\ Threshold \in Int /\ Total(cart.items) \in Int
  BY <1>1, TotalInteger, CartItemsAssumption, CartNumbersAssumption
<1>3. total \in Int /\ Total(cart.items \cup {i}) = Total(cart.items) + Price[i]
  BY <1>1, <1>2, TotalOfOne
<1>4. /\ joined \in Cart /\ joined.items = cart.items \cup {i} /\ joined.total = total
      /\ joined.unlocked = (cart.unlocked \/ total >= Threshold)
      /\ joined.status = cart.status /\ joined.expires = cart.expires
  <2>1. (cart.unlocked \/ total >= Threshold) \in BOOLEAN /\ cart.items \cup {i} \in SUBSET Items
    BY <1>1
  <2> QED
    BY <1>1, <1>3, <2>1 DEF WithItem, Cart
<1>5. Sound(joined)
  <2>1. total >= Total(cart.items) + Price[i]
    BY <1>1, <1>2
  <2> QED
    BY <1>3, <1>4, <2>1 DEF Sound
<1>6. joined.unlocked <=> cart.unlocked \/ JustUnlocks(cart, i)
  BY <1>4 DEF JustUnlocks
<1> HIDE DEF joined
<1>7. ASSUME Plain(cart), Price[i] \in Nat PROVE Plain(joined)
  <2>1. \A j \in joined.items : Price[j] \in Nat
    BY <1>4, <1>7 DEF Plain
  <2>2. joined.total = Total(joined.items)
    BY <1>3, <1>4, <1>7 DEF Plain
  <2>3. cart.unlocked => cart.total >= Threshold
    BY <1>7 DEF Plain, Flagged
  <2>4. cart.unlocked => total >= Threshold
    BY <1>1, <1>2, <1>7, <2>3
  <2> QED
    BY <1>4, <2>1, <2>2, <2>4 DEF Plain, Flagged
<1> QED
  BY <1>4, <1>5, <1>6, <1>7 DEF joined

LEMMA WithoutGood ==
  ASSUME NEW cart, Sound(cart), NEW gone \in SUBSET cart.items
  PROVE  /\ Sound(Without(cart, gone))
         /\ Plain(cart) => Plain(Without(cart, gone))
         /\ Without(cart, gone).status = cart.status
         /\ Without(cart, gone).expires = cart.expires
         /\ Without(cart, gone).items = cart.items \ gone
         /\ Without(cart, gone).unlocked => cart.unlocked
<1> DEFINE left   == cart.total - Total(gone)
           total  == IF left < 0 THEN 0 ELSE left
           joined == Without(cart, gone)
<1>1. cart \in Cart /\ cart.items \in SUBSET Items /\ cart.total \in Int
      /\ cart.unlocked \in BOOLEAN /\ cart.total >= Total(cart.items)
  BY DEF Sound, Cart
<1>2. /\ Total(cart.items) = Total(gone) + Total(cart.items \ gone)
      /\ Total(gone) \in Int /\ Total(cart.items \ gone) \in Int /\ Threshold \in Int
  <2>1. gone \in SUBSET Items /\ cart.items \ gone \in SUBSET Items
    BY <1>1
  <2> QED
    BY <1>1, <2>1, TotalInteger, TotalOfSubset, CartNumbersAssumption
<1>3. total \in Int /\ total >= Total(cart.items \ gone)
  BY <1>1, <1>2
<1>4. joined = [cart EXCEPT !.items = cart.items \ gone, !.total = total,
                            !.unlocked = cart.unlocked /\ total >= Threshold]
  BY <1>1 DEF Without, Cart
<1>5. ASSUME Plain(cart)
      PROVE  total = Total(cart.items \ gone) /\ total <= cart.total
  <2>1. Total(gone) \in Nat /\ Total(cart.items \ gone) \in Nat
    <3>1. /\ gone \in SUBSET Items /\ cart.items \ gone \in SUBSET Items
          /\ \A i \in gone \cup (cart.items \ gone) : Price[i] \in Nat
      BY <1>1, <1>5 DEF Plain
    <3> QED
      BY <3>1, TotalNatural
  <2>2. cart.total = Total(cart.items)
    BY <1>5 DEF Plain
  <2> QED
    BY <1>2, <2>1, <2>2
<1> HIDE DEF total, joined
<1>6. /\ joined \in Cart /\ joined.items = cart.items \ gone /\ joined.total = total
      /\ joined.unlocked = (cart.unlocked /\ total >= Threshold)
      /\ joined.status = cart.status /\ joined.expires = cart.expires
  <2>1. (cart.unlocked /\ total >= Threshold) \in BOOLEAN /\ cart.items \ gone \in SUBSET Items
    BY <1>1
  <2> QED
    BY <1>1, <1>3, <1>4, <2>1 DEF Cart
<1>7. Sound(joined)
  BY <1>3, <1>6 DEF Sound
<1>8. ASSUME Plain(cart) PROVE Plain(joined)
  <2>1. \A i \in joined.items : Price[i] \in Nat
    BY <1>6, <1>8 DEF Plain
  <2>2. total = Total(cart.items \ gone) /\ total <= cart.total
    BY <1>5, <1>8
  <2>3. total >= Threshold => cart.total >= Threshold
    BY <1>1, <1>2, <1>3, <2>2
  <2>4. Flagged(joined)
    BY <1>6, <1>8, <2>3 DEF Plain, Flagged
  <2> QED
    BY <1>6, <2>1, <2>2, <2>4 DEF Plain
<1> QED
  BY <1>6, <1>7, <1>8 DEF joined

-----------------------------------------------------------------------------
(***************************************************************************)
(* The inductive invariant.  A cart id belongs to the request that will    *)
(* create it until its key is written; what a request or the reaper is     *)
(* about to write is good and keeps the expiry of what is stored, so that  *)
(* the reaper's decision stays right while others write the cart.          *)
(***************************************************************************)
PcTypes == {"idle", "joinRead", "joinWrite", "createCart", "createPointer",
            "publish", "publishBoth", "publishUnlock", "removeRead", "removeWrite"}

ClientOK(k) ==
  /\ pc[k] = "idle" => cartOf[k] = NoCart
  /\ pc[k] \notin {"idle", "createCart"} => cartOf[k] \in written
  /\ pc[k] = "createCart" =>
       /\ cartOf[k] \in Carts \ written
       /\ \A j \in Clients \ {k} : cartOf[j] # cartOf[k]
  /\ pc[k] \in {"joinWrite", "removeWrite"} => local[k].expires = stored[cartOf[k]].expires
  /\ pc[k] \in {"joinWrite", "removeWrite", "createCart"} =>
       /\ Good(local[k], cartOf[k], addedTo) /\ local[k].status = "ACTIVE"
       /\ ItemsFrom(local[k].items, addedTo)

StoredOK ==
  \A c \in written :
    /\ Good(stored[c], c, addedTo) /\ ItemsFrom(stored[c].items, addedTo)
    /\ stored[c].status = "FINALIZED" => stored[c].expires < now

ReaperOK ==
  /\ reaperPc \in {"finalizeRead", "finalizeWrite"} =>
       reaped \in written /\ stored[reaped].expires < reaperNow
  /\ reaperPc = "finalizeWrite" =>
       /\ Good(finalized, reaped, addedTo) /\ ItemsFrom(finalized.items, addedTo)
       /\ finalized.expires = stored[reaped].expires

CartInv ==
  /\ TypeOK
  /\ pointer \in written \cup {NoCart}
  /\ \A k \in Clients : ClientOK(k)
  /\ StoredOK
  /\ ReaperOK

LEMMA CartInit == Init => CartInv
<1> SUFFICES ASSUME Init PROVE CartInv
  OBVIOUS
<1>1. TypeOK
  BY BlankCart, CartNumbersAssumption DEF Init, TypeOK, NoTtl
<1>2. \A k \in Clients : ClientOK(k)
  BY DEF Init, ClientOK
<1> QED
  BY <1>1, <1>2 DEF Init, CartInv, StoredOK, ReaperOK

(***************************************************************************)
(* The steps, by what they have in common: client k goes from one point of *)
(* its request to another; a cart's key is written.                        *)
(***************************************************************************)
Moves(k) ==
  /\ pc' \in [Clients -> PcTypes] /\ cartOf' \in [Clients -> Carts \cup {NoCart}]
  /\ local' \in [Clients -> Cart] /\ wanted' \in [Clients -> Items \cup Names \cup {NoTarget}]
  /\ \A j \in Clients \ {k} : pc'[j] = pc[j] /\ cartOf'[j] = cartOf[j] /\ local'[j] = local[j]

LEMMA GoMoves ==
  ASSUME TypeOK, NEW k \in Clients, NEW to \in PcTypes, NEW c \in Carts \cup {NoCart},
         NEW cart \in Cart, Go(k, to, c, cart)
  PROVE  Moves(k) /\ pc'[k] = to /\ cartOf'[k] = c /\ local'[k] = cart
<1>1. /\ pc' \in [Clients -> PcTypes] /\ pc'[k] = to
      /\ \A j \in Clients \ {k} : pc'[j] = pc[j]
  BY DEF Go, TypeOK, PcTypes
<1>2. /\ cartOf' \in [Clients -> Carts \cup {NoCart}] /\ cartOf'[k] = c
      /\ \A j \in Clients \ {k} : cartOf'[j] = cartOf[j]
  BY DEF Go, TypeOK
<1>3. /\ local' \in [Clients -> Cart] /\ local'[k] = cart
      /\ \A j \in Clients \ {k} : local'[j] = local[j]
  BY DEF Go, TypeOK
<1>4. wanted' \in [Clients -> Items \cup Names \cup {NoTarget}]
  BY DEF Go, TypeOK
<1> QED
  BY <1>1, <1>2, <1>3, <1>4 DEF Moves

LEMMA DoneMoves ==
  ASSUME TypeOK, NEW k \in Clients, Done(k)
  PROVE  Moves(k) /\ pc'[k] = "idle" /\ cartOf'[k] = NoCart /\ local'[k] = Blank
BY BlankCart, GoMoves DEF Done, PcTypes

(* A step of client k that writes no cart. *)
LEMMA ReadOnlyStep ==
  ASSUME CartInv, NEW k \in Clients, Moves(k), ClientOK(k)',
         UNCHANGED <<now, stored, deadline, reaperVars, written, addedTo>>,
         pointer' \in written \cup {NoCart}, pointerDeadline' \in Nat,
         unlocks' \in [Carts -> Nat], unannounced' \in SUBSET Carts,
         \A j \in Clients \ {k} : pc[j] = "createCart" => cartOf'[k] # cartOf[j]
  PROVE  CartInv'
<1>1. TypeOK'
  BY DEF CartInv, TypeOK, Moves, PcTypes, reaperVars
<1>2. ASSUME NEW j \in Clients \ {k} PROVE ClientOK(j)'
  <2>1. ClientOK(j) /\ pc'[j] = pc[j] /\ cartOf'[j] = cartOf[j] /\ local'[j] = local[j]
    BY DEF CartInv, Moves
  <2>2. \A i \in Clients \ {j} : pc[j] = "createCart" => cartOf'[i] # cartOf'[j]
    BY <2>1 DEF ClientOK, Moves
  <2> QED
    BY <2>1, <2>2 DEF ClientOK
<1>3. StoredOK' /\ ReaperOK'
  BY DEF CartInv, StoredOK, ReaperOK, reaperVars
<1> QED
  BY <1>1, <1>2, <1>3 DEF CartInv

(***************************************************************************)
(* A step that writes a good cart: over the cart of the same id and        *)
(* expiry, or under a new id.  The requests of the others stay right.      *)
(***************************************************************************)
Overwrites(c, cart) == c \in written /\ cart.expires = stored[c].expires

LEMMA WriteFacts ==
  ASSUME CartInv, NEW c \in Carts, NEW cart, Good(cart, c, addedTo'), NEW ttl \in Nat,
         SetCart(c, cart, ttl), now' = now, addedTo' \in [Items -> Carts \cup {NoCart}],
         \A i \in Items : addedTo[i] # NoCart => addedTo'[i] = addedTo[i],
         ItemsFrom(cart.items, addedTo'),
         cart.status = "FINALIZED" => cart.expires < now,
         Overwrites(c, cart) \/ c \notin written
  PROVE  /\ stored' \in [Carts -> Cart] /\ deadline' \in [Carts -> Nat]
         /\ UNCHANGED <<pointer, pointerDeadline>>
         /\ written' = written \cup {c} /\ written' \subseteq Carts
         /\ stored'[c] = cart /\ \A d \in Carts \ {c} : stored'[d] = stored[d]
         /\ \A d \in written : stored'[d].expires = stored[d].expires
         /\ \A items \in SUBSET Items : ItemsFrom(items, addedTo) => ItemsFrom(items, addedTo')
         /\ \A some, d : d \in Carts /\ Good(some, d, addedTo) => Good(some, d, addedTo')
         /\ StoredOK'
<1>0. /\ stored \in [Carts -> Cart] /\ deadline \in [Carts -> Nat] /\ written \subseteq Carts
      /\ now \in Nat
  BY CartNumbersAssumption DEF CartInv, TypeOK
<1>1. /\ stored' \in [Carts -> Cart] /\ stored'[c] = cart
      /\ \A d \in Carts \ {c} : stored'[d] = stored[d]
  BY <1>0 DEF SetCart, Good, Sound
<1>2. deadline' \in [Carts -> Nat]
  BY <1>0 DEF SetCart, NoTtl
<1>3. /\ UNCHANGED <<pointer, pointerDeadline>>
      /\ written' = written \cup {c} /\ written' \subseteq Carts
  BY <1>0 DEF SetCart
<1>4. \A d \in written : stored'[d].expires = stored[d].expires
  BY <1>0, <1>1 DEF Overwrites
<1>5. \A items \in SUBSET Items : ItemsFrom(items, addedTo) => ItemsFrom(items, addedTo')
  BY NoCartAssumption DEF ItemsFrom
<1>7. ASSUME NEW some, NEW d \in Carts, Good(some, d, addedTo) PROVE Good(some, d, addedTo')
  BY <1>7, GoodStays
<1>6. ASSUME NEW d \in written'
      PROVE  /\ Good(stored'[d], d, addedTo') /\ ItemsFrom(stored'[d].items, addedTo')
             /\ stored'[d].status = "FINALIZED" => stored'[d].expires < now'
  <2>1. CASE d = c
    BY <1>1, <2>1
  <2>2. CASE d # c
    <3>1. d \in written /\ d \in Carts /\ stored'[d] = stored[d]
      BY <1>0, <1>1, <1>3, <2>2
    <3>2. Good(stored[d], d, addedTo) /\ ItemsFrom(stored[d].items, addedTo)
          /\ (stored[d].status = "FINALIZED" => stored[d].expires < now)
      BY <3>1 DEF CartInv, StoredOK
    <3>3. stored[d].items \in SUBSET Items
      BY <3>2 DEF Good, Sound, Cart
    <3>4. Good(stored[d], d, addedTo')
      BY <1>7, <3>1, <3>2
    <3> QED
      BY <1>5, <3>1, <3>2, <3>3, <3>4
  <2> QED
    BY <2>1, <2>2
<1> QED
  BY <1>1, <1>2, <1>3, <1>4, <1>5, <1>6, <1>7 DEF StoredOK

LEMMA WriteStep ==
  ASSUME CartInv, NEW k \in Clients, Moves(k), ClientOK(k)',
         NEW c \in Carts, NEW cart, Good(cart, c, addedTo'), NEW ttl \in Nat,
         SetCart(c, cart, ttl), UNCHANGED <<now, reaperVars, unlocks, unannounced>>, addedTo' \in [Items -> Carts \cup {NoCart}],
         \A i \in Items : addedTo[i] # NoCart => addedTo'[i] = addedTo[i],
         ItemsFrom(cart.items, addedTo'), cart.status = "ACTIVE",
         Overwrites(c, cart) \/ (c \notin written /\ \A j \in Clients \ {k} : cartOf[j] # c),
         \A j \in Clients \ {k} : pc[j] = "createCart" => cartOf'[k] # cartOf[j]
  PROVE  CartInv'
<1>1. /\ stored' \in [Carts -> Cart] /\ deadline' \in [Carts -> Nat]
      /\ UNCHANGED <<pointer, pointerDeadline>>
      /\ written' = written \cup {c} /\ written' \subseteq Carts
      /\ stored'[c] = cart /\ \A d \in Carts \ {c} : stored'[d] = stored[d]
      /\ \A d \in written : stored'[d].expires = stored[d].expires
      /\ \A items \in SUBSET Items : ItemsFrom(items, addedTo) => ItemsFrom(items, addedTo')
      /\ \A some, d : d \in Carts /\ Good(some, d, addedTo) => Good(some, d, addedTo')
      /\ StoredOK'
  <2>1. Overwrites(c, cart) \/ c \notin written
    OBVIOUS
  <2>2. now' = now /\ (cart.status = "FINALIZED" => cart.expires < now)
    OBVIOUS
  <2> QED
    BY <2>1, <2>2, WriteFacts
<1>2. TypeOK'
  BY <1>1 DEF CartInv, TypeOK, Moves, PcTypes, reaperVars
<1>3. ASSUME NEW j \in Clients \ {k} PROVE ClientOK(j)'
  <2>1. /\ ClientOK(j) /\ pc'[j] = pc[j] /\ cartOf'[j] = cartOf[j] /\ local'[j] = local[j]
        /\ local[j].items \in SUBSET Items
    BY DEF CartInv, Moves, TypeOK, Cart
  <2>5. pc[j] \in {"joinWrite", "removeWrite", "createCart"} => cartOf[j] \in Carts
    BY <2>1 DEF CartInv, ClientOK, TypeOK
  <2>2. \A i \in Clients \ {j} : pc[j] = "createCart" => cartOf'[i] # cartOf'[j]
    BY <2>1 DEF ClientOK, Moves
  <2>3. pc[j] = "createCart" => cartOf[j] \notin written'
    BY <1>1, <2>1 DEF ClientOK, Overwrites
  <2>4. pc[j] \in {"joinWrite", "removeWrite"} => local[j].expires = stored'[cartOf[j]].expires
    BY <1>1, <2>1 DEF ClientOK
  <2> QED
    BY <1>1, <2>1, <2>2, <2>3, <2>4, <2>5 DEF ClientOK
<1>4. ReaperOK'
  <2>1. finalized.items \in SUBSET Items /\ written \subseteq Carts
    BY DEF CartInv, TypeOK, Cart
  <2> QED
    BY <1>1, <2>1 DEF CartInv, ReaperOK, reaperVars
<1>5. pointer' \in written' \cup {NoCart}
  BY <1>1 DEF CartInv
<1> QED
  BY <1>1, <1>2, <1>3, <1>4, <1>5 DEF CartInv

-----------------------------------------------------------------------------
(* The requests, command by command. *)
LEMMA CreationPrepared ==
  ASSUME CartInv, NEW k \in Clients, PrepareCreate(k),
         UNCHANGED <<now, redisVars, reaperVars, historyVars>>
  PROVE  CartInv'
<1>0. TypeOK /\ now \in Nat /\ "createCart" \in PcTypes
  BY CartNumbersAssumption DEF CartInv, TypeOK, PcTypes
<1>1. PICK c \in Carts : FreshCart(c) /\ Go(k, "createCart", c, NewCart(k))
  BY DEF PrepareCreate
<1>2. /\ Good(NewCart(k), c, addedTo) /\ NewCart(k).status = "ACTIVE"
      /\ NewCart(k).items = Seeds /\ NewCart(k) \in Cart
  BY <1>0, NewCartGood DEF Good, Sound
<1>3. Moves(k) /\ pc'[k] = "createCart" /\ cartOf'[k] = c /\ local'[k] = NewCart(k)
  BY <1>0, <1>1, <1>2, GoMoves
<1>4. UNCHANGED <<stored, deadline, pointer, pointerDeadline, written, addedTo, unlocks,
                  unannounced>>
  BY DEF redisVars, historyVars
<1>5. \A j \in Clients : cartOf[j] # c
  BY <1>1 DEF FreshCart
<1>6. ClientOK(k)'
  BY <1>1, <1>2, <1>3, <1>4, <1>5 DEF ClientOK, FreshCart, ItemsFrom, Moves
<1> QED
  BY <1>0, <1>3, <1>4, <1>5, <1>6, ReadOnlyStep DEF CartInv, TypeOK

LEMMA JoinReadPointerStep ==
  ASSUME CartInv, NEW k \in Clients, JoinReadPointer(k)
  PROVE  CartInv'
<1>0. TypeOK /\ "joinRead" \in PcTypes
  BY DEF CartInv, PcTypes
<1>1. UNCHANGED <<now, redisVars, reaperVars, historyVars>>
  BY DEF JoinReadPointer
<1>2. CASE PrepareCreate(k)
  BY <1>1, <1>2, CreationPrepared
<1>3. CASE Pointed # NoCart /\ Go(k, "joinRead", Pointed, Blank)
  <2>1. Pointed \in written /\ Pointed \in Carts
    BY <1>0, <1>3 DEF CartInv, TypeOK, Pointed
  <2>2. Moves(k) /\ pc'[k] = "joinRead" /\ cartOf'[k] = Pointed
    BY <1>0, <1>3, <2>1, BlankCart, GoMoves
  <2>3. UNCHANGED <<stored, deadline, pointer, pointerDeadline, written, addedTo, unlocks,
                  unannounced>>
    BY <1>1 DEF redisVars, historyVars
  <2>4. ClientOK(k)'
    BY <2>1, <2>2, <2>3 DEF ClientOK
  <2>5. \A j \in Clients \ {k} : pc[j] = "createCart" => cartOf'[k] # cartOf[j]
    BY <2>1, <2>2 DEF CartInv, ClientOK
  <2> QED
    BY <1>0, <1>1, <2>2, <2>3, <2>4, <2>5, ReadOnlyStep DEF CartInv, TypeOK
<1> QED
  BY <1>2, <1>3 DEF JoinReadPointer

(* What a request that goes on with a cart it has found there needs. *)
LEMMA GoOnStep ==
  ASSUME CartInv, NEW k \in Clients, NEW to \in PcTypes \ {"createCart"}, NEW c \in Carts,
         NEW cart \in Cart, Go(k, to, c, cart), to # "idle", c \in written,
         to \in {"joinWrite", "removeWrite"} => Active(c) /\ cart = stored[c],
         UNCHANGED <<now, redisVars, reaperVars, written, addedTo, unannounced>>,
         unlocks' \in [Carts -> Nat]
  PROVE  CartInv'
<1>0. TypeOK
  BY DEF CartInv
<1>1. Moves(k) /\ pc'[k] = to /\ cartOf'[k] = c /\ local'[k] = cart
  BY <1>0, GoMoves
<1>2. UNCHANGED <<stored, deadline, pointer, pointerDeadline>>
  BY DEF redisVars
<1>3. \A j \in Clients \ {k} : pc[j] = "createCart" => cartOf'[k] # cartOf[j]
  BY <1>1 DEF CartInv, ClientOK
<1>4. ClientOK(k)'
  BY <1>1, <1>2 DEF CartInv, StoredOK, ClientOK, Active
<1> QED
  BY <1>0, <1>1, <1>2, <1>3, <1>4, ReadOnlyStep DEF CartInv, TypeOK

LEMMA DoneStep ==
  ASSUME CartInv, NEW k \in Clients, Done(k),
         UNCHANGED <<now, stored, deadline, reaperVars, written, addedTo>>,
         pointer' \in written \cup {NoCart}, pointerDeadline' \in Nat,
         unlocks' \in [Carts -> Nat], unannounced' \in SUBSET Carts
  PROVE  CartInv'
<1>0. TypeOK
  BY DEF CartInv
<1>1. Moves(k) /\ pc'[k] = "idle" /\ cartOf'[k] = NoCart
  BY <1>0, DoneMoves
<1>2. \A j \in Clients \ {k} : pc[j] = "createCart" => cartOf'[k] # cartOf[j]
  BY <1>1, NoCartAssumption DEF CartInv, ClientOK
<1>3. ClientOK(k)'
  BY <1>1 DEF ClientOK
<1> QED
  BY <1>1, <1>2, <1>3, ReadOnlyStep

LEMMA JoinReadCartStep ==
  ASSUME CartInv, NEW k \in Clients, JoinReadCart(k)
  PROVE  CartInv'
<1>1. UNCHANGED <<now, redisVars, reaperVars, historyVars>> /\ pc[k] = "joinRead"
  BY DEF JoinReadCart
<1>2. CASE PrepareCreate(k)
  BY <1>1, <1>2, CreationPrepared
<1>3. CASE Active(cartOf[k]) /\ Go(k, "joinWrite", cartOf[k], stored[cartOf[k]])
  <2>1. cartOf[k] \in written /\ cartOf[k] \in Carts /\ stored[cartOf[k]] \in Cart
    BY <1>1 DEF CartInv, ClientOK, TypeOK
  <2>2. UNCHANGED <<written, addedTo, unlocks, unannounced>>
    BY <1>1 DEF historyVars
  <2> QED
    BY <1>1, <1>3, <2>1, <2>2, GoOnStep DEF CartInv, TypeOK, PcTypes
<1> QED
  BY <1>2, <1>3 DEF JoinReadCart

LEMMA JoinWriteStep ==
  ASSUME CartInv, NEW k \in Clients, JoinWrite(k)
  PROVE  CartInv'
<1> DEFINE c    == cartOf[k]
           cart == Joined(local[k], k)
<1>0. TypeOK /\ ClientOK(k)
  BY DEF CartInv
<1>1. /\ pc[k] = "joinWrite" /\ SetCart(c, cart, 0) /\ Done(k)
      /\ UNCHANGED <<now, reaperVars, addedTo, unlocks, unannounced>>
  BY DEF JoinWrite
<1>2. /\ c \in written /\ c \in Carts /\ Good(local[k], c, addedTo) /\ local[k].status = "ACTIVE"
      /\ ItemsFrom(local[k].items, addedTo) /\ local[k].expires = stored[c].expires
  BY <1>0, <1>1 DEF ClientOK, TypeOK
<1>3. /\ Sound(cart) /\ (Plain(local[k]) => Plain(cart))
      /\ cart.status = "ACTIVE" /\ cart.expires = local[k].expires
      /\ cart.items \subseteq local[k].items \cup Seeds
  <2>1. Sound(local[k])
    BY <1>2 DEF Good
  <2> QED
    BY <1>2, <2>1, JoinedGood
<1> HIDE DEF cart, c
<1>9. Good(cart, c, addedTo')
  <2>1. Good(cart, c, addedTo)
    BY <1>2, <1>3 DEF Good
  <2> QED
    BY <1>1, <2>1
<1>4. ItemsFrom(cart.items, addedTo')
  BY <1>1, <1>2, <1>3 DEF ItemsFrom
<1>5. Moves(k) /\ pc'[k] = "idle" /\ cartOf'[k] = NoCart
  BY <1>0, <1>1, DoneMoves
<1>6. ClientOK(k)'
  BY <1>5 DEF ClientOK
<1>7. \A j \in Clients \ {k} : pc[j] = "createCart" => cartOf'[k] # cartOf[j]
  BY <1>5, NoCartAssumption DEF CartInv, ClientOK
<1>8. Overwrites(c, cart) /\ addedTo' \in [Items -> Carts \cup {NoCart}]
  BY <1>0, <1>1, <1>2, <1>3 DEF Overwrites, TypeOK
<1> QED
  BY <1>1, <1>2, <1>3, <1>4, <1>5, <1>6, <1>7, <1>8, <1>9, WriteStep

LEMMA CreateCartStep ==
  ASSUME CartInv, NEW k \in Clients, CreateCart(k)
  PROVE  CartInv'
<1> DEFINE c    == cartOf[k]
           cart == local[k]
<1>0. TypeOK /\ ClientOK(k) /\ "createPointer" \in PcTypes /\ Ttl \in Nat
  BY CartNumbersAssumption DEF CartInv, PcTypes
<1>1. /\ pc[k] = "createCart" /\ SetCart(c, cart, Ttl) /\ Go(k, "createPointer", c, Blank)
      /\ UNCHANGED <<now, reaperVars, addedTo, unlocks, unannounced>>
  BY DEF CreateCart
<1>2. /\ c \in Carts /\ c \notin written /\ \A j \in Clients \ {k} : cartOf[j] # c
      /\ Good(cart, c, addedTo) /\ cart.status = "ACTIVE" /\ ItemsFrom(cart.items, addedTo)
  BY <1>0, <1>1 DEF ClientOK
<1> HIDE DEF cart, c
<1>3. Moves(k) /\ pc'[k] = "createPointer" /\ cartOf'[k] = c
  BY <1>0, <1>1, <1>2, BlankCart, GoMoves
<1>4. ClientOK(k)'
  BY <1>1, <1>3 DEF ClientOK, SetCart
<1>5. /\ addedTo' \in [Items -> Carts \cup {NoCart}] /\ ItemsFrom(cart.items, addedTo')
      /\ Good(cart, c, addedTo')
  BY <1>0, <1>1, <1>2 DEF TypeOK
<1> QED
  BY <1>0, <1>1, <1>2, <1>3, <1>4, <1>5, WriteStep

LEMMA CreatePointerStep ==
  ASSUME CartInv, NEW k \in Clients, CreatePointer(k)
  PROVE  CartInv'
<1>0. TypeOK /\ ClientOK(k)
  BY DEF CartInv
<1>1. /\ pc[k] = "createPointer" /\ Done(k)
      /\ pointer' = cartOf[k] /\ pointerDeadline' = now + Ttl
      /\ UNCHANGED <<now, stored, deadline, reaperVars, written, addedTo, unlocks, unannounced>>
  BY DEF CreatePointer, historyVars
<1>2. cartOf[k] \in written
  BY <1>0, <1>1 DEF ClientOK
<1>3. now + Ttl \in Nat
  BY <1>0, CartNumbersAssumption DEF TypeOK
<1> QED
  BY <1>0, <1>1, <1>2, <1>3, DoneStep DEF TypeOK

LEMMA AddItemStep ==
  ASSUME CartInv, NEW k \in Clients, NEW c \in Carts, NEW i \in Items, AddItem(k, c, i)
  PROVE  CartInv'
<1> DEFINE cart == WithItem(stored[c], i)
           to   == IF JustUnlocks(stored[c], i) THEN "publishBoth" ELSE "publish"
<1>0. TypeOK
  BY DEF CartInv
<1>1. /\ pc[k] = "idle" /\ i \notin Seeds /\ addedTo[i] = NoCart /\ Active(c)
      /\ SetCart(c, cart, 0) /\ addedTo' = [addedTo EXCEPT ![i] = c] /\ Go(k, to, c, Blank)
      /\ UNCHANGED <<now, reaperVars, unlocks, unannounced>>
  BY DEF AddItem
<1>2. c \in written /\ stored[c].status = "ACTIVE"
  BY <1>1 DEF Active, Present
<1>3. Good(stored[c], c, addedTo) /\ Sound(stored[c]) /\ ItemsFrom(stored[c].items, addedTo)
  BY <1>2 DEF CartInv, StoredOK, Good
<1>4. i \in Items \ stored[c].items
  BY <1>1, <1>3 DEF ItemsFrom
<1>5. /\ Sound(cart) /\ (Plain(stored[c]) /\ Price[i] \in Nat => Plain(cart))
      /\ cart.status = "ACTIVE" /\ cart.expires = stored[c].expires
      /\ cart.items = stored[c].items \cup {i}
  BY <1>2, <1>3, <1>4, WithItemGood
<1>6. to \in {"publish", "publishBoth"} /\ to \in PcTypes
  BY DEF PcTypes
<1> HIDE DEF cart, to
<1>7. Moves(k) /\ pc'[k] = to /\ cartOf'[k] = c
  BY <1>0, <1>1, <1>6, BlankCart, GoMoves
<1>8. /\ addedTo' \in [Items -> Carts \cup {NoCart}]
      /\ \A j \in Items : addedTo[j] # NoCart => addedTo'[j] = addedTo[j]
      /\ ItemsFrom(cart.items, addedTo') /\ Good(cart, c, addedTo')
  <2>1. /\ addedTo' \in [Items -> Carts \cup {NoCart}] /\ addedTo'[i] = c /\ c # NoCart
        /\ \A j \in Items \ {i} : addedTo'[j] = addedTo[j]
    BY <1>0, <1>1, NoCartAssumption DEF TypeOK
  <2>2. stored[c].items \in SUBSET Items
    BY <1>3 DEF Sound, Cart
  <2>3. Good(cart, c, addedTo')
    <3>1. Discount(c, addedTo) => Discount(c, addedTo')
      BY <1>1, <2>1 DEF Discount
    <3>2. Price[i] \notin Nat => Discount(c, addedTo')
      BY <2>1, CartItemsAssumption DEF Discount
    <3> QED
      BY <1>3, <1>5, <3>1, <3>2 DEF Good
  <2> QED
    BY <1>1, <1>3, <1>5, <2>1, <2>2, <2>3 DEF ItemsFrom
<1>9. ClientOK(k)'
  BY <1>1, <1>2, <1>6, <1>7 DEF ClientOK, SetCart
<1>10. \A j \in Clients \ {k} : pc[j] = "createCart" => cartOf'[k] # cartOf[j]
  BY <1>2, <1>7 DEF CartInv, ClientOK
<1>11. Overwrites(c, cart)
  BY <1>2, <1>5 DEF Overwrites
<1> QED
  BY <1>1, <1>5, <1>7, <1>8, <1>9, <1>10, <1>11, WriteStep

LEMMA PublishStep ==
  ASSUME CartInv, NEW k \in Clients, PublishUpdate(k) \/ PublishUnlock(k)
  PROVE  CartInv'
<1>0. TypeOK /\ ClientOK(k) /\ "publishUnlock" \in PcTypes \ {"createCart"}
  BY DEF CartInv, PcTypes
<1>1. /\ UNCHANGED <<now, redisVars, reaperVars, written, addedTo, unannounced>>
      /\ UNCHANGED <<stored, deadline, pointer, pointerDeadline>>
  BY DEF PublishUpdate, PublishUnlock, redisVars, historyVars
<1>2. pc[k] \notin {"idle", "createCart"} /\ cartOf[k] \in written /\ cartOf[k] \in Carts
  BY <1>0 DEF PublishUpdate, PublishUnlock, ClientOK, TypeOK
<1>3. unlocks' \in [Carts -> Nat]
  BY <1>0, <1>2 DEF PublishUpdate, PublishUnlock, TypeOK, historyVars
<1>4. CASE Go(k, "publishUnlock", cartOf[k], Blank)
  BY <1>0, <1>1, <1>2, <1>3, <1>4, BlankCart, GoOnStep
<1>5. CASE Done(k)
  BY <1>0, <1>1, <1>3, <1>5, DoneStep DEF CartInv, TypeOK
<1> QED
  BY <1>4, <1>5 DEF PublishUpdate, PublishUnlock

LEMMA RemoveLookupStep ==
  ASSUME CartInv, NEW k \in Clients, NEW c \in Carts, NEW asked \in Items \cup Names,
         RemoveLookup(k, c, asked)
  PROVE  CartInv'
<1>0. TypeOK
  BY DEF CartInv
<1>1. /\ Present(c) /\ pc' = [pc EXCEPT ![k] = "removeRead"]
      /\ cartOf' = [cartOf EXCEPT ![k] = c]
      /\ UNCHANGED <<now, redisVars, local, reaperVars, historyVars>>
  BY DEF RemoveLookup
<1>2. wanted' \in [Clients -> Items \cup Names \cup {NoTarget}]
  <2>1. PICK target : /\ target \in Items \cup Names \cup {NoTarget}
                      /\ wanted' = [wanted EXCEPT ![k] = target]
    <3>1. Named(stored[c], asked) \in SUBSET Items
      BY <1>0 DEF Named, TypeOK, Cart
    <3> QED
      BY <3>1 DEF RemoveLookup
  <2> QED
    BY <1>0, <2>1 DEF TypeOK
<1>3. c \in written
  BY <1>1 DEF Present
<1>4. Moves(k) /\ pc'[k] = "removeRead" /\ cartOf'[k] = c
  BY <1>0, <1>1, <1>2 DEF Moves, TypeOK, PcTypes
<1>5. UNCHANGED <<stored, deadline, pointer, pointerDeadline, written, addedTo, unlocks,
                  unannounced>>
  BY <1>1 DEF redisVars, historyVars
<1>6. ClientOK(k)'
  BY <1>3, <1>4, <1>5 DEF ClientOK
<1>7. \A j \in Clients \ {k} : pc[j] = "createCart" => cartOf'[k] # cartOf[j]
  BY <1>3, <1>4 DEF CartInv, ClientOK
<1> QED
  BY <1>0, <1>1, <1>4, <1>5, <1>6, <1>7, ReadOnlyStep DEF CartInv, TypeOK

LEMMA RemoveReadStep ==
  ASSUME CartInv, NEW k \in Clients, RemoveRead(k)
  PROVE  CartInv'
<1>0. TypeOK /\ ClientOK(k) /\ "removeWrite" \in PcTypes \ {"createCart"}
  BY DEF CartInv, PcTypes
<1>1. /\ UNCHANGED <<now, redisVars, reaperVars, written, addedTo, unlocks, unannounced>>
      /\ UNCHANGED <<stored, deadline, pointer, pointerDeadline>>
  BY DEF RemoveRead, redisVars, historyVars
<1>2. cartOf[k] \in written /\ cartOf[k] \in Carts /\ stored[cartOf[k]] \in Cart
  BY <1>0 DEF RemoveRead, ClientOK, TypeOK
<1>3. CASE Active(cartOf[k]) /\ Go(k, "removeWrite", cartOf[k], stored[cartOf[k]])
  BY <1>0, <1>1, <1>2, <1>3, GoOnStep DEF TypeOK
<1>4. CASE Done(k)
  BY <1>0, <1>1, <1>4, DoneStep DEF CartInv, TypeOK
<1> QED
  BY <1>3, <1>4 DEF RemoveRead

LEMMA RemoveWriteStep ==
  ASSUME CartInv, NEW k \in Clients, RemoveWrite(k)
  PROVE  CartInv'
<1>0. TypeOK /\ ClientOK(k) /\ "publish" \in PcTypes
  BY DEF CartInv, PcTypes
<1>1. PICK gone \in FirstMatch(local[k], wanted[k]) :
        SetCart(cartOf[k], Without(local[k], gone), 0)
  BY DEF RemoveWrite
<1> DEFINE c    == cartOf[k]
           cart == Without(local[k], gone)
<1>2. /\ pc[k] = "removeWrite" /\ Go(k, "publish", c, Blank)
      /\ UNCHANGED <<now, reaperVars, addedTo, unlocks, unannounced>>
  BY DEF RemoveWrite
<1>3. /\ c \in written /\ c \in Carts /\ Good(local[k], c, addedTo) /\ local[k].status = "ACTIVE"
      /\ ItemsFrom(local[k].items, addedTo) /\ local[k].expires = stored[c].expires
  BY <1>0, <1>2 DEF ClientOK, TypeOK
<1>4. gone \in SUBSET local[k].items
  BY <1>1 DEF FirstMatch
<1>5. /\ Sound(cart) /\ (Plain(local[k]) => Plain(cart))
      /\ cart.status = "ACTIVE" /\ cart.expires = local[k].expires
      /\ cart.items = local[k].items \ gone
  <2>1. Sound(local[k])
    BY <1>3 DEF Good
  <2> QED
    BY <1>3, <1>4, <2>1, WithoutGood
<1>6. SetCart(c, cart, 0)
  BY <1>1
<1> HIDE DEF cart, c
<1>12. Good(cart, c, addedTo')
  <2>1. Good(cart, c, addedTo)
    BY <1>3, <1>5 DEF Good
  <2> QED
    BY <1>2, <2>1
<1>7. ItemsFrom(cart.items, addedTo')
  BY <1>2, <1>3, <1>5 DEF ItemsFrom
<1>8. Moves(k) /\ pc'[k] = "publish" /\ cartOf'[k] = c
  BY <1>0, <1>2, <1>3, BlankCart, GoMoves
<1>9. ClientOK(k)'
  BY <1>3, <1>6, <1>8 DEF ClientOK, SetCart
<1>10. \A j \in Clients \ {k} : pc[j] = "createCart" => cartOf'[k] # cartOf[j]
  BY <1>3, <1>8 DEF CartInv, ClientOK
<1>11. Overwrites(c, cart) /\ addedTo' \in [Items -> Carts \cup {NoCart}]
  BY <1>0, <1>2, <1>3, <1>5 DEF Overwrites, TypeOK
<1> QED
  BY <1>2, <1>3, <1>5, <1>6, <1>7, <1>8, <1>9, <1>10, <1>11, <1>12, WriteStep

LEMMA EndEarlyStep ==
  ASSUME CartInv, NEW k \in Clients, EndEarly(k)
  PROVE  CartInv'
<1>1. /\ Done(k)
      /\ UNCHANGED <<now, stored, deadline, pointer, pointerDeadline, reaperVars, written,
                     addedTo, unlocks>>
      /\ unannounced' = unannounced \cup {c \in Carts : Unlocking(k, c)}
  BY DEF EndEarly, redisVars
<1>2. unannounced' \in SUBSET Carts
  BY <1>1 DEF CartInv, TypeOK
<1> QED
  BY <1>1, <1>2, DoneStep DEF CartInv, TypeOK

-----------------------------------------------------------------------------
(***************************************************************************)
(* The reaper.  Its clock is behind the program's, and the expiry of the   *)
(* cart it is about to finalize is the one it has compared.                *)
(***************************************************************************)
LEMMA ReaperReadsStep ==
  ASSUME CartInv, ReapKeys \/ (\E c \in Carts : ReapCheck(c)) \/ FinalizeRead
  PROVE  CartInv'
<1>0. TypeOK /\ StoredOK /\ ReaperOK
  BY DEF CartInv
<1>1. /\ UNCHANGED <<now, stored, deadline, pointer, pointerDeadline, pc, cartOf, local, wanted,
                     written, addedTo, unlocks, unannounced>>
  BY DEF ReapKeys, ReapCheck, FinalizeRead, redisVars, requestVars, historyVars
<1>2. reaperNow' \in 0..now /\ todo' \subseteq Carts
  BY <1>0 DEF ReapKeys, ReapCheck, FinalizeRead, ReapNext, TypeOK
<1>3. /\ reaperPc' \in {"idle", "check", "finalizeRead", "finalizeWrite"}
      /\ reaped' \in Carts \cup {NoCart} /\ finalized' \in Cart
      /\ ReaperOK'
  <2>1. CASE ReapNext(todo') \/ (reaperPc' = "check" /\ UNCHANGED <<reaped, finalized>>)
    BY <1>0, <2>1, BlankCart DEF ReapNext, ReaperOK, TypeOK
  <2>2. CASE \E c \in Carts : /\ Active(c) /\ Expired(c) /\ reaperNow' = reaperNow
                              /\ reaperPc' = "finalizeRead" /\ reaped' = c /\ finalized' = finalized
    <3>1. PICK c \in Carts : /\ c \in written /\ reaperNow > stored[c].expires
                             /\ reaperPc' = "finalizeRead" /\ reaped' = c /\ finalized' = finalized
                             /\ reaperNow' = reaperNow
      BY <2>2 DEF Active, Present, Expired
    <3>2. stored[c].expires \in Nat /\ reaperNow \in Nat
      BY <1>0 DEF TypeOK, Cart
    <3>3. stored[c].expires < reaperNow
      BY <3>1, <3>2
    <3> QED
      BY <1>0, <1>1, <3>1, <3>3 DEF ReaperOK, TypeOK
  <2>3. CASE /\ reaperPc = "finalizeRead" /\ reaperPc' = "finalizeWrite"
             /\ finalized' = [stored[reaped] EXCEPT !.status = "FINALIZED"]
             /\ reaped' = reaped /\ reaperNow' = reaperNow
    <3>1. /\ reaped \in written /\ stored[reaped].expires < reaperNow
          /\ Good(stored[reaped], reaped, addedTo) /\ ItemsFrom(stored[reaped].items, addedTo)
      BY <1>0, <2>3 DEF ReaperOK, StoredOK
    <3>2. /\ finalized' \in Cart /\ finalized'.items = stored[reaped].items
          /\ finalized'.total = stored[reaped].total
          /\ finalized'.unlocked = stored[reaped].unlocked
          /\ finalized'.expires = stored[reaped].expires
      BY <2>3, <3>1 DEF Good, Sound, Cart
    <3>3. Good(finalized', reaped, addedTo)
      BY <3>1, <3>2 DEF Good, Sound, Plain, Flagged
    <3> QED
      BY <1>0, <1>1, <2>3, <3>1, <3>2, <3>3 DEF ReaperOK, TypeOK
  <2> QED
    BY <2>1, <2>2, <2>3 DEF ReapKeys, ReapCheck, FinalizeRead
<1>4. TypeOK'
  BY <1>0, <1>1, <1>2, <1>3 DEF TypeOK
<1>5. \A k \in Clients : ClientOK(k)'
  BY <1>1 DEF CartInv, ClientOK
<1>6. StoredOK'
  BY <1>0, <1>1 DEF StoredOK
<1> QED
  BY <1>1, <1>3, <1>4, <1>5, <1>6 DEF CartInv

LEMMA FinalizeWriteStep ==
  ASSUME CartInv, FinalizeWrite
  PROVE  CartInv'
<1>0. TypeOK /\ ReaperOK
  BY DEF CartInv
<1>1. /\ reaperPc = "finalizeWrite" /\ SetCart(reaped, finalized, 0) /\ ReapNext(todo)
      /\ UNCHANGED <<now, pc, cartOf, local, wanted, todo, addedTo, unlocks, unannounced>>
  BY DEF FinalizeWrite, requestVars
<1>2. /\ reaped \in written /\ reaped \in Carts /\ stored[reaped].expires < reaperNow
      /\ Good(finalized, reaped, addedTo) /\ ItemsFrom(finalized.items, addedTo)
      /\ finalized.expires = stored[reaped].expires
  BY <1>0, <1>1 DEF ReaperOK, TypeOK
<1>3. finalized.expires < now
  BY <1>0, <1>2, CartNumbersAssumption DEF TypeOK, Good, Sound, Cart
<1>4. /\ stored' \in [Carts -> Cart] /\ deadline' \in [Carts -> Nat]
      /\ UNCHANGED <<pointer, pointerDeadline>>
      /\ written' = written \cup {reaped} /\ written' \subseteq Carts
      /\ \A d \in written : stored'[d].expires = stored[d].expires
      /\ StoredOK'
  <2>1. Overwrites(reaped, finalized)
    BY <1>2 DEF Overwrites
  <2>2. /\ addedTo' \in [Items -> Carts \cup {NoCart}] /\ ItemsFrom(finalized.items, addedTo')
        /\ \A i \in Items : addedTo[i] # NoCart => addedTo'[i] = addedTo[i]
        /\ Good(finalized, reaped, addedTo')
    BY <1>0, <1>1, <1>2 DEF TypeOK
  <2>3. now' = now /\ (finalized.status = "FINALIZED" => finalized.expires < now)
    BY <1>1, <1>3
  <2> QED
    BY <1>1, <1>2, <2>1, <2>2, <2>3, WriteFacts
<1>5. written' = written
  BY <1>2, <1>4
<1>6. /\ reaperPc' \in {"idle", "check"} /\ reaped' = NoCart /\ finalized' = Blank
      /\ reaperNow' \in 0..now
  BY <1>0, <1>1 DEF ReapNext, TypeOK
<1>7. TypeOK' /\ ReaperOK'
  BY <1>0, <1>1, <1>4, <1>6, BlankCart DEF TypeOK, ReaperOK
<1>8. \A k \in Clients : ClientOK(k)'
  BY <1>1, <1>4, <1>5 DEF CartInv, ClientOK
<1> QED
  BY <1>4, <1>5, <1>7, <1>8 DEF CartInv

LEMMA ClockStep ==
  ASSUME CartInv, ClockTicks
  PROVE  CartInv'
<1>0. TypeOK /\ now \in Nat /\ MaxTime \in Nat
  BY CartNumbersAssumption DEF CartInv, TypeOK
<1>1. /\ now < MaxTime /\ now' = now + 1
      /\ UNCHANGED <<stored, deadline, pointer, pointerDeadline, pc, cartOf, local, wanted,
                     reaperPc, todo, reaperNow, reaped, finalized, written, addedTo, unlocks,
                     unannounced>>
  BY DEF ClockTicks, redisVars, requestVars, reaperVars, historyVars
<1>2. now' \in 1..(IF MaxTime > 1 THEN MaxTime ELSE 1) /\ reaperNow' \in 0..now'
  BY <1>0, <1>1 DEF TypeOK
<1>3. TypeOK'
  BY <1>0, <1>1, <1>2 DEF TypeOK
<1>4. \A k \in Clients : ClientOK(k)'
  BY <1>1 DEF CartInv, ClientOK
<1>5. StoredOK'
  <2> SUFFICES ASSUME NEW c \in written
               PROVE  /\ Good(stored[c], c, addedTo) /\ ItemsFrom(stored[c].items, addedTo)
                      /\ stored[c].status = "FINALIZED" => stored[c].expires < now'
    BY <1>1 DEF StoredOK
  <2>1. stored[c].expires \in Nat
    BY <1>0 DEF TypeOK, Cart
  <2> QED
    BY <1>0, <1>1, <2>1 DEF CartInv, StoredOK
<1>6. ReaperOK'
  BY <1>1 DEF CartInv, ReaperOK
<1> QED
  BY <1>1, <1>3, <1>4, <1>5, <1>6 DEF CartInv

LEMMA CartStep == CartInv /\ [Next]_vars => CartInv'
<1> SUFFICES ASSUME CartInv, [Next]_vars PROVE CartInv'
  OBVIOUS
<1>1. ASSUME NEW k \in Clients, Request(k) PROVE CartInv'
  BY <1>1, JoinReadPointerStep, AddItemStep, RemoveLookupStep DEF Request
<1>2. ASSUME NEW k \in Clients, Continue(k) PROVE CartInv'
  BY <1>2, JoinReadCartStep, JoinWriteStep, CreateCartStep, CreatePointerStep, PublishStep,
     RemoveReadStep, RemoveWriteStep
     DEF Continue
<1>3. ASSUME NEW k \in Clients, EndEarly(k) PROVE CartInv'
  BY <1>3, EndEarlyStep
<1>4. CASE Reaper
  BY <1>4, ReaperReadsStep, FinalizeWriteStep DEF Reaper
<1>5. CASE ClockTicks
  BY <1>5, ClockStep
<1>6. CASE UNCHANGED vars
  BY <1>6 DEF vars, redisVars, requestVars, reaperVars, historyVars, CartInv, TypeOK, ClientOK,
              StoredOK, ReaperOK
<1> QED
  BY <1>1, <1>2, <1>3, <1>4, <1>5, <1>6 DEF Next

LEMMA CartInvariant == Spec => []CartInv
BY CartInit, CartStep, PTL DEF Spec

-----------------------------------------------------------------------------
(* Type correctness of Redis, the requests and the reaper. *)
THEOREM CartTypesCorrect == Spec => []TypeOK
<1>1. CartInv => TypeOK
  BY DEF CartInv
<1> QED
  BY <1>1, CartInvariant, PTL

(***************************************************************************)
(* The bill of a cart, to the last unit: each item is of exactly one of    *)
(* those who have a share.                                                 *)
(***************************************************************************)
LEMMA SharesAddUp ==
  ASSUME NEW cart \in Cart
  PROVE  SumFunction(MemberTotals(cart)) = Total(cart.items)
<1> DEFINE payers == cart.members \cup {AddedBy[i] : i \in cart.items}
<1>1. cart.items \in SUBSET Items /\ cart.members \in SUBSET Members
  BY DEF Cart
<1>2. payers \in SUBSET Members /\ \A i \in cart.items : AddedBy[i] \in payers
  BY <1>1, CartItemsAssumption
<1>3. MemberTotals(cart)
        = [m \in payers |-> SumFunctionOnSet(Price, {i \in cart.items : AddedBy[i] = m})]
  BY DEF MemberTotals, Total
<1>4. IsFiniteSet(payers)
  BY <1>2, CartSetsAssumption, FS_Subset
<1>5. IsFiniteSet(cart.items) /\ \A i \in cart.items : Price[i] \in Int
  BY <1>1, TotalInteger, CartItemsAssumption
<1> HIDE DEF payers
<1>6. SumFunction([m \in payers |-> SumFunctionOnSet(Price, {i \in cart.items : AddedBy[i] = m})])
        = SumFunctionOnSet(Price, cart.items)
  BY <1>2, <1>4, <1>5, SumOfParts
<1> QED
  BY <1>3, <1>6 DEF Total

(***************************************************************************)
(* Whatever overwrites what, a stored cart is one that a request computed  *)
(* as a whole: its items add up, its bill can be split, and its unlock     *)
(* flag is right, as long as nothing of a negative price was added to it   *)
(* (redis_store.go:140, 206-213, 313-321, billsplit.go:20-34); after that, *)
(* its total is no less than what its items cost.                          *)
(***************************************************************************)
THEOREM StoredCartsStayConsistent == Spec => []StoredCartConsistent
<1>1. CartInv => StoredCartConsistent
  <2> SUFFICES ASSUME CartInv, NEW c \in written
               PROVE  /\ stored[c].total >= Total(stored[c].items)
                      /\ ~Discounted(c) =>
                           /\ BillSplits(stored[c])
                           /\ SumFunction(MemberTotals(stored[c])) = stored[c].total
                           /\ stored[c].unlocked => stored[c].total >= Threshold
                           /\ Seeds = {} => (stored[c].unlocked <=> stored[c].total >= Threshold)
    BY DEF StoredCartConsistent
  <2>1. Sound(stored[c]) /\ (~Discounted(c) => Plain(stored[c]))
    BY DEF CartInv, StoredOK, Good, Discount, Discounted
  <2>2. SumFunction(MemberTotals(stored[c])) = Total(stored[c].items)
    BY <2>1, SharesAddUp DEF Sound
  <2> QED
    BY <2>1, <2>2 DEF Sound, Plain, Flagged, BillSplits
<1> QED
  BY <1>1, CartInvariant, PTL

(***************************************************************************)
(* The reaper finalizes no cart before its time, although others write the *)
(* cart between its comparison and its SET (reaper.go:66-76).              *)
(***************************************************************************)
THEOREM NeverFinalizedEarly == Spec => []FinalizedOnlyAfterExpiry
<1>1. CartInv => FinalizedOnlyAfterExpiry
  <2> SUFFICES ASSUME CartInv, NEW c \in written, stored[c].status = "FINALIZED"
               PROVE  now > stored[c].expires
    BY DEF FinalizedOnlyAfterExpiry
  <2>1. stored[c].expires < now
    BY DEF CartInv, StoredOK
  <2>2. stored[c].expires \in Nat /\ now \in Nat
    BY CartNumbersAssumption DEF CartInv, TypeOK, Cart
  <2> QED
    BY <2>1, <2>2
<1> QED
  BY <1>1, CartInvariant, PTL

(***************************************************************************)
(* What overlapping requests can cost (redis_store.go:81-125, 302-329,     *)
(* 355-365): a request takes out at most one of the items it has read, one *)
(* it was asked for, and brings back only items it has read, or seeds.     *)
(***************************************************************************)
NothingWritten == \A c \in Carts : Lost(c) = {} /\ Gained(c) = {}

RequestLoses(k, c) ==
  /\ Cardinality(Lost(c) \cap local[k].items) <= 1
  /\ \A i \in Lost(c) \cap local[k].items : Asked(k, i)
  /\ Gained(c) \subseteq local[k].items \cup Seeds

LEMMA NothingTaken ==
  ASSUME NEW k \in Clients, NEW c \in Carts, Lost(c) \cap local[k].items = {},
         Gained(c) \subseteq local[k].items \cup Seeds
  PROVE  RequestLoses(k, c)
<1>1. Cardinality(Lost(c) \cap local[k].items) = 0
  BY FS_EmptySet
<1>2. \A i \in Lost(c) \cap local[k].items : Asked(k, i)
  OBVIOUS
<1>3. Cardinality(Lost(c) \cap local[k].items) <= 1
  BY <1>1
<1> QED
  BY <1>2, <1>3 DEF RequestLoses

LEMMA RequestLosesOnlyUnread ==
  ASSUME CartInv, NEW k \in Clients, NEW c \in Carts, cartOf[k] = c,
         Request(k) \/ Continue(k) \/ EndEarly(k)
  PROVE  RequestLoses(k, c)
<1>0. /\ TypeOK /\ ClientOK(k) /\ pc[k] # "idle"
      /\ stored \in [Carts -> Cart]
  BY NoCartAssumption
     DEF CartInv, TypeOK, ClientOK, Request, JoinReadPointer, AddItem, RemoveLookup,
         Continue, EndEarly
<1>1. ~Request(k)
  BY <1>0 DEF Request, JoinReadPointer, AddItem, RemoveLookup
<1>2. CASE UNCHANGED stored
  BY <1>2, NothingTaken DEF Lost, Gained
<1>3. CASE JoinWrite(k)
  <2>1. pc[k] = "joinWrite" /\ stored' = [stored EXCEPT ![c] = Joined(local[k], k)]
    BY <1>3 DEF JoinWrite, SetCart
  <2>2. Sound(local[k])
    BY <1>0, <2>1 DEF ClientOK, Good
  <2>3. stored'[c].items = Joined(local[k], k).items
    BY <1>0, <2>1
  <2>4. /\ Lost(c) \cap local[k].items = {}
        /\ Gained(c) \subseteq local[k].items \cup Seeds
    BY <2>2, <2>3, JoinedGood DEF Lost, Gained
  <2> QED
    BY <2>4, NothingTaken
<1>4. CASE CreateCart(k)
  <2>1. stored' = [stored EXCEPT ![c] = local[k]]
    BY <1>4 DEF CreateCart, SetCart
  <2>2. stored'[c].items = local[k].items
    BY <1>0, <2>1
  <2>3. /\ Lost(c) \cap local[k].items = {}
        /\ Gained(c) \subseteq local[k].items \cup Seeds
    BY <2>2 DEF Lost, Gained
  <2> QED
    BY <2>3, NothingTaken
<1>5. CASE RemoveWrite(k)
  <2>1. pc[k] = "removeWrite"
    BY <1>5 DEF RemoveWrite
  <2>2. PICK gone \in FirstMatch(local[k], wanted[k]) :
          stored' = [stored EXCEPT ![c] = Without(local[k], gone)]
    BY <1>5 DEF RemoveWrite, SetCart
  <2>3. Sound(local[k]) /\ gone \in SUBSET local[k].items
    BY <1>0, <2>1, <2>2 DEF ClientOK, FirstMatch, Good
  <2>4. stored'[c].items = local[k].items \ gone
    BY <1>0, <2>2, <2>3, WithoutGood
  <2>5. /\ Lost(c) \cap local[k].items \subseteq gone
        /\ Gained(c) \subseteq local[k].items \cup Seeds
    BY <2>4 DEF Lost, Gained
  <2>6. CASE gone = {}
    <3>1. Lost(c) \cap local[k].items = {}
      BY <2>5, <2>6
    <3> QED
      BY <2>5, <3>1, NothingTaken
  <2>7. CASE \E i \in local[k].items : gone = {i} /\ Asked(k, i)
    <3>1. PICK i \in local[k].items : gone = {i} /\ Asked(k, i)
      BY <2>7
    <3>2. Lost(c) \cap local[k].items \in {{}, {i}}
      BY <2>5, <3>1
    <3>3. Cardinality({i}) = 1
      BY FS_Singleton
    <3>4. Cardinality(Lost(c) \cap local[k].items) <= 1
      <4>1. CASE Lost(c) \cap local[k].items = {}
        BY <2>5, <4>1, NothingTaken DEF RequestLoses
      <4>2. CASE Lost(c) \cap local[k].items = {i}
        <5>1. Cardinality(Lost(c) \cap local[k].items) = 1
          BY <3>3, <4>2
        <5> QED
          BY <5>1
      <4> QED
        BY <3>2, <4>1, <4>2
    <3> QED
      BY <2>5, <3>1, <3>4 DEF RequestLoses
  <2> QED
    BY <2>1, <2>2, <2>6, <2>7 DEF FirstMatch, Asked
<1> QED
  BY <1>1, <1>2, <1>3, <1>4, <1>5
     DEF Continue, JoinReadCart, CreatePointer, PublishUpdate, PublishUnlock, RemoveRead, EndEarly,
         redisVars

Alone(k) ==
  \A j \in Clients \ {k} : pc'[j] = pc[j] /\ cartOf'[j] = cartOf[j] /\ local'[j] = local[j]

LEMMA OthersKeep ==
  ASSUME TypeOK, NEW k \in Clients, Request(k) \/ Continue(k) \/ EndEarly(k)
  PROVE  Alone(k) /\ UNCHANGED reaperVars
BY DEF TypeOK, Request, JoinReadPointer, PrepareCreate, AddItem, RemoveLookup, Continue,
       JoinReadCart, JoinWrite, CreateCart, CreatePointer, PublishUpdate, PublishUnlock,
       RemoveRead, RemoveWrite, EndEarly, Done, Go, Alone

THEOREM RequestsLoseOnlyUnread == Spec => LosesOnlyUnread
<1>1. CartInv /\ [Next]_vars =>
        [\A c \in Carts : stored'[c] # stored[c] =>
           /\ \A k \in Clients : cartOf[k] = c /\ pc'[k] # pc[k] =>
                LET taken == Lost(c) \cap local[k].items IN
                /\ Cardinality(taken) <= 1 /\ \A i \in taken : Asked(k, i)
                /\ Gained(c) \subseteq local[k].items \cup Seeds
           /\ reaped = c /\ reaperPc' # reaperPc =>
                /\ Lost(c) \cap finalized.items = {}
                /\ Gained(c) \subseteq finalized.items]_vars
  <2> SUFFICES ASSUME CartInv, Next, NEW c \in Carts
               PROVE  /\ \A k \in Clients : cartOf[k] = c /\ pc'[k] # pc[k] => RequestLoses(k, c)
                      /\ reaped = c /\ reaperPc' # reaperPc =>
                           /\ Lost(c) \cap finalized.items = {}
                           /\ Gained(c) \subseteq finalized.items
    BY DEF RequestLoses
  <2>0. TypeOK
    BY DEF CartInv
  <2>1. ASSUME NEW j \in Clients, Request(j) \/ Continue(j) \/ EndEarly(j)
        PROVE  /\ \A k \in Clients : cartOf[k] = c /\ pc'[k] # pc[k] => RequestLoses(k, c)
               /\ reaperPc' = reaperPc
    <3>1. reaperPc' = reaperPc /\ \A k \in Clients \ {j} : pc'[k] = pc[k]
      BY <2>0, <2>1, OthersKeep DEF Alone, reaperVars
    <3>2. cartOf[j] = c => RequestLoses(j, c)
      BY <2>1, RequestLosesOnlyUnread
    <3> QED
      BY <3>1, <3>2
  <2>2. CASE Reaper
    <3>1. UNCHANGED pc
      BY <2>2 DEF Reaper, ReapKeys, ReapCheck, FinalizeRead, FinalizeWrite, requestVars
    <3>2. CASE UNCHANGED stored
      BY <3>1, <3>2 DEF Lost, Gained
    <3>3. CASE FinalizeWrite /\ reaped = c
      <4>1. stored'[c].items = finalized.items
        BY <2>0, <3>3 DEF FinalizeWrite, SetCart, TypeOK
      <4> QED
        BY <3>1, <4>1 DEF Lost, Gained
    <3>4. CASE FinalizeWrite /\ reaped # c
      BY <3>1, <3>4
    <3> QED
      BY <2>2, <3>2, <3>3, <3>4 DEF Reaper, ReapKeys, ReapCheck, FinalizeRead, redisVars
  <2>3. CASE ClockTicks
    BY <2>3 DEF ClockTicks, requestVars, reaperVars
  <2> QED
    BY <2>1, <2>2, <2>3 DEF Next
<1> QED
  BY <1>1, CartInvariant, PTL DEF Spec, LosesOnlyUnread

-----------------------------------------------------------------------------
(***************************************************************************)
(* An unlocked cart was announced.  The copies that requests and the       *)
(* reaper hold matter as much as what is stored, since they write them     *)
(* back; and what is announced stays so: an event on its way is published  *)
(* or its request ends.                                                    *)
(***************************************************************************)
CopiesAnnounced(k) ==
  /\ pc[k] \in {"joinWrite", "removeWrite"} /\ local[k].unlocked => Announced(cartOf[k])
  /\ pc[k] = "createCart" /\ local[k].unlocked => BornUnlocked

UnlockInv ==
  /\ CartInv
  /\ UnlocksAnnounced
  /\ \A k \in Clients : CopiesAnnounced(k)
  /\ reaperPc = "finalizeWrite" /\ finalized.unlocked => Announced(reaped)

StaysAnnounced == \A c \in Carts : Announced(c) => Announced(c)'

LEMMA UnlockInit == Init => UnlockInv
BY CartInit DEF Init, UnlockInv, UnlocksAnnounced, CopiesAnnounced

LEMMA AnnouncedByClients ==
  ASSUME CartInv, NEW k \in Clients, Request(k) \/ Continue(k) \/ EndEarly(k)
  PROVE  StaysAnnounced
<1> SUFFICES ASSUME NEW c \in Carts, Announced(c) PROVE Announced(c)'
  BY DEF StaysAnnounced
<1>0. TypeOK /\ Alone(k)
  BY OthersKeep DEF CartInv
<1>1. \A j \in Clients \ {k} : Unlocking(j, c) => Unlocking(j, c)'
  BY <1>0 DEF Alone, Unlocking
<1>2. /\ unlocks[c] \in Nat /\ unlocks'[c] \in Nat /\ unlocks'[c] >= unlocks[c]
      /\ PublishUnlock(k) /\ cartOf[k] = c => unlocks'[c] > 0
  <2>1. CASE PublishUnlock(k)
    <3>1. unlocks' = [unlocks EXCEPT ![cartOf[k]] = @ + 1]
      BY <2>1 DEF PublishUnlock
    <3>2. unlocks[c] \in Nat /\ unlocks'[c] = IF c = cartOf[k] THEN unlocks[c] + 1 ELSE unlocks[c]
      BY <1>0, <3>1 DEF TypeOK
    <3> QED
      BY <3>2
  <2>2. CASE ~PublishUnlock(k)
    <3>1. unlocks' = unlocks
      BY <2>2 DEF Request, JoinReadPointer, AddItem, RemoveLookup, Continue, JoinReadCart, JoinWrite,
                  CreateCart, CreatePointer, PublishUpdate, RemoveRead, RemoveWrite, EndEarly,
                  historyVars
    <3> QED
      BY <1>0, <2>2, <3>1 DEF TypeOK
  <2> QED
    BY <2>1, <2>2
<1>3. unannounced \subseteq unannounced'
  BY DEF Request, JoinReadPointer, AddItem, RemoveLookup, Continue, JoinReadCart, JoinWrite,
         CreateCart, CreatePointer, PublishUpdate, PublishUnlock, RemoveRead, RemoveWrite, EndEarly,
         historyVars
<1>4. Unlocking(k, c) => unlocks'[c] > 0 \/ c \in unannounced' \/ Unlocking(k, c)'
  <2>1. SUFFICES ASSUME Unlocking(k, c) PROVE unlocks'[c] > 0 \/ c \in unannounced' \/ Unlocking(k, c)'
    OBVIOUS
  <2>2. PublishUnlock(k) \/ EndEarly(k) \/ (PublishUpdate(k) /\ pc[k] = "publishBoth")
    BY <2>1 DEF Unlocking, Request, JoinReadPointer, AddItem, RemoveLookup, Continue, JoinReadCart,
                JoinWrite, CreateCart, CreatePointer, PublishUpdate, RemoveRead, RemoveWrite
  <2>3. CASE PublishUnlock(k)
    BY <1>2, <2>1, <2>3 DEF Unlocking
  <2>4. CASE EndEarly(k)
    BY <2>1, <2>4 DEF EndEarly
  <2>5. CASE PublishUpdate(k) /\ pc[k] = "publishBoth"
    <3>1. Go(k, "publishUnlock", cartOf[k], Blank)
      BY <2>5 DEF PublishUpdate
    <3>2. "publishUnlock" \in PcTypes /\ cartOf[k] \in Carts \cup {NoCart}
      BY <1>0 DEF PcTypes, TypeOK
    <3>3. pc'[k] = "publishUnlock" /\ cartOf'[k] = cartOf[k]
      BY <1>0, <3>1, <3>2, BlankCart, GoMoves
    <3> QED
      BY <2>1, <3>3 DEF Unlocking
  <2> QED
    BY <2>2, <2>3, <2>4, <2>5
<1>5. CASE unlocks[c] > 0
  <2>1. unlocks'[c] > 0
    BY <1>2, <1>5
  <2> QED
    BY <2>1 DEF Announced
<1>6. CASE c \in unannounced \/ BornUnlocked
  BY <1>3, <1>6 DEF Announced, BornUnlocked
<1>7. CASE \E j \in Clients : Unlocking(j, c)
  BY <1>1, <1>4, <1>7 DEF Announced
<1> QED
  BY <1>5, <1>6, <1>7 DEF Announced

(* The write of a cart that is unlocked only if it is announced. *)
LEMMA AnnouncedWrite ==
  ASSUME CartInv, UnlocksAnnounced, StaysAnnounced, NEW c \in Carts, NEW cart,
         stored' = [stored EXCEPT ![c] = cart], written' = written \cup {c},
         cart.unlocked => Announced(c)'
  PROVE  UnlocksAnnounced'
<1> SUFFICES ASSUME NEW d \in written', stored'[d].unlocked PROVE Announced(d)'
  BY DEF UnlocksAnnounced
<1>1. written \subseteq Carts /\ stored \in [Carts -> Cart]
  BY DEF CartInv, TypeOK
<1>2. CASE d = c
  BY <1>1, <1>2
<1>3. CASE d # c
  BY <1>1, <1>3 DEF UnlocksAnnounced, StaysAnnounced
<1> QED
  BY <1>2, <1>3

LEMMA CartsAnnouncedByClients ==
  ASSUME UnlockInv, NEW k \in Clients, Request(k) \/ Continue(k) \/ EndEarly(k), StaysAnnounced
  PROVE  UnlocksAnnounced'
<1> DEFINE c == cartOf[k]
<1>0. TypeOK /\ CartInv /\ ClientOK(k) /\ CopiesAnnounced(k) /\ UnlocksAnnounced
  BY DEF UnlockInv, CartInv
<1>1. CASE UNCHANGED <<stored, written>>
  <2>1. written \subseteq Carts
    BY <1>0 DEF TypeOK
  <2> QED
    BY <1>0, <1>1, <2>1 DEF UnlocksAnnounced, StaysAnnounced
<1>2. CASE JoinWrite(k)
  <2>1. /\ pc[k] = "joinWrite" /\ stored' = [stored EXCEPT ![c] = Joined(local[k], k)]
        /\ written' = written \cup {c}
    BY <1>2 DEF JoinWrite, SetCart
  <2>2. c \in Carts /\ Sound(local[k])
    BY <1>0, <2>1 DEF ClientOK, TypeOK, Good
  <2>3. Joined(local[k], k).unlocked = local[k].unlocked
    BY <2>2, JoinedGood
  <2>4. PICK d \in Carts : d = c
    BY <2>2
  <2>5. local[k].unlocked => Announced(d)'
    BY <1>0, <2>1, <2>4 DEF CopiesAnnounced, StaysAnnounced
  <2> QED
    BY <1>0, <2>1, <2>3, <2>4, <2>5, AnnouncedWrite
<1>3. CASE CreateCart(k)
  <2>1. /\ pc[k] = "createCart" /\ stored' = [stored EXCEPT ![c] = local[k]]
        /\ written' = written \cup {c}
    BY <1>3 DEF CreateCart, SetCart
  <2>2. PICK d \in Carts : d = c
    BY <1>0, <2>1 DEF ClientOK
  <2>3. local[k].unlocked => Announced(d)'
    BY <1>0, <2>1 DEF CopiesAnnounced, Announced, BornUnlocked
  <2> QED
    BY <1>0, <2>1, <2>2, <2>3, AnnouncedWrite
<1>4. ASSUME NEW d \in Carts, NEW i \in Items, AddItem(k, d, i) PROVE UnlocksAnnounced'
  <2> DEFINE to == IF JustUnlocks(stored[d], i) THEN "publishBoth" ELSE "publish"
  <2>1. /\ Active(d) /\ i \notin Seeds /\ addedTo[i] = NoCart
        /\ stored' = [stored EXCEPT ![d] = WithItem(stored[d], i)]
        /\ written' = written \cup {d} /\ Go(k, to, d, Blank)
    BY <1>4 DEF AddItem, SetCart
  <2>2. d \in written /\ Sound(stored[d]) /\ i \in Items \ stored[d].items
    BY <1>0, <2>1 DEF Active, Present, CartInv, StoredOK, Good, ItemsFrom
  <2>3. WithItem(stored[d], i).unlocked <=> stored[d].unlocked \/ JustUnlocks(stored[d], i)
    BY <2>2, WithItemGood
  <2>4. stored[d].unlocked => Announced(d)'
    BY <1>0, <2>2 DEF UnlocksAnnounced, StaysAnnounced
  <2>5. JustUnlocks(stored[d], i) => Announced(d)'
    <3>1. to \in PcTypes /\ (JustUnlocks(stored[d], i) => to = "publishBoth")
      BY DEF PcTypes
    <3> HIDE DEF to
    <3>2. pc'[k] = to /\ cartOf'[k] = d
      BY <1>0, <2>1, <3>1, BlankCart, GoMoves
    <3> QED
      BY <3>1, <3>2 DEF Announced, Unlocking
  <2> QED
    BY <1>0, <2>1, <2>3, <2>4, <2>5, AnnouncedWrite
<1>5. CASE RemoveWrite(k)
  <2>1. PICK gone \in FirstMatch(local[k], wanted[k]) :
          /\ stored' = [stored EXCEPT ![c] = Without(local[k], gone)]
          /\ written' = written \cup {c}
    BY <1>5 DEF RemoveWrite, SetCart
  <2>2. pc[k] = "removeWrite" /\ gone \in SUBSET local[k].items
    BY <1>5, <2>1 DEF RemoveWrite, FirstMatch
  <2>3. c \in Carts /\ Sound(local[k])
    BY <1>0, <2>2 DEF ClientOK, TypeOK, Good
  <2>4. Without(local[k], gone).unlocked => local[k].unlocked
    BY <2>2, <2>3, WithoutGood
  <2>5. PICK d \in Carts : d = c
    BY <2>3
  <2>6. local[k].unlocked => Announced(d)'
    BY <1>0, <2>2, <2>5 DEF CopiesAnnounced, StaysAnnounced
  <2> QED
    BY <1>0, <2>1, <2>4, <2>5, <2>6, AnnouncedWrite
<1> QED
  BY <1>1, <1>2, <1>3, <1>4, <1>5
     DEF Request, JoinReadPointer, RemoveLookup, Continue, JoinReadCart, CreatePointer,
         PublishUpdate, PublishUnlock, RemoveRead, EndEarly, redisVars, historyVars

LEMMA CopiesStayAnnounced ==
  ASSUME UnlockInv, NEW k \in Clients, StaysAnnounced,
         UNCHANGED <<pc[k], cartOf[k], local[k]>>
  PROVE  CopiesAnnounced(k)'
<1>1. CopiesAnnounced(k) /\ ClientOK(k) /\ TypeOK
  BY DEF UnlockInv, CartInv
<1>2. pc[k] \in {"joinWrite", "removeWrite"} => cartOf[k] \in Carts
  BY <1>1 DEF ClientOK, TypeOK
<1>3. pc[k] \in {"joinWrite", "removeWrite"} /\ Announced(cartOf[k]) => Announced(cartOf[k])'
  <2> SUFFICES ASSUME pc[k] \in {"joinWrite", "removeWrite"}, Announced(cartOf[k])
               PROVE  Announced(cartOf[k])'
    OBVIOUS
  <2>1. PICK d \in Carts : d = cartOf[k]
    BY <1>2
  <2>2. Announced(d)'
    BY <2>1 DEF StaysAnnounced
  <2> QED
    BY <2>1, <2>2 DEF Announced, Unlocking
<1> QED
  BY <1>1, <1>3 DEF CopiesAnnounced, BornUnlocked

LEMMA OwnCopyAnnounced ==
  ASSUME UnlockInv, NEW k \in Clients, Request(k) \/ Continue(k) \/ EndEarly(k), StaysAnnounced
  PROVE  CopiesAnnounced(k)'
<1>0. TypeOK /\ CartInv /\ ClientOK(k) /\ UnlocksAnnounced /\ now \in Nat
  BY CartNumbersAssumption DEF UnlockInv, CartInv, TypeOK
<1>1. CASE pc'[k] \notin {"joinWrite", "removeWrite", "createCart"}
  BY <1>1 DEF CopiesAnnounced
<1>2. CASE \E to \in {"joinWrite", "removeWrite"}, d \in written :
              Go(k, to, d, stored[d])
  <2>1. PICK to \in {"joinWrite", "removeWrite"}, d \in written : Go(k, to, d, stored[d])
    BY <1>2
  <2>2. d \in Carts /\ stored[d] \in Cart /\ to \in PcTypes
    BY <1>0 DEF TypeOK, PcTypes
  <2>3. pc'[k] = to /\ cartOf'[k] = d /\ local'[k] = stored[d]
    BY <1>0, <2>1, <2>2, GoMoves
  <2>4. stored[d].unlocked => Announced(d)'
    BY <1>0, <2>2 DEF UnlocksAnnounced, StaysAnnounced
  <2> QED
    BY <2>1, <2>3, <2>4 DEF CopiesAnnounced, Announced, Unlocking
<1>3. CASE PrepareCreate(k)
  <2>1. PICK d \in Carts : Go(k, "createCart", d, NewCart(k))
    BY <1>3 DEF PrepareCreate
  <2>2. NewCart(k) \in Cart /\ "createCart" \in PcTypes
    BY <1>0, NewCartGood DEF Sound, PcTypes
  <2>3. pc'[k] = "createCart" /\ local'[k] = NewCart(k)
    BY <1>0, <2>1, <2>2, GoMoves
  <2>4. NewCart(k).unlocked = BornUnlocked
    BY DEF NewCart, BornUnlocked
  <2> QED
    BY <2>3, <2>4 DEF CopiesAnnounced, BornUnlocked
<1>4. Continue(k) => pc[k] # "idle" /\ (pc[k] \in {"joinRead", "removeRead"} => cartOf[k] \in written)
  BY <1>0 DEF ClientOK, Continue, JoinReadCart, JoinWrite, CreateCart, CreatePointer,
              PublishUpdate, PublishUnlock, RemoveRead, RemoveWrite
<1>5. ASSUME NEW to \in PcTypes \ {"joinWrite", "removeWrite", "createCart"},
             NEW d \in Carts \cup {NoCart}, Go(k, to, d, Blank)
      PROVE  pc'[k] \notin {"joinWrite", "removeWrite", "createCart"}
  BY <1>0, <1>5, BlankCart, GoMoves
<1>6. Done(k) => pc'[k] \notin {"joinWrite", "removeWrite", "createCart"}
  BY <1>0, DoneMoves
<1>7. cartOf[k] \in Carts \cup {NoCart} /\ Pointed \in Carts \cup {NoCart}
  BY <1>0 DEF TypeOK, Pointed
<1>8. /\ {"joinRead", "createPointer", "publish", "publishBoth", "publishUnlock", "idle"}
           \subseteq PcTypes \ {"joinWrite", "removeWrite", "createCart"}
  BY DEF PcTypes
<1>9. CASE Request(k)
  <2>1. CASE JoinReadPointer(k)
    BY <1>1, <1>3, <1>5, <1>7, <1>8, <2>1 DEF JoinReadPointer
  <2>2. ASSUME NEW d \in Carts, NEW i \in Items, AddItem(k, d, i)
        PROVE  pc'[k] \notin {"joinWrite", "removeWrite", "createCart"}
    BY <1>5, <1>8, <2>2 DEF AddItem
  <2>3. ASSUME NEW d \in Carts, NEW asked \in Items \cup Names, RemoveLookup(k, d, asked)
        PROVE  pc'[k] \notin {"joinWrite", "removeWrite", "createCart"}
    BY <1>0, <2>3 DEF RemoveLookup, TypeOK
  <2> QED
    BY <1>1, <1>9, <2>1, <2>2, <2>3 DEF Request
<1>10. CASE Continue(k)
  <2>1. CASE JoinReadCart(k) \/ RemoveRead(k)
    BY <1>1, <1>2, <1>3, <1>4, <1>6, <2>1, <1>10 DEF JoinReadCart, RemoveRead
  <2>2. CASE CreateCart(k) \/ RemoveWrite(k) \/ PublishUpdate(k)
    BY <1>1, <1>5, <1>6, <1>7, <1>8, <2>2 DEF CreateCart, RemoveWrite, PublishUpdate
  <2>3. CASE JoinWrite(k) \/ CreatePointer(k) \/ PublishUnlock(k)
    BY <1>1, <1>6, <2>3 DEF JoinWrite, CreatePointer, PublishUnlock
  <2> QED
    BY <1>10, <2>1, <2>2, <2>3 DEF Continue
<1>11. CASE EndEarly(k)
  BY <1>1, <1>6, <1>11 DEF EndEarly
<1> QED
  BY <1>9, <1>10, <1>11

LEMMA UnlockStep == UnlockInv /\ [Next]_vars => UnlockInv'
<1> SUFFICES ASSUME UnlockInv, [Next]_vars PROVE UnlockInv'
  OBVIOUS
<1>0. TypeOK /\ CartInv /\ ReaperOK /\ CartInv'
  BY CartStep DEF UnlockInv, CartInv
<1>1. ASSUME NEW k \in Clients, Request(k) \/ Continue(k) \/ EndEarly(k) PROVE UnlockInv'
  <2>1. StaysAnnounced /\ Alone(k) /\ UNCHANGED reaperVars
    BY <1>0, <1>1, AnnouncedByClients, OthersKeep
  <2>2. UnlocksAnnounced'
    BY <1>1, <2>1, CartsAnnouncedByClients
  <2>3. ASSUME NEW j \in Clients PROVE CopiesAnnounced(j)'
    <3>1. CASE j = k
      BY <1>1, <2>1, <3>1, OwnCopyAnnounced
    <3>2. CASE j # k
      <4>1. UNCHANGED <<pc[j], cartOf[j], local[j]>>
        BY <2>1, <3>2 DEF Alone
      <4> QED
        BY <2>1, <4>1, CopiesStayAnnounced
    <3> QED
      BY <3>1, <3>2
  <2>4. (reaperPc = "finalizeWrite" /\ finalized.unlocked => Announced(reaped))'
    <3>1. SUFFICES ASSUME reaperPc = "finalizeWrite", finalized.unlocked PROVE Announced(reaped)'
      BY <2>1 DEF reaperVars
    <3>2. PICK d \in Carts : d = reaped
      BY <1>0, <3>1 DEF ReaperOK, TypeOK
    <3>3. Announced(d)'
      BY <2>1, <3>1, <3>2 DEF UnlockInv, StaysAnnounced
    <3> QED
      BY <2>1, <3>2, <3>3 DEF Announced, Unlocking, reaperVars
  <2> QED
    BY <1>0, <2>2, <2>3, <2>4 DEF UnlockInv
<1>2. ASSUME UNCHANGED <<pc, cartOf, local, unlocks, unannounced>>
      PROVE  /\ StaysAnnounced
             /\ \A k \in Clients : CopiesAnnounced(k)'
  <2>1. StaysAnnounced
    BY <1>2 DEF StaysAnnounced, Announced, Unlocking, BornUnlocked
  <2> QED
    BY <1>2, <2>1, CopiesStayAnnounced
<1>3. CASE Reaper
  <2>1. UNCHANGED <<pc, cartOf, local, unlocks, unannounced>>
    BY <1>3 DEF Reaper, ReapKeys, ReapCheck, FinalizeRead, FinalizeWrite, requestVars, historyVars
  <2>2. StaysAnnounced /\ \A k \in Clients : CopiesAnnounced(k)'
    BY <1>2, <2>1
  <2>3. CASE FinalizeWrite
    <3>1. /\ reaperPc = "finalizeWrite" /\ ReapNext(todo)
          /\ stored' = [stored EXCEPT ![reaped] = finalized] /\ written' = written \cup {reaped}
      BY <2>3 DEF FinalizeWrite, SetCart
    <3>2. PICK d \in Carts : d = reaped
      BY <1>0, <3>1 DEF ReaperOK, TypeOK
    <3>3. finalized.unlocked => Announced(d)'
      BY <2>2, <3>1, <3>2 DEF UnlockInv, StaysAnnounced
    <3>4. UnlocksAnnounced'
      BY <2>2, <3>1, <3>2, <3>3, AnnouncedWrite DEF UnlockInv
    <3>5. reaperPc' # "finalizeWrite"
      BY <3>1 DEF ReapNext
    <3> QED
      BY <1>0, <2>2, <3>4, <3>5 DEF UnlockInv
  <2>4. CASE FinalizeRead /\ Present(reaped)
    <3>1. /\ finalized' = [stored[reaped] EXCEPT !.status = "FINALIZED"]
          /\ UNCHANGED <<reaped, stored, written>> /\ reaperPc = "finalizeRead"
      BY <2>4 DEF FinalizeRead, redisVars, historyVars
    <3>2. PICK d \in written : d = reaped /\ d \in Carts
      BY <1>0, <3>1 DEF ReaperOK, TypeOK
    <3>3. finalized'.unlocked = stored[d].unlocked
      BY <1>0, <3>1, <3>2 DEF TypeOK, Cart
    <3>4. stored[d].unlocked => Announced(d)'
      BY <2>2, <3>2 DEF UnlockInv, UnlocksAnnounced, StaysAnnounced
    <3>5. finalized'.unlocked => Announced(reaped)'
      BY <3>1, <3>2, <3>3, <3>4 DEF Announced, Unlocking
    <3>6. UnlocksAnnounced'
      BY <1>0, <2>2, <3>1 DEF UnlockInv, UnlocksAnnounced, StaysAnnounced, TypeOK
    <3> QED
      BY <1>0, <2>2, <3>5, <3>6 DEF UnlockInv
  <2>5. CASE reaperPc' # "finalizeWrite" /\ UNCHANGED <<stored, written>>
    <3>1. UnlocksAnnounced'
      BY <1>0, <2>2, <2>5 DEF UnlockInv, UnlocksAnnounced, StaysAnnounced, TypeOK
    <3> QED
      BY <1>0, <2>2, <2>5, <3>1 DEF UnlockInv
  <2> QED
    BY <1>3, <2>3, <2>4, <2>5
       DEF Reaper, ReapKeys, ReapCheck, FinalizeRead, ReapNext, redisVars, historyVars
<1>4. CASE ClockTicks \/ UNCHANGED vars
  <2>1. /\ UNCHANGED <<pc, cartOf, local, unlocks, unannounced>>
        /\ UNCHANGED <<stored, written, reaperPc, reaped, finalized>>
    BY <1>4 DEF ClockTicks, vars, redisVars, requestVars, reaperVars, historyVars
  <2>2. \A k \in Clients : CopiesAnnounced(k)'
    BY <1>2, <2>1
  <2>3. UnlocksAnnounced' /\ (reaperPc = "finalizeWrite" /\ finalized.unlocked => Announced(reaped))'
    BY <2>1 DEF UnlockInv, UnlocksAnnounced, Announced, Unlocking, BornUnlocked
  <2> QED
    BY <1>0, <2>2, <2>3 DEF UnlockInv
<1> QED
  BY <1>1, <1>3, <1>4 DEF Next

(***************************************************************************)
(* A cart shows as unlocked only if a CART_UNLOCKED event of it was        *)
(* published or is about to be, whatever is written back over it, unless   *)
(* it was born unlocked or the request that unlocked it ended first        *)
(* (redis_store.go:209-213, 274-285).                                      *)
(***************************************************************************)
THEOREM UnlocksAlwaysAnnounced == Spec => []UnlocksAnnounced
<1>1. UnlockInv => UnlocksAnnounced
  BY DEF UnlockInv
<1> QED
  BY <1>1, UnlockInit, UnlockStep, PTL DEF Spec

-----------------------------------------------------------------------------
(***************************************************************************)
(* Creations and additions only, which the README of the code promises to  *)
(* be atomic together: what they do not have is a request that writes back *)
(* a cart it has read.  A cart that has been unlocked has one event on the *)
(* way, or published.                                                      *)
(***************************************************************************)
OnlyScripts == Operations \subseteq {"create", "add"}

NoWriteBack ==
  /\ \A k \in Clients : pc[k] \notin {"joinRead", "joinWrite", "removeRead", "removeWrite"}
  /\ reaperPc = "idle"

ItemsStay ==
  \A i \in Items : addedTo[i] # NoCart =>
    addedTo[i] \in written /\ i \in stored[addedTo[i]].items

UnlocksCounted ==
  \A c \in Carts :
    /\ unlocks[c] \in {0, 1}
    /\ \A k \in Clients : Unlocking(k, c) =>
         unlocks[c] = 0 /\ \A j \in Clients : Unlocking(j, c) => j = k
    /\ c \in written /\ ~stored[c].unlocked =>
         unlocks[c] = 0 /\ \A k \in Clients : ~Unlocking(k, c)
    /\ c \notin written => unlocks[c] = 0 /\ \A k \in Clients : ~Unlocking(k, c)

AddInv == CartInv /\ NoWriteBack /\ ItemsStay /\ UnlocksCounted

LEMMA AddInit == Init => AddInv
<1> SUFFICES ASSUME Init PROVE AddInv
  OBVIOUS
<1>1. CartInv
  BY CartInit
<1> QED
  BY <1>1 DEF Init, AddInv, NoWriteBack, ItemsStay, UnlocksCounted, Unlocking

(* Without joins, removals and the reaper, only these steps are left. *)
LEMMA ScriptSteps ==
  ASSUME OnlyScripts, NoWriteBack, Next
  PROVE  \/ \E k \in Clients :
              \/ PrepareCreate(k) /\ UNCHANGED <<now, redisVars, reaperVars, historyVars>>
              \/ \E c \in Carts, i \in Items : AddItem(k, c, i)
              \/ CreateCart(k) \/ CreatePointer(k) \/ PublishUpdate(k) \/ PublishUnlock(k)
              \/ EndEarly(k)
         \/ ClockTicks
<1>1. ~Reaper
  BY DEF OnlyScripts, NoWriteBack, Reaper, ReapKeys, ReapCheck, FinalizeRead, FinalizeWrite
<1>2. ASSUME NEW k \in Clients, Request(k)
      PROVE  \/ PrepareCreate(k) /\ UNCHANGED <<now, redisVars, reaperVars, historyVars>>
             \/ \E c \in Carts, i \in Items : AddItem(k, c, i)
  BY <1>2 DEF OnlyScripts, Request, JoinReadPointer, RemoveLookup
<1>3. ASSUME NEW k \in Clients, Continue(k)
      PROVE  CreateCart(k) \/ CreatePointer(k) \/ PublishUpdate(k) \/ PublishUnlock(k)
  BY <1>3 DEF NoWriteBack, Continue, JoinReadCart, JoinWrite, RemoveRead, RemoveWrite
<1> QED
  BY <1>1, <1>2, <1>3 DEF Next

(* A step that neither writes a cart nor begins or publishes an unlock. *)
QuietMove(j) ==
  /\ \/ pc'[j] \in {pc[j], "idle", "createCart", "createPointer"}
     \/ pc[j] = "publishBoth" /\ pc'[j] = "publishUnlock"
  /\ pc'[j] \in {"publishBoth", "publishUnlock"} => cartOf'[j] = cartOf[j]

CartsStay == UNCHANGED <<stored, written, addedTo, unlocks, reaperPc>>

LEMMA QuietStep ==
  ASSUME AddInv, CartsStay, \A j \in Clients : QuietMove(j)
  PROVE  NoWriteBack' /\ ItemsStay' /\ UnlocksCounted'
<1>1. NoWriteBack'
  BY DEF AddInv, NoWriteBack, QuietMove, CartsStay
<1>2. ItemsStay'
  BY DEF AddInv, ItemsStay, CartsStay
<1>3. \A j \in Clients, c \in Carts : Unlocking(j, c)' => Unlocking(j, c)
  BY DEF Unlocking, QuietMove
<1>4. UnlocksCounted'
  BY <1>3 DEF AddInv, UnlocksCounted, CartsStay
<1> QED
  BY <1>1, <1>2, <1>4

(* A step of client k that does not leave it about to publish an unlock. *)
LEMMA ClientQuietStep ==
  ASSUME AddInv, NEW k \in Clients, Moves(k), CartsStay,
         pc'[k] \in {"idle", "createCart", "createPointer"}
  PROVE  NoWriteBack' /\ ItemsStay' /\ UnlocksCounted'
<1>1. \A j \in Clients : QuietMove(j)
  BY DEF Moves, QuietMove
<1> QED
  BY <1>1, QuietStep

LEMMA PublishKeeps ==
  ASSUME AddInv, NEW k \in Clients, PublishUpdate(k) \/ PublishUnlock(k)
  PROVE  NoWriteBack' /\ ItemsStay' /\ UnlocksCounted'
<1>0. TypeOK /\ ClientOK(k)
  BY DEF AddInv, CartInv
<1>1. UNCHANGED <<stored, written, addedTo, reaperPc>>
  BY DEF PublishUpdate, PublishUnlock, redisVars, reaperVars, historyVars
<1>2. CASE PublishUpdate(k) /\ pc[k] = "publish"
  <2>1. Done(k) /\ UNCHANGED unlocks
    BY <1>2 DEF PublishUpdate, historyVars
  <2> QED
    BY <1>0, <1>1, <2>1, DoneMoves, ClientQuietStep DEF CartsStay
<1>3. CASE PublishUpdate(k) /\ pc[k] = "publishBoth"
  <2>1. Go(k, "publishUnlock", cartOf[k], Blank) /\ UNCHANGED unlocks
    BY <1>3 DEF PublishUpdate, historyVars
  <2>2. cartOf[k] \in Carts \cup {NoCart} /\ "publishUnlock" \in PcTypes
    BY <1>0 DEF TypeOK, PcTypes
  <2>3. Moves(k) /\ pc'[k] = "publishUnlock" /\ cartOf'[k] = cartOf[k]
    BY <1>0, <2>1, <2>2, BlankCart, GoMoves
  <2>4. \A j \in Clients : QuietMove(j)
    BY <1>3, <2>3 DEF Moves, QuietMove
  <2> QED
    BY <1>1, <2>1, <2>4, QuietStep DEF CartsStay
<1>4. CASE PublishUnlock(k)
  <2>0. PICK c \in Carts : c = cartOf[k] /\ c \in written
    BY <1>0, <1>4 DEF PublishUnlock, ClientOK, TypeOK
  <2>1. /\ pc[k] = "publishUnlock" /\ Done(k) /\ unlocks' = [unlocks EXCEPT ![c] = @ + 1]
    BY <1>4, <2>0 DEF PublishUnlock
  <2>2. c \in written /\ c \in Carts /\ Unlocking(k, c)
    BY <2>0, <2>1 DEF Unlocking
  <2>3. Moves(k) /\ pc'[k] = "idle" /\ cartOf'[k] = NoCart
    BY <1>0, <2>1, DoneMoves
  <2>4. NoWriteBack' /\ ItemsStay'
    BY <1>1, <2>3 DEF AddInv, NoWriteBack, ItemsStay, Moves
  <2>5. /\ \A d \in Carts : ~Unlocking(k, d)'
        /\ \A j \in Clients, d \in Carts : Unlocking(j, d)' => Unlocking(j, d)
    BY <2>3 DEF Unlocking, Moves
  <2>6. unlocks[c] = 0 /\ \A j \in Clients : Unlocking(j, c) => j = k
    BY <2>2 DEF AddInv, UnlocksCounted
  <2>7. unlocks'[c] = 1 /\ \A d \in Carts \ {c} : unlocks'[d] = unlocks[d]
    BY <1>0, <2>1, <2>2, <2>6 DEF TypeOK
  <2>8. stored[c].unlocked
    BY <2>2 DEF AddInv, UnlocksCounted
  <2>9. \A j \in Clients : ~Unlocking(j, c)'
    BY <2>2, <2>5, <2>6
  <2>10. UnlocksCounted'
    <3> SUFFICES ASSUME NEW d \in Carts
                 PROVE  /\ unlocks'[d] \in {0, 1}
                        /\ \A j \in Clients : Unlocking(j, d)' =>
                             unlocks'[d] = 0 /\ \A i \in Clients : Unlocking(i, d)' => i = j
                        /\ d \in written /\ ~stored[d].unlocked =>
                             unlocks'[d] = 0 /\ \A j \in Clients : ~Unlocking(j, d)'
                        /\ d \notin written => unlocks'[d] = 0 /\ \A j \in Clients : ~Unlocking(j, d)'
      BY <1>1 DEF UnlocksCounted
    <3>1. CASE d = c
      BY <2>2, <2>7, <2>8, <2>9, <3>1
    <3>2. CASE d # c
      BY <2>5, <2>7, <3>2 DEF AddInv, UnlocksCounted
    <3> QED
      BY <3>1, <3>2
  <2> QED
    BY <2>4, <2>10
<1> QED
  BY <1>2, <1>3, <1>4 DEF PublishUpdate

LEMMA CreateCartKeeps ==
  ASSUME AddInv, NEW k \in Clients, CreateCart(k)
  PROVE  NoWriteBack' /\ ItemsStay' /\ UnlocksCounted'
<1> DEFINE c == cartOf[k]
<1>0. TypeOK /\ ClientOK(k) /\ "createPointer" \in PcTypes
  BY DEF AddInv, CartInv, PcTypes
<1>1. /\ pc[k] = "createCart" /\ SetCart(c, local[k], Ttl) /\ Go(k, "createPointer", c, Blank)
      /\ UNCHANGED <<reaperPc, addedTo, unlocks>>
  BY DEF CreateCart, reaperVars
<1>2. c \in Carts /\ c \notin written
  BY <1>0, <1>1 DEF ClientOK
<1> HIDE DEF c
<1>3. Moves(k) /\ pc'[k] = "createPointer"
  BY <1>0, <1>1, <1>2, BlankCart, GoMoves
<1>4. /\ written' = written \cup {c} /\ \A d \in Carts \ {c} : stored'[d] = stored[d]
  BY <1>0, <1>1 DEF SetCart, TypeOK
<1>5. NoWriteBack'
  BY <1>1, <1>3 DEF AddInv, NoWriteBack, Moves
<1>6. ItemsStay'
  BY <1>0, <1>1, <1>2, <1>4 DEF AddInv, ItemsStay, TypeOK
<1>7. \A j \in Clients, d \in Carts : Unlocking(j, d)' => Unlocking(j, d)
  BY <1>3 DEF Unlocking, Moves
<1>8. unlocks[c] = 0 /\ \A j \in Clients : ~Unlocking(j, c)
  BY <1>2 DEF AddInv, UnlocksCounted
<1>9. UnlocksCounted'
  <2> SUFFICES ASSUME NEW d \in Carts
               PROVE  /\ unlocks[d] \in {0, 1}
                      /\ \A j \in Clients : Unlocking(j, d)' =>
                           unlocks[d] = 0 /\ \A i \in Clients : Unlocking(i, d)' => i = j
                      /\ d \in written' /\ ~stored'[d].unlocked =>
                           unlocks[d] = 0 /\ \A j \in Clients : ~Unlocking(j, d)'
                      /\ d \notin written' => unlocks[d] = 0 /\ \A j \in Clients : ~Unlocking(j, d)'
    BY <1>1 DEF UnlocksCounted
  <2>1. CASE d = c
    BY <1>7, <1>8, <2>1
  <2>2. CASE d # c
    BY <1>4, <1>7, <2>2 DEF AddInv, UnlocksCounted
  <2> QED
    BY <2>1, <2>2
<1> QED
  BY <1>5, <1>6, <1>9

LEMMA AddItemKeeps ==
  ASSUME AddInv, NEW k \in Clients, NEW c \in Carts, NEW i \in Items, AddItem(k, c, i)
  PROVE  NoWriteBack' /\ ItemsStay' /\ UnlocksCounted'
<1> DEFINE cart  == WithItem(stored[c], i)
           first == JustUnlocks(stored[c], i)
           to    == IF first THEN "publishBoth" ELSE "publish"
<1>0. TypeOK
  BY DEF AddInv, CartInv
<1>1. /\ pc[k] = "idle" /\ i \notin Seeds /\ addedTo[i] = NoCart /\ Active(c)
      /\ SetCart(c, cart, 0) /\ addedTo' = [addedTo EXCEPT ![i] = c] /\ Go(k, to, c, Blank)
      /\ UNCHANGED <<reaperPc, unlocks>>
  BY DEF AddItem, reaperVars
<1>2. c \in written /\ Sound(stored[c]) /\ ItemsFrom(stored[c].items, addedTo)
  BY <1>1 DEF Active, Present, AddInv, CartInv, StoredOK, Good
<1>3. i \in Items \ stored[c].items
  BY <1>1, <1>2 DEF ItemsFrom
<1>4. cart.items = stored[c].items \cup {i} /\ (cart.unlocked <=> stored[c].unlocked \/ first)
  BY <1>2, <1>3, WithItemGood
<1>5. first => ~stored[c].unlocked
  BY DEF JustUnlocks
<1>6. to \in PcTypes /\ to \in {"publish", "publishBoth"} /\ (to = "publishBoth" <=> first)
  BY DEF PcTypes
<1>7. /\ stored'[c] = cart /\ written' = written
      /\ \A d \in Carts \ {c} : stored'[d] = stored[d]
  BY <1>0, <1>1, <1>2 DEF SetCart, TypeOK
<1> HIDE DEF cart, first, to
<1>8. Moves(k) /\ pc'[k] = to /\ cartOf'[k] = c
  BY <1>0, <1>1, <1>6, BlankCart, GoMoves
<1>9. NoWriteBack'
  BY <1>1, <1>6, <1>8 DEF AddInv, NoWriteBack, Moves
<1>10. ItemsStay'
  <2> SUFFICES ASSUME NEW j \in Items, addedTo'[j] # NoCart
               PROVE  addedTo'[j] \in written /\ j \in stored'[addedTo'[j]].items
    BY <1>7 DEF ItemsStay
  <2>1. CASE j = i
    <3>1. addedTo'[j] = c
      BY <1>0, <1>1, <2>1 DEF TypeOK
    <3> QED
      BY <1>2, <1>4, <1>7, <2>1, <3>1
  <2>2. CASE j # i
    <3>1. addedTo'[j] = addedTo[j]
      BY <1>0, <1>1, <2>2 DEF TypeOK
    <3>2. addedTo[j] \in written /\ j \in stored[addedTo[j]].items /\ addedTo[j] \in Carts
      BY <1>0, <2>2, <3>1 DEF AddInv, ItemsStay, TypeOK
    <3> QED
      BY <1>4, <1>7, <3>1, <3>2
  <2> QED
    BY <2>1, <2>2
<1>11. \A j \in Clients, d \in Carts : Unlocking(j, d)' => Unlocking(j, d) \/ (j = k /\ d = c /\ first)
  BY <1>6, <1>8 DEF Unlocking, Moves
<1>12. UnlocksCounted'
  <2> SUFFICES ASSUME NEW d \in Carts
               PROVE  /\ unlocks[d] \in {0, 1}
                      /\ \A j \in Clients : Unlocking(j, d)' =>
                           unlocks[d] = 0 /\ \A h \in Clients : Unlocking(h, d)' => h = j
                      /\ d \in written /\ ~stored'[d].unlocked =>
                           unlocks[d] = 0 /\ \A j \in Clients : ~Unlocking(j, d)'
                      /\ d \notin written => unlocks[d] = 0 /\ \A j \in Clients : ~Unlocking(j, d)'
    BY <1>1, <1>7 DEF UnlocksCounted
  <2>1. CASE d # c \/ ~first
    <3>1. \A j \in Clients : Unlocking(j, d)' => Unlocking(j, d)
      BY <1>11, <2>1
    <3>2. d \in written /\ stored[d].unlocked => stored'[d].unlocked
      BY <1>4, <1>7
    <3> QED
      BY <3>1, <3>2 DEF AddInv, UnlocksCounted
  <2>2. CASE d = c /\ first
    <3>1. unlocks[c] = 0 /\ \A j \in Clients : ~Unlocking(j, c)
      BY <1>2, <1>5, <2>2 DEF AddInv, UnlocksCounted
    <3>2. \A j \in Clients : Unlocking(j, d)' => j = k
      BY <1>11, <2>2, <3>1
    <3>3. stored'[d].unlocked /\ unlocks[d] = 0 /\ d \in written
      BY <1>2, <1>4, <1>7, <2>2, <3>1
    <3>4. \A j \in Clients : Unlocking(j, d)' =>
            unlocks[d] = 0 /\ \A h \in Clients : Unlocking(h, d)' => h = j
      BY <3>2, <3>3
    <3>5. unlocks[d] \in {0, 1}
      BY <3>3
    <3>6. d \in written => stored'[d].unlocked
      BY <3>3
    <3> QED
      BY <3>3, <3>4, <3>5, <3>6
  <2> QED
    BY <2>1, <2>2
<1> QED
  BY <1>9, <1>10, <1>12

LEMMA AddStep == OnlyScripts /\ AddInv /\ [Next]_vars => AddInv'
<1> SUFFICES ASSUME OnlyScripts, AddInv, [Next]_vars PROVE AddInv'
  OBVIOUS
<1>0. CartInv' /\ TypeOK
  BY CartStep DEF AddInv, CartInv
<1>1. ASSUME NEW k \in Clients,
             PrepareCreate(k), UNCHANGED <<now, redisVars, reaperVars, historyVars>>
      PROVE  NoWriteBack' /\ ItemsStay' /\ UnlocksCounted'
  <2>1. PICK c \in Carts : Go(k, "createCart", c, NewCart(k))
    BY <1>1 DEF PrepareCreate
  <2>2. NewCart(k) \in Cart /\ "createCart" \in PcTypes
    <3>1. now \in Nat
      BY <1>0, CartNumbersAssumption DEF TypeOK
    <3> QED
      BY <3>1, NewCartGood DEF Sound, PcTypes
  <2>3. Moves(k) /\ pc'[k] = "createCart"
    BY <1>0, <2>1, <2>2, GoMoves
  <2>4. CartsStay
    BY <1>1 DEF redisVars, reaperVars, historyVars, CartsStay
  <2> QED
    BY <2>3, <2>4, ClientQuietStep
<1>2. ASSUME NEW k \in Clients, CreatePointer(k) \/ EndEarly(k)
      PROVE  NoWriteBack' /\ ItemsStay' /\ UnlocksCounted'
  <2>1. Done(k) /\ CartsStay
    BY <1>2 DEF CreatePointer, EndEarly, redisVars, reaperVars, historyVars, CartsStay
  <2> QED
    BY <1>0, <2>1, DoneMoves, ClientQuietStep
<1>3. CASE ClockTicks \/ UNCHANGED vars
  <2>1. CartsStay /\ \A j \in Clients : QuietMove(j)
    BY <1>3 DEF ClockTicks, vars, redisVars, requestVars, reaperVars, historyVars, CartsStay,
                QuietMove
  <2> QED
    BY <1>0, <2>1, QuietStep DEF AddInv
<1>4. (NoWriteBack' /\ ItemsStay' /\ UnlocksCounted') \/ UNCHANGED vars \/ ClockTicks
  BY <1>1, <1>2, ScriptSteps, AddItemKeeps, CreateCartKeeps, PublishKeeps DEF AddInv
<1> QED
  BY <1>0, <1>3, <1>4 DEF AddInv

LEMMA AddInvariant ==
  ASSUME OnlyScripts
  PROVE  Spec => []AddInv
<1>1. AddInv /\ [Next]_vars => AddInv'
  BY AddStep
<1> QED
  BY <1>1, AddInit, PTL DEF Spec

(***************************************************************************)
(* However additions interleave with each other and with creations, no     *)
(* added item is lost (redis_store.go:186-226, groupcart_test.go:41-68).   *)
(***************************************************************************)
THEOREM AddedItemsNeverLost ==
  ASSUME OnlyScripts
  PROVE  Spec => []AddedItemsKept
<1>1. AddInv => AddedItemsKept
  BY DEF AddInv, ItemsStay, AddedItemsKept
<1> QED
  BY <1>1, AddInvariant, PTL

(***************************************************************************)
(* However additions interleave, a cart's unlocking is published at most   *)
(* once (redis_store.go:209-213, 274-288).                                 *)
(***************************************************************************)
THEOREM UnlockedOnlyOnce ==
  ASSUME OnlyScripts
  PROVE  Spec => []UnlockedOnce
<1>1. AddInv => UnlockedOnce
  BY DEF AddInv, UnlocksCounted, UnlockedOnce
<1> QED
  BY <1>1, AddInvariant, PTL

=============================================================================
