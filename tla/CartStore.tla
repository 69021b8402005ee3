----------------------------- MODULE CartStore -----------------------------
(***************************************************************************)
(* The cart service over Valkey (src/cart/src/services/CartService.cs and  *)
(* cartstore/ValkeyCartStore.cs).                                          *)
(*                                                                         *)
(* A cart is one hash field holding all items, which AddItem reads,        *)
(* changes and writes back as a whole: three commands, awaited one by one, *)
(* with no lock and no transaction.  The expiry of the key is set by a     *)
(* command of its own after each write.                                    *)
(***************************************************************************)
EXTENDS Integers, FiniteSetsExt

CONSTANTS
    Calls, Users, Products,
    Quantities,   \* quantities of AddItem requests, which nothing checks
    HalfInt32,    \* an int32 lies in -HalfInt32 .. HalfInt32-1
    Serial,       \* users who wait for the answer of one call before the next
    Absent,       \* users who may leave their cart alone for an hour
    NoCart        \* no such key, or no such field

\* A cart is a function of the products in it.
Cart32 == UNION {[S -> -HalfInt32 .. HalfInt32 - 1] : S \in SUBSET Products}

ASSUME QuantitiesAreInt32 == /\ HalfInt32 \in Nat \ {0}
                             /\ Quantities \subseteq -HalfInt32 .. HalfInt32 - 1
ASSUME UsersAreSerialOrNot == Serial \subseteq Users
ASSUME NoCartIsNone == NoCart \notin Cart32

Requests ==
    [op : {"add"}, user : Users, product : Products, quantity : Quantities]
        \cup [op : {"get", "empty"}, user : Users]

VARIABLES
    asked,     \* the request of each call
    pc,        \* where each call is
    value,     \* what HashGet returned to each call
    store,     \* Valkey: the cart of each user
    expiring   \* Valkey: users whose key has a time to live

vars == <<asked, pc, value, store, expiring>>

Outcome == {"ok", "failed", "half"}   \* "half": failed after the write
Running(c) == pc[c] \notin {"idle"} \cup Outcome

EmptyItems == [p \in {} |-> 0]

\* The items the caller sees: a missing cart reads as an empty one.
ItemsOf(cart) == IF cart = NoCart THEN EmptyItems ELSE cart

Init ==
    /\ asked = [c \in {} |-> 0]
    /\ pc = [c \in Calls |-> "idle"]
    /\ value = [c \in Calls |-> NoCart]
    /\ store = [u \in Users |-> NoCart]
    /\ expiring = {}

Goto(c, state) == pc' = [pc EXCEPT ![c] = state]

-----------------------------------------------------------------------------

\* A call arrives.  Nothing in the service keeps a user's calls apart; only a
\* client that waits for its answers does.
Start(c, request) ==
    /\ pc[c] = "idle"
    /\ request.user \in Serial =>
           \A d \in Calls : Running(d) => asked[d].user # request.user
    /\ asked' = [d \in DOMAIN asked \cup {c} |-> IF d = c THEN request ELSE asked[d]]
    /\ Goto(c, request.op)
    /\ UNCHANGED <<value, store, expiring>>

\* Mutant: AddItemAsync may go by the cart that GetCart has returned.
ReadForAdd_Cached(c) ==
    /\ pc[c] = "add"
    /\ \E cart \in {store[asked[c].user]} \cup
            {value[d] : d \in {e \in DOMAIN asked : /\ pc[e] = "ok"
                                                   /\ asked[e].op = "get"
                                                   /\ asked[e].user = asked[c].user}} :
          value' = [value EXCEPT ![c] = cart]
    /\ Goto(c, "read")
    /\ UNCHANGED <<asked, store, expiring>>

\* HashGetAsync of AddItemAsync.
ReadForAdd(c) ==
    /\ pc[c] = "add"
    /\ value' = [value EXCEPT ![c] = store[asked[c].user]]
    /\ Goto(c, "read")
    /\ UNCHANGED <<asked, store, expiring>>

\* Quantity += quantity, unchecked int32.
Plus(a, b) == ((a + b + HalfInt32) % (2 * HalfInt32)) - HalfInt32

\* Mutant: the quantity replaces that of an item the cart has already.
Added_Replaces(items, product, quantity) ==
    [p \in DOMAIN items \cup {product} |-> IF p = product THEN quantity ELSE items[p]]

\* The items with one more, or with more of one.
Added(items, product, quantity) ==
    [p \in DOMAIN items \cup {product} |->
        IF p # product THEN items[p]
        ELSE IF p \in DOMAIN items THEN Plus(items[p], quantity) ELSE quantity]

\* HashSetAsync.  A key that is created has no time to live.
Write(c, items) ==
    /\ store' = [store EXCEPT ![asked[c].user] = items]
    /\ Goto(c, "written")
    /\ UNCHANGED <<asked, value, expiring>>

WriteAdded(c) ==
    /\ pc[c] = "read"
    /\ Write(c, Added(ItemsOf(value[c]), asked[c].product, asked[c].quantity))

\* EmptyCartAsync writes without reading.
WriteEmpty(c) == pc[c] = "empty" /\ Write(c, EmptyItems)

\* Mutant: AddItemAsync answers without KeyExpireAsync.
SetExpiry_EmptyOnly(c) ==
    /\ pc[c] = "written"
    /\ expiring' = IF asked[c].op = "empty" THEN expiring \cup {asked[c].user}
                   ELSE expiring
    /\ Goto(c, "ok")
    /\ UNCHANGED <<asked, value, store>>

\* Mutant: a key that is gone is taken to have been given an expiry.
SetExpiry_Unchecked(c) ==
    /\ pc[c] = "written"
    /\ expiring' = expiring \cup {asked[c].user}
    /\ Goto(c, "ok")
    /\ UNCHANGED <<asked, value, store>>

\* KeyExpireAsync; it does nothing to a key that is gone.
SetExpiry(c) ==
    /\ pc[c] = "written"
    /\ expiring' = IF store[asked[c].user] = NoCart THEN expiring
                   ELSE expiring \cup {asked[c].user}
    /\ Goto(c, "ok")
    /\ UNCHANGED <<asked, value, store>>

\* HashGetAsync of GetCartAsync, and the answer.
GetCart(c) ==
    /\ pc[c] = "get"
    /\ value' = [value EXCEPT ![c] = store[asked[c].user]]
    /\ Goto(c, "ok")
    /\ UNCHANGED <<asked, store, expiring>>

AfterFailure(state) == IF state = "written" THEN "half" ELSE "failed"

\* Any command, or connecting, can throw; EmptyCart under the flag
\* cartFailure goes to a store that never connects.
Fail(c) ==
    /\ Running(c)
    /\ Goto(c, AfterFailure(pc[c]))
    /\ UNCHANGED <<asked, value, store, expiring>>

\* The service dies with all its calls.
Crash ==
    /\ \E c \in Calls : Running(c)
    /\ pc' = [c \in Calls |-> IF Running(c) THEN AfterFailure(pc[c]) ELSE pc[c]]
    /\ UNCHANGED <<asked, value, store, expiring>>

\* An hour has passed since the expiry was last set.
Expire(u) ==
    /\ u \in Absent /\ u \in expiring
    /\ store' = [store EXCEPT ![u] = NoCart]
    /\ expiring' = expiring \ {u}
    /\ UNCHANGED <<asked, pc, value>>

Next ==
    \/ \E c \in Calls, request \in Requests : Start(c, request)
    \/ \E c \in Calls :
        \/ ReadForAdd(c) \/ WriteAdded(c) \/ WriteEmpty(c) \/ SetExpiry(c)
        \/ GetCart(c) \/ Fail(c)
    \/ Crash
    \/ \E u \in Users : Expire(u)

Spec == Init /\ [][Next]_vars

-----------------------------------------------------------------------------
(* Properties. *)

TypeOK ==
    /\ asked \in UNION {[S -> Requests] : S \in SUBSET Calls}
    /\ pc \in [Calls -> {"idle", "add", "get", "empty", "read", "written"} \cup Outcome]
    /\ value \in [Calls -> {NoCart} \cup Cart32]
    /\ store \in [Users -> {NoCart} \cup Cart32]
    /\ expiring \subseteq {u \in Users : store[u] # NoCart}
    /\ \A c \in Calls : pc[c] # "idle" => c \in DOMAIN asked

\* No cart is kept for ever, unless a call failed, or the service died,
\* between the write and the command that sets the expiry.
CartsExpire ==
    \A u \in Users : store[u] # NoCart /\ u \notin expiring =>
        \E c \in Calls : pc[c] \in {"written", "half"} /\ asked[c].user = u

\* The AddItem calls of a user for a product, and what they ask for in all.
AddsFor(u, p) ==
    {c \in DOMAIN asked : asked[c].op = "add" /\ asked[c].user = u /\ asked[c].product = p}

Quantity == [c \in {d \in DOMAIN asked : asked[d].op = "add"} |-> asked[c].quantity]

AskedFor(u, p) == SumFunctionOnSet(Quantity, AddsFor(u, p))

\* CartServiceTests.cs:86, "Second add of existing product - quantity should
\* be updated": once every AddItem call of a user was answered OK, and nothing
\* else was called and nothing expired, the cart holds what was asked for.
AddsAccumulate ==
    \A u \in Users, p \in Products :
        /\ u \notin Absent
        /\ \A c \in DOMAIN asked : asked[c].op = "add" /\ pc[c] = "ok"
        /\ AddsFor(u, p) # {}
        => p \in DOMAIN ItemsOf(store[u]) /\ store[u][p] = AskedFor(u, p)

\* What of the store is a Cart: the calls and carts of the users who wait for
\* their answers.  A cart that expires while it is being added to counts as
\* alive until the call writes it back or ends.
Asked == {c \in DOMAIN asked : asked[c].user \in Serial}

Applied == {c \in Asked : asked[c].op # "get" /\ pc[c] \in {"written", "ok", "half"}}

Answer == [c \in Calls |->
    IF c \notin Asked THEN "none"
    ELSE CASE pc[c] \in {"failed", "half"} -> "failed"
           [] pc[c] = "ok" -> "ok"
           [] OTHER -> "none"]

Seen == [c \in {d \in Asked : asked[d].op = "get" /\ pc[d] = "ok"} |-> ItemsOf(value[c])]

Adding(u) == {c \in Asked : pc[c] = "read" /\ asked[c].user = u}

CartOf(u) == ItemsOf(IF Adding(u) # {} THEN value[CHOOSE c \in Adding(u) : TRUE]
                     ELSE store[u])

Asking == [c \in Asked |-> asked[c]]
Carts  == [u \in Serial |-> CartOf(u)]

Promise == INSTANCE Cart WITH Users <- Serial, asked <- Asking, applied <- Applied,
                              answer <- Answer, seen <- Seen, cart <- Carts

\* For users who wait for their answers the service implements Cart, whatever
\* the calls of others do, failures and deaths of the service
\* (ValkeyCartStore.cs:134-205) included.
ImplementsCart == Promise!Spec

-----------------------------------------------------------------------------
(* What the proofs add. *)

\* Where a call is tells what it was asked.
InOrder ==
    \A c \in Calls :
        /\ pc[c] # "idle" <=> c \in DOMAIN asked
        /\ pc[c] \in {"add", "read"} => asked[c].op = "add"
        /\ pc[c] \in {"get", "empty"} => asked[c].op = pc[c]
        /\ pc[c] \in {"written", "half"} => asked[c].op # "get"

\* Who waits for his answers has one call under way at most,
OneAtATime ==
    \A c, d \in Calls :
        /\ Running(c) /\ Running(d)
        /\ asked[c].user \in Serial /\ asked[c].user = asked[d].user
        => c = d

\* and what it has read is still in the store, unless that has expired.
ReadIsStored ==
    \A c \in Calls :
        pc[c] = "read" /\ asked[c].user \in Serial =>
            store[asked[c].user] \in {value[c], NoCart}

IInv == TypeOK /\ CartsExpire /\ InOrder /\ OneAtATime /\ ReadIsStored

=============================================================================
