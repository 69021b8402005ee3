-------------------------------- MODULE Cart --------------------------------
(***************************************************************************)
(* What a cart service promises: calls on a user's cart take effect one at *)
(* a time.  A call answered OK took effect exactly once, a call that       *)
(* failed at most once, and a query sees the cart as it is.  Carts may be  *)
(* forgotten.                                                              *)
(***************************************************************************)
EXTENDS Integers

CONSTANTS Calls, Users, Products, Quantities, HalfInt32

Requests ==
    [op : {"add"}, user : Users, product : Products, quantity : Quantities]
        \cup [op : {"get", "empty"}, user : Users]

NoItems == [p \in {} |-> 0]

\* Quantities are int32.
Plus(a, b) == ((a + b + HalfInt32) % (2 * HalfInt32)) - HalfInt32

\* The items of a cart with a quantity of a product more.
With(items, product, quantity) ==
    [p \in DOMAIN items \cup {product} |->
        IF p # product THEN items[p]
        ELSE IF p \in DOMAIN items THEN Plus(items[p], quantity) ELSE quantity]

VARIABLES asked,    \* the request of each call, from when it is made
          applied,  \* calls that took effect
          answer,   \* "none", "ok" or "failed"
          seen,     \* the items each query returned
          cart      \* the items in each user's cart

vars == <<asked, applied, answer, seen, cart>>

Init ==
    /\ asked = [c \in {} |-> 0]
    /\ applied = {}
    /\ answer = [c \in Calls |-> "none"]
    /\ seen = [c \in {} |-> 0]
    /\ cart = [u \in Users |-> NoItems]

Ask(c, request) ==
    /\ c \notin DOMAIN asked
    /\ asked' = [d \in DOMAIN asked \cup {c} |-> IF d = c THEN request ELSE asked[d]]
    /\ UNCHANGED <<applied, answer, seen, cart>>

Effect(request) ==
    IF request.op = "empty" THEN NoItems
    ELSE With(cart[request.user], request.product, request.quantity)

Apply(c) ==
    /\ c \in DOMAIN asked /\ asked[c].op # "get"
    /\ c \notin applied /\ answer[c] = "none"
    /\ applied' = applied \cup {c}
    /\ cart' = [cart EXCEPT ![asked[c].user] = Effect(asked[c])]
    /\ UNCHANGED <<asked, answer, seen>>

Confirm(c) ==
    /\ c \in applied /\ answer[c] = "none"
    /\ answer' = [answer EXCEPT ![c] = "ok"]
    /\ UNCHANGED <<asked, applied, seen, cart>>

\* A query takes effect and is answered at once.
Look(c) ==
    /\ c \in DOMAIN asked /\ asked[c].op = "get" /\ answer[c] = "none"
    /\ answer' = [answer EXCEPT ![c] = "ok"]
    /\ seen' = [d \in DOMAIN seen \cup {c} |->
                    IF d = c THEN cart[asked[c].user] ELSE seen[d]]
    /\ UNCHANGED <<asked, applied, cart>>

Forgetting(forgotten) ==
    cart' = [u \in Users |-> IF u \in forgotten THEN NoItems ELSE cart[u]]

\* One call fails, or all that are under way, and carts may be lost with it.
Fail(failing) ==
    /\ \A c \in failing : c \in DOMAIN asked /\ answer[c] = "none"
    /\ answer' = [c \in Calls |-> IF c \in failing THEN "failed" ELSE answer[c]]
    /\ \E forgotten \in SUBSET {asked[c].user : c \in failing} : Forgetting(forgotten)
    /\ UNCHANGED <<asked, applied, seen>>

Forget(u) ==
    /\ Forgetting({u})
    /\ UNCHANGED <<asked, applied, answer, seen>>

Next ==
    \/ \E c \in Calls, request \in Requests : Ask(c, request)
    \/ \E c \in Calls : Apply(c) \/ Confirm(c) \/ Look(c)
    \/ \E failing \in SUBSET Calls : Fail(failing)
    \/ \E u \in Users : Forget(u)

Spec == Init /\ [][Next]_vars

=============================================================================
