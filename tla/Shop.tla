-------------------------------- MODULE Shop --------------------------------
(***************************************************************************)
(* One page of the shop in a browser, the API handlers of src/frontend     *)
(* that serve it, and the cart they change: what the shopper sees of the   *)
(* cart, and what is ordered, when answers are late or lost.               *)
(*                                                                         *)
(* The cart is a set of clicks: what each click on "Add To Cart" put in    *)
(* it.  The backends are taken at their promises (modules Cart and Order): *)
(* calls on the cart are atomic; an order reads the cart, pays and ships   *)
(* what it read, and empties the cart in a call of its own, whose errors   *)
(* checkout ignores.                                                       *)
(*                                                                         *)
(* The queries of Cart.provider are react-query's, of which the page uses: *)
(* one cached value and at most one fetch for each key; a fetch that fails *)
(* is tried again; invalidation drops the fetch under way of the key in    *)
(* use and starts another, but lets the first fetch of a key, which has no *)
(* value yet, go on; mutations are not retried.                            *)
(***************************************************************************)
EXTENDS Naturals, FiniteSets

CONSTANTS
  Changes,      \* the shopper's clicks that change the cart
  Orders,       \* and those that order it
  Currencies,
  None,
  Retries       \* how often a fetch that failed is tried again (3 in use)

VARIABLES
  cart,         \* the backend's cart
  paid,         \* for each click, what it ordered and paid, or None
  request,      \* for each click, its kind and where its handler is
  answer,       \* for each click, None, "waiting", "ok" or "error"
  unsettled,    \* for each click, the orders not confirmed and emptied by then
  selected,     \* the currency selected
  shown,        \* for each currency, the cart last fetched, or None
  fetch,        \* for each currency, the fetch under way, or None
  failures,     \* for each currency, how often it failed in a row
  overtaken,    \* keys whose fetch under way a change did not or will not renew
  unnoticed     \* a cart was emptied after the page had its answer
cartVars  == <<cart, paid>>
pageVars  == <<selected, shown, fetch, failures, overtaken>>
callVars  == <<request, answer, unsettled>>
vars == <<cartVars, pageVars, callVars, unnoticed>>

Asked == [step |-> "asked", items |-> {}]
Idle  == [kind |-> None, step |-> "idle"]
Clicks == Changes \cup Orders
Kinds(k) == IF k \in Orders THEN {"order"} ELSE {"add", "empty"}

-----------------------------------------------------------------------------
Init ==
  /\ cart = {}
  /\ paid = [k \in Clicks |-> None]
  /\ request = [k \in Clicks |-> Idle]
  /\ answer = [k \in Clicks |-> None]
  /\ unsettled = [k \in Clicks |-> {}]
  /\ selected \in Currencies
  /\ shown = [c \in Currencies |-> None]
  /\ fetch = [c \in Currencies |-> IF c = selected THEN Asked ELSE None]
  /\ failures = [c \in Currencies |-> 0]
  /\ overtaken = {}
  /\ unnoticed = FALSE

(* A click starts a mutation.  Nothing disables the buttons meanwhile: the *)
(* same form may be submitted again before it is answered.                 *)
Click(k, kind) ==
  /\ answer[k] = None
  /\ request' = [request EXCEPT ![k] = [kind |-> kind, step |-> "sent"]]
  /\ answer' = [answer EXCEPT ![k] = "waiting"]
  /\ unsettled' = [unsettled EXCEPT ![k] =
                  {j \in Orders : /\ request[j].step # "idle"
                                  /\ answer[j] # "ok" \/ request[j].step = "late"}]
  /\ UNCHANGED <<cartVars, pageVars, unnoticed>>

Handler(k, kind, step, next) ==
  /\ request[k] = [kind |-> kind, step |-> step]
  /\ request' = [request EXCEPT ![k].step = next]
  /\ UNCHANGED <<answer, unsettled, pageVars>>

(* pages/api/cart.ts: POST adds, then reads the cart for its answer, which *)
(* may fail; DELETE empties.                                               *)
AddItem(k) ==
  /\ Handler(k, "add", "sent", "done")
  /\ cart' = cart \cup {k}
  /\ UNCHANGED <<paid, unnoticed>>

EmptyCart(k) ==
  /\ Handler(k, "empty", "sent", "done")
  /\ cart' = {}
  /\ UNCHANGED <<paid, unnoticed>>

(* pages/api/checkout.ts: the order is placed before the details of its    *)
(* products are read for the answer.                                       *)
PlaceOrder(k) ==
  /\ Handler(k, "order", "sent", "placed")
  /\ paid' = [paid EXCEPT ![k] = cart]
  /\ UNCHANGED <<cart, unnoticed>>

EmptyOrderedCart(k) ==
  /\ \/ Handler(k, "order", "placed", "done")
     \/ Handler(k, "order", "late", "done")
  /\ cart' = {}
  /\ unnoticed' = (unnoticed \/ answer[k] # "waiting")
  /\ UNCHANGED paid

(* The call that empties the cart fails, or is carried out later: the      *)
(* order goes on without it.                                               *)
LeaveCart(k) ==
  /\ Handler(k, "order", "placed", "late")
  /\ UNCHANGED <<cartVars, unnoticed>>

(* The handler fails, here or in reading the answer, or the connection     *)
(* does: Request.ts finds no JSON in what it gets, and the mutation fails. *)
(* Nothing tells the shopper, and the handler may still go on.             *)
Fail(k) ==
  /\ answer[k] = "waiting"
  /\ answer' = [answer EXCEPT ![k] = "error"]
  /\ UNCHANGED <<request, unsettled, cartVars, pageVars, unnoticed>>

(* A mutant: a fetch under way is taken to be as good as a new one.        *)
Invalidated_Deduplicated ==
  [fetch EXCEPT ![selected] = IF @ = None THEN Asked ELSE @]

(* invalidateQueries(['cart']): the key in use is fetched anew, and the    *)
(* answer to the fetch under way is dropped, unless it is the key's first. *)
FirstFetch == fetch[selected] # None /\ shown[selected] = None
Invalidated == IF FirstFetch THEN fetch
               ELSE [fetch EXCEPT ![selected] = Asked]

(* A mutant: checkout.ts does not wait for the order it places.            *)
Succeed_NotAwaited(k) ==
  /\ answer[k] = "waiting" /\ request[k].step \in {"placed", "done", "late"}
  /\ answer' = [answer EXCEPT ![k] = "ok"]
  /\ fetch' = Invalidated
  /\ UNCHANGED <<request, unsettled, cartVars, selected, shown, failures,
                 overtaken, unnoticed>>

Succeed(k) ==
  /\ answer[k] = "waiting" /\ request[k].step \in {"done", "late"}
  /\ answer' = [answer EXCEPT ![k] = "ok"]
  /\ fetch' = Invalidated
  /\ failures' = [failures EXCEPT ![selected] = IF FirstFetch THEN @ ELSE 0]
  /\ overtaken' = IF FirstFetch THEN overtaken \cup {selected}
                  ELSE overtaken \ {selected}
  /\ unnoticed' = FALSE
  /\ UNCHANGED <<request, unsettled, cartVars, selected, shown>>

(* GET of pages/api/cart.ts reads the cart, then each product in it.       *)
GetCart(c) ==
  /\ fetch[c] = Asked
  /\ fetch' = [fetch EXCEPT ![c] = [step |-> "read", items |-> cart]]
  /\ UNCHANGED <<cartVars, callVars, unnoticed, selected, shown, failures, overtaken>>

Show(c) ==
  /\ fetch[c] # None /\ fetch[c].step = "read"
  /\ shown' = [shown EXCEPT ![c] = fetch[c].items]
  /\ fetch' = [fetch EXCEPT ![c] = None]
  /\ failures' = [failures EXCEPT ![c] = 0]
  /\ overtaken' = IF c = selected THEN overtaken ELSE overtaken \ {c}
  /\ UNCHANGED <<cartVars, callVars, unnoticed, selected>>

(* What is on display stays there when the last try fails as well.         *)
FetchFails(c) ==
  /\ fetch[c] # None
  /\ IF failures[c] < Retries
     THEN /\ fetch' = [fetch EXCEPT ![c] = Asked]
          /\ failures' = [failures EXCEPT ![c] = failures[c] + 1]
     ELSE /\ fetch' = [fetch EXCEPT ![c] = None]
          /\ failures' = [failures EXCEPT ![c] = Retries + 1]
  /\ overtaken' = IF c # selected /\ failures[c] < Retries THEN overtaken
                  ELSE overtaken \ {c}
  /\ UNCHANGED <<cartVars, callVars, unnoticed, selected, shown>>

(* Another currency: its key is fetched, unless it is being fetched, and   *)
(* the fetch of the key that is left goes on.                              *)
Select(c) ==
  /\ c # selected
  /\ selected' = c
  /\ overtaken' = IF fetch[selected] # None THEN overtaken \cup {selected}
                  ELSE overtaken
  /\ fetch' = [fetch EXCEPT ![c] = IF @ = None THEN Asked ELSE @]
  /\ failures' = [failures EXCEPT ![c] = IF fetch[c] = None THEN 0 ELSE @]
  /\ UNCHANGED <<cartVars, callVars, unnoticed, shown>>

(* The window gets the focus back: the key in use is fetched.              *)
Refocus ==
  /\ fetch[selected] = None /\ failures[selected] > Retries
  /\ fetch' = Invalidated
  /\ failures' = [failures EXCEPT ![selected] = 0]
  /\ overtaken' = overtaken \ {selected}
  /\ unnoticed' = FALSE
  /\ UNCHANGED <<cartVars, callVars, selected, shown>>

Answer(k)  == Fail(k) \/ Succeed(k)
Work(k)    == \/ AddItem(k) \/ EmptyCart(k) \/ PlaceOrder(k)
              \/ EmptyOrderedCart(k) \/ LeaveCart(k)
Query(c)   == GetCart(c) \/ Show(c) \/ FetchFails(c)

Next == \/ \E k \in Clicks : \/ \E kind \in Kinds(k) : Click(k, kind)
                              \/ Work(k) \/ Answer(k)
        \/ \E c \in Currencies : Query(c) \/ Select(c)
        \/ Refocus

Spec == Init /\ [][Next]_vars

-----------------------------------------------------------------------------
(* At rest, with everything answered and nothing failed, the shopper sees  *)
(* the cart as it is: an answer that was read before a change is never     *)
(* left on display after it.  It can be for a currency that the shopper    *)
(* left while it was being fetched and came back to, when the change was   *)
(* confirmed while the cart was fetched for the first time, and when a     *)
(* cart is emptied only after its order was confirmed.                     *)
AtRest == /\ \A k \in Clicks : /\ answer[k] \in {None, "ok"}
                               /\ request[k].step \in {"idle", "done"}
          /\ fetch[selected] = None /\ failures[selected] = 0
CartOnDisplayIsCurrent ==
  AtRest /\ selected \notin overtaken /\ ~unnoticed => shown[selected] = cart

(* A shopper who waits for the confirmation never pays for the same item   *)
(* twice: of two orders that share one, the later was submitted before the *)
(* other was confirmed - by a second click, or after an error whose order  *)
(* had been placed - or while the cart was still to be emptied for it.     *)
PaidOnce ==
  \A j, k \in Orders :
    j # k /\ paid[j] # None /\ paid[k] # None /\ paid[j] \cap paid[k] # {} =>
      j \in unsettled[k] \/ k \in unsettled[j]

-----------------------------------------------------------------------------
(* The inductive invariants of the proofs.                                 *)
Steps   == {"idle", "sent", "placed", "late", "done"}
Fetches == [step : {"asked", "read"}, items : SUBSET Clicks]

(* What the values of the constants must be: None is apart.                *)
Sound ==
  /\ Retries \in Nat
  /\ \A items \in SUBSET Clicks : None # items
  /\ None \notin {"waiting", "ok", "error"} /\ None \notin Fetches

TypeOK ==
  /\ cart \in SUBSET Clicks
  /\ paid \in [Clicks -> {None} \cup SUBSET Clicks]
  /\ request \in [Clicks -> [kind : {"add", "empty", "order", None}, step : Steps]]
  /\ answer \in [Clicks -> {None, "waiting", "ok", "error"}]
  /\ unsettled \in [Clicks -> SUBSET Orders]
  /\ selected \in Currencies /\ DOMAIN shown = Currencies
  /\ fetch \in [Currencies -> Fetches \cup {None}]
  /\ failures \in [Currencies -> Nat]
  /\ overtaken \in SUBSET Currencies
  /\ unnoticed \in BOOLEAN

(* How far a click is, and what of it is answered.                         *)
ClicksGoOn ==
  \A k \in Clicks :
    /\ request[k].step = "idle" <=> answer[k] = None
    /\ answer[k] = "ok" => request[k].step \in {"done", "late"}
    /\ k \in Orders /\ request[k].step # "idle" => request[k].kind = "order"
    /\ paid[k] # None => request[k].step \in {"placed", "late", "done"}
    /\ request[k].step \in {"placed", "late"} => request[k].kind = "order"

(* What is in the cart, or was ordered, was added, and never is again; what *)
(* an order that has emptied the cart paid for is not in it any more.      *)
Added(i) == request[i].kind = "add" /\ request[i].step = "done"
ItemsAreAddedOnce ==
  /\ \A i \in cart : Added(i)
  /\ \A k \in Clicks : paid[k] # None => \A i \in paid[k] : Added(i)
  /\ \A k \in Orders : paid[k] # None /\ request[k].step = "done" =>
       paid[k] \cap cart = {}

(* Of two orders, one was not settled when the other was submitted, or     *)
(* emptied the cart before the other paid.                                 *)
Before(j, k) ==
  \/ j \in unsettled[k]
  \/ /\ request[j].step = "done"
     /\ paid[j] # None /\ paid[k] # None => paid[j] \cap paid[k] = {}
OrdersAreApart ==
  \A j, k \in Orders :
    j # k /\ request[j].step # "idle" /\ request[k].step # "idle" =>
      Before(j, k) \/ Before(k, j)

(* As long as a click is not confirmed, the cart may have changed since it *)
(* was read; when all are, what is read or on display is the cart, in the  *)
(* three cases of CartOnDisplayIsCurrent and of keys that are not in use.  *)
Confirmed == \A k \in Clicks : answer[k] \in {None, "ok"}
DisplayIsRenewed ==
  /\ Confirmed /\ ~unnoticed /\ selected \notin overtaken =>
       /\ fetch[selected] # None /\ fetch[selected].step = "read" =>
            fetch[selected].items = cart
       /\ fetch[selected] = None /\ failures[selected] = 0 => shown[selected] = cart
  /\ \A c \in Currencies : c # selected /\ fetch[c] # None => c \in overtaken

IInv == /\ TypeOK /\ ClicksGoOn
        /\ ItemsAreAddedOnce /\ OrdersAreApart
        /\ DisplayIsRenewed
=============================================================================
