------------------------------ MODULE Checkout ------------------------------
(***************************************************************************)
(* The checkout service: concurrent PlaceOrder calls (src/checkout/main.go)*)
(* and what they do to the services they call.                             *)
(*                                                                         *)
(* A call is a sequence of requests to other services, none of them under  *)
(* a lock or a transaction.  Reads (cart, catalogue, currency, quote) are  *)
(* one step each.  The calls that change another service (charge, ship,    *)
(* empty, mail) are two: they are sent, and they are carried out there.    *)
(* In between the client may cancel the call, the connection may fail, or  *)
(* the checkout process may die, and the call may be carried out still.    *)
(*                                                                         *)
(* Carts, prices and quantities are reduced to the set of products in a    *)
(* cart.  OrderTotal models the amount, KafkaProducer the hand-over to     *)
(* Kafka: here the producer accepts a message, and answers, when it likes, *)
(* if ever.  The cart changes from outside in every way CartStore has: the *)
(* shopper adds and empties, AddItem writes back a cart it read before,    *)
(* the key expires.                                                        *)
(***************************************************************************)
EXTENDS Naturals

CONSTANTS
    Requests,        \* PlaceOrder calls
    Users,
    UserOf,          \* the user of each call
    Products,
    PanickingCarts,  \* carts whose total makes money.Must panic (OrderTotal)
    None             \* no items: not read, not charged, not shipped

ASSUME CheckoutAssumption ==
    /\ UserOf \in [Requests -> Users]
    /\ PanickingCarts \subseteq SUBSET Products
    /\ \A items \in SUBSET Products : items # None

Items == SUBSET Products

Effects == {"charge", "ship", "empty", "mail"}

\* The state of the handler of a call.  Those ending in -ing wait for the
\* answer of a call that was sent; the last line are the outcomes: the three
\* the client sees, and the handler that died with the process.
Reading == {"cart", "items", "quote", "convert", "total"}
Waiting == {"charging", "shipping", "emptying", "mailing"}
Outcome == {"ok", "Internal", "Unavailable", "dead"}
PcState == {"idle"} \cup Reading \cup Effects \cup Waiting
               \cup {"publish", "acking"} \cup Outcome

VARIABLES
    pc,         \* handler state of each call
    snapshot,   \* prep.cartItems: the cart as the call read it
    cancelled,  \* calls whose context is done
    calls,      \* calls to other services on their way: <<effect, request>>
    kafka,      \* "off" (no KAFKA_ADDR), "ready", or "failed" (nil producer)
    buffered,   \* orders accepted by the Kafka producer of this process
    cart,       \* cart service: the products in each user's cart
    copies,     \* cart service: the carts that AddItem calls have read
    charged,    \* payment service: the items each call's charge was for
    shipped,    \* shipping service: the items shipped for each call
    mailed,     \* email service: calls confirmed by mail
    events,     \* Kafka: calls whose order is stored in the topic
    addedSince  \* history: products put in the cart since a call read it

handler == <<pc, snapshot, cancelled, calls, kafka, buffered>>
services == <<cart, copies, charged, shipped, mailed, events>>
vars == <<handler, services, addedSince>>

Init ==
    /\ pc = [r \in Requests |-> "idle"]
    /\ snapshot = [r \in Requests |-> None]
    /\ cancelled = {}
    /\ calls = {}
    /\ kafka \in {"off", "ready", "failed"}
    /\ buffered = {}
    /\ cart \in [Users -> Items]
    /\ copies = [u \in Users |-> {}]
    /\ charged = [r \in Requests |-> None]
    /\ shipped = [r \in Requests |-> None]
    /\ mailed = {}
    /\ events = {}
    /\ addedSince = [r \in Requests |-> {}]

InProgress(r) == pc[r] \notin {"idle"} \cup Outcome

Goto(r, state) == pc' = [pc EXCEPT ![r] = state]

-----------------------------------------------------------------------------
(* The client and the other users of the cart. *)

PlaceOrder(r) ==
    /\ pc[r] = "idle"
    /\ Goto(r, "cart")
    /\ UNCHANGED <<snapshot, cancelled, calls, kafka, buffered, services, addedSince>>

\* The client gives up: the call's context is done.
Cancel(r) ==
    /\ InProgress(r) /\ r \notin cancelled
    /\ cancelled' = cancelled \cup {r}
    /\ UNCHANGED <<pc, snapshot, calls, kafka, buffered, services, addedSince>>

\* The cart of a user changes in the cart service.
SetCart(u, items) ==
    /\ cart' = [cart EXCEPT ![u] = items]
    /\ addedSince' = [r \in Requests |->
            IF UserOf[r] = u /\ snapshot[r] # None
            THEN addedSince[r] \cup (items \ cart[u]) ELSE addedSince[r]]
    /\ UNCHANGED <<handler, copies, charged, shipped, mailed, events>>

\* AddItem of the cart service reads the cart,
ReadForAdd(u) ==
    /\ copies' = [copies EXCEPT ![u] = @ \cup {cart[u]}]
    /\ UNCHANGED <<handler, cart, charged, shipped, mailed, events, addedSince>>

\* and writes it back with one product more, whatever was written since.  The
\* copy stays: another call may have read the same.
AddItem(u, p) == \E copy \in copies[u] : SetCart(u, copy \cup {p})

\* The shopper empties the cart, or its key expires.
LoseCart(u) == SetCart(u, {})

-----------------------------------------------------------------------------
(* PlaceOrder up to the total: reads only, every failure answers Internal. *)

ReadCart(r) ==
    /\ pc[r] = "cart" /\ r \notin cancelled
    /\ snapshot' = [snapshot EXCEPT ![r] = cart[UserOf[r]]]
    /\ Goto(r, "items")
    /\ UNCHANGED <<cancelled, calls, kafka, buffered, services, addedSince>>

\* GetProduct and Convert for each item, then the quote and its conversion.
Prepare(r) ==
    /\ r \notin cancelled
    /\ \/ pc[r] = "items" /\ Goto(r, "quote")
       \/ pc[r] = "quote" /\ Goto(r, "convert")
       \/ pc[r] = "convert" /\ Goto(r, "total")
    /\ UNCHANGED <<snapshot, cancelled, calls, kafka, buffered, services, addedSince>>

\* Any of these calls fails, or its context is done.
ReadFails(r) ==
    /\ pc[r] \in Reading \ {"total"}
    /\ Goto(r, "Internal")
    /\ UNCHANGED <<snapshot, cancelled, calls, kafka, buffered, services, addedSince>>

\* Every handler in progress dies with the process, and so do the orders the
\* producer had not sent.  The next process connects to Kafka anew.
Die ==
    /\ pc' = [r \in Requests |-> IF InProgress(r) THEN "dead" ELSE pc[r]]
    /\ buffered' = {}
    /\ kafka' \in IF kafka = "off" THEN {"off"} ELSE {"ready", "failed"}
    /\ UNCHANGED <<snapshot, cancelled, calls, services, addedSince>>

\* The loop over money.Must(money.Sum(...)), which panics or not.
ComputeTotal(r) ==
    /\ pc[r] = "total"
    /\ \/ snapshot[r] \in PanickingCarts /\ Die
       \/ /\ snapshot[r] \notin PanickingCarts
          /\ Goto(r, "charge")
          /\ UNCHANGED <<snapshot, cancelled, calls, kafka, buffered, services, addedSince>>

-----------------------------------------------------------------------------
(* Calls that change another service. *)

WaitFor == [e \in Effects |->
    CASE e = "charge" -> "charging" [] e = "ship" -> "shipping"
      [] e = "empty" -> "emptying"  [] e = "mail" -> "mailing"]

\* Mutants: the cart is emptied, or the order is confirmed, before it ships.
Succeeded_EmptyFirst == [e \in Effects |->
    CASE e = "charge" -> "empty" [] e = "empty" -> "ship"
      [] e = "ship" -> "mail"    [] e = "mail" -> "publish"]

Succeeded_MailFirst == [e \in Effects |->
    CASE e = "charge" -> "mail" [] e = "mail" -> "ship"
      [] e = "ship" -> "empty"  [] e = "empty" -> "publish"]

\* Where the handler continues when the call succeeded, and when it failed:
\* errors of emptyUserCart and sendOrderConfirmation are ignored.
Succeeded == [e \in Effects |->
    CASE e = "charge" -> "ship" [] e = "ship" -> "empty"
      [] e = "empty" -> "mail"  [] e = "mail" -> "publish"]

\* Mutants: a failed charge, or a failed shipment, is ignored like a failed
\* mail; a failed shipment answers like any other error.
Failed_ChargeIgnored == [e \in Effects |->
    CASE e = "charge" -> "ship" [] e = "ship" -> "Unavailable"
      [] e = "empty" -> "mail"  [] e = "mail" -> "publish"]


Failed_ShipInternal == [e \in Effects |->
    CASE e = "charge" -> "Internal" [] e = "ship" -> "Internal"
      [] e = "empty" -> "mail"      [] e = "mail" -> "publish"]

Failed == [e \in Effects |->
    CASE e = "charge" -> "Internal" [] e = "ship" -> "Unavailable"
      [] e = "empty" -> "mail"      [] e = "mail" -> "publish"]

SendCall(r, e) ==
    /\ pc[r] = e /\ r \notin cancelled
    /\ calls' = calls \cup {<<e, r>>}
    /\ Goto(r, WaitFor[e])
    /\ UNCHANGED <<snapshot, cancelled, kafka, buffered, services, addedSince>>

\* The call is not sent, because its context is done, the address cannot be
\* reached (flag paymentUnreachable), or the service refuses it (an invalid
\* card, a quantity it cannot parse); or it was sent and the handler gets an
\* error or a done context instead of the answer, the call still on its way.
CallFails(r, e) ==
    /\ pc[r] \in {e, WaitFor[e]}
    /\ Goto(r, Failed[e])
    /\ UNCHANGED <<snapshot, cancelled, calls, kafka, buffered, services, addedSince>>

\* What a call does where it arrives.
Charge(r) ==
    /\ charged' = [charged EXCEPT ![r] = snapshot[r]]
    /\ UNCHANGED <<cart, copies, shipped, mailed, events>>

\* Mutant: the cart is read again for the shipment.
Ship_RereadCart(r) ==
    /\ shipped' = [shipped EXCEPT ![r] = cart[UserOf[r]]]
    /\ UNCHANGED <<cart, copies, charged, mailed, events>>

Ship(r) ==
    /\ shipped' = [shipped EXCEPT ![r] = snapshot[r]]
    /\ UNCHANGED <<cart, copies, charged, mailed, events>>

EmptyCart(r) ==
    /\ cart' = [cart EXCEPT ![UserOf[r]] = {}]
    /\ UNCHANGED <<copies, charged, shipped, mailed, events>>

Mail(r) ==
    /\ mailed' = mailed \cup {r}
    /\ UNCHANGED <<cart, copies, charged, shipped, events>>

\* The call is carried out.  Its answer reaches the handler if that still
\* waits for it and the connection holds.
Serve(r, e) ==
    /\ <<e, r>> \in calls
    /\ calls' = calls \ {<<e, r>>}
    /\ \/ e = "charge" /\ Charge(r)
       \/ e = "ship" /\ Ship(r)
       \/ e = "empty" /\ EmptyCart(r)
       \/ e = "mail" /\ Mail(r)
    /\ \/ pc[r] = WaitFor[e] /\ Goto(r, Succeeded[e])
       \/ UNCHANGED pc
    /\ UNCHANGED <<snapshot, cancelled, kafka, buffered, addedSince>>

-----------------------------------------------------------------------------
(* sendToPostProcessor, and the answer. *)

\* Mutant: only a producer that failed is skipped, not one never asked for.
SkipKafka_FailedOnly(r) ==
    /\ pc[r] = "publish" /\ kafka = "failed"
    /\ Goto(r, "ok")
    /\ UNCHANGED <<snapshot, cancelled, calls, kafka, buffered, services, addedSince>>

\* KAFKA_ADDR is not set: the order is answered without an event.
SkipKafka(r) ==
    /\ pc[r] = "publish" /\ kafka = "off"
    /\ Goto(r, "ok")
    /\ UNCHANGED <<snapshot, cancelled, calls, kafka, buffered, services, addedSince>>

\* Input() <- &msg, which waits while the producer is full: whether it has
\* room is KafkaProducer's matter, and here the step may never come.  A producer
\* that could not be created is a nil interface: using it panics.
Publish(r) ==
    /\ pc[r] = "publish"
    /\ \/ kafka = "failed" /\ Die
       \/ /\ kafka = "ready"
          /\ buffered' = buffered \cup {r}
          /\ Goto(r, "acking")
          /\ UNCHANGED <<snapshot, cancelled, calls, kafka, services, addedSince>>

\* Mutant: the inner select has no case for the context.
StopPublishing_BeforeInput(r) ==
    /\ kafka = "ready"
    /\ pc[r] = "publish" /\ r \in cancelled
    /\ Goto(r, "ok")
    /\ UNCHANGED <<snapshot, cancelled, calls, kafka, buffered, services, addedSince>>

\* <-ctx.Done(), before or after the message was accepted.
StopPublishing(r) ==
    /\ kafka = "ready"
    /\ pc[r] \in {"publish", "acking"} /\ r \in cancelled
    /\ Goto(r, "ok")
    /\ UNCHANGED <<snapshot, cancelled, calls, kafka, buffered, services, addedSince>>

\* The handler takes a success or an error, its own or another order's, from
\* the channels all handlers share.
Acknowledged(r) ==
    /\ pc[r] = "acking"
    /\ Goto(r, "ok")
    /\ UNCHANGED <<snapshot, cancelled, calls, kafka, buffered, services, addedSince>>

\* The producer sends a buffered order to the broker, or drops it.
Produce(r) ==
    /\ r \in buffered
    /\ buffered' = buffered \ {r}
    /\ events' = events \cup {r} \/ UNCHANGED events
    /\ UNCHANGED <<pc, snapshot, cancelled, calls, kafka, cart, copies,
                   charged, shipped, mailed, addedSince>>

\* The process is killed: SIGTERM is not handled (main blocks in srv.Serve
\* before it installs the handler), a panic of another call is not recovered.
Crash == (\E r \in Requests : InProgress(r)) /\ Die

-----------------------------------------------------------------------------

Handle(r) ==
    \/ ReadCart(r) \/ Prepare(r) \/ ReadFails(r) \/ ComputeTotal(r)
    \/ \E e \in Effects : SendCall(r, e) \/ CallFails(r, e)
    \/ SkipKafka(r) \/ Publish(r) \/ StopPublishing(r)

Next ==
    \/ \E r \in Requests :
        \/ PlaceOrder(r) \/ Cancel(r)
        \/ Handle(r)
        \/ \E e \in Effects : Serve(r, e)
        \/ Acknowledged(r) \/ Produce(r)
    \/ \E u \in Users :
        \/ ReadForAdd(u) \/ LoseCart(u)
        \/ \E p \in Products : AddItem(u, p)
    \/ Crash

\* What a handler does without waiting for anybody: to compute, to send a
\* request, to die of a nil producer, to give up when its context is done.
RunsAlone(r) ==
    \/ ComputeTotal(r) \/ SkipKafka(r) \/ StopPublishing(r)
    \/ kafka = "failed" /\ Publish(r)
    \/ \E e \in Effects : SendCall(r, e)
    \/ r \in cancelled /\ (ReadFails(r) \/ \E e \in Effects : CallFails(r, e))

\* Handlers keep running.  The code sets no deadline, so nothing makes another
\* service answer or a connection fail; nor has Kafka to take or to answer.
Fairness == \A r \in Requests : WF_vars(RunsAlone(r))

Spec == Init /\ [][Next]_vars /\ Fairness

-----------------------------------------------------------------------------
(* Properties. *)

TypeOK ==
    /\ pc \in [Requests -> PcState]
    /\ snapshot \in [Requests -> {None} \cup Items]
    /\ cancelled \subseteq Requests
    /\ calls \subseteq Effects \X Requests
    /\ kafka \in {"off", "ready", "failed"}
    /\ buffered \subseteq Requests
    /\ cart \in [Users -> Items]
    /\ copies \in [Users -> SUBSET Items]
    /\ charged \in [Requests -> {None} \cup Items]
    /\ shipped \in [Requests -> {None} \cup Items]
    /\ mailed \subseteq Requests
    /\ events \subseteq Requests
    /\ addedSince \in [Requests -> Items]

\* Whatever is shipped was charged for, item by item, although the cart may
\* change between the two calls and another call may order the same cart.
ShippedIsPaid ==
    \A r \in Requests : shipped[r] # None => charged[r] = shipped[r]

\* What the client may conclude from the status of PlaceOrder.  OK: paid and
\* shipped.  Internal: nothing is shipped, nor will be.  Unavailable: the card
\* was charged, a retry pays again.
AnswersAreTruthful ==
    \A r \in Requests :
        /\ pc[r] = "ok" => charged[r] # None /\ shipped[r] # None
        /\ pc[r] = "Internal" => shipped[r] = None /\ <<"ship", r>> \notin calls
        /\ pc[r] = "Unavailable" => charged[r] # None

\* The accounting and fraud-detection services, and the customer's mailbox,
\* never see an order that was not shipped.
AnnouncedIsShipped ==
    \A r \in mailed \cup buffered \cup events : shipped[r] # None

TakesOnlyItsItems ==
    \A r \in Requests : <<"empty", r>> \in calls \ calls' =>
        /\ shipped[r] # None
        /\ cart[UserOf[r]] \ cart'[UserOf[r]] \subseteq shipped[r] \cup addedSince[r]

\* When a PlaceOrder call empties the cart, its order was shipped, and what
\* goes without having been shipped got into the cart after the call read it:
\* added, or brought back by an AddItem that had read the cart before.  (The
\* shopper and the expiry of the key may empty a cart at any time.)
OrdersTakeOnlyTheirItems == [][TakesOnlyItsItems]_vars

\* A call ends, or waits for ever for one thing: the answer to one request,
\* room in the Kafka producer (main.go:662), or Kafka's answer (main.go:663);
\* and then its client never gave up.  No other wait is without an end.
WaitsForEver(r, state) == <>[](pc[r] = state /\ r \notin cancelled)

CallsEndOrWaitForOthers ==
    \A r \in Requests :
        \/ <>[](pc[r] \in {"idle"} \cup Outcome)
        \/ \E state \in (Reading \ {"total"}) \cup Waiting : WaitsForEver(r, state)
        \/ \E state \in {"publish", "acking"} :
            WaitsForEver(r, state) /\ <>[](kafka = "ready")

\* A call whose client gave up ends, the wait for Kafka included.
CancelledCallsEnd ==
    \A r \in Requests : r \in cancelled ~> pc[r] \in Outcome

\* The handlers implement Order.
AnswerOf(r) == IF pc[r] = "ok" THEN "ok"
               ELSE IF pc[r] \in Outcome THEN "failed" ELSE "none"

Orders == INSTANCE Order WITH
    paid <- charged, sent <- shipped, told <- mailed \cup events,
    answer <- [r \in Requests |-> AnswerOf(r)]

ImplementsOrder == Orders!Spec

-----------------------------------------------------------------------------
(* The inductive invariant: what the state of a handler says of its calls. *)

BeforeCharge == {"idle", "charge"} \cup Reading
BeforeShip   == BeforeCharge \cup {"charging", "Internal", "ship"}
AfterShip    == {"empty", "emptying", "mail", "mailing", "publish", "acking", "ok"}
AfterCharge  == AfterShip \cup {"ship", "shipping", "Unavailable"}

SnapshotInv(r) ==
    /\ pc[r] \in {"idle", "cart"} => snapshot[r] = None
    /\ pc[r] \in {"items", "quote", "convert", "total", "charge", "charging"}
                 \cup AfterCharge => snapshot[r] # None
    /\ snapshot[r] # None => cart[UserOf[r]] \subseteq snapshot[r] \cup addedSince[r]

ChargeInv(r) ==
    /\ charged[r] # None => snapshot[r] # None /\ charged[r] = snapshot[r]
    /\ <<"charge", r>> \in calls => snapshot[r] # None /\ charged[r] = None
    /\ pc[r] \in BeforeCharge => charged[r] = None /\ <<"charge", r>> \notin calls
    /\ pc[r] \in AfterCharge => charged[r] # None

ShipInv(r) ==
    /\ shipped[r] # None => charged[r] # None /\ shipped[r] = snapshot[r]
    /\ <<"ship", r>> \in calls => charged[r] # None /\ shipped[r] = None
    /\ pc[r] \in BeforeShip => shipped[r] = None /\ <<"ship", r>> \notin calls
    /\ pc[r] \in AfterShip => shipped[r] # None
    /\ <<"empty", r>> \in calls \/ <<"mail", r>> \in calls => shipped[r] # None
    /\ r \in mailed \cup buffered \cup events => shipped[r] # None

IInv == TypeOK /\ \A r \in Requests : SnapshotInv(r) /\ ChargeInv(r) /\ ShipInv(r)

=============================================================================
