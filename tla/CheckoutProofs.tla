--------------------------- MODULE CheckoutProofs ---------------------------
(***************************************************************************)
(* For every number of calls, users and products: the invariant of the     *)
(* PlaceOrder handlers, the safety properties that follow from it, and the *)
(* refinement of Order.                                                    *)
(***************************************************************************)
EXTENDS Checkout, TLAPS

USE CheckoutAssumption

\* The sets of handler states the invariant speaks of.
LEMMA HandlerStates ==
  /\ WaitFor["charge"] = "charging" /\ WaitFor["ship"] = "shipping"
  /\ WaitFor["empty"] = "emptying" /\ WaitFor["mail"] = "mailing"
  /\ Succeeded["charge"] = "ship" /\ Succeeded["ship"] = "empty"
  /\ Succeeded["empty"] = "mail" /\ Succeeded["mail"] = "publish"
  /\ Failed["charge"] = "Internal" /\ Failed["ship"] = "Unavailable"
  /\ Failed["empty"] = "mail" /\ Failed["mail"] = "publish"
  BY DEF WaitFor, Succeeded, Failed, Effects

LEMMA InitIInv == Init => IInv
<1> SUFFICES ASSUME Init PROVE IInv
  OBVIOUS
<1>1. TypeOK
  BY DEF Init, TypeOK, PcState, Items
<1>2. ASSUME NEW r \in Requests
      PROVE  SnapshotInv(r) /\ ChargeInv(r) /\ ShipInv(r)
  BY DEF Init, SnapshotInv, ChargeInv, ShipInv, BeforeCharge, BeforeShip,
         AfterShip, AfterCharge, Reading
<1>3. QED
  BY <1>1, <1>2 DEF IInv

\* A step that moves one handler, and at most marks its context as done,
\* preserves the invariant when the new state claims nothing new.
LEMMA MoveIInv ==
  ASSUME NEW r \in Requests, NEW state \in PcState, IInv,
         pc' = [pc EXCEPT ![r] = state], cancelled' = cancelled,
         UNCHANGED <<snapshot, calls, kafka, buffered, services, addedSince>>,
         state \in {"idle", "cart"} => pc[r] \in {"idle", "cart"},
         state \in BeforeCharge => pc[r] \in BeforeCharge,
         state \in BeforeShip => pc[r] \in BeforeShip,
         state \in AfterCharge => pc[r] \in AfterCharge,
         state \in AfterShip => pc[r] \in AfterShip,
         state \in {"items", "quote", "convert", "total", "charge", "charging"} =>
            pc[r] \in {"items", "quote", "convert", "total", "charge", "charging"}
  PROVE  IInv'
<1>1. TypeOK'
  BY DEF IInv, TypeOK, services
<1>2. ASSUME NEW q \in Requests
      PROVE  (SnapshotInv(q) /\ ChargeInv(q) /\ ShipInv(q))'
  <2>1. SnapshotInv(q) /\ ChargeInv(q) /\ ShipInv(q) /\ pc \in [Requests -> PcState]
    BY DEF IInv, TypeOK
  <2>2. pc'[q] = IF q = r THEN state ELSE pc[q]
    BY <2>1
  <2>3. SnapshotInv(q)'
    BY <2>1, <2>2 DEF SnapshotInv, services
  <2>4. ChargeInv(q)'
    BY <2>1, <2>2 DEF ChargeInv, services
  <2>5. ShipInv(q)'
    BY <2>1, <2>2 DEF ShipInv, services
  <2>6. QED
    BY <2>3, <2>4, <2>5
<1>3. QED
  BY <1>1, <1>2 DEF IInv

LEMMA PlaceOrderIInv ==
  ASSUME NEW r \in Requests, IInv, PlaceOrder(r) PROVE IInv'
  BY MoveIInv DEF PlaceOrder, Goto, BeforeCharge, BeforeShip, AfterCharge,
     AfterShip, Reading, PcState

LEMMA PrepareIInv ==
  ASSUME NEW r \in Requests, IInv, Prepare(r) PROVE IInv'
<1>1. PICK state \in {"quote", "convert", "total"} :
         pc' = [pc EXCEPT ![r] = state] /\ pc[r] \in {"items", "quote", "convert"}
  BY DEF Prepare, Goto
<1>2. QED
  BY <1>1, MoveIInv DEF Prepare, BeforeCharge, BeforeShip, AfterCharge,
     AfterShip, Reading, PcState

LEMMA ReadFailsIInv ==
  ASSUME NEW r \in Requests, IInv, ReadFails(r) PROVE IInv'
  BY MoveIInv DEF ReadFails, Goto, BeforeCharge, BeforeShip, AfterCharge,
     AfterShip, Reading, PcState, Outcome

LEMMA DieIInv == IInv /\ Die => IInv'
<1> SUFFICES ASSUME IInv, Die PROVE IInv'
  OBVIOUS
<1>1. TypeOK'
  BY DEF IInv, TypeOK, Die, PcState, Outcome, services
<1>2. ASSUME NEW q \in Requests
      PROVE  (SnapshotInv(q) /\ ChargeInv(q) /\ ShipInv(q))'
  <2>1. SnapshotInv(q) /\ ChargeInv(q) /\ ShipInv(q)
    BY DEF IInv
  <2>2. pc'[q] = "dead" \/ pc'[q] = pc[q]
    BY DEF Die
  <2>3. SnapshotInv(q)'
    BY <2>1, <2>2 DEF SnapshotInv, Die, services, AfterCharge, AfterShip
  <2>4. ChargeInv(q)'
    BY <2>1, <2>2 DEF ChargeInv, Die, services, AfterCharge, AfterShip,
       BeforeCharge, Reading
  <2>5. ShipInv(q)'
    BY <2>1, <2>2 DEF ShipInv, Die, services, AfterShip, BeforeShip,
       BeforeCharge, Reading
  <2>6. QED
    BY <2>3, <2>4, <2>5
<1>3. QED
  BY <1>1, <1>2 DEF IInv

LEMMA ComputeTotalIInv ==
  ASSUME NEW r \in Requests, IInv, ComputeTotal(r) PROVE IInv'
<1>1. CASE Die
  BY <1>1, DieIInv
<1>2. CASE ~Die
  BY <1>2, MoveIInv DEF ComputeTotal, Goto, BeforeCharge, BeforeShip, AfterCharge,
     AfterShip, Reading, PcState, Effects
<1>3. QED
  BY <1>1, <1>2

LEMMA CancelIInv ==
  ASSUME NEW r \in Requests, IInv, Cancel(r) PROVE IInv'
  BY DEF IInv, Cancel, TypeOK, services, SnapshotInv, ChargeInv, ShipInv

\* Whatever happens to a cart from outside: what gets into it is remembered.
LEMMA SetCartIInv ==
  ASSUME NEW u \in Users, NEW items \in Items, IInv, SetCart(u, items) PROVE IInv'
<1>1. TypeOK'
  BY DEF IInv, TypeOK, SetCart, handler, Items
<1>2. ASSUME NEW q \in Requests
      PROVE  (SnapshotInv(q) /\ ChargeInv(q) /\ ShipInv(q))'
  <2>1. /\ SnapshotInv(q) /\ ChargeInv(q) /\ ShipInv(q)
        /\ UserOf[q] \in Users
        /\ cart \in [Users -> Items]
    BY DEF IInv, TypeOK
  <2>2. /\ cart'[UserOf[q]] = IF UserOf[q] = u THEN items ELSE cart[UserOf[q]]
        /\ snapshot[q] # None => addedSince'[q] =
              IF UserOf[q] = u THEN addedSince[q] \cup (items \ cart[u]) ELSE addedSince[q]
    BY <2>1 DEF SetCart
  <2>3. SnapshotInv(q)'
    BY <2>1, <2>2 DEF SnapshotInv, SetCart, handler
  <2>4. ChargeInv(q)' /\ ShipInv(q)'
    BY <2>1 DEF ChargeInv, ShipInv, SetCart, handler
  <2>5. QED
    BY <2>3, <2>4
<1>3. QED
  BY <1>1, <1>2 DEF IInv

LEMMA AddItemIInv ==
  ASSUME NEW u \in Users, NEW p \in Products, IInv, AddItem(u, p) PROVE IInv'
<1>1. PICK copy \in copies[u] : SetCart(u, copy \cup {p})
  BY DEF AddItem
<1>2. copy \cup {p} \in Items
  BY DEF IInv, TypeOK, Items
<1>3. QED
  BY <1>1, <1>2, SetCartIInv

LEMMA LoseCartIInv ==
  ASSUME NEW u \in Users, IInv, LoseCart(u) PROVE IInv'
  BY SetCartIInv DEF LoseCart, Items

LEMMA ReadForAddIInv ==
  ASSUME NEW u \in Users, IInv, ReadForAdd(u) PROVE IInv'
<1>1. TypeOK'
  BY DEF IInv, TypeOK, ReadForAdd, handler
<1>2. ASSUME NEW q \in Requests
      PROVE  (SnapshotInv(q) /\ ChargeInv(q) /\ ShipInv(q))'
  BY DEF IInv, ReadForAdd, handler, SnapshotInv, ChargeInv, ShipInv
<1>3. QED
  BY <1>1, <1>2 DEF IInv

LEMMA ReadCartIInv ==
  ASSUME NEW r \in Requests, IInv, ReadCart(r) PROVE IInv'
<1>1. /\ UserOf[r] \in Users /\ cart[UserOf[r]] \in Items
      /\ cart[UserOf[r]] # None
  BY DEF IInv, TypeOK, Items
<1>2. TypeOK'
  BY <1>1 DEF IInv, TypeOK, ReadCart, Goto, PcState, Reading, Items, services
<1>3. ASSUME NEW q \in Requests
      PROVE  (SnapshotInv(q) /\ ChargeInv(q) /\ ShipInv(q))'
  <2>1. /\ SnapshotInv(q) /\ ChargeInv(q) /\ ShipInv(q)
        /\ pc \in [Requests -> PcState] /\ snapshot \in [Requests -> {None} \cup Items]
        /\ addedSince \in [Requests -> Items]
    BY DEF IInv, TypeOK
  <2>2. /\ pc'[q] = IF q = r THEN "items" ELSE pc[q]
        /\ snapshot'[q] = IF q = r THEN cart[UserOf[r]] ELSE snapshot[q]
        /\ pc[r] = "cart"
        /\ UNCHANGED <<calls, addedSince, cart, charged, shipped, mailed, events, buffered>>
    BY <2>1 DEF ReadCart, Goto, services
  <2>3. q = r => charged[q] = None /\ shipped[q] = None
    BY <2>1, <2>2 DEF ChargeInv, ShipInv, BeforeCharge, BeforeShip, Reading
  <2>4. SnapshotInv(q)'
    BY <1>1, <2>1, <2>2 DEF SnapshotInv
  <2>5. ChargeInv(q)'
    BY <1>1, <2>1, <2>2, <2>3 DEF ChargeInv, AfterCharge, AfterShip, BeforeCharge, Reading
  <2>6. ShipInv(q)'
    BY <1>1, <2>1, <2>2, <2>3 DEF ShipInv, AfterShip, BeforeShip, BeforeCharge, Reading
  <2>7. QED
    BY <2>4, <2>5, <2>6
<1>4. QED
  BY <1>2, <1>3 DEF IInv

LEMMA SendCallIInv ==
  ASSUME NEW r \in Requests, NEW e \in Effects, IInv, SendCall(r, e) PROVE IInv'
<1>1. /\ e \in {"charge", "ship", "empty", "mail"} /\ WaitFor[e] \in PcState
  BY HandlerStates DEF Effects, PcState, Waiting
<1>2. TypeOK'
  BY <1>1 DEF IInv, TypeOK, SendCall, Goto, services
<1>3. ASSUME NEW q \in Requests
      PROVE  (SnapshotInv(q) /\ ChargeInv(q) /\ ShipInv(q))'
  <2>1. /\ SnapshotInv(q) /\ ChargeInv(q) /\ ShipInv(q)
        /\ pc \in [Requests -> PcState]
    BY DEF IInv, TypeOK
  <2>2. /\ pc'[q] = IF q = r THEN WaitFor[e] ELSE pc[q]
        /\ pc[r] = e
        /\ calls' = calls \cup {<<e, r>>}
        /\ UNCHANGED <<snapshot, cart, charged, shipped, mailed, events, buffered, addedSince>>
    BY <2>1 DEF SendCall, Goto, services
  <2>3. SnapshotInv(q)'
    BY <1>1, <2>1, <2>2, HandlerStates DEF SnapshotInv, AfterCharge, AfterShip
  <2>4. ChargeInv(q)'
    BY <1>1, <2>1, <2>2, HandlerStates
       DEF ChargeInv, SnapshotInv, AfterCharge, AfterShip, BeforeCharge, Reading
  <2>5. ShipInv(q)'
    BY <1>1, <2>1, <2>2, HandlerStates
       DEF ShipInv, ChargeInv, AfterCharge, AfterShip, BeforeShip, BeforeCharge, Reading
  <2>6. QED
    BY <2>3, <2>4, <2>5
<1>4. QED
  BY <1>2, <1>3 DEF IInv

LEMMA CallFailsIInv ==
  ASSUME NEW r \in Requests, NEW e \in Effects, IInv, CallFails(r, e) PROVE IInv'
<1>1. e \in {"charge", "ship", "empty", "mail"}
  BY DEF Effects
<1>2. QED
  BY <1>1, MoveIInv, HandlerStates
     DEF CallFails, Goto, BeforeCharge, BeforeShip, AfterCharge, AfterShip, Reading,
         PcState, Effects, Outcome

LEMMA ServeIInv ==
  ASSUME NEW r \in Requests, NEW e \in Effects, IInv, Serve(r, e) PROVE IInv'
<1>1. /\ e \in {"charge", "ship", "empty", "mail"} /\ Succeeded[e] \in PcState
      /\ <<e, r>> \in calls /\ calls' = calls \ {<<e, r>>}
      /\ UNCHANGED <<snapshot, cancelled, kafka, buffered, addedSince>>
  BY HandlerStates DEF Effects, PcState, Serve
<1>2. SnapshotInv(r) /\ ChargeInv(r) /\ ShipInv(r)
  BY DEF IInv
<1>3. /\ pc' \in [Requests -> PcState]
      /\ \A q \in Requests : \/ pc'[q] = pc[q]
                             \/ q = r /\ pc[q] = WaitFor[e] /\ pc'[q] = Succeeded[e]
  BY <1>1 DEF IInv, TypeOK, Serve, Goto
<1>4. \/ e = "charge" /\ Charge(r)
      \/ e = "ship" /\ Ship(r)
      \/ e = "empty" /\ EmptyCart(r)
      \/ e = "mail" /\ Mail(r)
  BY DEF Serve
<1>5. snapshot[r] \in {None} \cup Items /\ UserOf[r] \in Users
  BY DEF IInv, TypeOK
<1>6. TypeOK'
  BY <1>1, <1>3, <1>4, <1>5
     DEF IInv, TypeOK, Charge, Ship, EmptyCart, Mail, Items
<1>7. ASSUME NEW q \in Requests
      PROVE  (SnapshotInv(q) /\ ChargeInv(q) /\ ShipInv(q))'
  <2>1. /\ SnapshotInv(q) /\ ChargeInv(q) /\ ShipInv(q) /\ TypeOK
        /\ UserOf[q] \in Users
    BY DEF IInv
  <2>2. CASE e = "charge"
    <3>1. /\ charged'[q] = IF q = r THEN snapshot[r] ELSE charged[q]
          /\ UNCHANGED <<cart, shipped, mailed, events>>
      BY <1>4, <2>1, <2>2 DEF Charge, TypeOK
    <3>2. SnapshotInv(q)'
      BY <1>1, <1>2, <1>3, <2>1, <2>2, <3>1, HandlerStates
         DEF SnapshotInv, ChargeInv, AfterCharge, AfterShip
    <3>3. ChargeInv(q)'
      BY <1>1, <1>2, <1>3, <2>1, <2>2, <3>1, HandlerStates
         DEF ChargeInv, AfterCharge, AfterShip, BeforeCharge, Reading
    <3>4. ShipInv(q)'
      BY <1>1, <1>2, <1>3, <2>1, <2>2, <3>1, HandlerStates
         DEF ShipInv, ChargeInv, AfterCharge, AfterShip, BeforeShip, BeforeCharge, Reading
    <3>5. QED
      BY <3>2, <3>3, <3>4
  <2>3. CASE e = "ship"
    <3>1. /\ shipped'[q] = IF q = r THEN snapshot[r] ELSE shipped[q]
          /\ UNCHANGED <<cart, charged, mailed, events>>
      BY <1>4, <2>1, <2>3 DEF Ship, TypeOK
    <3>2. SnapshotInv(q)'
      BY <1>1, <1>2, <1>3, <2>1, <2>3, <3>1, HandlerStates
         DEF SnapshotInv, ChargeInv, AfterCharge, AfterShip
    <3>3. ChargeInv(q)'
      BY <1>1, <1>2, <1>3, <2>1, <2>3, <3>1, HandlerStates
         DEF ChargeInv, AfterCharge, AfterShip, BeforeCharge, Reading
    <3>4. ShipInv(q)'
      BY <1>1, <1>2, <1>3, <2>1, <2>3, <3>1, HandlerStates
         DEF ShipInv, ChargeInv, AfterCharge, AfterShip, BeforeShip, BeforeCharge, Reading
    <3>5. QED
      BY <3>2, <3>3, <3>4
  <2>4. CASE e = "empty"
    <3>1. /\ cart'[UserOf[q]] = IF UserOf[q] = UserOf[r] THEN {} ELSE cart[UserOf[q]]
          /\ UNCHANGED <<charged, shipped, mailed, events>>
      BY <1>4, <1>5, <2>1, <2>4 DEF EmptyCart, TypeOK
    <3>2. SnapshotInv(q)'
      BY <1>1, <1>3, <2>1, <2>4, <3>1, HandlerStates
         DEF SnapshotInv, AfterCharge, AfterShip
    <3>3. ChargeInv(q)'
      BY <1>1, <1>3, <2>1, <2>4, <3>1, HandlerStates
         DEF ChargeInv, AfterCharge, AfterShip, BeforeCharge, Reading
    <3>4. ShipInv(q)'
      BY <1>1, <1>3, <2>1, <2>4, <3>1, HandlerStates
         DEF ShipInv, AfterShip, BeforeShip, BeforeCharge, Reading
    <3>5. QED
      BY <3>2, <3>3, <3>4
  <2>5. CASE e = "mail"
    <3>1. /\ mailed' = mailed \cup {r}
          /\ UNCHANGED <<cart, charged, shipped, events>>
      BY <1>4, <2>5 DEF Mail
    <3>2. SnapshotInv(q)'
      BY <1>1, <1>3, <2>1, <2>5, <3>1, HandlerStates
         DEF SnapshotInv, AfterCharge, AfterShip
    <3>3. ChargeInv(q)'
      BY <1>1, <1>3, <2>1, <2>5, <3>1, HandlerStates
         DEF ChargeInv, AfterCharge, AfterShip, BeforeCharge, Reading
    <3>4. ShipInv(q)'
      BY <1>1, <1>2, <1>3, <2>1, <2>5, <3>1, HandlerStates
         DEF ShipInv, AfterShip, BeforeShip, BeforeCharge, Reading
    <3>5. QED
      BY <3>2, <3>3, <3>4
  <2>6. QED
    BY <1>1, <2>2, <2>3, <2>4, <2>5
<1>8. QED
  BY <1>6, <1>7 DEF IInv

LEMMA ToOkIInv ==
  ASSUME NEW r \in Requests, IInv,
         SkipKafka(r) \/ StopPublishing(r) \/ Acknowledged(r)
  PROVE  IInv'
  BY MoveIInv
     DEF SkipKafka, StopPublishing, Acknowledged, Goto, BeforeCharge, BeforeShip,
         AfterCharge, AfterShip, Reading, PcState, Outcome

LEMMA PublishIInv ==
  ASSUME NEW r \in Requests, IInv, Publish(r) PROVE IInv'
<1>1. CASE Die
  BY <1>1, DieIInv
<1>2. CASE ~Die
  <2>1. TypeOK'
    BY <1>2 DEF IInv, TypeOK, Publish, Goto, PcState, services
  <2>2. ASSUME NEW q \in Requests
        PROVE  (SnapshotInv(q) /\ ChargeInv(q) /\ ShipInv(q))'
    <3>1. /\ SnapshotInv(q) /\ ChargeInv(q) /\ ShipInv(q)
          /\ pc \in [Requests -> PcState]
      BY DEF IInv, TypeOK
    <3>2. /\ pc'[q] = IF q = r THEN "acking" ELSE pc[q]
          /\ pc[r] = "publish" /\ buffered' = buffered \cup {r}
          /\ UNCHANGED <<snapshot, calls, cart, charged, shipped, mailed, events, addedSince>>
      BY <1>2, <3>1 DEF Publish, Goto, services
    <3>3. SnapshotInv(q)'
      BY <3>1, <3>2 DEF SnapshotInv, AfterCharge, AfterShip
    <3>4. ChargeInv(q)'
      BY <3>1, <3>2 DEF ChargeInv, AfterCharge, AfterShip, BeforeCharge, Reading
    <3>5. ShipInv(q)'
      BY <3>1, <3>2 DEF ShipInv, AfterShip, BeforeShip, BeforeCharge, Reading
    <3>6. QED
      BY <3>3, <3>4, <3>5
  <2>3. QED
    BY <2>1, <2>2 DEF IInv
<1>3. QED
  BY <1>1, <1>2

LEMMA ProduceIInv ==
  ASSUME NEW r \in Requests, IInv, Produce(r) PROVE IInv'
  BY DEF IInv, Produce, TypeOK, SnapshotInv, ChargeInv, ShipInv

LEMMA NextIInv == IInv /\ [Next]_vars => IInv'
<1> SUFFICES ASSUME IInv, [Next]_vars PROVE IInv'
  OBVIOUS
<1>1. ASSUME NEW r \in Requests, Handle(r) PROVE IInv'
  BY <1>1, ReadCartIInv, PrepareIInv, ReadFailsIInv, ComputeTotalIInv,
     SendCallIInv, CallFailsIInv, ToOkIInv, PublishIInv DEF Handle
<1>2. CASE UNCHANGED vars
  BY <1>2 DEF vars, handler, services, IInv, TypeOK, SnapshotInv, ChargeInv, ShipInv
<1>3. QED
  BY <1>1, <1>2, PlaceOrderIInv, CancelIInv, ServeIInv, ToOkIInv, ProduceIInv,
     AddItemIInv, LoseCartIInv, ReadForAddIInv, DieIInv DEF Next, Crash

\* The invariant of the PlaceOrder handlers: their type, and what the state a
\* handler is in says of the cart it read, its charge and its shipment.
THEOREM CheckoutInvariant == Spec => []IInv
  BY InitIInv, NextIInv, PTL DEF Spec

-----------------------------------------------------------------------------

\* Whatever is shipped was charged for, item by item.
THEOREM ShippedIsPaidForAll == Spec => []ShippedIsPaid
<1>1. IInv => ShippedIsPaid
  BY DEF IInv, ShippedIsPaid, ShipInv, ChargeInv
<1>2. QED
  BY CheckoutInvariant, <1>1, PTL

\* The status code of PlaceOrder tells the client what became of the order.
THEOREM AnswersAreTruthfulForAll == Spec => []AnswersAreTruthful
<1>1. IInv => AnswersAreTruthful
  BY DEF IInv, AnswersAreTruthful, ShipInv, ChargeInv, AfterCharge, AfterShip, BeforeShip
<1>2. QED
  BY CheckoutInvariant, <1>1, PTL

\* No mail and no event for an order that was not shipped.
THEOREM AnnouncedIsShippedForAll == Spec => []AnnouncedIsShipped
<1>1. IInv => AnnouncedIsShipped
  BY DEF IInv, TypeOK, AnnouncedIsShipped, ShipInv
<1>2. QED
  BY CheckoutInvariant, <1>1, PTL

\* When a call empties the cart its order was shipped, and all that goes was
\* shipped, or got into the cart since the call read it.
THEOREM OrdersTakeOnlyTheirItemsForAll == Spec => OrdersTakeOnlyTheirItems
<1>1. ASSUME IInv, Next, NEW r \in Requests, <<"empty", r>> \in calls \ calls'
      PROVE  /\ shipped[r] # None
             /\ cart[UserOf[r]] \ cart'[UserOf[r]] \subseteq shipped[r] \cup addedSince[r]
  <2>1. shipped[r] # None /\ shipped[r] = snapshot[r] /\ snapshot[r] # None
    BY <1>1 DEF IInv, ShipInv
  <2>2. cart[UserOf[r]] \subseteq snapshot[r] \cup addedSince[r]
    BY <1>1, <2>1 DEF IInv, SnapshotInv
  <2>3. QED
    BY <2>1, <2>2
<1>2. IInv /\ [Next]_vars => [TakesOnlyItsItems]_vars
  BY <1>1 DEF TakesOnlyItsItems
<1>3. QED
  BY CheckoutInvariant, <1>2, PTL DEF Spec, OrdersTakeOnlyTheirItems

-----------------------------------------------------------------------------
(* The refinement of Order. *)

\* A step that only moves handlers that give no answer, or a failing one,
\* stutters or refuses in Order.
LEMMA Refusal ==
  ASSUME IInv, NEW R \in SUBSET Requests,
         UNCHANGED <<charged, shipped, mailed, events>>,
         \A r \in R : AnswerOf(r) = "none" /\ AnswerOf(r)' = "failed",
         \A r \in Requests \ R : AnswerOf(r)' = AnswerOf(r)
  PROVE  Orders!Refuse(R)
  BY DEF Orders!Refuse

LEMMA Stutter ==
  ASSUME UNCHANGED <<charged, shipped, mailed, events>>,
         \A r \in Requests : AnswerOf(r)' = AnswerOf(r)
  PROVE  UNCHANGED Orders!vars
  BY DEF Orders!vars

LEMMA DieRefuses == IInv /\ Die => [Orders!Next]_Orders!vars
<1> SUFFICES ASSUME IInv, Die PROVE Orders!Next
  BY DEF Orders!Next
<1> DEFINE R == {r \in Requests : InProgress(r)}
<1>1. UNCHANGED <<charged, shipped, mailed, events>>
  BY DEF Die, services
<1>2. \A r \in Requests : pc'[r] = IF InProgress(r) THEN "dead" ELSE pc[r]
  BY DEF Die
<1>3. \A r \in R : AnswerOf(r) = "none" /\ AnswerOf(r)' = "failed"
  BY <1>2 DEF AnswerOf, InProgress, Outcome
<1>4. \A r \in Requests \ R : AnswerOf(r)' = AnswerOf(r)
  BY <1>2 DEF AnswerOf
<1>5. Orders!Refuse(R)
  <2> HIDE DEF R
  <2>1. R \in SUBSET Requests
    BY DEF R
  <2>2. QED
    BY <1>1, <1>3, <1>4, <2>1, Refusal
<1>6. QED
  BY <1>5 DEF Orders!Next

\* A handler that moves on without an answer, or with a failing one.
LEMMA MoveRefines ==
  ASSUME IInv, NEW r \in Requests, NEW state \in PcState \ {"ok"},
         pc[r] \notin Outcome, pc' = [pc EXCEPT ![r] = state],
         UNCHANGED <<charged, shipped, mailed, events>>
  PROVE  [Orders!Next]_Orders!vars
<1>1. \A q \in Requests : pc'[q] = IF q = r THEN state ELSE pc[q]
  BY DEF IInv, TypeOK
<1>2. CASE state \in Outcome
  <2>1. AnswerOf(r) = "none" /\ AnswerOf(r)' = "failed"
    BY <1>1, <1>2 DEF AnswerOf, Outcome
  <2>2. \A q \in Requests \ {r} : AnswerOf(q)' = AnswerOf(q)
    BY <1>1 DEF AnswerOf
  <2>3. Orders!Refuse({r})
    BY <2>1, <2>2, Refusal
  <2>4. QED
    BY <2>3 DEF Orders!Next
<1>3. CASE state \notin Outcome
  <2>1. \A q \in Requests : AnswerOf(q)' = AnswerOf(q)
    BY <1>1, <1>3 DEF AnswerOf, Outcome
  <2>2. QED
    BY <2>1, Stutter
<1>4. QED
  BY <1>2, <1>3

LEMMA ToOkConfirms ==
  ASSUME IInv, NEW r \in Requests, pc[r] \in AfterShip \ {"ok"},
         pc' = [pc EXCEPT ![r] = "ok"],
         UNCHANGED <<charged, shipped, mailed, events>>
  PROVE  Orders!Next
<1>1. \A q \in Requests : pc'[q] = IF q = r THEN "ok" ELSE pc[q]
  BY DEF IInv, TypeOK
<1>2. charged[r] # None /\ shipped[r] # None
  BY DEF IInv, ShipInv, ChargeInv, AfterCharge
<1>3. AnswerOf(r) = "none"
  BY DEF AnswerOf, AfterShip, Outcome
<1>4. [q \in Requests |-> AnswerOf(q)]' =
          [[q \in Requests |-> AnswerOf(q)] EXCEPT ![r] = "ok"]
  BY <1>1 DEF AnswerOf
<1>5. Orders!Confirm(r)
  BY <1>2, <1>3, <1>4 DEF Orders!Confirm
<1>6. QED
  BY <1>5 DEF Orders!Next

LEMMA ServeRefines ==
  ASSUME IInv, NEW r \in Requests, NEW e \in Effects, Serve(r, e)
  PROVE  [Orders!Next]_Orders!vars
<1>1. [q \in Requests |-> AnswerOf(q)]' = [q \in Requests |-> AnswerOf(q)]
  <2>1. e \in {"charge", "ship", "empty", "mail"}
    BY DEF Effects
  <2>2. \A q \in Requests : \/ pc'[q] = pc[q]
                            \/ pc[q] = WaitFor[e] /\ pc'[q] = Succeeded[e]
    BY DEF Serve, Goto, IInv, TypeOK
  <2>3. \A q \in Requests : AnswerOf(q)' = AnswerOf(q)
    BY <2>1, <2>2, HandlerStates DEF AnswerOf, Outcome
  <2>4. QED
    BY <2>3
<1>2. <<e, r>> \in calls
  BY DEF Serve
<1>3. snapshot[r] \in {None} \cup Items
  BY DEF IInv, TypeOK
<1>4. CASE e = "charge" /\ Charge(r)
  <2>1. charged[r] = None /\ snapshot[r] \in SUBSET Products
    BY <1>2, <1>3, <1>4 DEF IInv, ChargeInv, Items
  <2>2. Orders!Pay(r)
    BY <1>1, <1>4, <2>1 DEF Charge, Orders!Pay
  <2>3. QED
    BY <2>2 DEF Orders!Next
<1>5. CASE e = "ship" /\ Ship(r)
  <2>1. charged[r] # None /\ shipped[r] = None /\ charged[r] = snapshot[r]
    BY <1>2, <1>5 DEF IInv, ShipInv, ChargeInv
  <2>2. Orders!Send(r)
    BY <1>1, <1>5, <2>1 DEF Ship, Orders!Send
  <2>3. QED
    BY <2>2 DEF Orders!Next
<1>6. CASE e = "empty" /\ EmptyCart(r)
  BY <1>1, <1>6 DEF EmptyCart, Orders!vars
<1>7. CASE e = "mail" /\ Mail(r)
  <2>1. shipped[r] # None
    BY <1>2, <1>7 DEF IInv, ShipInv
  <2>2. (mailed \cup events)' = (mailed \cup events) \cup {r}
    BY <1>7 DEF Mail
  <2>3. Orders!Tell(r)
    BY <1>1, <1>7, <2>1, <2>2 DEF Mail, Orders!Tell
  <2>4. QED
    BY <2>3 DEF Orders!Next
<1>8. QED
  BY <1>4, <1>5, <1>6, <1>7 DEF Serve

LEMMA ProduceRefines ==
  ASSUME IInv, NEW r \in Requests, Produce(r)
  PROVE  [Orders!Next]_Orders!vars
<1>1. shipped[r] # None
  BY DEF IInv, ShipInv, Produce
<1>2. [q \in Requests |-> AnswerOf(q)]' = [q \in Requests |-> AnswerOf(q)]
  BY DEF Produce, AnswerOf
<1>3. CASE events' = events \cup {r}
  <2>1. (mailed \cup events)' = (mailed \cup events) \cup {r}
    BY <1>3 DEF Produce
  <2>2. Orders!Tell(r)
    BY <1>1, <1>2, <2>1 DEF Produce, Orders!Tell
  <2>3. QED
    BY <2>2 DEF Orders!Next
<1>4. CASE events' = events
  BY <1>2, <1>4 DEF Produce, Orders!vars
<1>5. QED
  BY <1>3, <1>4 DEF Produce

LEMMA HandleRefines ==
  ASSUME IInv, NEW r \in Requests, Handle(r)
  PROVE  [Orders!Next]_Orders!vars
<1>1. CASE ReadCart(r)
  BY <1>1, MoveRefines DEF ReadCart, Goto, services, PcState, Reading, Outcome
<1>2. CASE Prepare(r)
  <2>1. PICK state \in {"quote", "convert", "total"} :
           pc' = [pc EXCEPT ![r] = state] /\ pc[r] \in {"items", "quote", "convert"}
    BY <1>2 DEF Prepare, Goto
  <2>2. QED
    BY <1>2, <2>1, MoveRefines DEF Prepare, services, PcState, Reading, Outcome
<1>3. CASE ReadFails(r)
  BY <1>3, MoveRefines DEF ReadFails, Goto, services, PcState, Reading, Outcome
<1>4. CASE ComputeTotal(r)
  BY <1>4, MoveRefines, DieRefuses
     DEF ComputeTotal, Goto, services, PcState, Effects, Outcome
<1>5. ASSUME NEW e \in Effects, SendCall(r, e) PROVE [Orders!Next]_Orders!vars
  <2>1. e \in {"charge", "ship", "empty", "mail"}
    BY DEF Effects
  <2>2. QED
    BY <1>5, <2>1, MoveRefines, HandlerStates
       DEF SendCall, Goto, services, PcState, Waiting, Outcome
<1>6. ASSUME NEW e \in Effects, CallFails(r, e) PROVE [Orders!Next]_Orders!vars
  <2>1. e \in {"charge", "ship", "empty", "mail"}
    BY DEF Effects
  <2>2. Failed[e] \in PcState \ {"ok"} /\ pc[r] \notin Outcome
    BY <1>6, <2>1, HandlerStates DEF CallFails, PcState, Outcome, Effects
  <2>3. QED
    BY <1>6, <2>2, MoveRefines DEF CallFails, Goto, services
<1>7. CASE SkipKafka(r)
  BY <1>7, ToOkConfirms DEF SkipKafka, Goto, services, AfterShip
<1>8. CASE Publish(r)
  BY <1>8, MoveRefines, DieRefuses DEF Publish, Goto, services, PcState, Outcome
<1>9. CASE StopPublishing(r)
  BY <1>9, ToOkConfirms DEF StopPublishing, Goto, services, AfterShip
<1>10. QED
  BY <1>1, <1>2, <1>3, <1>4, <1>5, <1>6, <1>7, <1>8, <1>9 DEF Handle

LEMMA StepRefines == IInv /\ [Next]_vars => [Orders!Next]_Orders!vars
<1> SUFFICES ASSUME IInv, [Next]_vars PROVE [Orders!Next]_Orders!vars
  OBVIOUS
<1>1. ASSUME NEW r \in Requests, PlaceOrder(r) PROVE [Orders!Next]_Orders!vars
  BY <1>1, MoveRefines DEF PlaceOrder, Goto, services, PcState, Reading, Outcome
<1>2. ASSUME NEW r \in Requests, Cancel(r) PROVE [Orders!Next]_Orders!vars
  BY <1>2, Stutter DEF Cancel, services, AnswerOf
<1>3. ASSUME NEW r \in Requests, Acknowledged(r) PROVE [Orders!Next]_Orders!vars
  BY <1>3, ToOkConfirms DEF Acknowledged, Goto, services, AfterShip
<1>4. ASSUME NEW u \in Users,
             ReadForAdd(u) \/ LoseCart(u) \/ \E p \in Products : AddItem(u, p)
      PROVE  [Orders!Next]_Orders!vars
  BY <1>4, Stutter DEF ReadForAdd, LoseCart, AddItem, SetCart, handler, AnswerOf
<1>5. CASE UNCHANGED vars
  BY <1>5, Stutter DEF vars, handler, services, AnswerOf
<1>6. QED
  BY <1>1, <1>2, <1>3, <1>4, <1>5, HandleRefines, ServeRefines, ProduceRefines,
     DieRefuses DEF Next, Crash

\* PlaceOrder implements Order: every behaviour of the handlers, with the
\* services' ledgers as the state of the orders, is one Order allows.
THEOREM CheckoutImplementsOrder == Spec => ImplementsOrder
<1>1. Init => Orders!Init
  BY DEF Init, Orders!Init, AnswerOf, Outcome
<1>2. QED
  BY <1>1, CheckoutInvariant, StepRefines, PTL DEF Spec, Orders!Spec, ImplementsOrder

=============================================================================
