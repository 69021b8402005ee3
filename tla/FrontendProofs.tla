---------------------------- MODULE FrontendProofs ----------------------------
(***************************************************************************)
(* Theorems about the parts of module Frontend, each alone, for every      *)
(* value of the constants.                                                 *)
(***************************************************************************)
EXTENDS Frontend, Integers, Sequences, FiniteSums, SequenceTheorems

-----------------------------------------------------------------------------
(* One shopper, for any number of tabs and currencies.  The copies that    *)
(* modules keep are safe because nobody writes another user to the storage *)
(* unless it was cleared or two first visits overlapped; what must hold    *)
(* for that is that a call about to write has the stored user in hand.     *)

(* The session every load draws is a session.                              *)
LEMMA DefaultIsSession ==
  ASSUME NEW t \in Tabs
  PROVE  /\ defaultSession(t) \in Sessions
         /\ defaultSession(t).userId = t
         /\ defaultSession(t).currencyCode \in Currencies
BY NamesAreApart DEF defaultSession, Sessions

(* At first nobody keeps a user.                                           *)
LEMMA InitIsFine == Init => IInv
<1> SUFFICES ASSUME Init PROVE IInv
  OBVIOUS
<1>1. /\ \A t \in Tabs : call[t] = None
      /\ \A t \in Tabs, m \in Modules : user[t][m] = None
  BY DEF Init
<1>2. TypeOK
  BY <1>1 DEF Init, TypeOK
<1>3. OneShopper /\ WritersAgree
  BY <1>1 DEF OneShopper, WritersAgree
<1> QED BY <1>2, <1>3 DEF IInv

(* A call that starts changes no user, and only reads to begin with.       *)
LEMMA CallingKeeps ==
  ASSUME IInv, NEW t \in Tabs, NEW purpose \in Purposes,
         Call(t, purpose, "read"), UNCHANGED <<storage, user, disturbed>>,
         stage' \in [Tabs -> {"start", "imports", "open", "cart"}],
         currency' \in [Tabs -> Currencies \cup {None}]
  PROVE  IInv'
<1> DEFINE new == [purpose |-> purpose, step |-> "read", session |-> defaultSession(t)]
<1>1. new \in Calls /\ new.step = "read"
  BY DefaultIsSession DEF Calls
<1>2. call' = [call EXCEPT ![t] = new]
  BY DEF Call
<1> HIDE DEF new
<1>3. TypeOK'
  BY <1>1, <1>2 DEF IInv, TypeOK
<1>4. OneShopper' /\ WritersAgree'
  BY <1>1, <1>2 DEF IInv, TypeOK, OneShopper, WritersAgree
<1> QED BY <1>3, <1>4 DEF IInv

(* A call that gets the stored session hands on the stored user.           *)
LEMMA ReturningKeeps ==
  ASSUME TypeOK, NEW t \in Tabs, call[t] # None,
         call[t].step # "write",
         NEW given \in Sessions, Return(t, given),
         storage' \in Sessions, UNCHANGED stage, disturbed' \in BOOLEAN,
         ~disturbed' => /\ storage'.userId = given.userId
                        /\ OneShopper /\ WritersAgree /\ ~disturbed
                        /\ storage # None => storage'.userId = storage.userId
  PROVE  IInv'
<1> DEFINE purpose == call[t].purpose
<1>1. purpose \in Purposes /\ call[t] \in Calls
  BY DEF TypeOK, Calls
<1>2. given.userId \in Tabs /\ given.currencyCode \in Currencies
  BY DEF Sessions
<1>3. CASE purpose \in Currencies
  <2> DEFINE new == [call[t] EXCEPT !.step = "write", !.session = given]
  <2>1. call' = [call EXCEPT ![t] = new] /\ UNCHANGED <<user, currency>>
    BY <1>3 DEF Return
  <2>2. new \in Calls /\ new.step = "write" /\ new.session = given
          /\ new.purpose = purpose
    BY <1>1 DEF Calls
  <2> HIDE DEF new, purpose
  <2>3. TypeOK'
    BY <1>3, <2>1, <2>2 DEF TypeOK
  <2>4. OneShopper'
    BY <2>1, NamesAreApart DEF TypeOK, OneShopper
  <2>5. WritersAgree'
    BY <2>1, <2>2, NamesAreApart DEF TypeOK, WritersAgree
  <2> QED BY <2>3, <2>4, <2>5 DEF IInv
<1>4. CASE purpose \notin Currencies
  <2>1. /\ call' = [call EXCEPT ![t] = None]
        /\ user' = IF purpose \in Modules
                   THEN [user EXCEPT ![t][purpose] = given.userId] ELSE user
        /\ currency' = IF purpose = "Currency"
                       THEN [currency EXCEPT ![t] = given.currencyCode]
                       ELSE currency
    BY <1>4 DEF Return
  <2> HIDE DEF purpose
  <2>2. TypeOK'
    BY <2>1, <1>2 DEF TypeOK
  <2>3. OneShopper'
    BY <2>1, <1>2, NamesAreApart DEF TypeOK, OneShopper
  <2>4. WritersAgree'
    BY <2>1, NamesAreApart DEF TypeOK, WritersAgree
  <2> QED BY <2>2, <2>3, <2>4 DEF IInv
<1> QED BY <1>3, <1>4

(* getSession reads the session.                                           *)
LEMMA ReadKeeps ==
  ASSUME IInv, NEW t \in Tabs, Read(t)
  PROVE  IInv'
<1>1. CASE storage # None
  <2>1. storage \in Sessions /\ Return(t, storage)
    BY <1>1 DEF Read, IInv, TypeOK
  <2> QED BY <1>1, <2>1, ReturningKeeps DEF Read, IInv, TypeOK
<1>2. CASE storage = None
  <2> DEFINE new == [call[t] EXCEPT !.step = "create"]
  <2>1. /\ call' = [call EXCEPT ![t] = new]
        /\ UNCHANGED <<storage, stage, user, currency, disturbed>>
    BY <1>2 DEF Read
  <2>2. new \in Calls /\ new.step = "create"
    BY DEF Read, IInv, TypeOK, Calls
  <2> HIDE DEF new
  <2>3. TypeOK'
    BY <2>1, <2>2 DEF IInv, TypeOK
  <2>4. OneShopper' /\ WritersAgree'
    BY <2>1, <2>2 DEF IInv, TypeOK, OneShopper, WritersAgree
  <2> QED BY <2>3, <2>4 DEF IInv
<1> QED BY <1>1, <1>2

(* getSession stores the default, over nothing unless that is counted as a *)
(* disturbance.                                                            *)
LEMMA CreateKeeps ==
  ASSUME IInv, NEW t \in Tabs, Create(t)
  PROVE  IInv'
<1>1. defaultSession(t) \in Sessions /\ Return(t, defaultSession(t))
  BY DefaultIsSession DEF Create
<1>2. ~disturbed' => storage = None /\ ~disturbed
  BY DEF Create
<1> QED BY <1>1, <1>2, ReturningKeeps DEF Create, IInv, TypeOK

(* setSessionValue writes the user it has read.                            *)
LEMMA WriteKeeps ==
  ASSUME IInv, NEW t \in Tabs, Write(t)
  PROVE  IInv'
<1>1. call[t] \in Calls /\ call[t].purpose \in Currencies
  BY DEF Write, IInv, TypeOK
<1>2. storage' \in Sessions /\ storage'.userId = call[t].session.userId
  BY <1>1 DEF Write, Updated, Calls, Sessions
<1>3. TypeOK'
  BY <1>2 DEF Write, IInv, TypeOK
<1>4. OneShopper' /\ WritersAgree'
  BY <1>2, NamesAreApart DEF Write, IInv, TypeOK, OneShopper, WritersAgree
<1> QED BY <1>3, <1>4 DEF IInv

-----------------------------------------------------------------------------
(* Session.gateway.ts: what the copies of the user rest on.                *)
THEOREM SessionInvariant == Spec => []IInv
<1>1. IInv /\ [Next]_vars => IInv'
  <2> SUFFICES ASSUME IInv, [Next]_vars PROVE IInv'
    OBVIOUS
  <2>1. ASSUME NEW t \in Tabs,
               \/ Load(t, "Api", "start", "imports")
               \/ Load(t, "Currency", "imports", "open")
               \/ Load(t, "CartDetail", "open", "cart")
        PROVE  IInv'
    BY <2>1, CallingKeeps DEF Load, Purposes, IInv, TypeOK
  <2>2. ASSUME NEW t \in Tabs, NEW c \in Currencies, onSelectCurrency(t, c)
        PROVE  IInv'
    BY <2>2, CallingKeeps DEF onSelectCurrency, Purposes, IInv, TypeOK
  <2>3. CASE Clear
    BY <2>3 DEF Clear, IInv, TypeOK, OneShopper, WritersAgree
  <2>4. CASE UNCHANGED vars
    BY <2>4 DEF vars, IInv, TypeOK, OneShopper, WritersAgree
  <2> QED BY <2>1, <2>2, <2>3, <2>4, ReadKeeps, CreateKeeps, WriteKeeps DEF Next, Step
<1> QED BY InitIsFine, <1>1, PTL DEF Spec

(* Session.gateway.ts, lines 17-39: the copies of the user agree with the  *)
(* stored one, in any number of tabs, unless the storage was disturbed.    *)
THEOREM OneShopperForAll == Spec => []OneShopper
<1>1. IInv => OneShopper
  BY DEF IInv
<1> QED BY <1>1, SessionInvariant, PTL

-----------------------------------------------------------------------------
(* The page of a product, for any products, questions and quantities.      *)

LEMMA PageStaysConsistent ==
  ASSUME Page!IInv, [Page!Next]_(Page!vars) PROVE Page!IInv'
<1> USE DEF Page!IInv, Page!TypeOK, Page!Consistent, Page!QuantityWasChosenHere
<1>1. ASSUME NEW p \in Products, Page!Navigate(p) PROVE Page!IInv'
  BY <1>1 DEF Page!Navigate, Page!assistantVars, Page!quantityVars
<1>2. CASE Page!RunEffects
  BY <1>2 DEF Page!RunEffects
<1>3. ASSUME NEW q \in Questions, Page!Ask(q) PROVE Page!IInv'
  BY <1>3 DEF Page!Ask, Page!quantityVars
<1>4. ASSUME NEW q \in Questions, Page!Answer(q) PROVE Page!IInv'
  BY <1>4 DEF Page!Answer, Page!quantityVars
<1>5. ASSUME NEW n \in Quantities, Page!Choose(n) PROVE Page!IInv'
  BY <1>5 DEF Page!Choose, Page!assistantVars
<1>6. CASE Page!AddItem
  <2>1. added' = [product |-> product, quantity |-> quantity,
                  chosen  |-> chosen,  early    |-> effects # product]
        /\ UNCHANGED <<product, effects, about, observed, reply, latest, quantity, chosen>>
    BY <1>6 DEF Page!AddItem, Page!assistantVars, Page!quantityVars
  <2>2. added'.quantity # One /\ ~added'.early => added'.chosen = added'.product
    BY <2>1
  <2> QED BY <2>1, <2>2
<1>7. CASE UNCHANGED Page!vars
  BY <1>7 DEF Page!vars, Page!assistantVars, Page!quantityVars
<1> QED BY <1>1, <1>2, <1>3, <1>4, <1>5, <1>6, <1>7 DEF Page!Next

(* pages/product/[productId] and ProductAIAssistant: what is on the page   *)
(* agrees from step to step.                                               *)
THEOREM PageInvariant == Page!Spec => []Page!IInv
<1>1. Page!Init => Page!IInv
  BY DEF Page!Init, Page!IInv, Page!TypeOK, Page!Consistent, Page!QuantityWasChosenHere
<1> QED BY <1>1, PageStaysConsistent, PTL DEF Page!Spec

(* ProductAIAssistant.provider.tsx: the answer on display is that to the   *)
(* last question, which was asked about the product on display.            *)
THEOREM AnswerIsForThisProductForAll == Page!Spec => []AnswerIsForThisProduct
<1>1. Page!IInv => AnswerIsForThisProduct
  BY DEF Page!IInv, Page!TypeOK, Page!Consistent, AnswerIsForThisProduct,
         Page!AnswerIsForThisProduct
<1> QED BY <1>1, PageInvariant, PTL

(* pages/product/[productId]/index.tsx: no quantity is carried over to the *)
(* next product.                                                           *)
THEOREM QuantityWasChosenHereForAll == Page!Spec => []QuantityWasChosenHere
<1>1. Page!IInv => QuantityWasChosenHere
  BY DEF Page!IInv, QuantityWasChosenHere
<1> QED BY <1>1, PageInvariant, PTL

-----------------------------------------------------------------------------
(* The mobile app, for any requests, addresses and starts.                 *)

(* What the requests do changes nothing of the address, and what becomes   *)
(* of the address nothing of the requests.                                 *)
LEMMA RequestsKeep ==
  ASSUME App!IInv, NEW r \in Requests,
         App!ReadSession(r) \/ App!StoreSession(r) \/ App!Send(r)
  PROVE  App!IInv'
<1>1. App!Sound
  BY AppIsSound
<1>2. start \in 1 .. MaxStarts
      /\ <<start, None>> \in App!Drawn /\ None # <<start, None>>
      /\ None \notin App!Drawn
  BY <1>1 DEF App!IInv, App!UsersAgree, App!Drawn, App!Sound
<1>3. UNCHANGED <<start, address, storing, stored, changes, waiting, tracer,
                  source, query, failed, early>>
  BY DEF App!ReadSession, App!StoreSession, App!Send, App!changeVars, App!queryVars
<1>4. (App!AddressTypeOK /\ App!ChangeIsUnderWay)'
  BY <1>3 DEF App!IInv, App!AddressTypeOK, App!ChangeIsUnderWay
<1>5. App!UsersAgree'
  <2> USE DEF App!IInv, App!UsersAgree, App!GoOn, App!defaultSession
  <2>1. CASE App!ReadSession(r)
    BY <1>2, <1>3, <2>1 DEF App!ReadSession
  <2>2. CASE App!StoreSession(r)
    BY <1>2, <1>3, <2>2 DEF App!StoreSession
  <2>3. CASE App!Send(r)
    BY <1>2, <1>3, <2>3 DEF App!Send
  <2> QED BY <2>1, <2>2, <2>3
<1> QED BY <1>4, <1>5 DEF App!IInv

LEMMA ChangesKeep ==
  ASSUME App!IInv,
         \/ \E a \in Addresses : App!Change(a)
         \/ App!Store \/ App!Invalidate \/ App!Fetch \/ App!Answer \/ App!Fail
  PROVE  App!IInv'
<1>1. App!Sound
  BY AppIsSound
<1>2. UNCHANGED <<start, session, calls, users>>
  BY DEF App!Change, App!Store, App!Invalidate, App!Fetch, App!Answer, App!Fail,
         App!EndFetch, App!userVars
<1>3. App!UsersAgree'
  BY <1>2 DEF App!IInv, App!UsersAgree
<1>4. (App!AddressTypeOK /\ App!ChangeIsUnderWay)'
  <2> USE <1>1 DEF App!Sound, App!IInv, App!AddressTypeOK, App!ChangeIsUnderWay
  <2>1. ASSUME NEW a \in Addresses, App!Change(a)
        PROVE  (App!AddressTypeOK /\ App!ChangeIsUnderWay)'
    BY <2>1 DEF App!Change, App!queryVars
  <2>2. CASE App!Store
    <3>1. /\ Head(storing) \in Addresses /\ Tail(storing) \in Seq(Addresses)
          /\ Append(stored, Head(storing)) \in Seq(Addresses)
          /\ Append(stored, Head(storing)) # <<>>
          /\ Append(stored, Head(storing))[Len(Append(stored, Head(storing)))] = Head(storing)
      BY <2>2 DEF App!Store
    <3> QED BY <2>2, <3>1 DEF App!Store, App!queryVars
  <2>3. CASE App!Invalidate
    <3>1. /\ Head(stored) \in Addresses /\ Tail(stored) \in Seq(Addresses)
          /\ Tail(stored) = <<>> => Head(stored) = stored[Len(stored)]
          /\ Tail(stored) # <<>> => Tail(stored)[Len(Tail(stored))] = stored[Len(stored)]
      <4>1. stored \in Seq(Addresses) /\ stored # <<>>
        BY <2>3 DEF App!Invalidate
      <4> HIDE DEF App!AddressTypeOK, App!ChangeIsUnderWay, App!IInv
      <4>2. /\ Head(stored) = stored[1] /\ Len(stored) \in Nat /\ Len(stored) # 0
            /\ Head(stored) \in Addresses /\ Tail(stored) \in Seq(Addresses)
            /\ Len(Tail(stored)) = Len(stored) - 1
            /\ \A k \in 1 .. Len(Tail(stored)) : Tail(stored)[k] = stored[k + 1]
        BY <4>1, HeadTailProperties, LenProperties, EmptySeq
      <4>3. Tail(stored) = <<>> => Len(stored) = 1
        BY <4>2
      <4>4. Tail(stored) # <<>> => Len(Tail(stored)) \in 1 .. Len(Tail(stored))
        BY <4>2, EmptySeq, LenProperties
      <4> QED BY <4>2, <4>3, <4>4
    <3> QED BY <2>3, <3>1 DEF App!Invalidate
  <2>4. CASE App!Fetch
    BY <2>4 DEF App!Fetch, App!changeVars
  <2>5. CASE App!Answer
    BY <2>5 DEF App!Answer, App!EndFetch, App!changeVars
  <2>6. CASE App!Fail
    BY <2>6 DEF App!Fail, App!EndFetch, App!changeVars
  <2> QED BY <2>1, <2>2, <2>3, <2>4, <2>5, <2>6
<1> QED BY <1>3, <1>4 DEF App!IInv

(* AsyncStorage, Session.gateway.ts, settings.tsx and useTracer of the     *)
(* mobile app: users and changes of the address, across restarts.          *)
THEOREM AppInvariant == App!Spec => []App!IInv
<1>1. App!Sound
  BY AppIsSound
<1>2. App!Init => App!IInv
  <2> SUFFICES ASSUME App!Init PROVE App!IInv
    OBVIOUS
  <2>1. App!UsersAgree
    <3>1. /\ start = 1 /\ session = None /\ users = {}
          /\ calls = [r \in Requests |-> App!Ready]
      BY DEF App!Init
    <3>2. App!Ready \in [step : {"ready", "store", "again", "send", "sent"},
                         user : App!Drawn \cup {None}]
          /\ App!Ready.step = "ready"
      BY DEF App!Ready
    <3>3. start \in 1 .. MaxStarts
      BY <1>1, <3>1 DEF App!Sound
    <3> QED BY <3>1, <3>2, <3>3 DEF App!UsersAgree
  <2>2. App!AddressTypeOK
    <3>1. <<>> \in Seq(Addresses)
      OBVIOUS
    <3> QED BY <1>1, <3>1 DEF App!Init, App!Sound, App!AddressTypeOK
  <2>3. App!ChangeIsUnderWay
    BY <1>1 DEF App!Init, App!Sound, App!ChangeIsUnderWay
  <2> QED BY <2>1, <2>2, <2>3 DEF App!IInv
<1>3. App!IInv /\ App!Restart => App!IInv'
  <2> SUFFICES ASSUME App!IInv, App!Restart PROVE App!IInv'
    OBVIOUS
  <2>1. App!UsersAgree'
    <3>1. /\ start' = start + 1 /\ start < MaxStarts /\ UNCHANGED <<session, users>>
          /\ calls' = [r \in Requests |-> App!Ready]
      BY DEF App!Restart, App!Started
    <3>2. App!Ready \in [step : {"ready", "store", "again", "send", "sent"},
                         user : App!Drawn \cup {None}]
          /\ App!Ready.step = "ready"
      BY DEF App!Ready
    <3>3. start' \in 1 .. MaxStarts
      BY <1>1, <3>1 DEF App!Sound, App!IInv, App!UsersAgree
    <3> QED BY <3>1, <3>2, <3>3 DEF App!UsersAgree, App!IInv
  <2>2. App!AddressTypeOK'
    <3>1. <<>> \in Seq(Addresses)
      OBVIOUS
    <3> QED BY <1>1, <3>1 DEF App!Restart, App!Started, App!Sound, App!IInv,
                              App!AddressTypeOK
  <2>3. App!ChangeIsUnderWay'
    BY <1>1 DEF App!Restart, App!Started, App!Sound, App!ChangeIsUnderWay
  <2> QED BY <2>1, <2>2, <2>3 DEF App!IInv
<1>4. App!IInv /\ UNCHANGED App!vars => App!IInv'
  BY DEF App!vars, App!userVars, App!changeVars, App!queryVars, App!IInv, App!UsersAgree,
         App!AddressTypeOK, App!ChangeIsUnderWay
<1>5. App!IInv /\ [App!Next]_(App!vars) => App!IInv'
  BY <1>3, <1>4, RequestsKeep, ChangesKeep DEF App!Next
<1> QED BY <1>2, <1>5, PTL DEF App!Spec

(* Session.gateway.ts of the mobile app: requests of one installation go   *)
(* by one user, whatever calls overlap and whenever it is killed.          *)
THEOREM OneUserForAll == App!Spec => []OneUser
<1>1. App!IInv => OneUser
  BY DEF App!IInv, App!UsersAgree, OneUser, App!OneUser
<1> QED BY <1>1, AppInvariant, PTL

(* settings.tsx and _layout.tsx of the mobile app: a change of the address *)
(* reaches the tracer and the data on display, whatever it overlaps.       *)
THEOREM AddressTakesEffectForAll == App!Spec => []AddressTakesEffect
<1>1. App!IInv => AddressTakesEffect
  BY AppIsSound DEF App!Sound, App!IInv, App!AddressTypeOK, App!ChangeIsUnderWay,
     AddressTakesEffect, App!AddressTakesEffect
<1> QED BY <1>1, AppInvariant, PTL

-----------------------------------------------------------------------------
(* The cart page, for any clicks, currencies and retries.  Two arguments   *)
(* go on side by side.  Orders: an order that is confirmed has emptied the *)
(* cart, or will, and what it paid for is never added again, so an order   *)
(* submitted after it has nothing of it to pay for.  Display: as long as a *)
(* change is not confirmed nothing is promised, and its confirmation       *)
(* renews the key in use; a key that is left is overtaken.                 *)

CartInv ==
  /\ Shopping!TypeOK /\ Shopping!ClicksGoOn
  /\ Shopping!ItemsAreAddedOnce /\ Shopping!OrdersAreApart

(* What is in the cart, and in what was paid, are clicks.                  *)
LEMMA PaidAreClicks ==
  ASSUME Shopping!TypeOK
  PROVE  /\ cart \subseteq Shopping!Clicks
         /\ \A k \in Shopping!Clicks : paid[k] # None => paid[k] \subseteq Shopping!Clicks
<1>1. cart \in SUBSET Shopping!Clicks
      /\ paid \in [Shopping!Clicks -> {None} \cup SUBSET Shopping!Clicks]
  BY DEF Shopping!TypeOK
<1>2. \A k \in Shopping!Clicks : paid[k] \in {None} \cup SUBSET Shopping!Clicks
  BY <1>1
<1> QED BY <1>1, <1>2

(* A step of the handler of k, which leaves the cart or puts k or nothing  *)
(* in it.                                                                  *)
LEMMA HandlerKeeps ==
  ASSUME Shopping!Sound, CartInv, NEW k \in Shopping!Clicks,
         \/ Shopping!AddItem(k) \/ Shopping!EmptyCart(k)
         \/ Shopping!EmptyOrderedCart(k) \/ Shopping!LeaveCart(k)
  PROVE  CartInv'
<1> USE DEF CartInv
<1>1. /\ request[k] \in [kind : {"add", "empty", "order", None}, step : Shopping!Steps]
      /\ request[k].step \in {"sent", "placed", "late"}
      /\ \E next \in {"done", "late"} :
           /\ request' = [request EXCEPT ![k].step = next]
           /\ next = "late" => request[k].step = "placed" /\ cart' = cart
      /\ UNCHANGED <<answer, unsettled, selected, shown, fetch, failures, overtaken, paid>>
      /\ unnoticed' \in BOOLEAN
      /\ \/ cart' = cart \cup {k} /\ request[k] = [kind |-> "add", step |-> "sent"]
         \/ cart' = {} /\ request[k].kind # "add"
         \/ cart' = cart /\ request[k].kind # "add" /\ request'[k].step = "late"
  <2>1. request[k] \in [kind : {"add", "empty", "order", None}, step : Shopping!Steps]
        /\ unnoticed \in BOOLEAN
    BY DEF Shopping!TypeOK
  <2>2. \A next : request' = [request EXCEPT ![k].step = next] => request'[k].step = next
    BY DEF Shopping!TypeOK
  <2> USE <2>1 DEF Shopping!Handler, Shopping!pageVars, Shopping!cartVars
  <2>3. CASE Shopping!AddItem(k)
    BY <2>3 DEF Shopping!AddItem
  <2>4. CASE Shopping!EmptyCart(k)
    BY <2>4 DEF Shopping!EmptyCart
  <2>5. CASE Shopping!EmptyOrderedCart(k)
    BY <2>5 DEF Shopping!EmptyOrderedCart
  <2>6. CASE Shopping!LeaveCart(k)
    <3>1. /\ request[k] = [kind |-> "order", step |-> "placed"]
          /\ request' = [request EXCEPT ![k].step = "late"]
          /\ UNCHANGED <<answer, unsettled, selected, shown, fetch, failures, overtaken,
                         cart, paid, unnoticed>>
      BY <2>6 DEF Shopping!LeaveCart
    <3>2. request'[k].step = "late"
      BY <2>2, <3>1
    <3> QED BY <3>1, <3>2
  <2> QED BY <2>3, <2>4, <2>5, <2>6
<1>2. Shopping!TypeOK'
  BY <1>1 DEF Shopping!TypeOK, Shopping!Steps
<1>3. /\ request'[k].kind = request[k].kind /\ request'[k].step \in {"done", "late"}
      /\ request'[k].step = "late" => request[k].step = "placed" /\ request[k].kind = "order"
      /\ \A j \in Shopping!Clicks : j # k => request'[j] = request[j]
  BY <1>1 DEF Shopping!TypeOK, Shopping!ClicksGoOn
<1>6. Shopping!ClicksGoOn'
  BY <1>1, <1>3 DEF Shopping!ClicksGoOn
<1>4. Shopping!ItemsAreAddedOnce'
  <2>1. \A i \in Shopping!Clicks : Shopping!Added(i) => Shopping!Added(i)' /\ i # k
    BY <1>1 DEF Shopping!TypeOK, Shopping!Added
  <2>2. \A i \in cart' : Shopping!Added(i)'
    BY <1>1, <2>1 DEF Shopping!TypeOK, Shopping!ItemsAreAddedOnce, Shopping!Added
  <2>3. \A j \in Shopping!Clicks :
          paid[j] # None => k \notin paid[j] /\ \A i \in paid[j] : Shopping!Added(i)'
    <3>1. \A j \in Shopping!Clicks : paid[j] # None => paid[j] \subseteq Shopping!Clicks
      BY PaidAreClicks
    <3> QED BY <2>1, <3>1 DEF Shopping!ItemsAreAddedOnce
  <2>4. ASSUME NEW j \in Orders, paid[j] # None, request'[j].step = "done"
        PROVE  paid[j] \cap cart' = {}
    <3>1. CASE cart' = {}
      BY <3>1
    <3>2. CASE cart' # {}
      <4>1. j \in Shopping!Clicks /\ k \notin paid[j]
        BY <2>3, <2>4 DEF Shopping!Clicks
      <4>2. j # k
        BY <1>1, <2>4, <3>2, <4>1 DEF Shopping!ClicksGoOn
      <4>3. paid[j] \cap cart = {}
        BY <1>3, <2>4, <4>1, <4>2 DEF Shopping!ItemsAreAddedOnce
      <4>4. cart' = cart \/ cart' = cart \cup {k}
        BY <1>1, <3>2
      <4> QED BY <4>1, <4>3, <4>4
    <3> QED BY <3>1, <3>2
  <2> QED BY <1>1, <2>2, <2>3, <2>4 DEF Shopping!ItemsAreAddedOnce
<1>5. Shopping!OrdersAreApart'
  BY <1>1 DEF Shopping!TypeOK, Shopping!OrdersAreApart, Shopping!Before,
              Shopping!ClicksGoOn
<1> QED BY <1>2, <1>4, <1>5, <1>6

(* An order pays for what is in the cart, which an order that has emptied  *)
(* it has nothing of.                                                      *)
LEMMA PlaceKeeps ==
  ASSUME Shopping!Sound, CartInv, NEW k \in Shopping!Clicks, Shopping!PlaceOrder(k)
  PROVE  CartInv'
<1> USE DEF CartInv
<1>1. /\ request[k] = [kind |-> "order", step |-> "sent"]
      /\ request' = [request EXCEPT ![k].step = "placed"]
      /\ paid' = [paid EXCEPT ![k] = cart] /\ cart # None
      /\ UNCHANGED <<answer, unsettled, selected, shown, fetch, failures, overtaken, cart,
                     unnoticed>>
  BY DEF Shopping!PlaceOrder, Shopping!Handler, Shopping!pageVars,
         Shopping!TypeOK, Shopping!Sound
<1>2. Shopping!TypeOK'
  BY <1>1 DEF Shopping!TypeOK, Shopping!Steps
<1>3. Shopping!ClicksGoOn'
  BY <1>1 DEF Shopping!TypeOK, Shopping!ClicksGoOn
<1>4. Shopping!ItemsAreAddedOnce'
  <2>1. \A i \in Shopping!Clicks : Shopping!Added(i) => Shopping!Added(i)'
    BY <1>1 DEF Shopping!TypeOK, Shopping!Added
  <2>2. /\ \A i \in cart' : Shopping!Added(i)'
        /\ \A j \in Shopping!Clicks : paid'[j] # None =>
             \A i \in paid'[j] : Shopping!Added(i)'
    <3>1. cart \subseteq Shopping!Clicks
          /\ \A j \in Shopping!Clicks : paid[j] # None => paid[j] \subseteq Shopping!Clicks
      BY PaidAreClicks
    <3>2. \A j \in Shopping!Clicks : paid'[j] = cart \/ paid'[j] = paid[j]
      BY <1>1 DEF Shopping!TypeOK
    <3> QED BY <1>1, <2>1, <3>1, <3>2 DEF Shopping!ItemsAreAddedOnce
  <2>3. \A j \in Orders : paid'[j] # None /\ request'[j].step = "done" =>
          paid'[j] \cap cart' = {}
    BY <1>1 DEF Shopping!TypeOK, Shopping!ItemsAreAddedOnce, Shopping!Clicks
  <2> QED BY <2>2, <2>3 DEF Shopping!ItemsAreAddedOnce
<1>5. Shopping!OrdersAreApart'
  <2> SUFFICES ASSUME NEW i \in Orders, NEW j \in Orders, i # j,
                      request'[i].step # "idle", request'[j].step # "idle"
               PROVE  Shopping!Before(i, j)' \/ Shopping!Before(j, i)'
    BY DEF Shopping!OrdersAreApart
  <2>1. i \in Shopping!Clicks
        /\ j \in Shopping!Clicks /\ request[i].step # "idle" /\ request[j].step # "idle"
    BY <1>1 DEF Shopping!Clicks, Shopping!TypeOK
  <2>2. Shopping!Before(i, j) \/ Shopping!Before(j, i)
    BY <2>1 DEF Shopping!OrdersAreApart
  <2>3. ASSUME NEW g \in Orders, NEW h \in Orders, g # h, Shopping!Before(g, h)
        PROVE  Shopping!Before(g, h)'
    <3>1. g \in Shopping!Clicks /\ h \in Shopping!Clicks
      BY DEF Shopping!Clicks
    <3>2. CASE g \in unsettled[h]
      BY <1>1, <3>2 DEF Shopping!Before
    <3>3. CASE g \notin unsettled[h]
      <4>1. request[g].step = "done"
            /\ (paid[g] # None /\ paid[h] # None => paid[g] \cap paid[h] = {})
        BY <2>3, <3>3 DEF Shopping!Before
      <4>2. g # k /\ request'[g] = request[g] /\ paid'[g] = paid[g]
        BY <1>1, <3>1, <4>1 DEF Shopping!TypeOK
      <4>3. paid[g] # None => paid[g] \cap cart = {}
        BY <4>1 DEF Shopping!ItemsAreAddedOnce
      <4>4. paid'[h] = cart \/ paid'[h] = paid[h]
        BY <1>1, <3>1 DEF Shopping!TypeOK
      <4> QED BY <4>1, <4>2, <4>3, <4>4 DEF Shopping!Before
    <3> QED BY <3>2, <3>3
  <2> QED BY <2>2, <2>3
<1> QED BY <1>2, <1>3, <1>4, <1>5

(* An order is submitted: another is not settled, or has emptied the cart. *)
LEMMA ClickKeeps ==
  ASSUME Shopping!Sound, CartInv, NEW k \in Shopping!Clicks,
         NEW kind \in Shopping!Kinds(k), Shopping!Click(k, kind)
  PROVE  CartInv'
<1> USE DEF CartInv
<1>1. /\ answer[k] = None /\ request[k].step = "idle" /\ paid[k] = None
      /\ request' = [request EXCEPT ![k] = [kind |-> kind, step |-> "sent"]]
      /\ answer' = [answer EXCEPT ![k] = "waiting"]
      /\ unsettled' = [unsettled EXCEPT ![k] =
                  {j \in Orders : /\ request[j].step # "idle"
                                  /\ answer[j] # "ok" \/ request[j].step = "late"}]
      /\ UNCHANGED <<cart, paid, selected, shown, fetch, failures, overtaken, unnoticed>>
  BY DEF Shopping!Click, Shopping!cartVars, Shopping!pageVars, Shopping!ClicksGoOn
<1>2. kind \in {"add", "empty", "order"} /\ (k \in Orders => kind = "order")
  BY DEF Shopping!Kinds
<1>3. Shopping!TypeOK'
  BY <1>1, <1>2 DEF Shopping!TypeOK, Shopping!Steps
<1>4. Shopping!ClicksGoOn'
  BY <1>1, <1>2 DEF Shopping!TypeOK, Shopping!ClicksGoOn, Shopping!Sound
<1>5. Shopping!ItemsAreAddedOnce'
  <2>1. \A i \in Shopping!Clicks : Shopping!Added(i) => Shopping!Added(i)'
    BY <1>1 DEF Shopping!TypeOK, Shopping!Added
  <2>2. \A i \in Orders : paid[i] # None => request'[i] = request[i]
    BY <1>1 DEF Shopping!TypeOK, Shopping!Clicks
  <2>3. cart \subseteq Shopping!Clicks
        /\ \A j \in Shopping!Clicks : paid[j] # None => paid[j] \subseteq Shopping!Clicks
    BY PaidAreClicks
  <2>4. \A i \in cart' : Shopping!Added(i)'
    BY <1>1, <2>1, <2>3 DEF Shopping!ItemsAreAddedOnce
  <2>5. \A j \in Shopping!Clicks : paid'[j] # None => \A i \in paid'[j] : Shopping!Added(i)'
    BY <1>1, <2>1, <2>3 DEF Shopping!ItemsAreAddedOnce
  <2>6. \A j \in Orders : paid'[j] # None /\ request'[j].step = "done" =>
          paid'[j] \cap cart' = {}
    BY <1>1, <2>2 DEF Shopping!ItemsAreAddedOnce
  <2> QED BY <2>4, <2>5, <2>6 DEF Shopping!ItemsAreAddedOnce
<1>6. Shopping!OrdersAreApart'
  <2> SUFFICES ASSUME NEW i \in Orders, NEW j \in Orders, i # j,
                      request'[i].step # "idle", request'[j].step # "idle"
               PROVE  Shopping!Before(i, j)' \/ Shopping!Before(j, i)'
    BY DEF Shopping!OrdersAreApart
  <2>1. i \in Shopping!Clicks /\ j \in Shopping!Clicks
    BY DEF Shopping!Clicks
  <2>2. CASE i # k /\ j # k
    BY <1>1, <2>1, <2>2 DEF Shopping!TypeOK, Shopping!OrdersAreApart,
                            Shopping!Before
  <2>3. ASSUME NEW h \in Orders, h # k, k \in Orders, request'[h].step # "idle"
        PROVE  Shopping!Before(h, k)'
    <3>1. h \in Shopping!Clicks /\ request'[h] = request[h] /\ request[h].step # "idle"
      BY <1>1, <2>3 DEF Shopping!TypeOK, Shopping!Clicks
    <3>2. CASE answer[h] # "ok" \/ request[h].step = "late"
      BY <1>1, <3>1, <3>2 DEF Shopping!Before, Shopping!TypeOK
    <3>3. CASE answer[h] = "ok" /\ request[h].step # "late"
      <4>1. request'[h].step = "done" /\ paid'[k] = None
        BY <1>1, <3>1, <3>3 DEF Shopping!ClicksGoOn
      <4> QED BY <4>1 DEF Shopping!Before
    <3> QED BY <3>2, <3>3
  <2> QED BY <2>2, <2>3
<1> QED BY <1>3, <1>4, <1>5, <1>6

(* An answer changes neither the cart nor what was ordered.                *)
LEMMA AnswerKeeps ==
  ASSUME Shopping!Sound, CartInv, NEW k \in Shopping!Clicks, Shopping!Answer(k)
  PROVE  CartInv'
<1> USE DEF CartInv
<1>1. /\ answer[k] = "waiting"
      /\ \/ answer' = [answer EXCEPT ![k] = "error"]
         \/ /\ answer' = [answer EXCEPT ![k] = "ok"]
            /\ request[k].step \in {"done", "late"}
      /\ UNCHANGED <<request, unsettled, cart, paid, selected, shown>>
  BY DEF Shopping!Answer, Shopping!Fail, Shopping!Succeed, Shopping!cartVars,
         Shopping!pageVars
<1>2. Shopping!TypeOK'
  <2>1. CASE Shopping!Fail(k)
    BY <2>1 DEF Shopping!Fail, Shopping!cartVars, Shopping!pageVars,
                Shopping!TypeOK
  <2>2. CASE Shopping!Succeed(k)
    <3>1. Shopping!Asked \in Shopping!Fetches
      BY DEF Shopping!Asked, Shopping!Fetches
    <3>2. fetch' \in [ShopCurrencies -> Shopping!Fetches \cup {None}]
      BY <2>2, <3>1 DEF Shopping!Succeed, Shopping!Invalidated, Shopping!TypeOK
    <3>3. failures' \in [ShopCurrencies -> Nat] /\ overtaken' \in SUBSET ShopCurrencies
      BY <2>2 DEF Shopping!Succeed, Shopping!TypeOK
    <3> QED BY <1>1, <2>2, <3>2, <3>3 DEF Shopping!Succeed, Shopping!cartVars,
                                          Shopping!TypeOK
  <2> QED BY <2>1, <2>2 DEF Shopping!Answer
<1>3. Shopping!ClicksGoOn'
  BY <1>1 DEF Shopping!TypeOK, Shopping!ClicksGoOn, Shopping!Sound
<1>4. Shopping!ItemsAreAddedOnce'
  BY <1>1 DEF Shopping!ItemsAreAddedOnce, Shopping!Added
<1>5. Shopping!OrdersAreApart'
  BY <1>1 DEF Shopping!OrdersAreApart, Shopping!Before
<1> QED BY <1>2, <1>3, <1>4, <1>5

(* The display.  A change of the cart is not confirmed, or not noticed, and *)
(* its confirmation renews the key in use, or leaves it overtaken.         *)
LEMMA DisplayStays ==
  ASSUME Shopping!Sound, CartInv, Shopping!DisplayIsRenewed, Shopping!Next
  PROVE  Shopping!DisplayIsRenewed'
<1> USE DEF CartInv
(* The handlers: the cart changes only on behalf of a click that is not    *)
(* confirmed, or unnoticed.                                                *)
<1>1. ASSUME NEW k \in Shopping!Clicks, Shopping!Work(k)
      PROVE  Shopping!DisplayIsRenewed'
  <2>1. UNCHANGED <<answer, unsettled, selected, shown, fetch, failures, overtaken>>
    BY <1>1 DEF Shopping!Work, Shopping!AddItem, Shopping!EmptyCart,
                Shopping!PlaceOrder, Shopping!EmptyOrderedCart,
                Shopping!LeaveCart,
                Shopping!Handler, Shopping!pageVars
  <2>2. \/ cart' = cart /\ unnoticed' = unnoticed
        \/ unnoticed' = TRUE
        \/ answer[k] \notin {None, "ok"}
    <3>1. ASSUME \/ Shopping!Handler(k, "add", "sent", "done")
                 \/ Shopping!Handler(k, "empty", "sent", "done")
          PROVE  answer[k] \notin {None, "ok"}
      BY <3>1 DEF Shopping!Handler, Shopping!ClicksGoOn
    <3>2. answer[k] = "waiting" => answer[k] \notin {None, "ok"}
      BY DEF Shopping!Sound
    <3>3. CASE Shopping!AddItem(k) \/ Shopping!EmptyCart(k)
      BY <3>1, <3>3 DEF Shopping!AddItem, Shopping!EmptyCart
    <3>4. CASE Shopping!EmptyOrderedCart(k)
      BY <3>2, <3>4 DEF Shopping!EmptyOrderedCart
    <3>5. CASE Shopping!PlaceOrder(k) \/ Shopping!LeaveCart(k)
      BY <3>5 DEF Shopping!PlaceOrder, Shopping!LeaveCart, Shopping!cartVars
    <3> QED BY <1>1, <3>3, <3>4, <3>5 DEF Shopping!Work
  <2>3. CASE cart' = cart /\ unnoticed' = unnoticed
    BY <2>1, <2>3 DEF Shopping!DisplayIsRenewed, Shopping!Confirmed
  <2>4. CASE unnoticed' = TRUE
    BY <2>1, <2>4 DEF Shopping!DisplayIsRenewed
  <2>5. CASE answer[k] \notin {None, "ok"}
    BY <2>1, <2>5 DEF Shopping!DisplayIsRenewed, Shopping!Confirmed
  <2> QED BY <2>2, <2>3, <2>4, <2>5
<1>2. ASSUME NEW k \in Shopping!Clicks, NEW kind \in Shopping!Kinds(k),
             Shopping!Click(k, kind)
      PROVE  Shopping!DisplayIsRenewed'
  <2>1. answer'[k] = "waiting"
        /\ UNCHANGED <<selected, shown, fetch, failures, overtaken>>
    BY <1>2 DEF Shopping!Click, Shopping!pageVars, Shopping!TypeOK
  <2>2. ~Shopping!Confirmed'
    BY <2>1 DEF Shopping!Confirmed, Shopping!Sound
  <2> QED BY <2>1, <2>2 DEF Shopping!DisplayIsRenewed
<1>3. ASSUME NEW k \in Shopping!Clicks, Shopping!Fail(k)
      PROVE  Shopping!DisplayIsRenewed'
  <2>1. answer'[k] = "error"
        /\ UNCHANGED <<selected, shown, fetch, failures, overtaken>>
    BY <1>3 DEF Shopping!Fail, Shopping!pageVars, Shopping!TypeOK
  <2>2. ~Shopping!Confirmed'
    BY <2>1 DEF Shopping!Confirmed, Shopping!Sound
  <2> QED BY <2>1, <2>2 DEF Shopping!DisplayIsRenewed
<1>4. ASSUME NEW k \in Shopping!Clicks, Shopping!Succeed(k)
      PROVE  Shopping!DisplayIsRenewed'
  <2>1. /\ UNCHANGED <<selected, shown>> /\ selected \in ShopCurrencies
        /\ fetch \in [ShopCurrencies -> Shopping!Fetches \cup {None}]
        /\ Shopping!Asked # None /\ Shopping!Asked.step = "asked"
    BY <1>4 DEF Shopping!Succeed, Shopping!TypeOK, Shopping!Sound,
                Shopping!Asked, Shopping!Fetches
  <2>2. CASE Shopping!FirstFetch
    BY <1>4, <2>1, <2>2 DEF Shopping!Succeed, Shopping!DisplayIsRenewed,
                            Shopping!Invalidated
  <2>3. CASE ~Shopping!FirstFetch
    <3>1. fetch' = [fetch EXCEPT ![selected] = Shopping!Asked]
          /\ overtaken' = overtaken \ {selected}
      BY <1>4, <2>3 DEF Shopping!Succeed, Shopping!Invalidated
    <3> QED BY <2>1, <3>1 DEF Shopping!DisplayIsRenewed
  <2> QED BY <2>2, <2>3
<1>5. ASSUME NEW c \in ShopCurrencies, Shopping!GetCart(c)
      PROVE  Shopping!DisplayIsRenewed'
  <2>1. [step |-> "read", items |-> cart] # None
    BY DEF Shopping!Sound, Shopping!Fetches, Shopping!TypeOK
  <2>2. /\ fetch[c] = Shopping!Asked /\ Shopping!Asked # None
        /\ fetch' = [fetch EXCEPT ![c] = [step |-> "read", items |-> cart]]
        /\ UNCHANGED <<cart, answer, unnoticed, selected, shown, failures, overtaken>>
    BY <1>5 DEF Shopping!GetCart, Shopping!callVars, Shopping!cartVars,
                Shopping!Asked, Shopping!Fetches, Shopping!Sound
  <2>3. fetch \in [ShopCurrencies -> Shopping!Fetches \cup {None}]
        /\ selected \in ShopCurrencies
    BY DEF Shopping!TypeOK
  <2>4. fetch'[c] = [step |-> "read", items |-> cart]
        /\ \A d \in ShopCurrencies : d # c => fetch'[d] = fetch[d]
    BY <2>2, <2>3
  <2>5. CASE c = selected
    BY <2>1, <2>2, <2>3, <2>4, <2>5 DEF Shopping!DisplayIsRenewed
  <2>6. CASE c # selected
    BY <2>2, <2>3, <2>4, <2>6 DEF Shopping!DisplayIsRenewed, Shopping!Confirmed
  <2> QED BY <2>5, <2>6
<1>6. ASSUME NEW c \in ShopCurrencies, Shopping!Show(c) PROVE Shopping!DisplayIsRenewed'
  <2>1. /\ fetch[c] # None /\ fetch[c].step = "read"
        /\ shown' = [shown EXCEPT ![c] = fetch[c].items]
        /\ fetch' = [fetch EXCEPT ![c] = None]
        /\ failures' = [failures EXCEPT ![c] = 0]
        /\ overtaken' = IF c = selected THEN overtaken ELSE overtaken \ {c}
        /\ UNCHANGED <<cart, answer, unnoticed, selected>>
    BY <1>6 DEF Shopping!Show, Shopping!cartVars, Shopping!callVars
  <2>2. /\ fetch \in [ShopCurrencies -> Shopping!Fetches \cup {None}]
        /\ selected \in ShopCurrencies
        /\ DOMAIN shown = ShopCurrencies /\ DOMAIN failures = ShopCurrencies
    BY DEF Shopping!TypeOK
  <2>3. fetch'[c] = None /\ \A d \in ShopCurrencies : d # c => fetch'[d] = fetch[d]
    BY <2>1, <2>2
  <2>4. CASE c = selected
    <3>1. shown'[selected] = fetch[selected].items
      BY <2>1, <2>2, <2>4
    <3> QED BY <2>1, <2>2, <2>3, <2>4, <3>1 DEF Shopping!DisplayIsRenewed,
       Shopping!Confirmed
  <2>5. CASE c # selected
    <3>1. shown'[selected] = shown[selected] /\ failures'[selected] = failures[selected]
      BY <2>1, <2>2, <2>5
    <3> QED BY <2>1, <2>2, <2>3, <2>5, <3>1 DEF Shopping!DisplayIsRenewed,
       Shopping!Confirmed
  <2> QED BY <2>4, <2>5
<1>7. ASSUME NEW c \in ShopCurrencies, Shopping!FetchFails(c)
      PROVE  Shopping!DisplayIsRenewed'
  <2>1. Shopping!Asked # None
        /\ Shopping!Asked.step = "asked" /\ Retries + 1 # 0 /\ failures \in [ShopCurrencies -> Nat]
    BY DEF Shopping!TypeOK, Shopping!Sound, Shopping!Asked, Shopping!Fetches
  <2>2. CASE failures[c] < Retries
    BY <1>7, <2>1, <2>2 DEF Shopping!FetchFails, Shopping!cartVars,
                            Shopping!callVars, Shopping!DisplayIsRenewed,
                            Shopping!Confirmed, Shopping!TypeOK
  <2>3. CASE ~(failures[c] < Retries)
    BY <1>7, <2>1, <2>3 DEF Shopping!FetchFails, Shopping!cartVars,
                            Shopping!callVars, Shopping!DisplayIsRenewed,
                            Shopping!Confirmed, Shopping!TypeOK
  <2> QED BY <2>2, <2>3
<1>8. ASSUME NEW c \in ShopCurrencies, Shopping!Select(c)
      PROVE  Shopping!DisplayIsRenewed'
  <2>1. Shopping!Asked # None /\ Shopping!Asked.step = "asked"
    BY DEF Shopping!Sound, Shopping!Asked, Shopping!Fetches
  <2> QED BY <1>8, <2>1 DEF Shopping!Select, Shopping!cartVars,
                            Shopping!callVars, Shopping!DisplayIsRenewed,
                            Shopping!Confirmed, Shopping!TypeOK
<1>9. CASE Shopping!Refocus
  <2>1. Shopping!Asked # None /\ Shopping!Asked.step = "asked"
    BY DEF Shopping!Sound, Shopping!Asked, Shopping!Fetches
  <2> QED BY <1>9, <2>1 DEF Shopping!Refocus, Shopping!FirstFetch,
                            Shopping!Invalidated, Shopping!cartVars,
                            Shopping!callVars,
                            Shopping!DisplayIsRenewed, Shopping!Confirmed, Shopping!TypeOK
<1> QED BY <1>1, <1>2, <1>3, <1>4, <1>5, <1>6, <1>7, <1>8,
   <1>9 DEF Shopping!Next, Shopping!Answer, Shopping!Query

(* What the page does by itself changes neither.                           *)
LEMMA PageKeeps ==
  ASSUME Shopping!Sound, CartInv,
         \/ \E c \in ShopCurrencies : Shopping!Query(c) \/ Shopping!Select(c)
         \/ Shopping!Refocus
  PROVE  CartInv'
<1> USE DEF CartInv
<1>1. UNCHANGED <<cart, paid, request, answer, unsettled>>
  BY DEF Shopping!Query, Shopping!Select, Shopping!Refocus, Shopping!GetCart,
         Shopping!Show, Shopping!FetchFails, Shopping!cartVars,
         Shopping!callVars
<1>2. Shopping!Asked \in Shopping!Fetches
  BY DEF Shopping!Asked, Shopping!Fetches
<1>3. Shopping!TypeOK'
  <2>1. ASSUME NEW c \in ShopCurrencies, Shopping!GetCart(c) PROVE Shopping!TypeOK'
    <3>1. [step |-> "read", items |-> cart] \in Shopping!Fetches
      BY DEF Shopping!Fetches, Shopping!TypeOK
    <3> QED BY <1>1, <2>1, <3>1 DEF Shopping!GetCart, Shopping!TypeOK
  <2>2. ASSUME NEW c \in ShopCurrencies, Shopping!Show(c) PROVE Shopping!TypeOK'
    BY <1>1, <2>2 DEF Shopping!Show, Shopping!TypeOK
  <2>3. ASSUME NEW c \in ShopCurrencies, Shopping!FetchFails(c) PROVE Shopping!TypeOK'
    BY <1>1, <1>2, <2>3 DEF Shopping!FetchFails, Shopping!TypeOK, Shopping!Sound
  <2>4. ASSUME NEW c \in ShopCurrencies, Shopping!Select(c) PROVE Shopping!TypeOK'
    BY <1>1, <1>2, <2>4 DEF Shopping!Select, Shopping!TypeOK
  <2>5. CASE Shopping!Refocus
    BY <1>1, <1>2, <2>5 DEF Shopping!Refocus, Shopping!Invalidated,
                            Shopping!TypeOK
  <2> QED BY <2>1, <2>2, <2>3, <2>4, <2>5 DEF Shopping!Query
<1>4. Shopping!ClicksGoOn' /\ Shopping!ItemsAreAddedOnce' /\ Shopping!OrdersAreApart'
  BY <1>1 DEF Shopping!ClicksGoOn, Shopping!ItemsAreAddedOnce, Shopping!Added,
              Shopping!OrdersAreApart, Shopping!Before
<1> QED BY <1>3, <1>4

(* Cart.provider.tsx and the API handlers: what orders and the display     *)
(* rest on.                                                                *)
THEOREM ShopInvariant == Shopping!Spec => []Shopping!IInv
<1>1. Shopping!Init => Shopping!IInv
  <2> SUFFICES ASSUME Shopping!Init PROVE Shopping!IInv
    OBVIOUS
  <2>1. Shopping!Asked \in Shopping!Fetches
    BY DEF Shopping!Asked, Shopping!Fetches
  <2>2. Shopping!TypeOK
    BY <2>1 DEF Shopping!Init, Shopping!TypeOK, Shopping!Idle, Shopping!Steps
  <2>3. Shopping!ClicksGoOn /\ Shopping!ItemsAreAddedOnce /\ Shopping!OrdersAreApart
    BY ShopIsSound DEF Shopping!Init, Shopping!Idle, Shopping!ClicksGoOn,
                       Shopping!ItemsAreAddedOnce, Shopping!OrdersAreApart,
                       Shopping!Sound, Shopping!Clicks
  <2>4. Shopping!DisplayIsRenewed
    <3>1. Shopping!Asked # None /\ Shopping!Asked.step = "asked"
      BY <2>1, ShopIsSound DEF Shopping!Sound, Shopping!Asked
    <3> QED BY <3>1 DEF Shopping!Init, Shopping!DisplayIsRenewed
  <2> QED BY <2>2, <2>3, <2>4 DEF Shopping!IInv
<1>2. Shopping!IInv /\ [Shopping!Next]_(Shopping!vars) => Shopping!IInv'
  <2> SUFFICES ASSUME Shopping!IInv, [Shopping!Next]_(Shopping!vars)
  PROVE  Shopping!IInv'
    OBVIOUS
  <2>1. CartInv /\ Shopping!DisplayIsRenewed
    BY DEF Shopping!IInv, CartInv
  <2>2. CASE UNCHANGED Shopping!vars
    BY <2>2 DEF Shopping!vars, Shopping!cartVars, Shopping!pageVars,
                Shopping!callVars, Shopping!IInv, Shopping!TypeOK,
                Shopping!ClicksGoOn,
         Shopping!ItemsAreAddedOnce, Shopping!Added, Shopping!OrdersAreApart,
         Shopping!Before, Shopping!DisplayIsRenewed, Shopping!Confirmed
  <2>3. CASE Shopping!Next
    <3>1. CartInv'
      BY <2>1, <2>3, ShopIsSound, HandlerKeeps, PlaceKeeps, ClickKeeps,
         AnswerKeeps, PageKeeps
         DEF Shopping!Next, Shopping!Work
    <3>2. Shopping!DisplayIsRenewed'
      BY <2>1, <2>3, ShopIsSound, DisplayStays
    <3> QED BY <3>1, <3>2 DEF Shopping!IInv, CartInv
  <2> QED BY <2>2, <2>3
<1> QED BY <1>1, <1>2, PTL DEF Shopping!Spec

(* CheckoutForm, Cart.provider.tsx and pages/api/checkout.ts: two orders   *)
(* pay for the same item only if one was not settled when the other was    *)
(* submitted, for any clicks.                                              *)
THEOREM PaidOnceForAll == Shopping!Spec => []PaidOnce
<1>1. Shopping!IInv => PaidOnce
  <2> SUFFICES ASSUME Shopping!IInv, NEW j \in Orders, NEW k \in Orders, j # k,
                      paid[j] # None, paid[k] # None, paid[j] \cap paid[k] # {}
               PROVE  j \in unsettled[k] \/ k \in unsettled[j]
    BY DEF PaidOnce, Shopping!PaidOnce
  <2>1. j \in Shopping!Clicks /\ k \in Shopping!Clicks
    BY DEF Shopping!Clicks
  <2>2. Shopping!Before(j, k) \/ Shopping!Before(k, j)
    BY <2>1 DEF Shopping!IInv, Shopping!ClicksGoOn, Shopping!OrdersAreApart
  <2> QED BY <2>2 DEF Shopping!Before
<1> QED BY <1>1, ShopInvariant, PTL

(* Cart.provider.tsx: at rest the cart on display is the cart, but for the *)
(* three cases the property names, for any clicks and currencies.          *)
THEOREM CartOnDisplayIsCurrentForAll == Shopping!Spec => []CartOnDisplayIsCurrent
<1>1. Shopping!IInv => CartOnDisplayIsCurrent
  BY DEF Shopping!IInv, Shopping!DisplayIsRenewed, CartOnDisplayIsCurrent,
         Shopping!CartOnDisplayIsCurrent, Shopping!AtRest, Shopping!Confirmed
<1> QED BY <1>1, ShopInvariant, PTL

-----------------------------------------------------------------------------
(* The percentages of the review scores, for any reviews.  Rounded down,   *)
(* they miss as many points as the remainders make up, fewer than there    *)
(* are stars that do not divide evenly; so handing them out once round is  *)
(* enough, and reaches no star that divides evenly.                        *)

(* An instance has its own names of the library's operators.               *)
LEMMA SameSums ==
  ASSUME NEW f, NEW T
  PROVE  Rating!SumFunctionOnSet(f, T) = SumFunctionOnSet(f, T)
BY DEF Rating!SumFunctionOnSet, SumFunctionOnSet, Rating!FoldFunctionOnSet,
       FoldFunctionOnSet, Rating!MapThenFoldSet, MapThenFoldSet

LEMMA SameSizes ==
  ASSUME NEW T
  PROVE  /\ Rating!IsFiniteSet(T) <=> IsFiniteSet(T)
         /\ Rating!Cardinality(T) = Cardinality(T)
BY DEF Rating!IsFiniteSet, IsFiniteSet, Rating!Cardinality, Cardinality

(* There are five stars, and a function of them adds up to five numbers.   *)
LEMMA FiveAddUp ==
  ASSUME NEW f, DOMAIN f = Rating!Stars, \A s \in Rating!Stars : f[s] \in Int
  PROVE  Rating!Total(f) = f[1] + f[2] + f[3] + f[4] + f[5]
<1>1. /\ 1 .. 0 = {} /\ Rating!Stars = 1 .. 5
      /\ \A k \in 1 .. 5 : 1 .. k = (1 .. k - 1) \cup {k} /\ k \notin 1 .. k - 1
  BY DEF Rating!Stars
<1>2. \A k \in 0 .. 5 : IsFiniteSet(1 .. k)
  BY FS_Interval
<1>3. SumFunctionOnSet(f, 1 .. 0) = 0
  BY <1>1, <1>2, SumType
<1>4. ASSUME NEW k \in 1 .. 5
      PROVE  SumFunctionOnSet(f, 1 .. k) = f[k] + SumFunctionOnSet(f, 1 .. k - 1)
  <2>1. IsFiniteSet(1 .. k - 1) /\ 1 .. k = (1 .. k - 1) \cup {k} /\ k \notin 1 .. k - 1
    <3>1. k - 1 \in 0 .. 5
      OBVIOUS
    <3> QED BY <1>1, <1>2, <3>1
  <2>2. \A y \in (1 .. k - 1) \cup {k} : f[y] \in Int
    BY <1>1
  <2> QED BY <2>1, <2>2, SumAdds
<1>5. Rating!Total(f) = SumFunctionOnSet(f, 1 .. 5)
  BY <1>1, SameSums DEF Rating!Total, Rating!SumFunction
<1>6. /\ f[1] \in Int /\ f[2] \in Int /\ f[3] \in Int /\ f[4] \in Int /\ f[5] \in Int
  BY <1>1
<1>7. /\ SumFunctionOnSet(f, 1 .. 1) = f[1] + SumFunctionOnSet(f, 1 .. 0)
      /\ SumFunctionOnSet(f, 1 .. 2) = f[2] + SumFunctionOnSet(f, 1 .. 1)
      /\ SumFunctionOnSet(f, 1 .. 3) = f[3] + SumFunctionOnSet(f, 1 .. 2)
      /\ SumFunctionOnSet(f, 1 .. 4) = f[4] + SumFunctionOnSet(f, 1 .. 3)
      /\ SumFunctionOnSet(f, 1 .. 5) = f[5] + SumFunctionOnSet(f, 1 .. 4)
  BY <1>4
<1> QED BY <1>3, <1>5, <1>6, <1>7

(* How many stars are in a set.                                            *)
LEMMA FiveCount ==
  ASSUME NEW P \in SUBSET Rating!Stars
  PROVE  Cardinality(P) = (IF 1 \in P THEN 1 ELSE 0) + (IF 2 \in P THEN 1 ELSE 0)
           + (IF 3 \in P THEN 1 ELSE 0) + (IF 4 \in P THEN 1 ELSE 0)
           + (IF 5 \in P THEN 1 ELSE 0)
<1> DEFINE C(k) == P \cap (1 .. k)
<1>1. ASSUME NEW k \in 0 .. 5 PROVE IsFiniteSet(C(k))
  <2>1. IsFiniteSet(1 .. k)
    BY FS_Interval
  <2> QED BY <2>1, FS_Subset
<1>2. C(0) = {} /\ C(5) = P
  <2>1. 1 .. 0 = {} /\ P \subseteq 1 .. 5
    BY DEF Rating!Stars
  <2> QED BY <2>1
<1>3. ASSUME NEW k \in 1 .. 5
      PROVE  Cardinality(C(k)) = Cardinality(C(k - 1)) + (IF k \in P THEN 1 ELSE 0)
  <2>1. IsFiniteSet(C(k - 1)) /\ k \notin C(k - 1)
    <3>1. k - 1 \in 0 .. 5 /\ k \notin 1 .. k - 1
      OBVIOUS
    <3>2. IsFiniteSet(C(k - 1))
      <4> HIDE DEF C
      <4> QED BY <1>1, <3>1
    <3> QED BY <3>1, <3>2
  <2>2. Cardinality(C(k - 1)) \in Nat
    BY <2>1, FS_CardinalityType
  <2>3. CASE k \in P
    <3>1. C(k) = C(k - 1) \cup {k}
      BY <2>3
    <3> HIDE DEF C
    <3> QED BY <2>1, <2>3, <3>1, FS_AddElement
  <2>4. CASE k \notin P
    <3>1. C(k) = C(k - 1)
      BY <2>4
    <3> HIDE DEF C
    <3> QED BY <2>2, <2>4, <3>1
  <2> QED BY <2>3, <2>4
<1> HIDE DEF C
<1>4. Cardinality(C(0)) = 0
  BY <1>2, FS_EmptySet
<1>5. /\ Cardinality(C(1)) = Cardinality(C(0)) + (IF 1 \in P THEN 1 ELSE 0)
      /\ Cardinality(C(2)) = Cardinality(C(1)) + (IF 2 \in P THEN 1 ELSE 0)
      /\ Cardinality(C(3)) = Cardinality(C(2)) + (IF 3 \in P THEN 1 ELSE 0)
      /\ Cardinality(C(4)) = Cardinality(C(3)) + (IF 4 \in P THEN 1 ELSE 0)
      /\ Cardinality(C(5)) = Cardinality(C(4)) + (IF 5 \in P THEN 1 ELSE 0)
  BY <1>3
<1> QED BY <1>2, <1>4, <1>5

(* A place is the number of those ahead.                                   *)
LEMMA PlaceIs ==
  ASSUME NEW r, NEW t \in Rating!Stars
  PROVE  Rating!Place(r, t)
           = (IF Rating!Ahead(r, 1, t) THEN 1 ELSE 0)
           + (IF Rating!Ahead(r, 2, t) THEN 1 ELSE 0)
           + (IF Rating!Ahead(r, 3, t) THEN 1 ELSE 0)
           + (IF Rating!Ahead(r, 4, t) THEN 1 ELSE 0)
           + (IF Rating!Ahead(r, 5, t) THEN 1 ELSE 0)
<1> DEFINE P == {s \in Rating!Stars : Rating!Ahead(r, s, t)}
<1>1. P \in SUBSET Rating!Stars /\ Rating!Place(r, t) = Cardinality(P)
  BY SameSizes DEF Rating!Place
<1>2. \A s \in Rating!Stars : s \in P <=> Rating!Ahead(r, s, t)
  OBVIOUS
<1>3. {1, 2, 3, 4, 5} \subseteq Rating!Stars
  BY DEF Rating!Stars
<1> HIDE DEF P
<1> QED BY <1>1, <1>2, <1>3, FiveCount

(* One point goes to each of the first m places: m points in all.          *)
LEMMA Handed ==
  ASSUME NEW r, \A s \in Rating!Stars : r[s] \in Int, NEW m \in 0 .. 4
  PROVE  (IF Rating!Place(r, 1) < m THEN 1 ELSE 0)
           + (IF Rating!Place(r, 2) < m THEN 1 ELSE 0)
           + (IF Rating!Place(r, 3) < m THEN 1 ELSE 0)
           + (IF Rating!Place(r, 4) < m THEN 1 ELSE 0)
           + (IF Rating!Place(r, 5) < m THEN 1 ELSE 0) = m
<1>1. {1, 2, 3, 4, 5} \subseteq Rating!Stars
      /\ r[1] \in Int /\ r[2] \in Int /\ r[3] \in Int /\ r[4] \in Int /\ r[5] \in Int
  BY DEF Rating!Stars
<1>2. m = 0 \/ m = 1 \/ m = 2 \/ m = 3 \/ m = 4
  OBVIOUS
<1> QED BY <1>1, <1>2, PlaceIs, SMTT(60) DEF Rating!Ahead

(* Multiplication keeps the order.                                         *)
LEMMA Times ==
  ASSUME NEW n \in Int, n > 0, NEW a \in Int, NEW b \in Int, a >= b
  PROVE  n * a >= n * b /\ n * a \in Int /\ n * b \in Int
<1>1. n * (a - b) >= 0
  OBVIOUS
<1>2. a - b \in Int /\ n * (a - b) \in Int
  OBVIOUS
<1>3. n * ((a - b) + b) = n * (a - b) + n * b
  BY <1>2, Distributes
<1>4. (a - b) + b = a /\ n * a \in Int /\ n * b \in Int
  OBVIOUS
<1> QED BY <1>1, <1>2, <1>3, <1>4

(* Five equations added up.                                                *)
LEMMA AddedUp ==
  ASSUME NEW n \in Int, NEW d, NEW v, NEW r,
         \A s \in Rating!Stars : d[s] \in Int /\ v[s] \in Int /\ r[s] \in Int
                         /\ 100 * d[s] = v[s] + r[s],
         d[1] + d[2] + d[3] + d[4] + d[5] = n
  PROVE  100 * n = (v[1] + v[2] + v[3] + v[4] + v[5])
                     + (r[1] + r[2] + r[3] + r[4] + r[5])
<1> DEFINE Adds3(x, y, z) == x \in Int /\ y \in Int /\ z \in Int /\ 100 * x = y + z
<1>1. /\ Adds3(d[1], v[1], r[1]) /\ Adds3(d[2], v[2], r[2]) /\ Adds3(d[3], v[3], r[3])
      /\ Adds3(d[4], v[4], r[4]) /\ Adds3(d[5], v[5], r[5])
  BY DEF Rating!Stars
<1>2. ASSUME NEW x, NEW y, NEW z, NEW a, NEW b, NEW c, Adds3(x, y, z), Adds3(a, b, c)
      PROVE  Adds3(x + a, y + b, z + c)
  BY <1>2
<1> HIDE DEF Adds3
<1>3. Adds3(d[1] + d[2], v[1] + v[2], r[1] + r[2])
  BY <1>1, <1>2
<1>4. Adds3(d[1] + d[2] + d[3], v[1] + v[2] + v[3], r[1] + r[2] + r[3])
  BY <1>1, <1>2, <1>3
<1>5. Adds3(d[1] + d[2] + d[3] + d[4], v[1] + v[2] + v[3] + v[4], r[1] + r[2] + r[3] + r[4])
  BY <1>1, <1>2, <1>4
<1>6. Adds3(n, v[1] + v[2] + v[3] + v[4] + v[5], r[1] + r[2] + r[3] + r[4] + r[5])
  BY <1>1, <1>2, <1>5
<1> QED BY <1>6 DEF Adds3

(* How many points are missing: the remainders make whole hundredths of    *)
(* them, fewer than there are stars.                                       *)
LEMMA MissingPoints ==
  ASSUME NEW n \in Int, n > 0, NEW q, NEW r,
         \A s \in Rating!Stars : q[s] \in Int /\ r[s] \in 0 .. n - 1,
         NEW d, \A s \in Rating!Stars : d[s] \in Int /\ 100 * d[s] = n * q[s] + r[s],
         d[1] + d[2] + d[3] + d[4] + d[5] = n
  PROVE  LET m == 100 - (q[1] + q[2] + q[3] + q[4] + q[5]) IN
         m \in 0 .. 4 /\ n * m = r[1] + r[2] + r[3] + r[4] + r[5]
<1> DEFINE Q == q[1] + q[2] + q[3] + q[4] + q[5]
           R == r[1] + r[2] + r[3] + r[4] + r[5]
<1>1. {1, 2, 3, 4, 5} \subseteq Rating!Stars
  BY DEF Rating!Stars
<1>2. /\ q[1] \in Int /\ q[2] \in Int /\ q[3] \in Int /\ q[4] \in Int /\ q[5] \in Int
      /\ R \in Int /\ 0 <= R /\ R < 5 * n /\ Q \in Int
  BY <1>1
<1>3. n * Q = n * q[1] + n * q[2] + n * q[3] + n * q[4] + n * q[5]
  <2>1. n * Q = n * (q[1] + q[2] + q[3] + q[4]) + n * q[5]
    BY <1>2, Distributes
  <2>2. n * (q[1] + q[2] + q[3] + q[4]) = n * (q[1] + q[2] + q[3]) + n * q[4]
    BY <1>2, Distributes
  <2>3. n * (q[1] + q[2] + q[3]) = n * (q[1] + q[2]) + n * q[3]
    BY <1>2, Distributes
  <2>4. n * (q[1] + q[2]) = n * q[1] + n * q[2]
    BY <1>2, Distributes
  <2> QED BY <2>1, <2>2, <2>3, <2>4
<1>4. 100 * n = n * Q + R
  <2> DEFINE v == [s \in Rating!Stars |-> n * q[s]]
  <2>1. /\ \A s \in Rating!Stars : d[s] \in Int /\ v[s] \in Int /\ r[s] \in Int
                            /\ 100 * d[s] = v[s] + r[s]
        /\ n * Q = v[1] + v[2] + v[3] + v[4] + v[5]
    <3>1. \A s \in Rating!Stars : v[s] = n * q[s] /\ n * q[s] \in Int /\ r[s] \in Int
      BY Distributes
    <3> HIDE DEF v, Q
    <3> QED BY <1>1, <1>3, <3>1
  <2>2. d[1] + d[2] + d[3] + d[4] + d[5] = n
    OBVIOUS
  <2> HIDE DEF v, Q
  <2>3. 100 * n = (v[1] + v[2] + v[3] + v[4] + v[5]) + (r[1] + r[2] + r[3] + r[4] + r[5])
    BY <2>1, <2>2, AddedUp
  <2> QED BY <2>1, <2>3
<1> DEFINE m == 100 - Q
<1>5. n * m = R /\ m \in Int
  <2>1. m + Q = 100 /\ m \in Int /\ n * (m + Q) = n * m + n * Q /\ n * m \in Int
        /\ n * Q \in Int
    <3> HIDE DEF Q
    <3>1. m \in Int /\ m + Q = 100
      BY <1>2
    <3> HIDE DEF m
    <3> QED BY <1>2, <3>1, Distributes
  <2>2. n * 100 = 100 * n
    OBVIOUS
  <2> HIDE DEF m, Q, R
  <2> QED BY <1>2, <1>4, <2>1, <2>2
<1>6. m >= 0
  <2> HIDE DEF m, Q, R
  <2>1. CASE -1 >= m
    <3>1. n * (-1) >= n * m /\ n * (-1) = -n
      BY <1>5, <2>1, Times
    <3> QED BY <1>2, <1>5, <3>1
  <2> QED BY <1>5, <2>1
<1>7. m <= 4
  <2> HIDE DEF m, Q, R
  <2>1. CASE m >= 5
    <3>1. n * m >= n * 5 /\ n * 5 = 5 * n
      BY <1>5, <2>1, Times
    <3> QED BY <1>2, <1>5, <3>1
  <2> QED BY <1>5, <2>1
<1>8. m \in 0 .. 4
  <2> HIDE DEF m
  <2> QED BY <1>5, <1>6, <1>7
<1> QED BY <1>5, <1>8

(* A star whose count divides evenly is not given a point: those ahead of  *)
(* it are more than the points.                                            *)
LEMMA EvenIsNotGiven ==
  ASSUME NEW n \in Int, n > 0, NEW r, \A s \in Rating!Stars : r[s] \in 0 .. n - 1,
         NEW m \in 0 .. 4, n * m = r[1] + r[2] + r[3] + r[4] + r[5],
         NEW s \in Rating!Stars, Rating!Place(r, s) < m
  PROVE  r[s] > 0
<1>1. {1, 2, 3, 4, 5} \subseteq Rating!Stars
  BY DEF Rating!Stars
<1>2. /\ r[1] \in 0 .. n - 1 /\ r[2] \in 0 .. n - 1 /\ r[3] \in 0 .. n - 1
      /\ r[4] \in 0 .. n - 1 /\ r[5] \in 0 .. n - 1
  BY <1>1
<1>3. s = 1 \/ s = 2 \/ s = 3 \/ s = 4 \/ s = 5
  BY DEF Rating!Stars
<1>4. /\ m = 0 \/ m = 1 \/ m = 2 \/ m = 3 \/ m = 4
      /\ m = 0 => n * m = 0
      /\ m = 1 => n * m = n
      /\ m = 2 => n * m = 2 * n
      /\ m = 3 => n * m = 3 * n
      /\ m = 4 => n * m = 4 * n
  OBVIOUS
<1> DEFINE v == n * m
<1>5. v = r[1] + r[2] + r[3] + r[4] + r[5]
  OBVIOUS
<1> HIDE DEF v
<1> QED BY <1>1, <1>2, <1>3, <1>4, <1>5, PlaceIs, SMTT(60) DEF Rating!Ahead, v

(* Of two stars the one with the larger remainder is ahead.                *)
LEMMA LargerGoesFirst ==
  ASSUME NEW r, \A s \in Rating!Stars : r[s] \in Int,
         NEW s \in Rating!Stars, NEW t \in Rating!Stars, r[s] > r[t]
  PROVE  /\ Rating!Place(r, s) <= Rating!Place(r, t)
         /\ Rating!Place(r, s) \in Nat /\ Rating!Place(r, t) \in Nat
<1>1. {1, 2, 3, 4, 5} \subseteq Rating!Stars
      /\ r[1] \in Int /\ r[2] \in Int /\ r[3] \in Int /\ r[4] \in Int /\ r[5] \in Int
  BY DEF Rating!Stars
<1>2. \A x \in Rating!Stars : Rating!Ahead(r, x, s) => Rating!Ahead(r, x, t)
  BY DEF Rating!Ahead
<1> QED BY <1>1, <1>2, PlaceIs

(* Division rounds down.                                                   *)
LEMMA RoundedDown ==
  ASSUME NEW a \in Int, NEW n \in Int, n > 0
  PROVE  /\ a \div n \in Int /\ a % n \in 0 .. n - 1
         /\ a = n * (a \div n) + (a % n)
OBVIOUS

(* The percentages of any distribution of n reviews.                       *)
LEMMA PercentsFit ==
  ASSUME NEW d, \A s \in Rating!Stars : d[s] \in Int, NEW n \in Int, n > 0,
         d[1] + d[2] + d[3] + d[4] + d[5] = n
  PROVE  /\ Rating!Total(Rating!Percents(d, n)) = 100
         /\ \A s \in Rating!Stars :
              Rating!Percents(d, n)[s] * n - 100 * d[s] \in -(n - 1) .. n - 1
         /\ \A s, t \in Rating!Stars : d[s] > d[t] =>
              Rating!Percents(d, n)[s] >= Rating!Percents(d, n)[t]
<1> DEFINE q == [s \in Rating!Stars |-> (100 * d[s]) \div n]
           r == [s \in Rating!Stars |-> (100 * d[s]) % n]
           m == 100 - (q[1] + q[2] + q[3] + q[4] + q[5])
           g == [s \in Rating!Stars |-> IF Rating!Place(r, s) < m THEN 1 ELSE 0]
           p == [s \in Rating!Stars |-> q[s] + g[s]]
<1>1. ASSUME NEW s \in Rating!Stars
      PROVE  q[s] \in Int /\ r[s] \in 0 .. n - 1 /\ 100 * d[s] = n * q[s] + r[s]
  <2>1. 100 * d[s] \in Int
    OBVIOUS
  <2>2. q[s] = (100 * d[s]) \div n /\ r[s] = (100 * d[s]) % n
    OBVIOUS
  <2> HIDE DEF q, r
  <2> QED BY <2>1, <2>2, RoundedDown
<1>2. DOMAIN q = Rating!Stars /\ DOMAIN p = Rating!Stars
      /\ \A s \in Rating!Stars :
           p[s] = q[s] + g[s] /\ g[s] = IF Rating!Place(r, s) < m THEN 1 ELSE 0
  OBVIOUS
<1>3. Rating!Percents(d, n) = p
  <2>1. Rating!Total(q) = q[1] + q[2] + q[3] + q[4] + q[5]
    <3> HIDE DEF q, r
    <3> QED BY <1>1, <1>2, FiveAddUp
  <2>2. Rating!Percents(d, n)
          = [s \in Rating!Stars |->
               q[s] + IF Rating!Place(r, s) < 100 - Rating!Total(q) THEN 1 ELSE 0]
    BY DEF Rating!Percents
  <2> HIDE DEF q, r
  <2> QED BY <2>1, <2>2
<1>4. m \in 0 .. 4 /\ n * m = r[1] + r[2] + r[3] + r[4] + r[5]
  <2> HIDE DEF q, r
  <2> QED BY <1>1, MissingPoints
<1>5. m = 100 - (q[1] + q[2] + q[3] + q[4] + q[5])
  OBVIOUS
<1> HIDE DEF q, r, m, g, p
<1>6. \A s \in Rating!Stars : r[s] \in Int /\ g[s] \in {0, 1} /\ p[s] \in Int
  BY <1>1, <1>2
<1>7. {1, 2, 3, 4, 5} \subseteq Rating!Stars
  BY DEF Rating!Stars
<1>8. Rating!Total(p) = 100
  <2>1. g[1] + g[2] + g[3] + g[4] + g[5] = m
    <3>1. (IF Rating!Place(r, 1) < m THEN 1 ELSE 0)
           + (IF Rating!Place(r, 2) < m THEN 1 ELSE 0)
           + (IF Rating!Place(r, 3) < m THEN 1 ELSE 0)
           + (IF Rating!Place(r, 4) < m THEN 1 ELSE 0)
           + (IF Rating!Place(r, 5) < m THEN 1 ELSE 0) = m
      BY <1>4, <1>6, Handed
    <3> QED BY <1>2, <1>7, <3>1
  <2>2. Rating!Total(p) = p[1] + p[2] + p[3] + p[4] + p[5]
    BY <1>2, <1>6, FiveAddUp
  <2>3. /\ p[1] = q[1] + g[1] /\ p[2] = q[2] + g[2] /\ p[3] = q[3] + g[3]
        /\ p[4] = q[4] + g[4] /\ p[5] = q[5] + g[5]
    BY <1>2, <1>7
  <2>4. /\ q[1] \in Int /\ q[2] \in Int /\ q[3] \in Int /\ q[4] \in Int /\ q[5] \in Int
        /\ g[1] \in Int /\ g[2] \in Int /\ g[3] \in Int /\ g[4] \in Int /\ g[5] \in Int
    BY <1>1, <1>6, <1>7
  <2> QED BY <1>5, <2>1, <2>2, <2>3, <2>4
<1>9. ASSUME NEW s \in Rating!Stars PROVE p[s] * n - 100 * d[s] \in -(n - 1) .. n - 1
  <2>1. p[s] * n = n * q[s] + n * g[s] /\ n * q[s] \in Int
    BY <1>1, <1>2, <1>6, Distributes
  <2>2. g[s] = 0 \/ (g[s] = 1 /\ r[s] > 0)
    BY <1>1, <1>2, <1>4, EvenIsNotGiven
  <2>3. (g[s] = 0 => n * g[s] = 0) /\ (g[s] = 1 => n * g[s] = n)
    OBVIOUS
  <2> DEFINE v == n * q[s]
  <2>4. v \in Int /\ 100 * d[s] = v + r[s] /\ r[s] \in 0 .. n - 1 /\ p[s] * n = v + n * g[s]
    BY <1>1, <2>1
  <2> HIDE DEF v
  <2> QED BY <2>2, <2>3, <2>4
<1>10. ASSUME NEW s \in Rating!Stars, NEW t \in Rating!Stars, d[s] > d[t] PROVE p[s] >= p[t]
  <2>1. q[s] \in Int /\ q[t] \in Int /\ r[s] \in 0 .. n - 1 /\ r[t] \in 0 .. n - 1
        /\ 100 * d[s] = n * q[s] + r[s] /\ 100 * d[t] = n * q[t] + r[t]
        /\ n * q[s] \in Int /\ n * q[t] \in Int
    BY <1>1, Distributes
  <2>2. n * q[s] + r[s] > n * q[t] + r[t]
    BY <1>10, <2>1
  <2>3. q[s] >= q[t]
    <3>1. CASE q[t] >= q[s] + 1
      <4>1. n * q[t] >= n * (q[s] + 1) /\ n * (q[s] + 1) = n * q[s] + n
        BY <2>1, <3>1, Times, Distributes
      <4> QED BY <2>1, <2>2, <4>1
    <3> QED BY <2>1, <3>1
  <2>4. CASE q[s] > q[t]
    BY <1>2, <1>6, <2>1, <2>4
  <2>5. CASE q[s] = q[t]
    <3>1. r[s] > r[t]
      BY <2>1, <2>2, <2>5
    <3>2. /\ Rating!Place(r, s) <= Rating!Place(r, t)
          /\ Rating!Place(r, s) \in Nat /\ Rating!Place(r, t) \in Nat
      BY <1>6, <3>1, LargerGoesFirst
    <3> QED BY <1>2, <1>4, <2>1, <2>5, <3>2
  <2> QED BY <2>1, <2>3, <2>4, <2>5
<1> QED BY <1>3, <1>8, <1>9, <1>10

(* The distribution counts every review once: each score is that of one    *)
(* number of stars.                                                        *)
LEMMA EveryReviewCounts ==
  ASSUME Rating!Sound, NEW c \in [Scores -> Nat]
  PROVE  LET d == Rating!Distribution(c) IN
         /\ \A s \in Rating!Stars : d[s] \in Int
         /\ d[1] + d[2] + d[3] + d[4] + d[5] = Rating!Total(c)
         /\ Rating!Total(c) \in Int
<1> DEFINE X(s) == {x \in Scores : Rating!clamp(Rating!Rounded(x)) = s}
           S(T) == SumFunctionOnSet(c, T)
<1>1. /\ IsFiniteSet(Scores)
      /\ \A T \in SUBSET Scores : IsFiniteSet(T) /\ \A x \in T : c[x] \in Int
  <2>1. IsFiniteSet(Scores)
    BY SameSizes DEF Rating!Sound
  <2>2. \A x \in Scores : c[x] \in Int
    OBVIOUS
  <2>3. \A T \in SUBSET Scores : IsFiniteSet(T)
    BY <2>1, FS_Subset
  <2> QED BY <2>1, <2>2, <2>3
<1>2. \A T \in SUBSET Scores : S(T) \in Int
  BY <1>1, SumType
<1>3. \A T, U \in SUBSET Scores : T \cap U = {} => S(T \cup U) = S(T) + S(U)
  <2> SUFFICES ASSUME NEW T \in SUBSET Scores, NEW U \in SUBSET Scores, T \cap U = {}
               PROVE  S(T \cup U) = S(T) + S(U)
    OBVIOUS
  <2>1. \A x \in T \cup U : c[x] \in Int
    BY <1>1
  <2> QED BY <1>1, <2>1, SumUnion
<1>4. \A s \in Rating!Stars : Rating!Distribution(c)[s] = S(X(s))
  BY SameSums DEF Rating!Distribution
<1>5. Rating!Total(c) = S(Scores)
  BY SameSums DEF Rating!Total, Rating!SumFunction
<1>6. Scores = X(1) \cup X(2) \cup X(3) \cup X(4) \cup X(5)
  <2> SUFFICES ASSUME NEW x \in Scores PROVE Rating!clamp(Rating!Rounded(x)) \in 1 .. 5
    OBVIOUS
  <2>1. Rating!Rounded(x) \in Int
    BY DEF Rating!Sound, Rating!Rounded
  <2> QED BY <2>1 DEF Rating!clamp
<1>7. /\ X(1) \cap X(2) = {} /\ (X(1) \cup X(2)) \cap X(3) = {}
      /\ (X(1) \cup X(2) \cup X(3)) \cap X(4) = {}
      /\ (X(1) \cup X(2) \cup X(3) \cup X(4)) \cap X(5) = {}
  OBVIOUS
<1>8. \A s : X(s) \in SUBSET Scores
  OBVIOUS
<1>9. {1, 2, 3, 4, 5} \subseteq Rating!Stars
  BY DEF Rating!Stars
<1> HIDE DEF X, S
<1>10. S(Scores) = S(X(1)) + S(X(2)) + S(X(3)) + S(X(4)) + S(X(5))
  <2>1. S(X(1) \cup X(2)) = S(X(1)) + S(X(2))
    BY <1>3, <1>7, <1>8
  <2>2. S(X(1) \cup X(2) \cup X(3)) = S(X(1) \cup X(2)) + S(X(3))
    BY <1>3, <1>7, <1>8
  <2>3. S(X(1) \cup X(2) \cup X(3) \cup X(4)) = S(X(1) \cup X(2) \cup X(3)) + S(X(4))
    BY <1>3, <1>7, <1>8
  <2>4. S(Scores) = S(X(1) \cup X(2) \cup X(3) \cup X(4)) + S(X(5))
    BY <1>3, <1>6, <1>7, <1>8
  <2> QED BY <2>1, <2>2, <2>3, <2>4
<1> QED BY <1>2, <1>4, <1>5, <1>8, <1>9, <1>10

(* No reviews at first.                                                    *)
LEMMA NothingCounts ==
  ASSUME Rating!Sound
  PROVE  Rating!Total([x \in Scores |-> 0]) = 0
<1> DEFINE z == [x \in Scores |-> 0]
<1>1. IsFiniteSet(Scores) /\ DOMAIN z = Scores /\ \A x \in Scores : z[x] = 0
  BY SameSizes DEF Rating!Sound
<1>2. Rating!Total(z) = SumFunctionOnSet(z, Scores)
  BY <1>1, SameSums DEF Rating!Total, Rating!SumFunction
<1> HIDE DEF z
<1>3. \A x \in Scores : z[x] \in Int /\ z[x] = 1 * z[x] + z[x]
  BY <1>1
<1>4. SumFunctionOnSet(z, Scores)
        = 1 * SumFunctionOnSet(z, Scores) + SumFunctionOnSet(z, Scores)
  BY <1>1, <1>3, SumLinear, SMTT(30)
<1>5. SumFunctionOnSet(z, Scores) \in Int
  BY <1>1, <1>3, SumType
<1>6. SumFunctionOnSet(z, Scores) = 0
  <2> DEFINE v == SumFunctionOnSet(z, Scores)
  <2>1. v \in Int /\ v = 1 * v + v
    BY <1>4, <1>5
  <2> HIDE DEF v
  <2>2. v = 0
    BY <2>1
  <2> QED BY <2>2 DEF v
<1> QED BY <1>2, <1>6 DEF z

(* ProductReviews.tsx: the percentages on display are those computed from  *)
(* all the reviews there are.                                              *)
THEOREM ReviewsInvariant == Rating!Spec => []Rating!IInv
<1>1. Rating!Init => Rating!IInv
  BY ScoresAreSound, NothingCounts DEF Rating!Init, Rating!IInv
<1>2. Rating!IInv /\ [Rating!Next]_(Rating!reviewVars) => Rating!IInv'
  <2> SUFFICES ASSUME Rating!IInv, [Rating!Next]_(Rating!reviewVars) PROVE Rating!IInv'
    OBVIOUS
  <2>1. ASSUME NEW x \in Scores, Rating!Review(x) PROVE Rating!IInv'
    <3> DEFINE c == [productReviews EXCEPT ![x] = @ + 1]
    <3>1. c \in [Scores -> Nat] /\ productReviews' = c
          /\ normalizedPercents' = Rating!Percents(Rating!Distribution(c), Rating!Total(c))
      BY <2>1 DEF Rating!Review, Rating!IInv
    <3> HIDE DEF c
    <3> QED BY <3>1 DEF Rating!IInv
  <2>2. CASE UNCHANGED Rating!reviewVars
    BY <2>2 DEF Rating!reviewVars, Rating!IInv
  <2> QED BY <2>1, <2>2 DEF Rating!Next
<1> QED BY <1>1, <1>2, PTL DEF Rating!Spec

(* ProductReviews.tsx: the percentages add up to 100, each is the exact    *)
(* one rounded down or up, and more reviews never get the lower one, for   *)
(* any reviews with any finite scores.                                     *)
THEOREM PercentsAddUpForAll == Rating!Spec => []PercentsAddUp
<1>1. Rating!IInv => PercentsAddUp
  <2> SUFFICES ASSUME Rating!IInv, Rating!Total(productReviews) > 0 PROVE PercentsAddUp
    BY DEF PercentsAddUp, Rating!PercentsAddUp
  <2> DEFINE d == Rating!Distribution(productReviews)
             n == Rating!Total(productReviews)
  <2>1. /\ \A s \in Rating!Stars : d[s] \in Int
        /\ d[1] + d[2] + d[3] + d[4] + d[5] = n /\ n \in Int
    BY ScoresAreSound, EveryReviewCounts DEF Rating!IInv
  <2>2. normalizedPercents = Rating!Percents(d, n) /\ n > 0
    BY DEF Rating!IInv
  <2> HIDE DEF d, n
  <2>3. /\ Rating!Total(Rating!Percents(d, n)) = 100
        /\ \A s \in Rating!Stars :
             Rating!Percents(d, n)[s] * n - 100 * d[s] \in -(n - 1) .. n - 1
        /\ \A s, t \in Rating!Stars : d[s] > d[t] =>
             Rating!Percents(d, n)[s] >= Rating!Percents(d, n)[t]
    BY <2>1, <2>2, PercentsFit
  <2> QED BY <2>2, <2>3 DEF PercentsAddUp, Rating!PercentsAddUp, d, n
<1>2. Rating!Spec => []Rating!IInv
  BY ReviewsInvariant
<1> QED BY <1>1, <1>2, PTL

=============================================================================
