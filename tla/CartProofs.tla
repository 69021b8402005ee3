----------------------------- MODULE CartProofs -----------------------------
(***************************************************************************)
(* Proofs about CartStore and CartHistory, for any calls, users, products  *)
(* and int32 quantities.                                                   *)
(***************************************************************************)
EXTENDS CartHistory, FiniteSums

(* What is asked are requests of calls.                                    *)
LEMMA AskedAre ==
  /\ \A S \in SUBSET Calls : \A f \in [S -> Requests] :
       f \in UNION {[T -> Requests] : T \in SUBSET Calls}
  /\ TypeOK => /\ DOMAIN asked \subseteq Calls /\ asked \in [DOMAIN asked -> Requests]
               /\ \A c \in DOMAIN asked : asked[c].user \in Users
<1>1. \A S \in SUBSET Calls : \A f \in [S -> Requests] :
        f \in UNION {[T -> Requests] : T \in SUBSET Calls}
  OBVIOUS
<1>2. TypeOK => DOMAIN asked \subseteq Calls /\ asked \in [DOMAIN asked -> Requests]
  BY DEF TypeOK
<1>3. \A r \in Requests : r.user \in Users
  BY DEF Requests
<1> QED BY <1>1, <1>2, <1>3

(* Adding to a cart gives a cart.                                          *)
LEMMA AddedIsCart ==
  ASSUME NEW items \in Cart32, NEW p \in Products, NEW q \in Quantities
  PROVE  Added(items, p, q) \in Cart32 /\ Added(items, p, q) # NoCart
<1> DEFINE Int32 == -HalfInt32 .. HalfInt32 - 1
<1>1. PICK S \in SUBSET Products : items \in [S -> Int32]
  BY DEF Cart32
<1>2. q \in Int32
  BY QuantitiesAreInt32
<1>3. ASSUME NEW a \in Int32 PROVE Plus(a, q) \in Int32
  <2>1. \A x \in Int : x % (2 * HalfInt32) \in 0 .. 2 * HalfInt32 - 1
    BY QuantitiesAreInt32
  <2>2. a + q + HalfInt32 \in Int
    BY <1>2, QuantitiesAreInt32
  <2> QED BY <2>1, <2>2, QuantitiesAreInt32 DEF Plus
<1> HIDE DEF Int32
<1>4. Added(items, p, q) \in [S \cup {p} -> Int32] /\ S \cup {p} \in SUBSET Products
  BY <1>1, <1>2, <1>3 DEF Added
<1>5. Added(items, p, q) \in Cart32
  BY <1>4 DEF Cart32, Int32
<1> QED BY <1>5, NoCartIsNone

LEMMA ItemsAreCart ==
  /\ EmptyItems \in Cart32 /\ EmptyItems # NoCart
  /\ \A cart \in {NoCart} \cup Cart32 : ItemsOf(cart) \in Cart32
  /\ \A cart \in Cart32 : cart # NoCart /\ ItemsOf(cart) = cart
<1>1. EmptyItems \in [{} -> -HalfInt32 .. HalfInt32 - 1]
  BY DEF EmptyItems
<1>2. EmptyItems \in Cart32
  BY <1>1 DEF Cart32
<1> QED BY <1>2, NoCartIsNone DEF ItemsOf

(* At first nothing was asked, and there are no carts.                     *)
LEMMA InitIsIInv == Init => IInv
<1> SUFFICES ASSUME Init PROVE IInv
  OBVIOUS
<1>1. DOMAIN asked = {} /\ asked \in [{} -> Requests]
  BY DEF Init
<1>2. TypeOK
  BY <1>1, AskedAre DEF Init, TypeOK
<1> QED BY <1>1, <1>2 DEF Init, IInv, CartsExpire, InOrder, OneAtATime, ReadIsStored, Running

(* A call begins: it is the only one of a user who waits.                  *)
LEMMA StartKeeps ==
  ASSUME IInv, NEW c \in Calls, NEW r \in Requests, Start(c, r) PROVE IInv'
<1>1. /\ c \notin DOMAIN asked /\ pc[c] = "idle" /\ DOMAIN asked \subseteq Calls
      /\ asked \in [DOMAIN asked -> Requests]
      /\ UNCHANGED <<value, store, expiring>>
  BY AskedAre DEF Start, IInv, InOrder
<1>2. /\ DOMAIN asked' = DOMAIN asked \cup {c} /\ asked'[c] = r
      /\ \A d \in DOMAIN asked : asked'[d] = asked[d]
      /\ asked' \in [DOMAIN asked \cup {c} -> Requests]
  BY <1>1 DEF Start
<1>3. /\ pc'[c] = r.op /\ r.op \in {"add", "get", "empty"}
      /\ \A d \in Calls \ {c} : pc'[d] = pc[d]
      /\ pc' = [pc EXCEPT ![c] = r.op]
  BY DEF Start, Goto, Requests, IInv, TypeOK
<1>4. TypeOK'
  <2>1. asked' \in UNION {[S -> Requests] : S \in SUBSET Calls}
    BY <1>1, <1>2, AskedAre
  <2>2. pc' \in [Calls -> {"idle", "add", "get", "empty", "read", "written"} \cup Outcome]
    BY <1>3 DEF IInv, TypeOK
  <2>3. \A d \in Calls : pc'[d] # "idle" => d \in DOMAIN asked'
    BY <1>2, <1>3 DEF IInv, TypeOK
  <2> QED BY <1>1, <2>1, <2>2, <2>3 DEF IInv, TypeOK
<1>5. CartsExpire'
  <2> SUFFICES ASSUME NEW u \in Users, store'[u] # NoCart, u \notin expiring'
               PROVE  \E d \in Calls : pc'[d] \in {"written", "half"} /\ asked'[d].user = u
    BY DEF CartsExpire
  <2>1. PICK d \in Calls : pc[d] \in {"written", "half"} /\ asked[d].user = u
    BY <1>1 DEF IInv, CartsExpire
  <2>2. d # c /\ d \in DOMAIN asked
    BY <1>1, <2>1 DEF IInv, InOrder
  <2> QED BY <1>2, <1>3, <2>1, <2>2
<1>6. InOrder'
  BY <1>1, <1>2, <1>3 DEF IInv, InOrder
<1>7. OneAtATime'
  <2> SUFFICES ASSUME NEW a \in Calls, NEW b \in Calls, Running(a)', Running(b)',
                      asked'[a].user \in Serial, asked'[a].user = asked'[b].user
               PROVE  a = b
    BY DEF OneAtATime
  <2>1. \A d \in Calls \ {c} : Running(d)' => Running(d) /\ d \in DOMAIN asked
    BY <1>3 DEF Running, IInv, InOrder
  <2>2. \A d \in Calls \ {c} : Running(d) /\ r.user \in Serial => asked[d].user # r.user
    BY DEF Start
  <2> QED BY <1>2, <2>1, <2>2 DEF IInv, OneAtATime
<1>8. ReadIsStored'
  BY <1>1, <1>2, <1>3 DEF IInv, InOrder, ReadIsStored
<1> QED BY <1>4, <1>5, <1>6, <1>7, <1>8 DEF IInv

(* A step of a call that was asked for something.                          *)
LEMMA Moving ==
  ASSUME IInv, NEW c \in Calls, pc[c] # "idle"
  PROVE  /\ c \in DOMAIN asked /\ asked[c] \in Requests /\ asked[c].user \in Users
         /\ asked[c].op = "add" => asked[c].product \in Products
                                 /\ asked[c].quantity \in Quantities
         /\ store[asked[c].user] \in {NoCart} \cup Cart32
         /\ value[c] \in {NoCart} \cup Cart32
<1>1. c \in DOMAIN asked
  BY DEF IInv, InOrder
<1>2. asked[c] \in Requests
  BY <1>1, AskedAre DEF IInv
<1>3. \A r \in Requests : r.user \in Users /\ (r.op = "add" => r.product \in Products
                                                          /\ r.quantity \in Quantities)
  BY DEF Requests
<1> QED BY <1>1, <1>2, <1>3 DEF IInv, TypeOK

(* The cart is read, by the call alone if its user waits.                  *)
LEMMA ReadKeeps ==
  ASSUME IInv, NEW c \in Calls, ReadForAdd(c) \/ GetCart(c) PROVE IInv'
<1> DEFINE u == asked[c].user
<1>1. PICK s \in {"read", "ok"} :
        /\ pc[c] = (IF s = "read" THEN "add" ELSE "get")
        /\ pc' = [pc EXCEPT ![c] = s]
        /\ value' = [value EXCEPT ![c] = store[u]]
        /\ UNCHANGED <<asked, store, expiring>>
  BY DEF ReadForAdd, GetCart, Goto
<1>2. c \in DOMAIN asked /\ store[u] \in {NoCart} \cup Cart32
  BY <1>1, Moving
<1>3. /\ pc'[c] = s /\ value'[c] = store[u]
      /\ \A d \in Calls \ {c} : pc'[d] = pc[d] /\ value'[d] = value[d]
  BY <1>1 DEF IInv, TypeOK
<1>4. TypeOK'
  BY <1>1, <1>2 DEF IInv, TypeOK, Outcome
<1>5. CartsExpire'
  BY <1>1, <1>3 DEF IInv, CartsExpire
<1>6. InOrder'
  BY <1>1, <1>2, <1>3 DEF IInv, InOrder
<1>7. OneAtATime'
  BY <1>1, <1>3 DEF IInv, OneAtATime, Running, Outcome
<1>8. ReadIsStored'
  BY <1>1, <1>3 DEF IInv, ReadIsStored
<1> QED BY <1>4, <1>5, <1>6, <1>7, <1>8 DEF IInv

(* The cart is written, and has no time to live until the next step.       *)
LEMMA WriteKeeps ==
  ASSUME IInv, NEW c \in Calls, WriteAdded(c) \/ WriteEmpty(c) PROVE IInv'
<1> DEFINE u == asked[c].user
<1>1. PICK items \in Cart32 :
        /\ pc[c] \in {"read", "empty"} /\ Write(c, items)
  <2>1. CASE WriteAdded(c)
    <3>1. pc[c] = "read" /\ asked[c].op = "add"
      BY <2>1 DEF WriteAdded, IInv, InOrder
    <3>2. Added(ItemsOf(value[c]), asked[c].product, asked[c].quantity) \in Cart32
      BY <3>1, Moving, ItemsAreCart, AddedIsCart
    <3> QED BY <2>1, <3>1, <3>2 DEF WriteAdded
  <2>2. CASE WriteEmpty(c)
    BY <2>2, ItemsAreCart DEF WriteEmpty
  <2> QED BY <2>1, <2>2
<1>2. /\ pc' = [pc EXCEPT ![c] = "written"] /\ store' = [store EXCEPT ![u] = items]
      /\ UNCHANGED <<asked, value, expiring>>
  BY <1>1 DEF Write, Goto
<1>3. c \in DOMAIN asked /\ u \in Users /\ items # NoCart
  BY <1>1, Moving, ItemsAreCart
<1>4. /\ pc'[c] = "written" /\ \A d \in Calls \ {c} : pc'[d] = pc[d]
      /\ store'[u] = items /\ \A v \in Users \ {u} : store'[v] = store[v]
  BY <1>2, <1>3 DEF IInv, TypeOK
<1>5. TypeOK'
  BY <1>2, <1>3, <1>4 DEF IInv, TypeOK
<1>6. CartsExpire'
  BY <1>2, <1>4 DEF IInv, CartsExpire
<1>7. InOrder'
  BY <1>1, <1>2, <1>3, <1>4 DEF IInv, InOrder
<1>8. OneAtATime'
  BY <1>1, <1>2, <1>4 DEF IInv, OneAtATime, Running, Outcome
<1>9. ReadIsStored'
  <2> SUFFICES ASSUME NEW d \in Calls, pc'[d] = "read", asked'[d].user \in Serial
               PROVE  store'[asked'[d].user] \in {value'[d], NoCart}
    BY DEF ReadIsStored
  <2>1. d # c /\ pc[d] = "read" /\ asked[d].user \in Users
    BY <1>2, <1>4, UsersAreSerialOrNot
  <2>2. asked[d].user # u
    BY <1>1, <1>2, <2>1 DEF IInv, OneAtATime, Running, Outcome
  <2> QED BY <1>2, <1>4, <2>1, <2>2 DEF IInv, ReadIsStored
<1> QED BY <1>5, <1>6, <1>7, <1>8, <1>9 DEF IInv

(* The expiry is set: the cart of this user will not stay.                 *)
LEMMA SetExpiryKeeps ==
  ASSUME IInv, NEW c \in Calls, SetExpiry(c) PROVE IInv'
<1> DEFINE u == asked[c].user
<1>1. /\ pc[c] = "written" /\ pc' = [pc EXCEPT ![c] = "ok"]
      /\ expiring' = IF store[u] = NoCart THEN expiring ELSE expiring \cup {u}
      /\ UNCHANGED <<asked, value, store>>
  BY DEF SetExpiry, Goto
<1>2. c \in DOMAIN asked /\ u \in Users
  BY <1>1, Moving
<1>3. pc'[c] = "ok" /\ \A d \in Calls \ {c} : pc'[d] = pc[d]
  BY <1>1 DEF IInv, TypeOK
<1>4. TypeOK'
  BY <1>1, <1>2, <1>3 DEF IInv, TypeOK, Outcome
<1>5. CartsExpire'
  BY <1>1, <1>3 DEF IInv, CartsExpire
<1>6. InOrder'
  BY <1>1, <1>2, <1>3 DEF IInv, InOrder
<1>7. OneAtATime'
  BY <1>1, <1>3 DEF IInv, OneAtATime, Running, Outcome
<1>8. ReadIsStored'
  BY <1>1, <1>3 DEF IInv, ReadIsStored
<1> QED BY <1>4, <1>5, <1>6, <1>7, <1>8 DEF IInv

(* Calls end, one or all; those that had written say so.                   *)
LEMMA FailureMoves ==
  ASSUME IInv, (\E c \in Calls : Fail(c)) \/ Crash
  PROVE  /\ pc' \in [Calls -> {"idle", "add", "get", "empty", "read", "written"} \cup Outcome]
         /\ \A d \in Calls : \/ pc'[d] = pc[d]
                             \/ Running(d) /\ pc'[d] = IF pc[d] = "written" THEN "half"
                                                       ELSE "failed"
         /\ UNCHANGED <<asked, value, store, expiring>>
<1>1. ASSUME NEW c \in Calls, Fail(c)
      PROVE  /\ pc' \in [Calls -> {"idle", "add", "get", "empty", "read", "written"}
                                     \cup Outcome]
             /\ \A d \in Calls : \/ pc'[d] = pc[d]
                                 \/ Running(d) /\ pc'[d] = IF pc[d] = "written" THEN "half"
                                                           ELSE "failed"
  <2>1. Running(c) /\ pc' = [pc EXCEPT ![c] = AfterFailure(pc[c])]
    BY <1>1 DEF Fail, Goto
  <2>2. AfterFailure(pc[c]) \in Outcome
        /\ AfterFailure(pc[c]) = IF pc[c] = "written" THEN "half" ELSE "failed"
    BY DEF AfterFailure, Outcome
  <2>3. pc' \in [Calls -> {"idle", "add", "get", "empty", "read", "written"} \cup Outcome]
    BY <2>1, <2>2 DEF IInv, TypeOK
  <2>4. \A d \in Calls \ {c} : pc'[d] = pc[d]
    BY <2>1 DEF IInv, TypeOK
  <2>5. pc'[c] = AfterFailure(pc[c])
    BY <2>1 DEF IInv, TypeOK
  <2>6. ASSUME NEW d \in Calls
        PROVE  \/ pc'[d] = pc[d]
               \/ Running(d) /\ pc'[d] = IF pc[d] = "written" THEN "half" ELSE "failed"
    BY <2>1, <2>2, <2>4, <2>5
  <2> QED BY <2>3, <2>6
<1>2. CASE Crash
  <2>1. pc' = [c \in Calls |-> IF Running(c) THEN AfterFailure(pc[c]) ELSE pc[c]]
    BY <1>2 DEF Crash
  <2>2. \A c \in Calls :
          AfterFailure(pc[c]) \in Outcome
          /\ AfterFailure(pc[c]) = IF pc[c] = "written" THEN "half" ELSE "failed"
    BY DEF AfterFailure, Outcome
  <2>3. pc' \in [Calls -> {"idle", "add", "get", "empty", "read", "written"} \cup Outcome]
    BY <2>1, <2>2 DEF IInv, TypeOK
  <2>4. \A d \in Calls : pc'[d] = IF Running(d) THEN AfterFailure(pc[d]) ELSE pc[d]
    BY <2>1
  <2>5. ASSUME NEW d \in Calls
        PROVE  \/ pc'[d] = pc[d]
               \/ Running(d) /\ pc'[d] = IF pc[d] = "written" THEN "half" ELSE "failed"
    BY <2>2, <2>4
  <2> QED BY <1>2, <2>3, <2>5 DEF Crash
<1>3. UNCHANGED <<asked, value, store, expiring>>
  BY DEF Fail, Crash
<1> QED BY <1>1, <1>2, <1>3

LEMMA FailureKeeps ==
  ASSUME IInv, (\E c \in Calls : Fail(c)) \/ Crash PROVE IInv'
<1>1. /\ pc' \in [Calls -> {"idle", "add", "get", "empty", "read", "written"} \cup Outcome]
      /\ \A d \in Calls : \/ pc'[d] = pc[d]
                          \/ Running(d) /\ pc'[d] = IF pc[d] = "written" THEN "half"
                                                    ELSE "failed"
      /\ UNCHANGED <<asked, value, store, expiring>>
  BY FailureMoves
<1>2. TypeOK'
  BY <1>1 DEF IInv, TypeOK, Running, Outcome
<1>3. CartsExpire'
  BY <1>1 DEF IInv, CartsExpire, Running, Outcome
<1>4. InOrder'
  BY <1>1 DEF IInv, InOrder, Running, Outcome
<1>5. OneAtATime'
  BY <1>1 DEF IInv, OneAtATime, Running, Outcome
<1>6. ReadIsStored'
  BY <1>1 DEF IInv, ReadIsStored
<1> QED BY <1>2, <1>3, <1>4, <1>5, <1>6 DEF IInv

(* A cart expires.                                                         *)
LEMMA ExpireKeeps ==
  ASSUME IInv, NEW u \in Users, Expire(u) PROVE IInv'
<1>1. /\ store' = [store EXCEPT ![u] = NoCart] /\ expiring' = expiring \ {u}
      /\ UNCHANGED <<asked, pc, value>>
  BY DEF Expire
<1>2. store'[u] = NoCart /\ \A v \in Users \ {u} : store'[v] = store[v]
  BY <1>1 DEF IInv, TypeOK
<1>3. TypeOK'
  BY <1>1, <1>2 DEF IInv, TypeOK
<1>4. CartsExpire'
  BY <1>1, <1>2 DEF IInv, CartsExpire
<1>5. InOrder' /\ OneAtATime'
  BY <1>1 DEF IInv, InOrder, OneAtATime, Running
<1>6. ReadIsStored'
  BY <1>1, <1>2, UsersAreSerialOrNot DEF IInv, ReadIsStored
<1> QED BY <1>3, <1>4, <1>5, <1>6 DEF IInv

(* The invariant holds of every behaviour.                                 *)
LEMMA CartInvariant == Spec => []IInv
<1>1. IInv /\ [Next]_vars => IInv'
  <2> SUFFICES ASSUME IInv, [Next]_vars PROVE IInv'
    OBVIOUS
  <2>1. CASE UNCHANGED vars
    BY <2>1 DEF vars, IInv, TypeOK, CartsExpire, InOrder, OneAtATime, ReadIsStored, Running
  <2> QED BY <2>1, StartKeeps, ReadKeeps, WriteKeeps, SetExpiryKeeps, FailureKeeps,
             ExpireKeeps DEF Next
<1> QED BY InitIsIInv, <1>1, PTL DEF Spec

(* ValkeyCartStore.cs: every reachable state has its type, and no key has  *)
(* a time to live without a cart.                                          *)
THEOREM CartTypeOK == Spec => []TypeOK
<1>1. IInv => TypeOK
  BY DEF IInv
<1> QED BY CartInvariant, <1>1, PTL

(* ValkeyCartStore.cs, lines 173-199: a cart without a time to live is one *)
(* of a call that failed, or has yet to set it, for any number of calls.   *)
THEOREM CartsExpireForAll == Spec => []CartsExpire
<1>1. IInv => CartsExpire
  BY DEF IInv
<1> QED BY CartInvariant, <1>1, PTL


-----------------------------------------------------------------------------
(* The service implements Cart, for the users who wait for their answers.  *)

(* The cart a user has: what his running AddItem has read, or what is      *)
(* stored.                                                                 *)
CartsAre ==
  \A u \in Serial :
    /\ \A c \in Calls : pc[c] = "read" /\ asked[c].user = u
                          => CartOf(u) = ItemsOf(value[c])
    /\ (\A c \in Calls : pc[c] = "read" => asked[c].user # u)
         => CartOf(u) = ItemsOf(store[u])

LEMMA CartOfIs == IInv => CartsAre
<1> SUFFICES ASSUME IInv, NEW u \in Serial
             PROVE  /\ \A c \in Calls : pc[c] = "read" /\ asked[c].user = u
                                          => CartOf(u) = ItemsOf(value[c])
                    /\ (\A c \in Calls : pc[c] = "read" => asked[c].user # u)
                         => CartOf(u) = ItemsOf(store[u])
  BY DEF CartsAre
<1>1. Asked \subseteq Calls
  BY AskedAre DEF IInv, Asked
<1>2. ASSUME NEW c \in Calls, pc[c] = "read", asked[c].user = u
      PROVE  CartOf(u) = ItemsOf(value[c])
  <2>1. c \in Adding(u)
    BY <1>2 DEF Adding, Asked, IInv, InOrder
  <2>2. \A d \in Adding(u) : d = c
    BY <1>1, <1>2 DEF Adding, IInv, OneAtATime, Running, Outcome
  <2>3. (CHOOSE d \in Adding(u) : TRUE) = c
    BY <2>1, <2>2
  <2> QED BY <2>1, <2>3 DEF CartOf
<1>3. ASSUME \A c \in Calls : pc[c] = "read" => asked[c].user # u
      PROVE  CartOf(u) = ItemsOf(store[u])
  <2>1. Adding(u) = {}
    BY <1>1, <1>3 DEF Adding
  <2> QED BY <2>1 DEF CartOf
<1> QED BY <1>2, <1>3

LEMMA CartWillBe == IInv' => CartsAre'
  BY CartOfIs, PTL

(* It stays as it is in a step that leaves its store and reader alone.     *)
LEMMA CartStays ==
  ASSUME IInv, IInv', NEW u \in Serial,
         \A c \in Calls : pc[c] = "read" /\ asked[c].user = u
                            <=> pc'[c] = "read" /\ asked'[c].user = u,
         \A c \in Calls : pc[c] = "read" => value'[c] = value[c],
         store'[u] = store[u]
  PROVE  CartOf(u)' = CartOf(u)
<1> QED BY CartOfIs, CartWillBe DEF CartsAre

(* A step that moves no call to or from where it shows.                    *)
LEMMA AskingIs ==
  /\ asked' = asked => Asked' = Asked /\ Asking' = Asking
  /\ IInv => /\ \A c \in Calls : c \in Asked <=> pc[c] # "idle" /\ asked[c].user \in Serial
             /\ Asked \subseteq Calls /\ DOMAIN Asking = Asked
             /\ \A c \in Asked : Asking[c] = asked[c]
<1>1. asked' = asked => Asked' = Asked /\ Asking' = Asking
  BY DEF Asked, Asking
<1> QED BY <1>1, AskedAre DEF IInv, InOrder, Asked, Asking

LEMMA StartImplements ==
  ASSUME IInv, IInv', NEW c \in Calls, NEW r \in Requests, Start(c, r)
  PROVE  [Promise!Next]_(Promise!vars)
<1>1. /\ c \notin DOMAIN asked /\ pc[c] = "idle" /\ DOMAIN asked \subseteq Calls
      /\ UNCHANGED <<value, store, expiring>>
  BY AskedAre DEF Start, IInv, InOrder
<1>2. /\ DOMAIN asked' = DOMAIN asked \cup {c} /\ asked'[c] = r
      /\ \A d \in DOMAIN asked : asked'[d] = asked[d]
  BY <1>1 DEF Start
<1>3. /\ pc'[c] = r.op /\ r.op \in {"add", "get", "empty"}
      /\ \A d \in Calls \ {c} : pc'[d] = pc[d]
  BY DEF Start, Goto, Requests, IInv, TypeOK
<1>4. Carts' = Carts
  <2> SUFFICES ASSUME NEW u \in Serial PROVE CartOf(u)' = CartOf(u)
    BY DEF Carts
  <2>1. store'[u] = store[u] /\ \A d \in Calls : pc[d] = "read" => value'[d] = value[d]
    BY <1>1
  <2>2. \A d \in Calls : pc[d] = "read" /\ asked[d].user = u
                           <=> pc'[d] = "read" /\ asked'[d].user = u
    BY <1>1, <1>2, <1>3 DEF IInv, InOrder
  <2> QED BY <2>1, <2>2, CartStays
<1>5. /\ Asked' = IF r.user \in Serial THEN Asked \cup {c} ELSE Asked
      /\ c \notin Asked /\ \A d \in Asked : asked'[d] = asked[d] /\ pc'[d] = pc[d]
  BY <1>1, <1>2, <1>3 DEF Asked
<1>6. Applied' = Applied
  BY <1>2, <1>3, <1>5 DEF Applied
<1>7. Answer' = Answer
  BY <1>3, <1>5 DEF Answer
<1>8. Seen' = Seen
  BY <1>1, <1>2, <1>3, <1>5 DEF Seen
<1>9. CASE r.user \in Serial
  <2>1. /\ Asking' = [d \in DOMAIN Asking \cup {c} |-> IF d = c THEN r ELSE Asking[d]]
        /\ c \notin DOMAIN Asking
    BY <1>2, <1>5, <1>9 DEF Asking
  <2>2. r \in Promise!Requests
    BY <1>9 DEF Requests, Promise!Requests
  <2>3. Promise!Ask(c, r)
    BY <1>4, <1>6, <1>7, <1>8, <2>1 DEF Promise!Ask
  <2> QED BY <2>2, <2>3 DEF Promise!Next
<1>10. CASE r.user \notin Serial
  <2>1. Asking' = Asking
    BY <1>5, <1>10 DEF Asking
  <2> QED BY <1>4, <1>6, <1>7, <1>8, <2>1 DEF Promise!vars
<1> QED BY <1>9, <1>10

(* Reading the cart to add to it shows to nobody.                          *)
LEMMA ReadImplements ==
  ASSUME IInv, IInv', NEW c \in Calls, ReadForAdd(c) PROVE UNCHANGED Promise!vars
<1> DEFINE u == asked[c].user
<1>1. /\ pc[c] = "add" /\ pc' = [pc EXCEPT ![c] = "read"]
      /\ value' = [value EXCEPT ![c] = store[u]]
      /\ UNCHANGED <<asked, store, expiring>>
  BY DEF ReadForAdd, Goto
<1>2. /\ pc'[c] = "read" /\ value'[c] = store[u]
      /\ \A d \in Calls \ {c} : pc'[d] = pc[d] /\ value'[d] = value[d]
  BY <1>1 DEF IInv, TypeOK
<1>3. Carts' = Carts
  <2> SUFFICES ASSUME NEW v \in Serial PROVE CartOf(v)' = CartOf(v)
    BY DEF Carts
  <2>1. CASE v = u
    <3>1. CartOf(v)' = ItemsOf(store[u])
      BY <1>1, <1>2, <2>1, CartWillBe DEF CartsAre
    <3>2. \A d \in Calls : pc[d] = "read" => asked[d].user # u
      BY <1>1, <2>1 DEF IInv, OneAtATime, Running, Outcome
    <3> QED BY <2>1, <3>1, <3>2, CartOfIs DEF CartsAre
  <2>2. CASE v # u
    <3>1. /\ store'[v] = store[v]
          /\ \A d \in Calls : pc[d] = "read" => value'[d] = value[d]
          /\ \A d \in Calls : pc[d] = "read" /\ asked[d].user = v
                                <=> pc'[d] = "read" /\ asked'[d].user = v
      BY <1>1, <1>2, <2>2
    <3> QED BY <3>1, CartStays
  <2> QED BY <2>1, <2>2
<1>4. Asked' = Asked /\ Asking' = Asking /\ Asked \subseteq Calls
  BY <1>1, AskingIs
<1>5. Applied' = Applied
  BY <1>1, <1>2, <1>4 DEF Applied
<1>6. Answer' = Answer
  BY <1>1, <1>2, <1>4 DEF Answer
<1>7. Seen' = Seen
  BY <1>1, <1>2, <1>4 DEF Seen
<1> QED BY <1>3, <1>4, <1>5, <1>6, <1>7 DEF Promise!vars

(* The write is where a change takes effect.                               *)
LEMMA WriteImplements ==
  ASSUME IInv, IInv', NEW c \in Calls, WriteAdded(c) \/ WriteEmpty(c)
  PROVE  [Promise!Next]_(Promise!vars)
<1> DEFINE u == asked[c].user
<1> DEFINE items == IF pc[c] = "empty" THEN EmptyItems
                    ELSE Added(ItemsOf(value[c]), asked[c].product, asked[c].quantity)
<1>1. /\ pc[c] \in {"read", "empty"} /\ pc' = [pc EXCEPT ![c] = "written"]
      /\ store' = [store EXCEPT ![u] = items]
      /\ UNCHANGED <<asked, value, expiring>>
  BY DEF WriteAdded, WriteEmpty, Write, Goto
<1>2. /\ asked[c].op = IF pc[c] = "empty" THEN "empty" ELSE "add"
      /\ u \in Users /\ c \in DOMAIN asked
  BY <1>1, Moving DEF IInv, InOrder
<1>3. /\ pc'[c] = "written" /\ \A d \in Calls \ {c} : pc'[d] = pc[d]
      /\ store'[u] = items /\ \A v \in Users \ {u} : store'[v] = store[v]
  BY <1>1, <1>2 DEF IInv, TypeOK
<1>4. Asked' = Asked /\ Asking' = Asking /\ Asked \subseteq Calls
  BY <1>1, AskingIs
<1>5. \A v \in Serial \ {u} : CartOf(v)' = CartOf(v)
  <2> SUFFICES ASSUME NEW v \in Serial \ {u} PROVE CartOf(v)' = CartOf(v)
    OBVIOUS
  <2>1. /\ store'[v] = store[v]
        /\ \A d \in Calls : pc[d] = "read" => value'[d] = value[d]
        /\ \A d \in Calls : pc[d] = "read" /\ asked[d].user = v
                              <=> pc'[d] = "read" /\ asked'[d].user = v
    BY <1>1, <1>3, UsersAreSerialOrNot
  <2> QED BY <2>1, CartStays
<1>6. Seen' = Seen /\ Answer' = Answer
  <2>1. Answer' = Answer
    BY <1>1, <1>3, <1>4 DEF Answer
  <2>2. Seen' = Seen
    BY <1>1, <1>3, <1>4 DEF Seen
  <2> QED BY <2>1, <2>2
<1>7. CASE u \in Serial
  <2>1. CartOf(u)' = items
    <3>1. \A d \in Calls : pc'[d] = "read" => asked'[d].user # u
      BY <1>1, <1>3, <1>7 DEF IInv, OneAtATime, Running, Outcome
    <3>2. CartOf(u)' = ItemsOf(store'[u])
      BY <1>1, <1>7, <3>1, CartWillBe DEF CartsAre
    <3>3. items # NoCart
      <4>1. CASE pc[c] = "empty"
        BY <4>1, ItemsAreCart
      <4>2. CASE pc[c] = "read"
        BY <1>2, <4>2, Moving, ItemsAreCart, AddedIsCart
      <4> QED BY <1>1, <4>1, <4>2
    <3> QED BY <1>3, <3>2, <3>3 DEF ItemsOf
  <2>2. pc[c] = "read" => CartOf(u) = ItemsOf(value[c])
    BY <1>7, CartOfIs DEF CartsAre
  <2>3. items = Promise!Effect(asked[c])
    <3>1. CASE pc[c] = "empty"
      BY <1>2, <3>1 DEF Promise!Effect, Promise!NoItems, EmptyItems
    <3>2. CASE pc[c] = "read"
      BY <1>2, <1>7, <2>2, <3>2
         DEF Promise!Effect, Promise!With, Promise!Plus, Added, Plus, Carts
    <3> QED BY <1>1, <3>1, <3>2
  <2>4. Carts' = [Carts EXCEPT ![u] = Promise!Effect(asked[c])]
    BY <1>1, <1>5, <1>7, <2>1, <2>3 DEF Carts
  <2>5. c \in Asked /\ Asking[c] = asked[c] /\ c \in DOMAIN Asking
    BY <1>2, <1>7 DEF Asked, Asking
  <2>6. Applied' = Applied \cup {c} /\ c \notin Applied
    BY <1>1, <1>2, <1>3, <1>4, <2>5 DEF Applied
  <2>7. Answer[c] = "none"
    BY <1>1, <2>5 DEF Answer
  <2>8. Promise!Apply(c)
    BY <1>2, <1>4, <1>6, <2>4, <2>5, <2>6, <2>7 DEF Promise!Apply
  <2> QED BY <2>8 DEF Promise!Next
<1>8. CASE u \notin Serial
  <2>1. c \notin Asked
    BY <1>8 DEF Asked
  <2>2. Applied' = Applied
    BY <1>1, <1>3, <1>4, <2>1 DEF Applied
  <2>3. Carts' = Carts
    BY <1>5, <1>8 DEF Carts
  <2> QED BY <1>4, <1>6, <2>2, <2>3 DEF Promise!vars
<1> QED BY <1>7, <1>8

(* With the expiry set, the change is confirmed.                           *)
LEMMA SetExpiryImplements ==
  ASSUME IInv, IInv', NEW c \in Calls, SetExpiry(c)
  PROVE  [Promise!Next]_(Promise!vars)
<1>1. /\ pc[c] = "written" /\ pc' = [pc EXCEPT ![c] = "ok"]
      /\ UNCHANGED <<asked, value, store>>
  BY DEF SetExpiry, Goto
<1>2. /\ pc'[c] = "ok" /\ \A d \in Calls \ {c} : pc'[d] = pc[d]
      /\ c \in DOMAIN asked /\ asked[c].op # "get"
  BY <1>1 DEF IInv, TypeOK, InOrder
<1>3. Asked' = Asked /\ Asking' = Asking /\ Asked \subseteq Calls
  BY <1>1, AskingIs
<1>4. Carts' = Carts
  <2> SUFFICES ASSUME NEW v \in Serial PROVE CartOf(v)' = CartOf(v)
    BY DEF Carts
  <2>1. \A d \in Calls : pc[d] = "read" /\ asked[d].user = v
                           <=> pc'[d] = "read" /\ asked'[d].user = v
    BY <1>1, <1>2
  <2> QED BY <1>1, <2>1, CartStays
<1>5. Applied' = Applied
  BY <1>1, <1>2, <1>3 DEF Applied
<1>6. Seen' = Seen
  BY <1>1, <1>2, <1>3 DEF Seen
<1>7. CASE c \in Asked
  <2>1. Answer[c] = "none" /\ c \in Applied
    BY <1>1, <1>2, <1>7 DEF Answer, Applied
  <2>2. Answer' = [Answer EXCEPT ![c] = "ok"]
    BY <1>1, <1>2, <1>3, <1>7 DEF Answer
  <2>3. Promise!Confirm(c)
    BY <1>3, <1>4, <1>5, <1>6, <2>1, <2>2 DEF Promise!Confirm
  <2> QED BY <2>3 DEF Promise!Next
<1>8. CASE c \notin Asked
  <2>1. Answer' = Answer
    BY <1>2, <1>3, <1>8 DEF Answer
  <2> QED BY <1>3, <1>4, <1>5, <1>6, <2>1 DEF Promise!vars
<1> QED BY <1>7, <1>8

(* A query sees the cart as it is.                                         *)
LEMMA GetImplements ==
  ASSUME IInv, IInv', NEW c \in Calls, GetCart(c)
  PROVE  [Promise!Next]_(Promise!vars)
<1> DEFINE u == asked[c].user
<1>1. /\ pc[c] = "get" /\ pc' = [pc EXCEPT ![c] = "ok"]
      /\ value' = [value EXCEPT ![c] = store[u]]
      /\ UNCHANGED <<asked, store, expiring>>
  BY DEF GetCart, Goto
<1>2. /\ pc'[c] = "ok" /\ value'[c] = store[u]
      /\ \A d \in Calls \ {c} : pc'[d] = pc[d] /\ value'[d] = value[d]
      /\ c \in DOMAIN asked /\ asked[c].op = "get"
  BY <1>1 DEF IInv, TypeOK, InOrder
<1>3. Asked' = Asked /\ Asking' = Asking /\ Asked \subseteq Calls
  BY <1>1, AskingIs
<1>4. Carts' = Carts
  <2> SUFFICES ASSUME NEW v \in Serial PROVE CartOf(v)' = CartOf(v)
    BY DEF Carts
  <2>1. /\ \A d \in Calls : pc[d] = "read" => value'[d] = value[d]
        /\ \A d \in Calls : pc[d] = "read" /\ asked[d].user = v
                              <=> pc'[d] = "read" /\ asked'[d].user = v
    BY <1>1, <1>2
  <2> QED BY <1>1, <2>1, CartStays
<1>5. Applied' = Applied
  BY <1>1, <1>2, <1>3 DEF Applied
<1>6. CASE c \in Asked
  <2>1. u \in Serial /\ Answer[c] = "none"
    BY <1>1, <1>6 DEF Asked, Answer
  <2>2. Answer' = [Answer EXCEPT ![c] = "ok"]
    BY <1>1, <1>2, <1>3, <1>6 DEF Answer
  <2>3. Carts[u] = ItemsOf(store[u])
    <3>1. \A d \in Calls : pc[d] = "read" => asked[d].user # u
      BY <1>1, <2>1 DEF IInv, OneAtATime, Running, Outcome
    <3> QED BY <2>1, <3>1, CartOfIs DEF CartsAre, Carts
  <2>4. Seen' = [d \in DOMAIN Seen \cup {c} |-> IF d = c THEN Carts[u] ELSE Seen[d]]
    <3>1. {d \in Asked : asked[d].op = "get" /\ pc[d] = "ok"}'
            = {d \in Asked : asked[d].op = "get" /\ pc[d] = "ok"} \cup {c}
      BY <1>1, <1>2, <1>3, <1>6
    <3> QED BY <1>1, <1>2, <1>3, <2>3, <3>1 DEF Seen
  <2>5. c \in DOMAIN Asking /\ Asking[c] = asked[c]
    BY <1>6 DEF Asking
  <2>6. Promise!Look(c)
    BY <1>2, <1>3, <1>4, <1>5, <2>1, <2>2, <2>4, <2>5 DEF Promise!Look
  <2> QED BY <2>6 DEF Promise!Next
<1>7. CASE c \notin Asked
  <2>1. Answer' = Answer
    BY <1>2, <1>3, <1>7 DEF Answer
  <2>2. Seen' = Seen
    BY <1>1, <1>2, <1>3, <1>7 DEF Seen
  <2> QED BY <1>3, <1>4, <1>5, <2>1, <2>2 DEF Promise!vars
<1> QED BY <1>6, <1>7

(* Calls that end fail; the cart of a user whose call has read it but not  *)
(* written is forgotten if it expired meanwhile.                           *)
LEMMA FailureImplements ==
  ASSUME IInv, IInv', (\E c \in Calls : Fail(c)) \/ Crash
  PROVE  [Promise!Next]_(Promise!vars)
<1> DEFINE failing == {c \in Asked : pc'[c] # pc[c]}
<1> DEFINE forgotten == {u \in Serial : CartOf(u)' # CartOf(u)}
<1>1. /\ \A c \in Calls : \/ pc'[c] = pc[c]
                          \/ Running(c) /\ pc'[c] = IF pc[c] = "written" THEN "half"
                                                    ELSE "failed"
      /\ UNCHANGED <<asked, value, store, expiring>>
  BY FailureMoves
<1>2. /\ Asked' = Asked /\ Asking' = Asking /\ Asked \subseteq Calls
      /\ DOMAIN Asking = Asked /\ \A c \in Asked : Asking[c] = asked[c]
  BY <1>1, AskingIs
<1>3. Applied' = Applied
  BY <1>1, <1>2 DEF Applied, Running, Outcome
<1>4. Seen' = Seen
  BY <1>1, <1>2 DEF Seen, Running, Outcome
<1>5. \A c \in failing : Answer[c] = "none"
  BY <1>1, <1>2 DEF Answer, Running, Outcome
<1>6. Answer' = [c \in Calls |-> IF c \in failing THEN "failed" ELSE Answer[c]]
  BY <1>1, <1>2 DEF Answer, Running, Outcome
<1>7. \A u \in forgotten : CartOf(u)' = EmptyItems /\ \E c \in failing : asked[c].user = u
  <2> SUFFICES ASSUME NEW u \in forgotten
               PROVE  CartOf(u)' = EmptyItems /\ \E c \in failing : asked[c].user = u
    OBVIOUS
  <2>1. PICK c \in Calls : /\ pc[c] = "read" /\ asked[c].user = u
                           /\ ~(pc'[c] = "read" /\ asked'[c].user = u)
    <3>1. \A c \in Calls : pc'[c] = "read" => pc[c] = "read"
      BY <1>1
    <3> QED BY <1>1, <3>1, CartStays
  <2>2. c \in failing
    BY <1>1, <2>1, AskingIs
  <2>3. \A d \in Calls : pc'[d] = "read" => asked'[d].user # u
    BY <1>1, <2>1 DEF IInv, OneAtATime, Running, Outcome
  <2>4. CartOf(u)' = ItemsOf(store[u]) /\ CartOf(u) = ItemsOf(value[c])
    BY <1>1, <2>1, <2>3, CartOfIs, CartWillBe DEF CartsAre
  <2>5. store[u] = NoCart
    BY <2>1, <2>4 DEF IInv, ReadIsStored
  <2> QED BY <2>1, <2>2, <2>4, <2>5 DEF ItemsOf
<1>8. Promise!Forgetting(forgotten)
  BY <1>7 DEF Promise!Forgetting, Promise!NoItems, EmptyItems, Carts
<1>9. forgotten \in SUBSET {Asking[c].user : c \in failing}
  BY <1>2, <1>7
<1>10. Promise!Fail(failing)
  <2>1. \A c \in failing : c \in DOMAIN Asking
    BY <1>2
  <2> QED BY <1>2, <1>3, <1>4, <1>5, <1>6, <1>8, <1>9, <2>1 DEF Promise!Fail
<1>11. failing \in SUBSET Calls
  BY <1>2
<1> QED BY <1>10, <1>11 DEF Promise!Next

(* A cart that expires is forgotten, unless it is being added to.          *)
LEMMA ExpireImplements ==
  ASSUME IInv, IInv', NEW u \in Users, Expire(u)
  PROVE  [Promise!Next]_(Promise!vars)
<1>1. /\ store' = [store EXCEPT ![u] = NoCart]
      /\ UNCHANGED <<asked, pc, value>>
  BY DEF Expire
<1>2. store'[u] = NoCart /\ \A v \in Users \ {u} : store'[v] = store[v]
  BY <1>1 DEF IInv, TypeOK
<1>3. Asked' = Asked /\ Asking' = Asking
  BY <1>1, AskingIs
<1>4. Applied' = Applied /\ Answer' = Answer /\ Seen' = Seen
  BY <1>1, <1>3 DEF Applied, Answer, Seen
<1>5. \A v \in Serial \ {u} : CartOf(v)' = CartOf(v)
  <2> SUFFICES ASSUME NEW v \in Serial \ {u} PROVE CartOf(v)' = CartOf(v)
    OBVIOUS
  <2>1. store'[v] = store[v]
    BY <1>2, UsersAreSerialOrNot
  <2> QED BY <1>1, <2>1, CartStays
<1>6. CASE u \notin Serial \/ \E c \in Calls : pc[c] = "read" /\ asked[c].user = u
  <2>1. u \in Serial => CartOf(u)' = CartOf(u)
    BY <1>1, <1>6, CartOfIs, CartWillBe DEF CartsAre
  <2>2. Carts' = Carts
    BY <1>5, <2>1 DEF Carts
  <2> QED BY <1>3, <1>4, <2>2 DEF Promise!vars
<1>7. CASE u \in Serial /\ \A c \in Calls : pc[c] = "read" => asked[c].user # u
  <2>1. CartOf(u)' = EmptyItems
    BY <1>1, <1>2, <1>7, CartWillBe DEF CartsAre, ItemsOf
  <2>2. Promise!Forgetting({u})
    BY <1>5, <2>1 DEF Promise!Forgetting, Promise!NoItems, EmptyItems, Carts
  <2>3. Promise!Forget(u)
    BY <1>3, <1>4, <2>2 DEF Promise!Forget
  <2> QED BY <1>7, <2>3 DEF Promise!Next
<1> QED BY <1>6, <1>7

(* ValkeyCartStore.cs, lines 134-205: for any number of users who wait     *)
(* their answers out, among any number of others who do not, each call     *)
(* takes effect once if it is answered OK and once at most if it fails,    *)
(* and each query sees the cart as it is.                                  *)
THEOREM CartIsImplemented == Spec => ImplementsCart
<1>1. Init => Promise!Init
  <2> SUFFICES ASSUME Init PROVE Promise!Init
    OBVIOUS
  <2>1. Asked = {}
    BY DEF Init, Asked
  <2>2. Asking = [c \in {} |-> 0] /\ Applied = {} /\ Seen = [c \in {} |-> 0]
    BY <2>1 DEF Asking, Applied, Seen
  <2>3. Answer = [c \in Calls |-> "none"]
    BY <2>1 DEF Answer
  <2>4. Carts = [u \in Serial |-> Promise!NoItems]
    BY <2>1, UsersAreSerialOrNot
       DEF Init, Carts, CartOf, Adding, ItemsOf, EmptyItems, Promise!NoItems
  <2> QED BY <2>2, <2>3, <2>4 DEF Promise!Init
<1>2. IInv /\ IInv' /\ [Next]_vars => [Promise!Next]_(Promise!vars)
  <2> SUFFICES ASSUME IInv, IInv', [Next]_vars PROVE [Promise!Next]_(Promise!vars)
    OBVIOUS
  <2>1. CASE UNCHANGED vars
    <3>1. UNCHANGED <<asked, pc, value, store>>
      BY <2>1 DEF vars
    <3>2. \A u \in Serial : CartOf(u)' = CartOf(u)
      BY <3>1, CartStays
    <3>3. Carts' = Carts
      BY <3>2 DEF Carts
    <3>4. Asked' = Asked /\ Asking' = Asking
      BY <3>1, AskingIs
    <3>5. Applied' = Applied /\ Answer' = Answer /\ Seen' = Seen
      BY <3>1, <3>4 DEF Applied, Answer, Seen
    <3> QED BY <3>3, <3>4, <3>5 DEF Promise!vars
  <2>2. CASE \E c \in Calls : ReadForAdd(c)
    BY <2>2, ReadImplements
  <2>3. CASE Next /\ ~\E c \in Calls : ReadForAdd(c)
    BY <2>3, StartImplements, WriteImplements, SetExpiryImplements, GetImplements,
       FailureImplements, ExpireImplements DEF Next
  <2> QED BY <2>1, <2>2, <2>3
<1> QED BY CartInvariant, <1>1, <1>2, PTL DEF Spec, ImplementsCart, Promise!Spec

-----------------------------------------------------------------------------
(* Calls that overlap: int32 arithmetic first.                             *)

(* A number has one remainder.                                             *)
LEMMA OneRemainder ==
  ASSUME NEW m \in Nat \ {0}, NEW a \in Int, NEW b \in Int,
         NEW r \in 0 .. m - 1, NEW s \in 0 .. m - 1, m * a + r = m * b + s
  PROVE  r = s
<1>1. ASSUME NEW x \in Int, NEW y \in Int, x < y PROVE m * x + m <= m * y
  <2>1. PICK d \in Nat : y = (x + 1) + d
    <3>1. y - x - 1 \in Nat /\ y = (x + 1) + (y - x - 1)
      BY <1>1
    <3> QED BY <3>1
  <2>2. m * y = m * (x + 1) + m * d /\ m * (x + 1) = m * x + m * 1 /\ m * d \in Nat
    BY <2>1, Distributes
  <2> QED BY <2>2
<1>2. m * a \in Int /\ m * b \in Int
  OBVIOUS
<1>3. ~ (a < b) /\ ~ (b < a)
  BY <1>1, <1>2
<1> QED BY <1>2, <1>3

(* The remainder of a sum goes by the remainder of a part.                 *)
LEMMA RemainderOfSum ==
  ASSUME NEW m \in Nat \ {0}, NEW x \in Int, NEW y \in Int
  PROVE  ((x % m) + y) % m = (x + y) % m
<1>1. \A n \in Int : n = m * (n \div m) + (n % m) /\ n \div m \in Int /\ n % m \in 0 .. m - 1
  OBVIOUS
<1> DEFINE r == x % m
           a == x \div m
           b == (r + y) \div m
           c == (x + y) \div m
           s == (r + y) % m
           t == (x + y) % m
<1>2. /\ x = m * a + r /\ r + y = m * b + s /\ x + y = m * c + t
      /\ a \in Int /\ b \in Int /\ c \in Int /\ r \in Int
      /\ s \in 0 .. m - 1 /\ t \in 0 .. m - 1
  <2>1. x = m * a + r /\ a \in Int /\ r \in Int
    BY <1>1
  <2> HIDE DEF r
  <2>2. r + y \in Int /\ x + y \in Int
    BY <2>1
  <2> QED BY <1>1, <2>1, <2>2
<1> HIDE DEF r, a, b, c, s, t
<1>3. m * (a + b) = m * a + m * b /\ m * a \in Int /\ m * b \in Int /\ m * c \in Int
  BY <1>2, Distributes
<1>4. m * (a + b) + s = m * c + t /\ a + b \in Int
  BY <1>2, <1>3
<1>5. s = t
  BY <1>2, <1>4, OneRemainder
<1> QED BY <1>5 DEF s, t, r

(* int32 wraps in the end as it wraps on the way.                          *)
LEMMA PlusAdds ==
  ASSUME NEW a \in Int, NEW q \in Int PROVE Plus(Plus(0, a), q) = Plus(0, a + q)
<1> DEFINE h == HalfInt32
           r == (a + h) % (2 * h)
<1>1. h \in Nat \ {0} /\ 2 * h \in Nat \ {0} /\ a + h \in Int
  BY QuantitiesAreInt32
<1>2. r \in Int
  BY <1>1
<1>3. (r + q) % (2 * h) = ((a + h) + q) % (2 * h)
  BY <1>1, RemainderOfSum
<1>4. Plus(0, a) = r - h
  BY <1>1 DEF Plus
<1> HIDE DEF r
<1>5. Plus(r - h, q) = ((r + q) % (2 * h)) - h
  <2>1. r - h + q + h = r + q
    BY <1>1, <1>2
  <2> QED BY <2>1 DEF Plus
<1>6. Plus(0, a + q) = (((a + h) + q) % (2 * h)) - h
  <2>1. 0 + (a + q) + h = (a + h) + q
    BY <1>1
  <2> QED BY <2>1 DEF Plus
<1> QED BY <1>3, <1>4, <1>5, <1>6

-----------------------------------------------------------------------------
(* Sums of AddItem calls.                                                  *)

Done == {"written", "ok", "half"}

OfProduct(adds, p) == {c \in adds : asked[c].product = p}

(* What AddItem calls ask for are int32, and finitely many add up to a     *)
(* number.                                                                 *)
LEMMA SumsAre ==
  ASSUME IInv, IsFiniteSet(DOMAIN asked),
         NEW adds, \A c \in adds : c \in DOMAIN asked /\ asked[c].op = "add", NEW p
  PROVE  /\ \A c \in adds : Quantity[c] = asked[c].quantity /\ Quantity[c] \in Int
                            /\ Plus(0, Quantity[c]) = Quantity[c]
         /\ IsFiniteSet(OfProduct(adds, p))
         /\ SumFunctionOnSet(Quantity, OfProduct(adds, p)) \in Int
<1>1. \A c \in adds : Quantity[c] = asked[c].quantity
                       /\ Quantity[c] \in -HalfInt32 .. HalfInt32 - 1
  <2> SUFFICES ASSUME NEW c \in adds
               PROVE  Quantity[c] = asked[c].quantity /\ asked[c].quantity \in Quantities
    BY QuantitiesAreInt32
  <2>1. c \in DOMAIN asked /\ asked[c].op = "add" /\ asked[c] \in Requests
    BY AskedAre DEF IInv
  <2>2. asked[c].quantity \in Quantities
    BY <2>1 DEF Requests
  <2> QED BY <2>1, <2>2 DEF Quantity
<1>2. \A k \in Nat, m \in Nat : k < m => k % m = k
  BY SMT
<1>3. \A q \in -HalfInt32 .. HalfInt32 - 1 : q \in Int /\ Plus(0, q) = q
  <2> SUFFICES ASSUME NEW q \in -HalfInt32 .. HalfInt32 - 1
               PROVE  q \in Int /\ Plus(0, q) = q
    OBVIOUS
  <2>1. /\ HalfInt32 \in Nat /\ 0 + q + HalfInt32 \in Nat
        /\ 0 + q + HalfInt32 < 2 * HalfInt32
    BY QuantitiesAreInt32
  <2>2. (0 + q + HalfInt32) % (2 * HalfInt32) = 0 + q + HalfInt32
    BY <1>2, <2>1
  <2> QED BY <2>1, <2>2 DEF Plus
<1>4. IsFiniteSet(OfProduct(adds, p)) /\ OfProduct(adds, p) \subseteq adds
  <2>1. OfProduct(adds, p) \subseteq DOMAIN asked /\ OfProduct(adds, p) \subseteq adds
    BY DEF OfProduct
  <2> QED BY <2>1, FS_Subset
<1>5. \A c \in OfProduct(adds, p) : Quantity[c] \in Int
  BY <1>1, <1>3, <1>4
<1> QED BY <1>1, <1>3, <1>4, <1>5, SumType

(* One more call adds what it asks for.                                    *)
LEMMA SumGrows ==
  ASSUME IInv, IsFiniteSet(DOMAIN asked), NEW adds, NEW c, c \notin adds,
         \A d \in adds \cup {c} : d \in DOMAIN asked /\ asked[d].op = "add"
  PROVE  SumOf(adds \cup {c}) = Added(SumOf(adds), asked[c].product, asked[c].quantity)
<1> DEFINE more == adds \cup {c}
           q == asked[c].product
           S(set, p) == SumFunctionOnSet(Quantity, OfProduct(set, p))
<1>1. \A set : SumOf(set) = [p \in {asked[d].product : d \in set} |-> Plus(0, S(set, p))]
  BY DEF SumOf, OfProduct
<1>2. {asked[d].product : d \in more} = {asked[d].product : d \in adds} \cup {q}
  OBVIOUS
<1>3. ASSUME NEW p, p # q PROVE S(more, p) = S(adds, p)
  <2>1. OfProduct(more, p) = OfProduct(adds, p)
    BY <1>3 DEF OfProduct
  <2> QED BY <2>1
<1>4. S(more, q) = Quantity[c] + S(adds, q)
  <2>1. /\ OfProduct(more, q) = OfProduct(adds, q) \cup {c} /\ c \notin OfProduct(adds, q)
        /\ OfProduct(more, q) \subseteq more
    BY DEF OfProduct
  <2>2. \A d \in OfProduct(adds, q) \cup {c} : Quantity[d] \in Int
    BY <2>1, SumsAre
  <2>3. IsFiniteSet(OfProduct(adds, q))
    BY SumsAre
  <2> QED BY <2>1, <2>2, <2>3, SumAdds
<1>5. /\ S(adds, q) \in Int /\ Quantity[c] = asked[c].quantity /\ Quantity[c] \in Int
      /\ Plus(0, Quantity[c]) = Quantity[c]
  BY SumsAre
<1>6. Plus(0, S(more, q)) = IF q \in {asked[d].product : d \in adds}
                            THEN Plus(Plus(0, S(adds, q)), asked[c].quantity)
                            ELSE asked[c].quantity
  <2>1. CASE q \in {asked[d].product : d \in adds}
    <3>1. Plus(Plus(0, S(adds, q)), Quantity[c]) = Plus(0, S(adds, q) + Quantity[c])
      BY <1>5, PlusAdds
    <3>2. Quantity[c] + S(adds, q) = S(adds, q) + Quantity[c]
      BY <1>5
    <3> QED BY <1>4, <1>5, <2>1, <3>1, <3>2
  <2>2. CASE q \notin {asked[d].product : d \in adds}
    <3>1. OfProduct(adds, q) = {}
      BY <2>2 DEF OfProduct
    <3>2. S(adds, q) = 0
      BY <3>1, FS_EmptySet, SumType
    <3>3. Quantity[c] + 0 = Quantity[c]
      BY <1>5
    <3> QED BY <1>4, <1>5, <2>2, <3>2, <3>3
  <2> QED BY <2>1, <2>2
<1> HIDE DEF S
<1>7. SumOf(more) = [p \in {asked[d].product : d \in adds} \cup {q} |->
                       IF p # q THEN Plus(0, S(adds, p)) ELSE Plus(0, S(more, q))]
  BY <1>1, <1>2, <1>3
<1> QED BY <1>1, <1>6, <1>7 DEF Added

-----------------------------------------------------------------------------
(* The carts are explained, whatever overlaps.                             *)

(* No step forgets what was asked, or that a call has written.             *)
Lasting ==
  \A d \in DOMAIN asked :
    /\ d \in DOMAIN asked' /\ asked'[d] = asked[d]
    /\ asked[d].op = "add" /\ pc[d] \in Done => pc'[d] \in Done

LEMMA StepsLast ==
  ASSUME IInv, [Next]_vars
  PROVE  Lasting /\ (IsFiniteSet(DOMAIN asked) => IsFiniteSet(DOMAIN asked'))
<1>1. DOMAIN asked \subseteq Calls
  BY AskedAre DEF IInv
<1>2. CASE \E c \in Calls, r \in Requests : Start(c, r)
  <2>1. PICK c \in Calls, r \in Requests : Start(c, r)
    BY <1>2
  <2>2. /\ c \notin DOMAIN asked /\ DOMAIN asked' = DOMAIN asked \cup {c}
        /\ \A d \in DOMAIN asked : asked'[d] = asked[d]
        /\ \A d \in Calls \ {c} : pc'[d] = pc[d]
    BY <2>1 DEF Start, Goto, IInv, TypeOK, InOrder
  <2>3. IsFiniteSet(DOMAIN asked) => IsFiniteSet(DOMAIN asked')
    BY <2>2, FS_AddElement
  <2> QED BY <1>1, <2>2, <2>3 DEF Lasting
<1>3. ASSUME NEW c \in Calls,
             \/ ReadForAdd(c) \/ WriteAdded(c) \/ WriteEmpty(c) \/ SetExpiry(c) \/ GetCart(c)
      PROVE  UNCHANGED asked /\ Lasting
  <2>1. PICK s \in {"read", "written", "ok"} :
          /\ pc' = [pc EXCEPT ![c] = s] /\ UNCHANGED asked
          /\ s = "read" => pc[c] = "add"
    BY <1>3 DEF ReadForAdd, WriteAdded, WriteEmpty, Write, SetExpiry, GetCart, Goto
  <2>2. pc'[c] = s /\ \A d \in Calls \ {c} : pc'[d] = pc[d]
    BY <2>1 DEF IInv, TypeOK
  <2> QED BY <1>1, <2>1, <2>2 DEF Lasting, Done
<1>4. CASE (\E c \in Calls : Fail(c)) \/ Crash
  <2>1. /\ \A d \in Calls : \/ pc'[d] = pc[d]
                            \/ Running(d) /\ pc'[d] = IF pc[d] = "written" THEN "half"
                                                      ELSE "failed"
        /\ UNCHANGED asked
    BY <1>4, FailureMoves
  <2> QED BY <1>1, <2>1 DEF Lasting, Done, Running, Outcome
<1>5. CASE (\E u \in Users : Expire(u)) \/ UNCHANGED vars
  BY <1>5 DEF Expire, vars, Lasting
<1> QED BY <1>2, <1>3, <1>4, <1>5 DEF Next

LEMMA StillTheSum ==
  ASSUME IInv, IsFiniteSet(DOMAIN asked), Lasting, NEW u, NEW adds \in SUBSET Written(u)
  PROVE  SumOf(adds)' = SumOf(adds) /\ Written(u) \subseteq Written(u)'
<1>1. \A c \in adds : c \in DOMAIN asked /\ asked[c].op = "add" /\ asked'[c] = asked[c]
  BY DEF Written, Lasting
<1>2. \A c \in adds : Quantity'[c] = Quantity[c]
  BY <1>1 DEF Quantity, Lasting
<1>3. \A p : OfProduct(adds, p)' = OfProduct(adds, p) /\ OfProduct(adds, p) \subseteq adds
  BY <1>1 DEF OfProduct
<1>4. \A p : SumFunctionOnSet(Quantity', OfProduct(adds, p))
               = SumFunctionOnSet(Quantity, OfProduct(adds, p))
  <2> SUFFICES ASSUME NEW p
               PROVE  SumFunctionOnSet(Quantity', OfProduct(adds, p))
                        = SumFunctionOnSet(Quantity, OfProduct(adds, p))
    OBVIOUS
  <2>1. IsFiniteSet(OfProduct(adds, p))
    BY <1>1, SumsAre
  <2> QED BY <1>2, <1>3, <2>1, SumSame
<1>5. {asked'[c].product : c \in adds} = {asked[c].product : c \in adds}
  BY <1>1
<1>6. SumOf(adds) = [p \in {asked[c].product : c \in adds} |->
                       Plus(0, SumFunctionOnSet(Quantity, OfProduct(adds, p)))]
  BY DEF SumOf, OfProduct
<1>7. SumOf(adds)' = [p \in {asked'[c].product : c \in adds} |->
                        Plus(0, SumFunctionOnSet(Quantity', OfProduct(adds, p)'))]
  BY DEF SumOf, OfProduct
<1>8. Written(u) \subseteq Written(u)'
  BY DEF Written, Lasting, Done
<1> QED BY <1>3, <1>4, <1>5, <1>6, <1>7, <1>8

(* A set that explains a cart goes on explaining it, if it need not hold   *)
(* more and has lost nothing.                                              *)
StillExplains(cart, u, adds) ==
  /\ settled'[u] \subseteq adds /\ adds \subseteq Written(u)' \ emptied'[u]
  /\ ItemsOf(cart) = SumOf(adds)'

LEMMA StillExplained ==
  ASSUME IInv, IsFiniteSet(DOMAIN asked), Lasting, NEW cart, NEW u, NEW adds,
         Explains(cart, u, adds),
         settled'[u] \subseteq adds, adds \cap emptied'[u] = {}
  PROVE  StillExplains(cart, u, adds)
BY StillTheSum DEF Explains, StillExplains

(* Steps that leave store and copies alone.                                *)
LEMMA QuietKeeps ==
  ASSUME IInv, CartsAreExplained, [Next]_vars, UNCHANGED <<store, history>>,
         \A d \in Calls : pc'[d] = "read" =>
           pc[d] = "read" /\ value'[d] = value[d] /\ asked'[d].user = asked[d].user
  PROVE  CartsAreExplained'
<1>1. Lasting /\ IsFiniteSet(DOMAIN asked) /\ IsFiniteSet(DOMAIN asked')
  BY StepsLast DEF CartsAreExplained
<1>2. UNCHANGED <<store, settled, emptied, holds, carries>>
  BY DEF history
<1>3. ASSUME NEW u \in Users PROVE emptied'[u] \subseteq Written(u)'
  BY <1>1, <1>2, StillTheSum DEF CartsAreExplained
<1>4. ASSUME NEW u \in Users PROVE Explains(store[u], u, holds[u])'
  <2>1. Explains(store[u], u, holds[u])
    BY DEF CartsAreExplained
  <2>2. settled[u] \subseteq holds[u] /\ holds[u] \cap emptied[u] = {}
    BY <2>1 DEF Explains
  <2> QED BY <1>1, <1>2, <2>1, <2>2, StillExplained DEF Explains, StillExplains
<1>5. ASSUME NEW d \in Calls, pc'[d] = "read"
      PROVE  Explains(value[d], asked[d].user, carries[d])'
  <2>1. Explains(value[d], asked[d].user, carries[d])
    BY <1>5 DEF CartsAreExplained
  <2>2. settled[asked[d].user] \subseteq carries[d]
        /\ carries[d] \cap emptied[asked[d].user] = {}
    BY <2>1 DEF Explains
  <2>3. StillExplains(value[d], asked[d].user, carries[d])
    BY <1>1, <1>2, <2>1, <2>2, StillExplained
  <2>4. value'[d] = value[d] /\ asked'[d].user = asked[d].user /\ carries' = carries
    BY <1>2, <1>5
  <2> QED BY <2>3, <2>4 DEF Explains, StillExplains
<1> QED BY <1>1, <1>2, <1>3, <1>4, <1>5 DEF CartsAreExplained

(* A call reads: its copy is explained by what explains the cart.          *)
LEMMA ReadIsExplained ==
  ASSUME IInv, CartsAreExplained, NEW c \in Calls, Read(c) PROVE CartsAreExplained'
<1> DEFINE u == asked[c].user
<1>1. /\ [Next]_vars /\ pc[c] = "add" /\ asked' = asked /\ store' = store /\ u \in Users
      /\ value'[c] = store[u] /\ carries'[c] = holds[u]
      /\ \A d \in Calls \ {c} : pc'[d] = pc[d] /\ value'[d] = value[d]
                                /\ carries'[d] = carries[d]
      /\ carries' \in [Calls -> SUBSET Calls]
      /\ UNCHANGED <<settled, emptied, holds>>
  BY Moving DEF Read, ReadForAdd, Goto, Next, IInv, TypeOK, CartsAreExplained
<1>2. Lasting /\ IsFiniteSet(DOMAIN asked) /\ IsFiniteSet(DOMAIN asked')
  BY <1>1, StepsLast DEF CartsAreExplained
<1>3. ASSUME NEW v \in Users PROVE emptied'[v] \subseteq Written(v)'
  BY <1>1, <1>2, StillTheSum DEF CartsAreExplained
<1>4. ASSUME NEW v \in Users PROVE Explains(store[v], v, holds[v])'
  <2>1. Explains(store[v], v, holds[v])
    BY DEF CartsAreExplained
  <2>2. settled[v] \subseteq holds[v] /\ holds[v] \cap emptied[v] = {}
    BY <2>1 DEF Explains
  <2> QED BY <1>1, <1>2, <2>1, <2>2, StillExplained DEF Explains, StillExplains
<1>5. ASSUME NEW d \in Calls, pc'[d] = "read"
      PROVE  Explains(value[d], asked[d].user, carries[d])'
  <2>1. CASE d = c
    BY <1>1, <1>4, <2>1 DEF Explains
  <2>2. CASE d # c
    <3>1. Explains(value[d], asked[d].user, carries[d])
      BY <1>1, <1>5, <2>2 DEF CartsAreExplained
    <3>2. settled[asked[d].user] \subseteq carries[d]
          /\ carries[d] \cap emptied[asked[d].user] = {}
      BY <3>1 DEF Explains
    <3>3. StillExplains(value[d], asked[d].user, carries[d])
      BY <1>1, <1>2, <3>1, <3>2, StillExplained
    <3>4. value'[d] = value[d] /\ carries'[d] = carries[d]
      BY <1>1, <2>2
    <3> QED BY <1>1, <3>3, <3>4 DEF Explains, StillExplains
  <2> QED BY <2>1, <2>2
<1> QED BY <1>1, <1>2, <1>3, <1>4, <1>5 DEF CartsAreExplained

(* A call writes: the cart is explained by what explains its copy, and by  *)
(* the call.  If others have copies the call is not settled.               *)
LEMMA AddIsExplained ==
  ASSUME IInv, CartsAreExplained, NEW c \in Calls, Add(c) PROVE CartsAreExplained'
<1> DEFINE u == asked[c].user
           items == Added(ItemsOf(value[c]), asked[c].product, asked[c].quantity)
<1>1. /\ [Next]_vars /\ pc[c] = "read" /\ pc'[c] = "written"
      /\ asked[c].op = "add" /\ c \in DOMAIN asked /\ u \in Users
      /\ UNCHANGED <<asked, value, emptied, carries>>
      /\ store'[u] = items /\ \A v \in Users \ {u} : store'[v] = store[v]
      /\ \A d \in Calls \ {c} : pc'[d] = pc[d]
  BY Moving DEF Add, WriteAdded, Write, Goto, Next, IInv, TypeOK, InOrder
<1>2. /\ holds'[u] = carries[c] \cup {c} /\ \A v \in Users \ {u} : holds'[v] = holds[v]
      /\ holds' \in [Users -> SUBSET Calls]
      /\ settled'[u] = (IF Readers(u) = {c} THEN settled[u] \cup {c} ELSE settled[u])
      /\ \A v \in Users \ {u} : settled'[v] = settled[v]
      /\ settled' \in [Users -> SUBSET Calls]
  BY <1>1 DEF Add, CartsAreExplained
<1>3. Lasting /\ IsFiniteSet(DOMAIN asked) /\ IsFiniteSet(DOMAIN asked')
  BY <1>1, StepsLast DEF CartsAreExplained
<1>4. ASSUME NEW v \in Users PROVE emptied'[v] \subseteq Written(v)'
  BY <1>1, <1>3, StillTheSum DEF CartsAreExplained
<1>5. Explains(store[u], u, holds[u])'
  <2>1. Explains(value[c], u, carries[c])
    BY <1>1 DEF CartsAreExplained
  <2>2. c \notin Written(u) /\ c \notin carries[c] /\ c \notin emptied[u]
    BY <1>1, <2>1 DEF Written, Explains, CartsAreExplained
  <2>3. \A d \in carries[c] \cup {c} : d \in DOMAIN asked /\ asked[d].op = "add"
    BY <1>1, <2>1 DEF Explains, Written
  <2>4. SumOf(carries[c] \cup {c}) = items
    BY <1>3, <2>1, <2>2, <2>3, SumGrows DEF Explains
  <2>5. items # NoCart
    BY <1>1, Moving, ItemsAreCart, AddedIsCart
  <2>6. SumOf(carries[c] \cup {c})' = SumOf(carries[c] \cup {c})
    BY <1>1 DEF SumOf, Quantity
  <2>7. ItemsOf(store'[u]) = SumOf(holds[u])'
    <3>1. SumOf(holds[u])' = SumOf(carries[c] \cup {c})'
      BY <1>1, <1>2 DEF SumOf, Quantity
    <3> QED BY <1>1, <2>4, <2>5, <2>6, <3>1 DEF ItemsOf
  <2>8. c \in Written(u)' /\ Written(u) \subseteq Written(u)'
    <3>1. c \in Written(u)'
      BY <1>1 DEF Written
    <3>2. Written(u) \subseteq Written(u)'
      BY <1>1, <1>3 DEF Written, Lasting, Done
    <3> QED BY <3>1, <3>2
  <2>9. /\ settled'[u] \subseteq holds'[u]
        /\ holds'[u] \subseteq Written(u)' \ emptied'[u]
    BY <1>1, <1>2, <2>1, <2>2, <2>8 DEF Explains
  <2> QED BY <1>1, <2>7, <2>9 DEF Explains
<1>6. ASSUME NEW v \in Users, v # u PROVE Explains(store[v], v, holds[v])'
  <2>1. Explains(store[v], v, holds[v])
    BY DEF CartsAreExplained
  <2>2. settled[v] \subseteq holds[v] /\ holds[v] \cap emptied[v] = {}
    BY <2>1 DEF Explains
  <2> QED BY <1>1, <1>2, <1>3, <1>6, <2>1, <2>2, StillExplained DEF Explains, StillExplains
<1>7. ASSUME NEW d \in Calls, pc'[d] = "read"
      PROVE  Explains(value[d], asked[d].user, carries[d])'
  <2>1. d # c /\ pc[d] = "read" /\ asked[d].user \in Users
    BY <1>1, <1>7, Moving
  <2>2. Explains(value[d], asked[d].user, carries[d])
    BY <2>1 DEF CartsAreExplained
  <2>3. settled'[asked[d].user] = settled[asked[d].user]
    <3>1. CASE asked[d].user = u
      <4>1. d \in Readers(u)
        BY <2>1, <3>1 DEF Readers
      <4> QED BY <1>2, <2>1, <3>1, <4>1
    <3> QED BY <1>2, <2>1, <3>1
  <2>4. settled[asked[d].user] \subseteq carries[d]
        /\ carries[d] \cap emptied[asked[d].user] = {}
    BY <2>2 DEF Explains
  <2>5. StillExplains(value[d], asked[d].user, carries[d])
    BY <1>1, <1>3, <2>2, <2>3, <2>4, StillExplained
  <2> QED BY <1>1, <2>5 DEF Explains, StillExplains
<1> QED BY <1>1, <1>2, <1>3, <1>4, <1>5, <1>6, <1>7 DEF CartsAreExplained

(* A cart is emptied, or expires: no call explains it.  If none has a copy *)
(* then none that has written will be in a cart again.                     *)
LEMMA ClearedIsExplained ==
  ASSUME IInv, CartsAreExplained, [Next]_vars, NEW u \in Users, Cleared(u),
         UNCHANGED <<asked, value>>,
         \A d \in Calls : pc'[d] = "read" => pc[d] = "read",
         ItemsOf(store'[u]) = EmptyItems, \A v \in Users \ {u} : store'[v] = store[v]
  PROVE  CartsAreExplained'
<1>1. Lasting /\ IsFiniteSet(DOMAIN asked) /\ IsFiniteSet(DOMAIN asked')
  BY StepsLast DEF CartsAreExplained
<1>2. /\ holds'[u] = {} /\ settled'[u] = {}
      /\ emptied'[u] = IF Readers(u) = {} THEN Written(u) ELSE emptied[u]
      /\ \A v \in Users \ {u} : /\ holds'[v] = holds[v] /\ settled'[v] = settled[v]
                                /\ emptied'[v] = emptied[v]
      /\ carries' = carries /\ Written(u) \subseteq Calls
      /\ holds' \in [Users -> SUBSET Calls] /\ settled' \in [Users -> SUBSET Calls]
      /\ emptied' \in [Users -> SUBSET Calls]
  <2>1. Written(u) \subseteq Calls
    BY AskedAre DEF Written, IInv
  <2> QED BY <2>1 DEF Cleared, CartsAreExplained
<1>3. ASSUME NEW v \in Users PROVE emptied'[v] \subseteq Written(v)'
  <2>1. Written(v) \subseteq Written(v)'
    BY <1>1, StillTheSum
  <2> QED BY <1>2, <2>1 DEF CartsAreExplained
<1>4. Explains(store[u], u, holds[u])'
  <2>1. SumOf(holds[u])' = EmptyItems
    BY <1>2 DEF SumOf, EmptyItems
  <2> QED BY <1>2, <2>1 DEF Explains
<1>5. ASSUME NEW v \in Users, v # u PROVE Explains(store[v], v, holds[v])'
  <2>1. Explains(store[v], v, holds[v])
    BY DEF CartsAreExplained
  <2>2. settled[v] \subseteq holds[v] /\ holds[v] \cap emptied[v] = {}
    BY <2>1 DEF Explains
  <2>3. settled'[v] = settled[v] /\ emptied'[v] = emptied[v] /\ holds'[v] = holds[v]
        /\ store'[v] = store[v]
    BY <1>2, <1>5
  <2>4. StillExplains(store[v], v, holds[v])
    BY <1>1, <2>1, <2>2, <2>3, StillExplained
  <2> QED BY <2>3, <2>4 DEF Explains, StillExplains
<1>6. ASSUME NEW d \in Calls, pc'[d] = "read"
      PROVE  Explains(value[d], asked[d].user, carries[d])'
  <2>1. pc[d] = "read" /\ asked[d].user \in Users
    BY <1>6, Moving
  <2>2. Explains(value[d], asked[d].user, carries[d])
    BY <2>1 DEF CartsAreExplained
  <2>3. /\ settled'[asked[d].user] \subseteq settled[asked[d].user]
        /\ emptied'[asked[d].user] = emptied[asked[d].user]
    <3>1. CASE asked[d].user = u
      <4>1. d \in Readers(u)
        BY <2>1, <3>1 DEF Readers
      <4> QED BY <1>2, <3>1, <4>1
    <3> QED BY <1>2, <2>1, <3>1
  <2>4. settled[asked[d].user] \subseteq carries[d]
        /\ carries[d] \cap emptied[asked[d].user] = {}
    BY <2>2 DEF Explains
  <2>5. StillExplains(value[d], asked[d].user, carries[d])
    BY <1>1, <2>2, <2>3, <2>4, StillExplained
  <2> QED BY <1>2, <2>5 DEF Explains, StillExplains
<1> QED BY <1>1, <1>2, <1>3, <1>4, <1>5, <1>6 DEF CartsAreExplained

LEMMA ExplainedStays ==
  ASSUME IInv, CartsAreExplained, [HistoryNext]_<<vars, history>>
  PROVE  CartsAreExplained'
<1>1. CASE \E c \in Calls, r \in Requests : Start(c, r) /\ UNCHANGED history
  <2>1. PICK c \in Calls, r \in Requests : Start(c, r) /\ UNCHANGED history
    BY <1>1
  <2>2. /\ [Next]_vars /\ UNCHANGED <<store, history>>
        /\ \A d \in Calls : pc'[d] = "read" =>
             pc[d] = "read" /\ value'[d] = value[d] /\ asked'[d].user = asked[d].user
    BY <2>1 DEF Start, Goto, Requests, IInv, TypeOK, InOrder, Next
  <2> QED BY <2>2, QuietKeeps
<1>2. CASE \E c \in Calls : Read(c) \/ Add(c)
  BY <1>2, ReadIsExplained, AddIsExplained
<1>3. CASE \E c \in Calls : WriteEmpty(c) /\ Cleared(asked[c].user)
  <2>1. PICK c \in Calls : WriteEmpty(c) /\ Cleared(asked[c].user)
    BY <1>3
  <2>2. /\ [Next]_vars /\ asked[c].user \in Users /\ UNCHANGED <<asked, value>>
        /\ store'[asked[c].user] = EmptyItems
        /\ \A v \in Users \ {asked[c].user} : store'[v] = store[v]
        /\ \A d \in Calls : pc'[d] = "read" => pc[d] = "read"
    BY <2>1, Moving DEF WriteEmpty, Write, Goto, IInv, TypeOK, Next
  <2>3. ItemsOf(EmptyItems) = EmptyItems
    BY ItemsAreCart
  <2> QED BY <2>1, <2>2, <2>3, ClearedIsExplained
<1>4. CASE \E c \in Calls : (SetExpiry(c) \/ GetCart(c)) /\ UNCHANGED history
  <2>1. PICK c \in Calls : (SetExpiry(c) \/ GetCart(c)) /\ UNCHANGED history
    BY <1>4
  <2>2. /\ [Next]_vars /\ UNCHANGED <<store, asked, history>>
        /\ \A d \in Calls : pc'[d] = "read" => pc[d] = "read" /\ value'[d] = value[d]
    BY <2>1 DEF SetExpiry, GetCart, Goto, IInv, TypeOK, Next
  <2> QED BY <2>2, QuietKeeps
<1>5. CASE ((\E c \in Calls : Fail(c)) \/ Crash) /\ UNCHANGED history
  <2>1. /\ \A d \in Calls : \/ pc'[d] = pc[d]
                            \/ Running(d) /\ pc'[d] = IF pc[d] = "written" THEN "half"
                                                      ELSE "failed"
        /\ UNCHANGED <<asked, value, store>>
    BY <1>5, FailureMoves
  <2>2. [Next]_vars
    BY <1>5 DEF Next
  <2> QED BY <1>5, <2>1, <2>2, QuietKeeps
<1>6. CASE \E u \in Users : Expire(u) /\ Cleared(u)
  <2>1. PICK u \in Users : Expire(u) /\ Cleared(u)
    BY <1>6
  <2>2. /\ [Next]_vars /\ UNCHANGED <<asked, pc, value>>
        /\ store'[u] = NoCart /\ \A v \in Users \ {u} : store'[v] = store[v]
    BY <2>1 DEF Expire, IInv, TypeOK, Next
  <2>3. ItemsOf(store'[u]) = EmptyItems
    BY <2>2 DEF ItemsOf
  <2> QED BY <2>1, <2>2, <2>3, ClearedIsExplained
<1>7. CASE UNCHANGED <<vars, history>>
  <2>1. [Next]_vars /\ UNCHANGED <<asked, pc, value, store, history>>
    BY <1>7 DEF vars
  <2> QED BY <2>1, QuietKeeps
<1> QED BY <1>1, <1>2, <1>3, <1>4, <1>5, <1>6, <1>7 DEF HistoryNext

(* The history is kept beside the calls, and stops none of them.           *)
LEMMA HistoryIsKept == HistorySpec => Spec
<1>1. HistoryInit => Init
  BY DEF HistoryInit
<1>2. [HistoryNext]_<<vars, history>> => [Next]_vars
  BY DEF HistoryNext, Next, Read, Add
<1> QED BY <1>1, <1>2, PTL DEF HistorySpec, Spec

(* ValkeyCartStore.cs, lines 134-205: whatever overlaps, fails or expires, *)
(* and for any int32 quantities, a cart is what AddItem calls added to it, *)
(* each once; only overlapping calls lose an item or bring one back.       *)
THEOREM OnlyOverlapsLoseOrRestoreForAll == HistorySpec => []OnlyOverlapsLoseOrRestore
<1>1. HistoryInit => CartsAreExplained
  <2> SUFFICES ASSUME HistoryInit PROVE CartsAreExplained
    OBVIOUS
  <2>1. DOMAIN asked = {} /\ IsFiniteSet({})
    BY FS_EmptySet DEF HistoryInit, Init
  <2>2. SumOf({}) = EmptyItems
    BY DEF SumOf, EmptyItems
  <2>3. \A u \in Users : ItemsOf(store[u]) = EmptyItems
    BY DEF HistoryInit, Init, ItemsOf
  <2>4. \A u \in Users : Explains(store[u], u, holds[u])
    BY <2>2, <2>3 DEF Explains, HistoryInit
  <2> QED BY <2>1, <2>4 DEF CartsAreExplained, HistoryInit, Init
<1>2. IInv /\ CartsAreExplained /\ [HistoryNext]_<<vars, history>> => CartsAreExplained'
  BY ExplainedStays
<1>3. CartsAreExplained => OnlyOverlapsLoseOrRestore
  <2> SUFFICES ASSUME CartsAreExplained, NEW u \in Users
               PROVE  holds[u] \in SUBSET Written(u) /\ Explains(store[u], u, holds[u])
    BY DEF OnlyOverlapsLoseOrRestore
  <2> QED BY DEF CartsAreExplained, Explains
<1> QED BY CartInvariant, HistoryIsKept, <1>1, <1>2, <1>3, PTL DEF HistorySpec

=============================================================================
