---------------------------- MODULE ServicesProofs ----------------------------
(***************************************************************************)
(* Theorems about the services of module Services, each alone, for every   *)
(* value of the constants.                                                 *)
(***************************************************************************)
EXTENDS Services, Sequences, FiniteSets, WellFoundedInduction, TLAPS

-----------------------------------------------------------------------------
(* The ad service's load generator, for any number of calls.  The          *)
(* invariant says who answers for workers under a flag that is off: a call *)
(* that has started them and is about to set the flag, or one that has     *)
(* cleared it and is about to stop them.                                   *)

(* At first there are no workers.                                          *)
LEMMA LoadInit == Init => IInv
BY DEF Init, IInv, TypeOK, Placed, Accounted, Steps

(* getInstance starts and stops no workers.                                *)
LEMMA GettingKeeps ==
  ASSUME None \notin Calls, IInv, NEW c \in Calls,
         CheckInstance(c) \/ CreateInstance(c) \/ ReturnInstance(c)
  PROVE  IInv'
<1> USE DEF IInv, TypeOK, Placed, Accounted, Steps, At, GoTo
<1>1. CASE CheckInstance(c)
  BY <1>1 DEF CheckInstance
<1>2. CASE CreateInstance(c)
  BY <1>2 DEF CreateInstance
<1>3. CASE ReturnInstance(c)
  BY <1>3 DEF ReturnInstance
<1> QED BY <1>1, <1>2, <1>3

(* A call that clears the flag goes on to stop the workers, and one that   *)
(* has stopped them leaves none.                                           *)
LEMMA DisablingKeeps ==
  ASSUME None \notin Calls, IInv, NEW c \in Calls, Disable(c) \/ StopWorkers(c)
  PROVE  IInv'
<1> USE DEF IInv, TypeOK, Placed, Accounted, Steps, At, GoTo, Running
<1>1. CASE Disable(c)
  BY <1>1 DEF Disable
<1>2. CASE StopWorkers(c)
  BY <1>2 DEF StopWorkers
<1> QED BY <1>1, <1>2

(* A call that has started workers goes on to set the flag.                *)
LEMMA EnablingKeeps ==
  ASSUME None \notin Calls, IInv, NEW c \in Calls,
         Enable(c) \/ SpawnLoadWorkers(c) \/ Mark(c)
  PROVE  IInv'
<1> USE DEF IInv, TypeOK, Placed, Accounted, Steps, At, GoTo, Running
<1>1. CASE Enable(c)
  BY <1>1 DEF Enable
<1>2. CASE SpawnLoadWorkers(c)
  BY <1>2 DEF SpawnLoadWorkers
<1>3. CASE Mark(c)
  BY <1>3 DEF Mark
<1> QED BY <1>1, <1>2, <1>3

(* CPULoad.java: in every instance, workers run under a flag that says so, *)
(* or some call answers for them.                                          *)
THEOREM CpuLoadInvariant == Spec => []IInv
<1>1. IInv /\ [Next]_vars => IInv'
  <2> SUFFICES ASSUME IInv, [Next]_vars PROVE IInv'
    OBVIOUS
  <2>1. ASSUME NEW c \in Calls, Call(c) PROVE IInv'
    BY <2>1, NoneIsApart, GettingKeeps, DisablingKeeps, EnablingKeeps DEF Call
  <2>2. CASE UNCHANGED vars
    BY <2>2 DEF vars, IInv, TypeOK, Placed, Accounted
  <2> QED BY <2>1, <2>2 DEF Next
<1> QED BY LoadInit, <1>1, PTL DEF Spec

(* CPULoad.java, lines 46-57: when no call is under way an instance whose  *)
(* flag is off has no workers, however many calls overlapped before.       *)
THEOREM StoppedIsStoppedForAll == Spec => []StoppedIsStopped
<1>1. IInv => StoppedIsStopped
  BY DEF IInv, Accounted, StoppedIsStopped
<1> QED BY <1>1, CpuLoadInvariant, PTL

-----------------------------------------------------------------------------
(* The accounting service, for any number of orders and deaths.            *)

(* At first no order was passed.                                           *)
LEMMA BookingInit == Booking!Init => Booking!IInv
BY DEF Booking!Init, Booking!IInv, Booking!TypeOK, Booking!OrdersAreBooked

(* A new order comes behind the position, and a commit stays there.        *)
LEMMA CallsKeepBooks ==
  ASSUME None \notin Nat, Booking!IInv,
         Booking!Publish \/ Booking!Consume \/ Booking!Commit
  PROVE  Booking!IInv'
<1> USE DEF Booking!IInv, Booking!TypeOK, Booking!OrdersAreBooked
<1>1. CASE Booking!Publish
  BY <1>1 DEF Booking!Publish
<1>2. CASE Booking!Consume
  BY <1>2 DEF Booking!Consume
<1>3. CASE Booking!Commit
  BY <1>3 DEF Booking!Commit
<1> QED BY <1>1, <1>2, <1>3

(* An order is booked or excused as it leaves the hand.                    *)
LEMMA ProcessingKeepsBooks ==
  ASSUME None \notin Nat, Booking!IInv,
         Booking!ParseFails \/ Booking!SaveChanges \/ Booking!SaveFails
  PROVE  Booking!IInv'
BY DEF Booking!IInv, Booking!TypeOK, Booking!OrdersAreBooked, Booking!ParseFails,
       Booking!SaveChanges, Booking!SaveFails, Booking!Done

(* A restart goes back, to before an order in hand or past an excused one. *)
LEMMA RestartKeepsBooks ==
  ASSUME None \notin Nat, Booking!IInv, Booking!Restart
  PROVE  Booking!IInv'
BY DEF Booking!IInv, Booking!TypeOK, Booking!OrdersAreBooked, Booking!Restart,
       Booking!StartAt

(* Consumer.cs, lines 64-67 and 86-139: every order that was passed is     *)
(* booked, or was lost for one of the three reasons.                       *)
THEOREM OrdersAreBookedForAll == Booking!Spec => []OrdersAreBooked
<1>1. Booking!IInv /\ [Booking!Next]_(Booking!vars) => Booking!IInv'
  <2> SUFFICES ASSUME Booking!IInv, [Booking!Next]_(Booking!vars) PROVE Booking!IInv'
    OBVIOUS
  <2>1. CASE UNCHANGED Booking!vars
    BY <2>1 DEF Booking!vars, Booking!IInv, Booking!TypeOK, Booking!OrdersAreBooked
  <2> QED BY <2>1, NoneIsApart, CallsKeepBooks, ProcessingKeepsBooks, RestartKeepsBooks
          DEF Booking!Next
<1>2. Booking!IInv => OrdersAreBooked
  BY DEF Booking!IInv, OrdersAreBooked
<1> QED BY BookingInit, <1>1, <1>2, PTL DEF Booking!Spec

-----------------------------------------------------------------------------
(* The fraud-detection service, for any number of orders and starts.       *)

(* At first there are no orders.                                           *)
LEMMA WatchingInit == Watching!Init => Watching!IInv
<1> SUFFICES ASSUME Watching!Init PROVE Watching!IInv
  OBVIOUS
<1>1. Watching!TypeOK
  <2>1. up \in BOOLEAN
    BY DEF Watching!Init
  <2> QED BY <2>1 DEF Watching!Init, Watching!TypeOK
<1>2. Watching!Accounted(next) /\ (saved # None => Watching!Accounted(saved))
  BY DEF Watching!Init, Watching!Accounted
<1> QED BY <1>1, <1>2 DEF Watching!IInv

(* A start goes to the committed offset, or passes over the whole topic.   *)
LEMMA StartingKeepsCount ==
  ASSUME None \notin Nat, Watching!IInv, Watching!Publish \/ Watching!Start
  PROVE  Watching!IInv'
<1> USE DEF Watching!IInv, Watching!TypeOK, Watching!Accounted
<1>1. CASE Watching!Publish
  BY <1>1 DEF Watching!Publish
<1>2. CASE Watching!Start
  BY <1>2 DEF Watching!Start
<1> QED BY <1>1, <1>2

(* A poll commits what was counted before; a record is counted, or takes   *)
(* the rest of its batch with it.                                          *)
LEMMA BatchesKeepCount ==
  ASSUME None \notin Nat, Watching!IInv,
         Watching!Poll \/ Watching!Count \/ Watching!ParseFails \/ Watching!Die
  PROVE  Watching!IInv'
<1> USE DEF Watching!IInv, Watching!TypeOK, Watching!Accounted
<1>1. CASE Watching!Poll
  BY <1>1 DEF Watching!Poll
<1>2. CASE Watching!Count
  BY <1>2 DEF Watching!Count
<1>3. CASE Watching!ParseFails
  <2>1. Watching!TypeOK'
    BY <1>3 DEF Watching!ParseFails
  <2>2. Watching!Accounted(next)'
    BY <1>3 DEF Watching!ParseFails
  <2>3. (saved # None => Watching!Accounted(saved))'
    BY <1>3 DEF Watching!ParseFails
  <2> QED BY <2>1, <2>2, <2>3
<1>4. CASE Watching!Die
  BY <1>4 DEF Watching!Die
<1> QED BY <1>1, <1>2, <1>3, <1>4

(* main.kt, lines 52-69: every order before the next one was counted, or   *)
(* was passed over for one of the two reasons.                             *)
THEOREM OrdersAreCountedForAll == Watching!Spec => []OrdersAreCounted
<1>1. Watching!IInv /\ [Watching!Next]_(Watching!vars) => Watching!IInv'
  <2> SUFFICES ASSUME Watching!IInv, [Watching!Next]_(Watching!vars) PROVE Watching!IInv'
    OBVIOUS
  <2>1. CASE UNCHANGED Watching!vars
    BY <2>1 DEF Watching!vars, Watching!IInv, Watching!TypeOK, Watching!Accounted
  <2> QED BY <2>1, NoneIsApart, StartingKeepsCount, BatchesKeepCount DEF Watching!Next
<1>2. Watching!IInv => OrdersAreCounted
  BY DEF Watching!IInv, Watching!Accounted, OrdersAreCounted, Watching!OrdersAreCounted
<1> QED BY WatchingInit, <1>1, <1>2, PTL DEF Watching!Spec

-----------------------------------------------------------------------------
(* The payment service, for cards that expire in any month.                *)

(* Years and months make up the clock, and the reading of a later year is  *)
(* not an earlier one.                                                     *)
LEMMA Calendar ==
  ASSUME NEW t \in Nat, NEW u \in Nat
  PROVE  /\ Charging!YearOf(t) \in Nat /\ Charging!Month(t) \in 1..12
         /\ t = Charging!YearOf(t) * 12 + Charging!Month(t) - 1
         /\ t <= u => Charging!YearOf(t) <= Charging!YearOf(u)
BY DEF Charging!YearOf, Charging!Month, Charging!Months

(* At first nothing was read.                                              *)
LEMMA ChargingInit == Charging!Init => Charging!IInv
  BY DEF Charging!Init, Charging!Charges, Charging!IInv, Charging!TypeOK,
         Charging!ReadSoFar, Charging!OnlyCardsInDateAreCharged, Charging!At

(* The clock moves on without the charge, and the charge reads it twice.   *)
LEMMA ReadingKeepsCharge ==
  ASSUME Charging!IInv,
         Charging!Tick \/ Charging!CheckFlag \/ Charging!ReadClock
  PROVE  Charging!IInv'
<1> USE DEF Charging!IInv, Charging!TypeOK, Charging!ReadSoFar,
            Charging!OnlyCardsInDateAreCharged, Charging!At
<1>1. CASE Charging!Tick
  BY <1>1 DEF Charging!Tick
<1>2. CASE Charging!CheckFlag
  BY <1>2 DEF Charging!CheckFlag
<1>3. CASE Charging!ReadClock
  <2> DEFINE month == Charging!Month(clock)
             year  == Charging!YearOf(clock)
  <2>1. month \in Nat /\ year \in Nat
    <3>1. clock \in Nat
      OBVIOUS
    <3> HIDE DEF Charging!IInv
    <3> QED BY <3>1, Calendar
  <2>2. \/ /\ charge.step = "month"
           /\ charge' = [charge EXCEPT !.step = "year", !.began = clock, !.month = month]
        \/ /\ charge.step = "year"
           /\ charge' = [charge EXCEPT !.step = "check", !.ended = clock, !.year = year]
    BY <1>3 DEF Charging!ReadClock
  <2>3. clock' = clock
    BY <1>3 DEF Charging!ReadClock
  <2> HIDE DEF month, year
  <2>4. Charging!TypeOK'
    BY <2>1, <2>2, <2>3
  <2>5. Charging!ReadSoFar'
    <3>1. CASE charge.step = "month"
      <4>1. charge'.step = "year" /\ charge'.began = clock /\ charge'.month = month
        BY <2>2, <3>1
      <4> QED BY <2>3, <4>1 DEF month
    <3>2. CASE charge.step = "year"
      <4>1. /\ charge'.step = "check" /\ charge'.ended = clock /\ charge'.year = year
            /\ charge'.began = charge.began /\ charge'.month = charge.month
        BY <2>2, <3>2
      <4> QED BY <2>3, <3>2, <4>1 DEF year
    <3> QED BY <2>2, <3>1, <3>2
  <2>6. ~(charge'.step \in {"charged", "refused"})
    BY <1>3 DEF Charging!ReadClock
  <2> QED BY <2>4, <2>5, <2>6
<1> QED BY <1>1, <1>2, <1>3

(* An old month with a later year is later still, so that no expired card  *)
(* passes; with the same year it is the month in which reading began.      *)
LEMMA CheckingKeepsCharge ==
  ASSUME Charging!IInv, Charging!Check PROVE Charging!IInv'
<1> DEFINE card == charge.card
           began == charge.began
           ended == charge.ended
<1>1. /\ card \in Charging!Card /\ card.expiration \in Nat
      /\ began \in Nat /\ ended \in Nat /\ began <= ended
      /\ charge.month = Charging!Month(began) /\ charge.year = Charging!YearOf(ended)
  BY ExpirationsAreMonths
     DEF Charging!IInv, Charging!TypeOK, Charging!ReadSoFar, Charging!Check,
         Charging!At, Charging!Card
<1>2. /\ Charging!Passes => card.valid /\ card.accepted /\ began <= card.expiration
      /\ card.valid /\ card.accepted /\ ended <= card.expiration /\ ~Charging!Passes =>
           Charging!YearOf(began) # Charging!YearOf(ended)
  <2> HIDE DEF card, began, ended
  <2> SUFFICES
        ASSUME NEW e \in Nat, e = card.expiration
        PROVE  /\ Charging!YearOf(ended) * 12 + Charging!Month(began)
                    <= Charging!YearOf(e) * 12 + Charging!Month(e) => began <= e
               /\ ended <= e /\ Charging!YearOf(began) = Charging!YearOf(ended) =>
                    Charging!YearOf(ended) * 12 + Charging!Month(began)
                      <= Charging!YearOf(e) * 12 + Charging!Month(e)
    BY <1>1 DEF Charging!Passes, Charging!Months, card
  <2>1. /\ began <= e => Charging!YearOf(began) <= Charging!YearOf(e)
        /\ Charging!YearOf(began) <= Charging!YearOf(ended)
        /\ ended <= e => Charging!YearOf(ended) <= Charging!YearOf(e)
    BY <1>1, Calendar
  <2>2. /\ Charging!YearOf(began) \in Nat /\ Charging!Month(began) \in 1..12
        /\ began = Charging!YearOf(began) * 12 + Charging!Month(began) - 1
    BY <1>1, Calendar
  <2>3. /\ Charging!YearOf(e) \in Nat /\ Charging!Month(e) \in 1..12
        /\ e = Charging!YearOf(e) * 12 + Charging!Month(e) - 1
    BY Calendar
  <2>4. Charging!YearOf(ended) \in Nat
    BY <1>1, Calendar
  <2> QED BY <1>1, <2>1, <2>2, <2>3, <2>4
<1>3. charge' = [charge EXCEPT !.step = IF Charging!Passes THEN "charged" ELSE "refused"]
        /\ UNCHANGED clock
  BY DEF Charging!Check
<1> QED BY <1>1, <1>2, <1>3
        DEF Charging!IInv, Charging!TypeOK, Charging!ReadSoFar, Charging!Check,
            Charging!OnlyCardsInDateAreCharged, Charging!At

(* charge.js, lines 46-72: although the clock is read twice, no expired    *)
(* card is charged, and one in date is refused over New Year only.         *)
THEOREM OnlyCardsInDateAreChargedForAll == Charging!Spec => []OnlyCardsInDateAreCharged
<1>1. Charging!IInv /\ [Charging!Next]_(Charging!vars) => Charging!IInv'
  <2> SUFFICES ASSUME Charging!IInv, [Charging!Next]_(Charging!vars) PROVE Charging!IInv'
    OBVIOUS
  <2>1. CASE UNCHANGED Charging!vars
    BY <2>1 DEF Charging!vars, Charging!IInv, Charging!TypeOK, Charging!ReadSoFar,
                Charging!OnlyCardsInDateAreCharged, Charging!At
  <2> QED BY <2>1, ReadingKeepsCharge, CheckingKeepsCharge DEF Charging!Next
<1>2. Charging!IInv => OnlyCardsInDateAreCharged
  BY DEF Charging!IInv, OnlyCardsInDateAreCharged
<1> QED BY ChargingInit, <1>1, <1>2, PTL DEF Charging!Spec

-----------------------------------------------------------------------------
(* The recommendation service, for any catalogue and number of requests.   *)

(* At first nothing is in the list, and nobody has read it.                *)
LEMMA RecommendingInit == Recommending!Init => Recommending!IInv
<1> SUFFICES ASSUME Recommending!Init PROVE Recommending!IInv
  OBVIOUS
<1>1. \A c \in Calls : request[c].step = "start" /\ request[c].cold = FALSE
  BY DEF Recommending!Init, Recommending!Requests
<1>2. Recommending!TypeOK
  <2> DEFINE steps == {"start", "list", "fill", "read", "assign", "reread", "lengthen",
                       "use", "sample", "answered", "failed"}
  <2>1. \A a \in Recommending!About :
          [step |-> "start", about |-> a, ids |-> {}, cold |-> FALSE]
            \in [step : steps, about : Recommending!About, ids : SUBSET Items, cold : BOOLEAN]
    <3>1. FALSE \in BOOLEAN /\ {} \in SUBSET Items /\ "start" \in steps
      OBVIOUS
    <3> HIDE DEF steps
    <3> QED BY <3>1, Zenon
  <2> HIDE DEF steps
  <2> DEFINE started == {[step |-> "start", about |-> a, ids |-> {}, cold |-> FALSE] :
                            a \in Recommending!About}
             records == [step : steps, about : Recommending!About,
                         ids : SUBSET Items, cold : BOOLEAN]
  <2>2. request \in [Calls -> started] /\ started \subseteq records
    BY <2>1 DEF Recommending!Init, Recommending!Requests
  <2> HIDE DEF started, records
  <2>3. request \in [Calls -> records]
    BY <2>2
  <2> QED BY <2>3 DEF records, Recommending!Init, Recommending!TypeOK, steps
<1>3. Recommending!FilledFrom /\ Recommending!RecommendationsAreFull
  BY <1>1 DEF Recommending!FilledFrom, Recommending!RecommendationsAreFull, Recommending!At
<1> QED BY <1>2, <1>3 DEF Recommending!IInv

(* Nobody reads the list as it is being filled for the first time, except  *)
(* cold requests, and what is read of the catalogue is all of it.          *)
LEMMA ListingKeeps ==
  ASSUME Recommending!IInv, NEW c \in Calls,
         Recommending!Uncached(c) \/ Recommending!Miss(c) \/ Recommending!Hit(c)
           \/ Recommending!List(c)
  PROVE  Recommending!IInv'
<1> USE DEF Recommending!IInv, Recommending!TypeOK, Recommending!FilledFrom,
            Recommending!RecommendationsAreFull, Recommending!At, Recommending!GoTo
<1>1. CASE Recommending!Uncached(c)
  BY <1>1 DEF Recommending!Uncached
<1>2. CASE Recommending!Miss(c)
  BY <1>2 DEF Recommending!Miss
<1>3. CASE Recommending!Hit(c)
  <2> DEFINE cold == (cached_ids = {})
  <2>1. cold \in BOOLEAN
    OBVIOUS
  <2>2. /\ request' = [request EXCEPT ![c].step = "sample", ![c].ids = cached_ids,
                                     ![c].cold = cold]
        /\ UNCHANGED <<first_run, cached_ids>>
    BY <1>3 DEF Recommending!Hit
  <2>3. cached_ids = IF cold THEN {} ELSE Items
    OBVIOUS
  <2> HIDE DEF cold
  <2>4. /\ request'[c].step = "sample" /\ request'[c].ids = cached_ids
        /\ request'[c].cold = cold
        /\ \A d \in Calls \ {c} : request'[d] = request[d]
    BY <2>2
  <2>5. Recommending!TypeOK'
    <3> DEFINE steps   == {"start", "list", "fill", "read", "assign", "reread", "lengthen",
                           "use", "sample", "answered", "failed"}
               records == [step : steps, about : Recommending!About,
                           ids : SUBSET Items, cold : BOOLEAN]
               hit     == [request[c] EXCEPT !.step = "sample", !.ids = cached_ids,
                                             !.cold = cold]
    <3>1. hit \in records
      <4>1. request[c] \in records /\ cached_ids \in SUBSET Items
        OBVIOUS
      <4> QED BY <2>1, <4>1
    <3>2. request' = [request EXCEPT ![c] = hit]
      BY <2>2
    <3> HIDE DEF hit, records
    <3>3. request' \in [Calls -> records]
      <4>1. request \in [Calls -> records]
        BY DEF records
      <4> QED BY <3>1, <3>2, <4>1
    <3> QED BY <2>2, <3>3 DEF records
  <2>6. Recommending!FilledFrom'
    <3>1. \A d \in Calls \ {c} :
            /\ request'[d].step \in {"read", "assign", "lengthen"} => request'[d].ids = Items
            /\ request'[d].step \in {"reread", "lengthen", "use"} => cached_ids' = Items
            /\ request'[d].step = "sample" =>
                 request'[d].ids = IF request'[d].cold THEN {} ELSE Items
            /\ request'[d].cold => request'[d].step \in {"sample", "answered"}
      BY <2>2, <2>4
    <3>2. request'[c].ids = IF request'[c].cold THEN {} ELSE Items
      BY <2>3, <2>4, Zenon
    <3> QED BY <2>4, <3>1, <3>2
  <2>7. Recommending!RecommendationsAreFull'
    BY <2>4
  <2> QED BY <2>5, <2>6, <2>7
<1>4. CASE Recommending!List(c)
  <2>1. /\ request[c].step \in {"list", "fill"} /\ UNCHANGED <<first_run, cached_ids>>
        /\ \E s \in {"sample", "read", "failed"}, ids \in {Items, {}} :
             /\ request' = [request EXCEPT ![c].step = s, ![c].ids = ids]
             /\ s # "failed" => ids = Items
    <3>1. CASE request[c].step = "list" /\ Recommending!GoTo(c, "sample", Items)
      BY <1>4, <3>1 DEF Recommending!List
    <3>2. CASE request[c].step = "fill" /\ Recommending!GoTo(c, "read", Items)
      BY <1>4, <3>2 DEF Recommending!List
    <3>3. CASE request[c].step \in {"list", "fill"} /\ Recommending!GoTo(c, "failed", {})
      BY <1>4, <3>3 DEF Recommending!List
    <3> QED BY <1>4, <3>1, <3>2, <3>3 DEF Recommending!List
  <2>2. PICK s \in {"sample", "read", "failed"}, ids \in {Items, {}} :
          /\ request' = [request EXCEPT ![c].step = s, ![c].ids = ids]
          /\ s # "failed" => ids = Items
    BY <2>1
  <2>3. /\ ~request[c].cold /\ request'[c].cold = request[c].cold
        /\ request'[c].step = s /\ request'[c].ids = ids
        /\ \A d \in Calls \ {c} : request'[d] = request[d]
    BY <2>1, <2>2
  <2>4. Recommending!TypeOK'
    <3> DEFINE steps   == {"start", "list", "fill", "read", "assign", "reread", "lengthen",
                           "use", "sample", "answered", "failed"}
               records == [step : steps, about : Recommending!About,
                           ids : SUBSET Items, cold : BOOLEAN]
               listed  == [request[c] EXCEPT !.step = s, !.ids = ids]
    <3>1. listed \in records
      <4>1. request[c] \in records /\ ids \in SUBSET Items /\ s \in steps
        BY <2>2
      <4> QED BY <4>1
    <3>2. request' = [request EXCEPT ![c] = listed]
      BY <2>2
    <3> HIDE DEF listed, records
    <3>3. request' \in [Calls -> records]
      <4>1. request \in [Calls -> records]
        BY DEF records
      <4> QED BY <3>1, <3>2, <4>1
    <3> QED BY <2>1, <3>3 DEF records
  <2>5. Recommending!FilledFrom' /\ Recommending!RecommendationsAreFull'
    BY <2>1, <2>2, <2>3
  <2> QED BY <2>4, <2>5
<1> QED BY <1>1, <1>2, <1>3, <1>4

(* The list never loses a product again, whichever assignment comes last.  *)
LEMMA CachingKeeps ==
  ASSUME Recommending!IInv, NEW c \in Calls,
         Recommending!ReadCache(c) \/ Recommending!AssignCache(c) \/ Recommending!Reread(c)
           \/ Recommending!Lengthen(c) \/ Recommending!UseCache(c)
  PROVE  Recommending!IInv'
<1> USE DEF Recommending!IInv, Recommending!TypeOK, Recommending!FilledFrom,
            Recommending!RecommendationsAreFull, Recommending!At, Recommending!GoTo
<1>1. CASE Recommending!ReadCache(c)
  BY <1>1 DEF Recommending!ReadCache
<1>2. CASE Recommending!AssignCache(c)
  BY <1>2 DEF Recommending!AssignCache
<1>3. CASE Recommending!Reread(c)
  BY <1>3 DEF Recommending!Reread
<1>4. CASE Recommending!Lengthen(c)
  BY <1>4 DEF Recommending!Lengthen
<1>5. CASE Recommending!UseCache(c)
  BY <1>5 DEF Recommending!UseCache
<1> QED BY <1>1, <1>2, <1>3, <1>4, <1>5

(* The sample is as large as it may be.                                    *)
LEMMA SamplingKeeps ==
  ASSUME Recommending!IInv, NEW c \in Calls, Recommending!Sample(c)
  PROVE  Recommending!IInv'
<1> USE DEF Recommending!IInv, Recommending!TypeOK, Recommending!At, Recommending!GoTo
<1> DEFINE about == request[c].about
           ids   == request[c].ids
           most  == Recommending!Min({MaxResponses, Recommending!Cardinality(ids \ about)})
<1>1. PICK prod_list \in SUBSET (ids \ about) :
        /\ Recommending!Cardinality(prod_list) = most
        /\ request' = [request EXCEPT ![c].step = "answered", ![c].ids = prod_list]
  BY DEF Recommending!Sample, Recommending!kSubset
<1>2. /\ ids = IF request[c].cold THEN {} ELSE Items
      /\ ids \in SUBSET Items /\ UNCHANGED <<first_run, cached_ids>>
      /\ request[c].cold \in BOOLEAN
  BY DEF Recommending!Sample, Recommending!FilledFrom
<1>3. Recommending!TypeOK'
  BY <1>1, <1>2
<1>4. Recommending!FilledFrom'
  BY <1>1, <1>2 DEF Recommending!FilledFrom
<1>5. Recommending!RecommendationsAreFull'
  BY <1>1, <1>2 DEF Recommending!RecommendationsAreFull
<1> QED BY <1>3, <1>4, <1>5

(* recommendation_server.py, lines 67-113: answers are full but for those  *)
(* from a cold cache, however many requests overlap around the two globals.*)
THEOREM RecommendationsAreFullForAll == Recommending!Spec => []RecommendationsAreFull
<1>1. Recommending!IInv /\ [Recommending!Next]_(Recommending!vars) => Recommending!IInv'
  <2> SUFFICES ASSUME Recommending!IInv, [Recommending!Next]_(Recommending!vars)
               PROVE  Recommending!IInv'
    OBVIOUS
  <2>1. CASE UNCHANGED Recommending!vars
    BY <2>1 DEF Recommending!vars, Recommending!IInv, Recommending!TypeOK,
                Recommending!FilledFrom, Recommending!RecommendationsAreFull, Recommending!At
  <2> QED BY <2>1, ListingKeeps, CachingKeeps, SamplingKeeps DEF Recommending!Next
<1>2. Recommending!IInv => RecommendationsAreFull
  BY DEF Recommending!IInv, RecommendationsAreFull
<1> QED BY RecommendingInit, <1>1, <1>2, PTL DEF Recommending!Spec

-----------------------------------------------------------------------------
(* The storage of the flags, for any flags and editors.                    *)

(* A file is a function of some flags.                                     *)
LEMMA FilesAre ==
  /\ \A g \in Flagging!Files : DOMAIN g \subseteq Flags /\ g \in [DOMAIN g -> Variants]
  /\ \A D \in SUBSET Flags : \A g \in [D -> Variants] : g \in Flagging!Files
  /\ <<>> \in Flagging!Files /\ DOMAIN <<>> = {}
<1>1. /\ \A g \in Flagging!Files : DOMAIN g \subseteq Flags /\ g \in [DOMAIN g -> Variants]
      /\ \A D \in SUBSET Flags : \A g \in [D -> Variants] : g \in Flagging!Files
  BY DEF Flagging!Files
<1>2. <<>> \in [{} -> Variants]
  OBVIOUS
<1> QED BY <1>1, <1>2

(* A message is of the dashboard or of an editor.                          *)
LEMMA MessageKinds ==
  ASSUME NEW m \in Flagging!Messages
  PROVE  /\ m # None
         /\ IF Flagging!IsReplace(m)
            THEN m.editor \in Editors /\ m.text \in Flagging!Texts
            ELSE m.flag \in Flags /\ m.variant \in Variants
  BY FilesAreApart DEF Flagging!Apart, Flagging!Messages, Flagging!IsReplace

(* What a message makes of the state is a file, and has what is due in it  *)
(* but for the flag that the message is about.                             *)
LEMMA NewStateIsText ==
  ASSUME Flagging!TypeOK, Flagging!StorageInv, state # None, NEW m \in Flagging!Messages,
         state = Text => Flagging!IsReplace(m)
  PROVE  Flagging!NewState(m) \in Flagging!Texts
<1>1. CASE Flagging!IsReplace(m)
  BY <1>1, MessageKinds DEF Flagging!NewState
<1>2. CASE ~Flagging!IsReplace(m) /\ state = NoFlags
  BY <1>2, FilesAre DEF Flagging!NewState, Flagging!Texts
<1>3. CASE ~Flagging!IsReplace(m) /\ state # NoFlags
  <2>1. state \in Flagging!Files
    BY <1>3 DEF Flagging!TypeOK, Flagging!Texts
  <2>2. m.variant \in Variants
    BY <1>3, MessageKinds
  <2>3. Flagging!NewState(m) \in [DOMAIN state -> Variants] /\ DOMAIN state \in SUBSET Flags
    BY <1>3, <2>1, <2>2, FilesAre DEF Flagging!NewState
  <2> QED BY <2>3, FilesAre DEF Flagging!Texts
<1> QED BY <1>1, <1>2, <1>3

(* The file at first is what the process holds, and no write is due.       *)
LEMMA StorageInit == Flagging!Init => Flagging!IInv
<1> SUFFICES ASSUME Flagging!Init PROVE Flagging!IInv
  OBVIOUS
<1>1. Flagging!TypeOK
  BY FilesAreApart, FilesAre DEF Flagging!Init, Flagging!TypeOK, Flagging!Apart, Flagging!Texts
<1>2. DOMAIN due = {} /\ mailbox = <<>> /\ DOMAIN mailbox = {} /\ doing = None
      /\ file = Shipped /\ state = Shipped /\ Shipped # Partial /\ Shipped # None
      /\ \A e \in Editors : content[e] = None
  BY FilesAreApart, FilesAre DEF Flagging!Init, Flagging!Apart
<1>3. Flagging!StorageInv /\ Flagging!EditorsInv
  BY <1>2 DEF Flagging!StorageInv, Flagging!EditorsInv, Flagging!HasDue
<1> QED BY <1>1, <1>3 DEF Flagging!IInv

(* Casting a message that may be sent leaves the messages so.              *)
LEMMA CastKeeps ==
  ASSUME Flagging!IInv, NEW m \in Flagging!Messages, Flagging!Sent(m), Flagging!Cast(m),
         UNCHANGED <<file, state, doing, content, crashes, stale, due>>
  PROVE  Flagging!IInv'
<1>0. \A k \in DOMAIN mailbox' : IF k \in DOMAIN mailbox THEN mailbox'[k] = mailbox[k]
                                                        ELSE mailbox'[k] = m
  BY DEF Flagging!IInv, Flagging!TypeOK, Flagging!Cast
<1>1. /\ mailbox' \in Seq(Flagging!Messages) /\ casts' \in Nat
      /\ state = None => mailbox' = mailbox
  BY DEF Flagging!IInv, Flagging!TypeOK, Flagging!Cast
<1>2. Flagging!TypeOK'
  BY <1>1 DEF Flagging!IInv, Flagging!TypeOK
<1>3. Flagging!StorageInv'
  BY <1>1 DEF Flagging!IInv, Flagging!StorageInv, Flagging!HasDue, Flagging!NewState
<1>4. \A x : Flagging!Sent(x) => Flagging!Sent(x)'
  BY DEF Flagging!Sent, Flagging!HasDue
<1>5. \A e \in Editors : content[e] # None =>
        Flagging!HasDue(content[e], stale[e]) /\ Flagging!HasDue(content[e], stale[e])'
  BY DEF Flagging!IInv, Flagging!EditorsInv, Flagging!HasDue
<1>6. Flagging!EditorsInv'
  BY <1>0, <1>4, <1>5 DEF Flagging!IInv, Flagging!EditorsInv
<1> QED BY <1>2, <1>3, <1>6 DEF Flagging!IInv

(* The dashboard and the editors send what they may.                       *)
LEMMA SendingKeeps ==
  ASSUME Flagging!IInv,
         (\E f \in Flags, v \in Variants : Flagging!FlagChanged(f, v))
           \/ (\E e \in Editors : Flagging!Save(e))
  PROVE  Flagging!IInv'
<1>1. ASSUME NEW f \in Flags, NEW v \in Variants, Flagging!FlagChanged(f, v)
      PROVE  Flagging!IInv'
  <2> DEFINE m == [editor |-> None, flag |-> f, variant |-> v, text |-> None]
  <2>1. m \in Flagging!Messages /\ Flagging!Sent(m)
    BY DEF Flagging!Messages, Flagging!Sent, Flagging!IsReplace
  <2>2. Flagging!Cast(m) /\ UNCHANGED <<file, state, doing, content, crashes, stale, due>>
    BY <1>1 DEF Flagging!FlagChanged
  <2> HIDE DEF m
  <2> QED BY <2>1, <2>2, CastKeeps
<1>2. ASSUME NEW e \in Editors, Flagging!Save(e)
      PROVE  Flagging!IInv'
  <2> DEFINE m == [editor |-> e, flag |-> None, variant |-> None, text |-> content[e]]
  <2>1. content[e] \in Flagging!Texts /\ content[e] # None
    BY <1>2 DEF Flagging!Save, Flagging!IInv, Flagging!TypeOK
  <2>2. m \in Flagging!Messages
    BY <2>1 DEF Flagging!Messages
  <2>3. Flagging!HasDue(content[e], stale[e])
    BY <2>1 DEF Flagging!IInv, Flagging!EditorsInv
  <2>4. m.editor = e /\ m.text = content[e]
    OBVIOUS
  <2>5. Flagging!Cast(m) /\ UNCHANGED <<file, state, doing, content, crashes, stale, due>>
    BY <1>2 DEF Flagging!Save
  <2> HIDE DEF m
  <2>6. Flagging!Sent(m)
    BY <2>1, <2>3, <2>4 DEF Flagging!Sent
  <2> QED BY <2>2, <2>5, <2>6, CastKeeps
<1> QED BY <1>1, <1>2

(* An editor begins with what the process holds, which is in the file.     *)
LEMMA MountKeeps ==
  ASSUME Flagging!IInv, NEW e \in Editors, Flagging!Mount(e) PROVE Flagging!IInv'
<1>1. /\ content[e] = None /\ state # None /\ doing = None /\ state \in Flagging!Texts
      /\ content' = [content EXCEPT ![e] = state]
      /\ UNCHANGED <<file, state, mailbox, doing, casts, crashes, stale, due>>
  BY DEF Flagging!Mount, Flagging!IInv, Flagging!TypeOK
<1>2. Flagging!TypeOK'
  BY <1>1 DEF Flagging!IInv, Flagging!TypeOK
<1>3. Flagging!StorageInv'
  BY <1>1 DEF Flagging!IInv, Flagging!StorageInv, Flagging!HasDue, Flagging!NewState
<1>4. content'[e] = state /\ \A d \in Editors \ {e} : content'[d] = content[d]
  BY <1>1 DEF Flagging!IInv, Flagging!TypeOK
<1>5. file = state /\ file # Partial
  BY <1>1, FilesAreApart DEF Flagging!IInv, Flagging!StorageInv, Flagging!Apart, Flagging!Texts
<1>6. \A d \in Editors : (content[d] # None => Flagging!HasDue(content[d], stale[d]))'
  <2>1. Flagging!HasDue(state, {})
    BY <1>1, <1>5 DEF Flagging!IInv, Flagging!StorageInv
  <2> QED BY <1>1, <1>4, <2>1 DEF Flagging!IInv, Flagging!EditorsInv, Flagging!HasDue
<1>7. \A m \in Flagging!Messages : Flagging!Sent(m) => Flagging!Sent(m)'
  BY <1>1, <1>4, MessageKinds DEF Flagging!Sent, Flagging!HasDue
<1>8. Flagging!EditorsInv'
  BY <1>1, <1>6, <1>7 DEF Flagging!IInv, Flagging!TypeOK, Flagging!EditorsInv
<1> QED BY <1>2, <1>3, <1>8 DEF Flagging!IInv

(* A flag that its user changed is the editor's own, and so are all when   *)
(* it is no file any more.                                                 *)
LEMMA EditKeeps ==
  ASSUME Flagging!IInv, NEW e \in Editors, Flagging!Edit(e) PROVE Flagging!IInv'
<1> DEFINE text == content[e]
<1>1. PICK new \in Flagging!Texts, flags \in SUBSET Flags :
        /\ content' = [content EXCEPT ![e] = new]
        /\ stale' = [stale EXCEPT ![e] = flags]
        /\ stale[e] \subseteq flags
        /\ flags # Flags => /\ text \in Flagging!Files /\ new \in Flagging!Files
                             /\ DOMAIN new = DOMAIN text
                             /\ \A f \in DOMAIN text \ flags : new[f] = text[f]
  <2>1. text \in Flagging!Texts /\ stale[e] \in SUBSET Flags
    BY DEF Flagging!Edit, Flagging!IInv, Flagging!TypeOK
  <2>2. ASSUME NEW f \in DOMAIN content[e], NEW v \in Variants,
               content[e] \notin {NoFlags, Text},
               content' = [content EXCEPT ![e][f] = v],
               stale' = [stale EXCEPT ![e] = @ \cup {f}]
        PROVE  \E new \in Flagging!Texts, flags \in SUBSET Flags :
                 /\ content' = [content EXCEPT ![e] = new]
                 /\ stale' = [stale EXCEPT ![e] = flags]
                 /\ stale[e] \subseteq flags
                 /\ flags # Flags => /\ text \in Flagging!Files /\ new \in Flagging!Files
                                      /\ DOMAIN new = DOMAIN text
                                      /\ \A g \in DOMAIN text \ flags : new[g] = text[g]
    <3> DEFINE new == [text EXCEPT ![f] = v]
               flags == stale[e] \cup {f}
    <3>1. text \in Flagging!Files
      BY <2>1, <2>2 DEF Flagging!Texts
    <3>2. text \in [DOMAIN text -> Variants] /\ DOMAIN text \in SUBSET Flags
      BY <3>1, FilesAre
    <3>3. /\ new \in [DOMAIN text -> Variants] /\ DOMAIN new = DOMAIN text
          /\ \A g \in DOMAIN text \ flags : new[g] = text[g]
      BY <3>2, <2>2
    <3>4. new \in Flagging!Files
      BY <3>2, <3>3, FilesAre
    <3>5. flags \in SUBSET Flags
      BY <2>1, <2>2, <3>2
    <3>6. content' = [content EXCEPT ![e] = new] /\ stale' = [stale EXCEPT ![e] = flags]
      BY <2>2
    <3>7. new \in Flagging!Texts /\ stale[e] \subseteq flags
      BY <3>4 DEF Flagging!Texts
    <3> HIDE DEF new, flags
    <3> QED BY <3>1, <3>3, <3>4, <3>5, <3>6, <3>7
  <2>3. ASSUME NEW t \in {NoFlags, Text}, content' = [content EXCEPT ![e] = t],
               stale' = [stale EXCEPT ![e] = Flags]
        PROVE  \E new \in Flagging!Texts, flags \in SUBSET Flags :
                 /\ content' = [content EXCEPT ![e] = new]
                 /\ stale' = [stale EXCEPT ![e] = flags]
                 /\ stale[e] \subseteq flags
                 /\ flags = Flags
    <3>1. t \in Flagging!Texts
      BY DEF Flagging!Texts
    <3> QED BY <2>1, <2>3, <3>1
  <2> QED BY <2>2, <2>3 DEF Flagging!Edit
<1>2. content[e] # None /\ UNCHANGED <<file, state, mailbox, doing, casts, crashes, due>>
  BY DEF Flagging!Edit
<1>3. /\ content'[e] = new /\ \A d \in Editors \ {e} : content'[d] = content[d]
      /\ stale'[e] = flags /\ \A d \in Editors \ {e} : stale'[d] = stale[d]
  BY <1>1 DEF Flagging!IInv, Flagging!TypeOK
<1>4. Flagging!TypeOK'
  BY <1>1, <1>2 DEF Flagging!IInv, Flagging!TypeOK
<1>5. Flagging!StorageInv'
  BY <1>2 DEF Flagging!IInv, Flagging!StorageInv, Flagging!HasDue, Flagging!NewState
<1>6. new # None /\ DOMAIN due \subseteq Flags
  BY <1>2, FilesAre, FilesAreApart
     DEF Flagging!Apart, Flagging!Texts, Flagging!IInv, Flagging!TypeOK
<1>7. \A d \in Editors : (content[d] # None => Flagging!HasDue(content[d], stale[d]))'
  <2>1. Flagging!HasDue(content[e], stale[e])'
    BY <1>1, <1>2, <1>3, <1>6 DEF Flagging!IInv, Flagging!EditorsInv, Flagging!HasDue
  <2> QED BY <1>2, <1>3, <2>1 DEF Flagging!IInv, Flagging!EditorsInv, Flagging!HasDue
<1>8. \A m \in Flagging!Messages : Flagging!Sent(m) => Flagging!Sent(m)'
  BY <1>1, <1>2, <1>3, <1>6, MessageKinds DEF Flagging!Sent, Flagging!HasDue
<1>9. Flagging!EditorsInv'
  BY <1>2, <1>7, <1>8 DEF Flagging!IInv, Flagging!TypeOK, Flagging!EditorsInv
<1> QED BY <1>4, <1>5, <1>9 DEF Flagging!IInv

(* Started again, the process holds what is in the file, if it can.        *)
LEMMA RestartKeeps ==
  ASSUME Flagging!IInv, Flagging!Refuse \/ Flagging!Crash PROVE Flagging!IInv'
<1>1. /\ state' = (IF file = Partial THEN None ELSE file)
      /\ mailbox' = <<>> /\ doing' = None /\ crashes' \in Nat
      /\ UNCHANGED <<file, content, casts, stale, due>>
  BY DEF Flagging!Refuse, Flagging!Crash, Flagging!Restarted, Flagging!IInv, Flagging!TypeOK
<1>2. Flagging!TypeOK'
  BY <1>1 DEF Flagging!IInv, Flagging!TypeOK
<1>3. file # None
  BY FilesAreApart DEF Flagging!Apart, Flagging!IInv, Flagging!TypeOK, Flagging!Texts
<1>4. Flagging!StorageInv'
  BY <1>1, <1>3 DEF Flagging!IInv, Flagging!StorageInv, Flagging!HasDue
<1>5. Flagging!EditorsInv'
  BY <1>1 DEF Flagging!IInv, Flagging!EditorsInv, Flagging!HasDue
<1> QED BY <1>2, <1>4, <1>5 DEF Flagging!IInv

(* The first message is taken in hand, and the file emptied.               *)
LEMMA OpenKeeps ==
  ASSUME Flagging!IInv, Flagging!Open PROVE Flagging!IInv'
<1>1. /\ doing = None /\ mailbox # <<>> /\ mailbox \in Seq(Flagging!Messages)
      /\ state = Text => Flagging!IsReplace(Head(mailbox))
      /\ doing' = Head(mailbox) /\ mailbox' = Tail(mailbox) /\ file' = Partial
      /\ UNCHANGED <<state, content, casts, crashes, stale, due>>
  BY DEF Flagging!Open, Flagging!IInv, Flagging!TypeOK
<1>2. /\ Head(mailbox) \in Flagging!Messages /\ Tail(mailbox) \in Seq(Flagging!Messages)
      /\ 1 \in DOMAIN mailbox /\ Head(mailbox) = mailbox[1]
      /\ \A k \in DOMAIN Tail(mailbox) : k + 1 \in DOMAIN mailbox
                                       /\ Tail(mailbox)[k] = mailbox[k + 1]
  BY <1>1
<1>3. Flagging!TypeOK'
  BY <1>1, <1>2 DEF Flagging!IInv, Flagging!TypeOK
<1>4. state # None /\ file = state /\ file # Partial /\ Head(mailbox) # None
  BY <1>1, <1>2, FilesAreApart, MessageKinds
     DEF Flagging!IInv, Flagging!StorageInv, Flagging!Apart, Flagging!TypeOK, Flagging!Texts
<1>5. Flagging!StorageInv'
  <2>1. Flagging!HasDue(state, {})'
    BY <1>1, <1>4 DEF Flagging!IInv, Flagging!StorageInv, Flagging!HasDue
  <2>2. Flagging!IsReplace(doing)' = Flagging!IsReplace(Head(mailbox))
    BY <1>1 DEF Flagging!IsReplace
  <2> QED BY <1>1, <1>4, <2>1, <2>2 DEF Flagging!StorageInv
<1>6. \A m \in Flagging!Messages : Flagging!Sent(m) => Flagging!Sent(m)'
  BY <1>1 DEF Flagging!Sent, Flagging!HasDue
<1>7. \A d \in Editors : (content[d] # None => Flagging!HasDue(content[d], stale[d]))'
  BY <1>1 DEF Flagging!IInv, Flagging!EditorsInv, Flagging!HasDue
<1>8. Flagging!EditorsInv'
  BY <1>1, <1>2, <1>4, <1>6, <1>7 DEF Flagging!IInv, Flagging!EditorsInv
<1> QED BY <1>3, <1>5, <1>8 DEF Flagging!IInv

(* The write itself: the file has what the message makes of the state, and *)
(* so the variant written, or all that an editor may not undo.             *)
LEMMA WriteKeeps ==
  ASSUME Flagging!IInv, Flagging!Write PROVE Flagging!IInv'
<1> DEFINE m == doing
<1>1. /\ m # None /\ m \in Flagging!Messages /\ file = Partial /\ state # None
      /\ file' = Flagging!NewState(m)
      /\ UNCHANGED <<state, mailbox, doing, content, casts, crashes>>
      /\ state = Text => Flagging!IsReplace(m)
      /\ Flagging!HasDue(state, {}) /\ Flagging!Sent(m)
  BY DEF Flagging!Write, Flagging!IInv, Flagging!TypeOK, Flagging!StorageInv,
         Flagging!EditorsInv
<1>2. file' \in Flagging!Texts /\ file' # Partial /\ due \in Flagging!Files
  BY <1>1, NewStateIsText, FilesAreApart
     DEF Flagging!IInv, Flagging!Apart, Flagging!Texts, Flagging!TypeOK
<1>3. Flagging!NewState(m)' = Flagging!NewState(m)
      /\ Flagging!IsReplace(m)' = Flagging!IsReplace(m)
  BY <1>1 DEF Flagging!NewState, Flagging!IsReplace
<1>4. CASE Flagging!IsReplace(m)
  <2> DEFINE mine == stale[m.editor]
  <2>1. /\ due' = [f \in DOMAIN due \ mine |-> due[f]]
        /\ UNCHANGED stale /\ file' = m.text /\ Flagging!HasDue(m.text, mine)
    BY <1>1, <1>4 DEF Flagging!Write, Flagging!Restrict, Flagging!NewState, Flagging!Sent
  <2>2. due' \in Flagging!Files
    <3>1. due' \in [DOMAIN due \ mine -> Variants] /\ DOMAIN due \subseteq Flags
      BY <2>1, <1>2, FilesAre
    <3> QED BY <3>1, FilesAre
  <2>3. Flagging!TypeOK'
    BY <1>1, <1>2, <2>1, <2>2 DEF Flagging!IInv, Flagging!TypeOK
  <2>4. Flagging!HasDue(file, {})'
    BY <2>1 DEF Flagging!HasDue
  <2>5. Flagging!StorageInv'
    <3>1. Flagging!IsReplace(doing)' /\ file' = Flagging!NewState(doing)'
      BY <1>1, <1>3, <1>4
    <3> QED BY <1>1, <1>2, <2>4, <3>1 DEF Flagging!StorageInv
  <2>6. \A t, flags : Flagging!HasDue(t, flags) =>
          \A f \in DOMAIN due' \ flags : t \in Flagging!Files /\ f \in DOMAIN t /\ t[f] = due'[f]
    BY <2>1 DEF Flagging!HasDue
  <2>7. Flagging!EditorsInv'
    <3>1. \A x \in Flagging!Messages : Flagging!Sent(x) => Flagging!Sent(x)'
      BY <1>1, <2>1, <2>6 DEF Flagging!Sent, Flagging!HasDue
    <3>2. \A d \in Editors : (content[d] # None => Flagging!HasDue(content[d], stale[d]))'
      BY <1>1, <2>1, <2>6 DEF Flagging!IInv, Flagging!EditorsInv, Flagging!HasDue
    <3> QED BY <1>1, <3>1, <3>2 DEF Flagging!IInv, Flagging!TypeOK, Flagging!EditorsInv
  <2> QED BY <2>3, <2>5, <2>7 DEF Flagging!IInv
<1>5. CASE ~Flagging!IsReplace(m)
  <2> DEFINE flag == m.flag
             there == state # NoFlags /\ flag \in DOMAIN state
  <2>1. flag \in Flags /\ m.variant \in Variants
    BY <1>1, <1>5, MessageKinds
  <2>2. stale' = [e \in Editors |-> IF content[e] = None THEN {} ELSE stale[e] \cup {flag}]
    BY <1>1, <1>5 DEF Flagging!Write
  <2>3. /\ there => due' = [f \in DOMAIN due \cup {flag} |->
                             IF f = flag THEN m.variant ELSE due[f]]
        /\ ~there => due' = due
    BY <1>1, <1>5 DEF Flagging!Write
  <2>4. due' \in Flagging!Files
    <3>1. due \in [DOMAIN due -> Variants] /\ DOMAIN due \subseteq Flags
      BY <1>2, FilesAre
    <3>2. CASE there
      <4>1. due' \in [DOMAIN due \cup {flag} -> Variants]
        BY <2>1, <2>3, <3>1, <3>2
      <4> QED BY <2>1, <3>1, <4>1, FilesAre
    <3> QED BY <1>2, <2>3, <3>2
  <2>5. Flagging!TypeOK'
    <3>1. stale' \in [Editors -> SUBSET Flags]
      BY <2>1, <2>2 DEF Flagging!IInv, Flagging!TypeOK
    <3> QED BY <1>1, <1>2, <2>4, <3>1 DEF Flagging!IInv, Flagging!TypeOK
  <2>6. Flagging!HasDue(file, {})'
    <3>1. CASE state = NoFlags
      <4>1. DOMAIN due = {} /\ due' = due
        BY <1>1, <2>3, <3>1, FilesAreApart DEF Flagging!HasDue, Flagging!Apart
      <4> QED BY <4>1 DEF Flagging!HasDue
    <3>2. CASE state # NoFlags
      <4>1. state \in Flagging!Files
        BY <1>1, <1>5, <3>2 DEF Flagging!IInv, Flagging!TypeOK, Flagging!Texts
      <4>2. file' = [f \in DOMAIN state |-> IF f = flag THEN m.variant ELSE state[f]]
        BY <1>1, <1>5, <3>2 DEF Flagging!NewState
      <4>3. file' \in Flagging!Files
        <5>1. file' \in [DOMAIN state -> Variants] /\ DOMAIN state \subseteq Flags
          BY <2>1, <4>1, <4>2, FilesAre
        <5> QED BY <5>1, FilesAre
      <4>4. \A f \in DOMAIN due : f \in DOMAIN state /\ state[f] = due[f]
        BY <1>1 DEF Flagging!HasDue
      <4>5. \A f \in DOMAIN due' : f \in DOMAIN file' /\ file'[f] = due'[f]
        BY <2>3, <3>2, <4>2, <4>4
      <4> QED BY <4>3, <4>5 DEF Flagging!HasDue
    <3> QED BY <3>1, <3>2
  <2>7. Flagging!StorageInv'
    <3>1. state' # Text /\ file' = Flagging!NewState(doing)'
      BY <1>1, <1>3, <1>5
    <3> QED BY <1>1, <1>2, <2>6, <3>1 DEF Flagging!StorageInv
  <2>8. \A f \in DOMAIN due' \ {flag} : f \in DOMAIN due /\ due'[f] = due[f]
    BY <2>3
  <2>9. \A d \in Editors : content[d] # None => stale'[d] = stale[d] \cup {flag}
    BY <2>2
  <2>10. Flagging!EditorsInv'
    <3>1. \A x \in Flagging!Messages : Flagging!Sent(x) => Flagging!Sent(x)'
      BY <1>1, <2>8, <2>9, MessageKinds DEF Flagging!Sent, Flagging!HasDue, Flagging!IsReplace
    <3>2. \A d \in Editors : (content[d] # None => Flagging!HasDue(content[d], stale[d]))'
      BY <1>1, <2>8, <2>9 DEF Flagging!IInv, Flagging!EditorsInv, Flagging!HasDue
    <3> QED BY <1>1, <3>1, <3>2 DEF Flagging!IInv, Flagging!TypeOK, Flagging!EditorsInv
  <2> QED BY <2>5, <2>7, <2>10 DEF Flagging!IInv
<1> QED BY <1>4, <1>5

(* After the write the process comes to hold what is in the file.          *)
LEMMA FinishKeeps ==
  ASSUME Flagging!IInv, Flagging!Finish PROVE Flagging!IInv'
<1>1. /\ doing \in Flagging!Messages /\ file = Flagging!NewState(doing) /\ file # Partial
      /\ state' = file /\ doing' = None /\ file \in Flagging!Texts /\ file # None
      /\ UNCHANGED <<file, mailbox, content, casts, crashes, stale, due>>
  BY FilesAreApart
     DEF Flagging!Finish, Flagging!IInv, Flagging!TypeOK, Flagging!StorageInv,
         Flagging!Apart, Flagging!Texts
<1>2. Flagging!TypeOK'
  BY <1>1 DEF Flagging!IInv, Flagging!TypeOK
<1>3. Flagging!StorageInv'
  BY <1>1 DEF Flagging!IInv, Flagging!StorageInv, Flagging!HasDue
<1>4. \A m \in Flagging!Messages : Flagging!Sent(m) => Flagging!Sent(m)'
  BY <1>1 DEF Flagging!Sent, Flagging!HasDue
<1>5. \A d \in Editors : (content[d] # None => Flagging!HasDue(content[d], stale[d]))'
  BY <1>1 DEF Flagging!IInv, Flagging!EditorsInv, Flagging!HasDue
<1>6. Flagging!EditorsInv'
  BY <1>1, <1>4, <1>5 DEF Flagging!IInv, Flagging!TypeOK, Flagging!EditorsInv
<1> QED BY <1>2, <1>3, <1>6 DEF Flagging!IInv

(* storage.ex, lines 34-84: between messages the file is what the process  *)
(* holds, and has the last variant written of every flag that no editor    *)
(* may undo, for any flags and editors and however often the process dies. *)
THEOREM HandledWritesLastForAll == Flagging!Spec => []HandledWritesLast
<1>1. Flagging!IInv /\ [Flagging!Next]_(Flagging!vars) => Flagging!IInv'
  <2> SUFFICES ASSUME Flagging!IInv, [Flagging!Next]_(Flagging!vars) PROVE Flagging!IInv'
    OBVIOUS
  <2>1. CASE UNCHANGED Flagging!vars
    <3>1. Flagging!TypeOK' /\ Flagging!StorageInv'
      BY <2>1 DEF Flagging!vars, Flagging!IInv, Flagging!TypeOK, Flagging!StorageInv,
                  Flagging!HasDue, Flagging!NewState
    <3>2. Flagging!EditorsInv'
      BY <2>1 DEF Flagging!vars, Flagging!IInv, Flagging!EditorsInv, Flagging!Sent,
                  Flagging!HasDue
    <3> QED BY <3>1, <3>2 DEF Flagging!IInv
  <2> QED BY <2>1, SendingKeeps, MountKeeps, EditKeeps, RestartKeeps, OpenKeeps, WriteKeeps,
             FinishKeeps DEF Flagging!Next
<1>2. Flagging!IInv => HandledWritesLast
  <2> SUFFICES ASSUME Flagging!IInv, state # None, doing = None
               PROVE  /\ file = state
                      /\ \A f \in DOMAIN due : f \in DOMAIN file /\ file[f] = due[f]
    BY DEF HandledWritesLast, Flagging!HandledWritesLast
  <2>1. file = state /\ file # Partial
    BY FilesAreApart DEF Flagging!IInv, Flagging!StorageInv, Flagging!TypeOK,
                         Flagging!Apart, Flagging!Texts
  <2> QED BY <2>1 DEF Flagging!IInv, Flagging!StorageInv, Flagging!HasDue
<1> QED BY StorageInit, <1>1, <1>2, PTL DEF Flagging!Spec

-----------------------------------------------------------------------------
(* The currency service, for any calls, codes, rates and amounts.          *)

(* Induction without an operator: a set of numbers has a least one.        *)
LEMMA LeastNumber ==
  ASSUME NEW T, T \subseteq Nat, T # {}
  PROVE  \E n \in T : \A m \in T : n <= m
<1> DEFINE R == OpToRel(<, Nat)
<1>1. IsWellFoundedOn(R, Nat)
  BY NatLessThanWellFounded
<1>2. \A m, n \in Nat : m < n => <<m, n>> \in R
  BY DEF OpToRel
<1> HIDE DEF R
<1>3. PICK n \in T : \A m \in T : ~(<<m, n>> \in R)
  BY <1>1, WFMin, Zenon
<1>4. ASSUME NEW m \in T PROVE n <= m
  <2>1. n \in Nat /\ m \in Nat
    OBVIOUS
  <2>2. ~(m < n)
    BY <1>2, <1>3, <2>1
  <2> QED BY <2>1, <2>2
<1> QED BY <1>4

(* Of two powers of ten the greater is ten times the less, or more, and a  *)
(* multiple of it.                                                         *)
LEMMA PowersAre ==
  /\ Converting!Powers \subseteq Nat \ {0}
  /\ \A p, q \in Converting!Powers : p < q => 10 * p <= q /\ 10 * p \in Converting!Powers
  /\ \A p, q \in Converting!Powers : p <= q => q = p * (q \div p) /\ q \div p \in Nat
  BY SMT DEF Converting!Powers

(* Nanos are less than some power of ten up to NanosMod.                   *)
LEMMA ScaleIs ==
  ASSUME NEW n \in 0..(NanosMod - 1)
  PROVE  /\ Converting!Scale(n) \in Converting!Powers
         /\ n < Converting!Scale(n) /\ Converting!Scale(n) <= NanosMod
         /\ Converting!Scale(n) = 1 \/ Converting!Scale(n) <= 10 * n
<1>1. \E p \in Converting!Powers : n < p /\ (p = 1 \/ p <= 10 * n)
  BY MoneyIsSound, SMT DEF Converting!Powers, Converting!Sound
<1>2. /\ Converting!Scale(n) \in Converting!Powers /\ n < Converting!Scale(n)
      /\ Converting!Scale(n) = 1 \/ Converting!Scale(n) <= 10 * n
  BY <1>1 DEF Converting!Scale
<1>3. Converting!Scale(n) <= NanosMod
  <2> DEFINE p == Converting!Scale(n)
  <2> HIDE DEF p
  <2>1. p \in Converting!Powers /\ n < p /\ (p = 1 \/ p <= 10 * n)
    BY <1>2 DEF p
  <2>2. p <= NanosMod
    BY <2>1, PowersAre, MoneyIsSound DEF Converting!Sound
  <2> QED BY <2>2 DEF p
<1> QED BY <1>2, <1>3

(* No other power of ten is next to them.                                  *)
LEMMA ScaleIsUnique ==
  ASSUME NEW n \in 0..(NanosMod - 1), NEW q \in Converting!Powers, n < q, q = 1 \/ q <= 10 * n
  PROVE  Converting!Scale(n) = q
<1> DEFINE p == Converting!Scale(n)
<1>1. p \in Converting!Powers /\ n < p /\ (p = 1 \/ p <= 10 * n)
  BY ScaleIs
<1> HIDE DEF p
<1>2. /\ p \in Nat \ {0} /\ q \in Nat \ {0} /\ n \in Nat
      /\ p < q => 10 * p <= q
      /\ q < p => 10 * q <= p
  BY <1>1, PowersAre, MoneyIsSound DEF Converting!Sound
<1>3. p = q
  BY <1>1, <1>2
<1> QED BY <1>3 DEF p

(* Without the last digit it is the power before.                          *)
LEMMA ScaleStep ==
  ASSUME NEW n \in 1..(NanosMod - 1)
  PROVE  /\ n \div 10 \in 0..(NanosMod - 1) 
         /\ Converting!Scale(n) = 10 * Converting!Scale(n \div 10)
<1> DEFINE a == n \div 10
           q == Converting!Scale(a)
<1>1. NanosMod \in Nat /\ NanosMod \in Converting!Powers
  BY MoneyIsSound, PowersAre DEF Converting!Sound
<1>2. a \in 0..(NanosMod - 1) /\ 10 * a <= n /\ n < 10 * a + 10
  BY <1>1, SMT
<1> HIDE DEF a
<1>3. q \in Converting!Powers /\ a < q /\ (q = 1 \/ q <= 10 * a)
  BY <1>2, ScaleIs, SMT
<1> HIDE DEF q
<1>4. q \in Nat /\ n < 10 * q /\ q <= n 
  BY <1>1, <1>2, <1>3, PowersAre, SMT
<1>5. 10 * q \in Converting!Powers /\ 10 * q <= 10 * n
  BY <1>1, <1>3, <1>4, PowersAre, SMT
<1>6. Converting!Scale(n) = 10 * q
  BY <1>1, <1>4, <1>5, ScaleIsUnique, SMT
<1> QED BY <1>2, <1>6 DEF q, a

(* What was shifted in by the loop comes out again as it was.              *)
LEMMA Carried ==
  ASSUME NEW p \in Converting!Powers, NEW d \in Nat, NEW t \in Nat
  PROVE  (d \div 10 + t * p) \div p = d \div (10 * p) + t
<1>1. CASE p = 1 BY <1>1, SMT
<1>2. CASE p = 10 BY <1>2, SMT
<1>3. CASE p = 100 BY <1>3, SMT
<1>4. CASE p = 1000 BY <1>4, SMT
<1>5. CASE p = 10000 BY <1>5, SMT
<1>6. CASE p = 100000 BY <1>6, SMT
<1>7. CASE p = 1000000 BY <1>7, SMT
<1>8. CASE p = 10000000 BY <1>8, SMT
<1>9. CASE p = 100000000 BY <1>9, SMT
<1>10. CASE p = 1000000000 BY <1>10, SMT
<1> QED BY <1>1, <1>2, <1>3, <1>4, <1>5, <1>6, <1>7, <1>8, <1>9, <1>10, SMT
           DEF Converting!Powers

(* A round of the loop does not change what comes of it in the end.        *)
LEMMA ClosedStep ==
  ASSUME NEW n \in 1..(NanosMod - 1), NEW d \in 0..NanosMod
  PROVE  /\ Converting!Shift(n, d) \in 0..NanosMod
         /\ Converting!Closed(n, d) = Converting!Closed(n \div 10, Converting!Shift(n, d))
<1> DEFINE p == Converting!Scale(n \div 10)
           a == n \div 10
           r == n % 10
           q == NanosMod \div (10 * p)
<1>1. NanosMod \in Nat /\ a \in Nat /\ r \in 0..9 /\ n = 10 * a + r
  BY MoneyIsSound, PowersAre, SMT DEF Converting!Sound
<1>2. /\ p \in Converting!Powers /\ 10 * p \in Converting!Powers
      /\ 10 * p <= NanosMod /\ Converting!Scale(n) = 10 * p
  <2>1. a \in 0..(NanosMod - 1) /\ n \in 0..(NanosMod - 1) /\ Converting!Scale(n) = 10 * p
    BY ScaleStep, <1>1, SMT
  <2>2. p \in Converting!Powers
    BY <2>1, ScaleIs, Zenon
  <2>3. Converting!Scale(n) \in Converting!Powers /\ Converting!Scale(n) <= NanosMod
    BY <2>1, ScaleIs, Zenon
  <2> HIDE DEF p, a
  <2> QED BY <2>1, <2>2, <2>3, SMT
<1>3. p \in Nat \ {0} /\ q \in Nat /\ NanosMod = (10 * p) * q
  <2> HIDE DEF p, a
  <2>1. NanosMod \in Converting!Powers /\ p \in Nat \ {0}
    BY <1>2, PowersAre, MoneyIsSound, Zenon DEF Converting!Sound
  <2>2. NanosMod = (10 * p) * (NanosMod \div (10 * p)) /\ NanosMod \div (10 * p) \in Nat
    BY <1>2, <2>1, PowersAre, Zenon
  <2> QED BY <2>1, <2>2, Zenon
<1> HIDE DEF p, a, r, q
<1>4. NanosMod \div 10 = p * q /\ NanosMod \div p = 10 * q
  <2>1. NanosMod = 10 * (p * q) /\ NanosMod = p * (10 * q) /\ p * q \in Nat /\ 10 * q \in Nat
    BY <1>3, SMT
  <2> DEFINE whole == 10 * q
  <2> HIDE DEF whole
  <2>2. NanosMod \div p = whole
    BY <1>3, <2>1, SMT DEF whole
  <2>3. NanosMod \div 10 = p * q
    BY <1>3, <2>1, SMT
  <2> QED BY <2>2, <2>3 DEF whole
<1>5. Converting!Shift(n, d) = d \div 10 + (r * q) * p
  BY <1>1, <1>3, <1>4 DEF Converting!Shift, r
<1>6. Converting!Shift(n, d) \in 0..NanosMod
  <2> DEFINE tenth == NanosMod \div 10
             e == d \div 10
  <2>1. NanosMod = 10 * tenth /\ tenth \in Nat
    BY <1>3, <1>4, SMT
  <2>2. e \in Nat /\ e <= tenth
    BY <1>1, SMT
  <2>3. Converting!Shift(n, d) = e + r * tenth
    BY DEF Converting!Shift, r
  <2> HIDE DEF tenth, e
  <2>4. r * tenth \in Nat /\ r * tenth <= 9 * tenth
    BY <2>1, <1>1, SMT
  <2> QED BY <2>1, <2>2, <2>3, <2>4, SMT
<1>7. Converting!Shift(n, d) \div p = d \div (10 * p) + r * q
  <2>1. r * q \in Nat /\ d \in Nat
    BY <1>1, <1>3, SMT
  <2> QED BY <1>2, <1>5, <2>1, Carried, Zenon
<1>8. Converting!Closed(n, d) = d \div (10 * p) + n * q
  BY <1>2 DEF Converting!Closed, q
<1>9. Converting!Closed(a, Converting!Shift(n, d)) = Converting!Shift(n, d) \div p + a * (10 * q)
  BY <1>4 DEF Converting!Closed, p, a
<1>10. n * q = a * (10 * q) + r * q
  BY <1>1, <1>3
<1> QED BY <1>1, <1>3, <1>6, <1>7, <1>8, <1>9, <1>10 DEF a

(* The recursion has a solution, the closed form, so that its equation     *)
(* holds.                                                                  *)
LEMMA DecimalStep ==
  ASSUME NEW n \in 0..(NanosMod - 1), NEW d \in 0..NanosMod
  PROVE  /\ n = 0 => Converting!Decimal[n][d] = d
         /\ n # 0 => Converting!Decimal[n][d] =
                       Converting!Decimal[n \div 10][Converting!Shift(n, d)]
<1> DEFINE N == 0..(NanosMod - 1)
           D == 0..NanosMod
           G == [a \in N |-> [b \in D |-> Converting!Closed(a, b)]]
           Round(f) == [a \in N |-> [b \in D |->
                          IF a = 0 THEN b ELSE f[a \div 10][Converting!Shift(a, b)]]]
<1>1. NanosMod \in Nat \ {0}
  BY MoneyIsSound, PowersAre DEF Converting!Sound
<1>2. ASSUME NEW a \in N, NEW b \in D
      PROVE  Converting!Closed(a, b) =
               IF a = 0 THEN b ELSE G[a \div 10][Converting!Shift(a, b)]
  <2>1. CASE a = 0
    <3>1. 1 \in Converting!Powers
      BY SMT DEF Converting!Powers
    <3>2. Converting!Scale(0) = 1
      BY <1>1, <3>1, ScaleIsUnique, SMT
    <3>3. Converting!Closed(0, b) = b \div 1 + 0 * (NanosMod \div 1)
      BY <3>2 DEF Converting!Closed
    <3>4. b \div 1 + 0 * (NanosMod \div 1) = b
      BY <1>1, SMT
    <3> QED BY <2>1, <3>3, <3>4
  <2>2. CASE a # 0
    <3>1. a \in 1..(NanosMod - 1)
      BY <1>1, <2>2, SMT
    <3>2. a \div 10 \in N /\ Converting!Shift(a, b) \in D
      BY <3>1, ScaleStep, ClosedStep
    <3>3. Converting!Closed(a, b) = Converting!Closed(a \div 10, Converting!Shift(a, b))
      BY <3>1, ClosedStep
    <3> HIDE DEF N, D
    <3> QED BY <2>2, <3>2, <3>3
  <2> QED BY <2>1, <2>2
<1>3. G = Round(G)
  <2> HIDE DEF N, D
  <2> QED BY <1>2, Zenon
<1>4. Converting!Decimal = CHOOSE f : f = Round(f)
  BY DEF Converting!Decimal
<1>5. Converting!Decimal = Round(Converting!Decimal)
  <2> HIDE DEF G, Round
  <2> QED BY <1>3, <1>4, Zenon
<1>6. Converting!Decimal[n] = [b \in D |->
        IF n = 0 THEN b ELSE Converting!Decimal[n \div 10][Converting!Shift(n, b)]]
  <2> HIDE DEF N, D, G
  <2>1. n \in N
    BY DEF N
  <2> QED BY <1>5, <2>1
<1> QED BY <1>6

(* By induction on nanos, the loop computes the closed form.               *)
LEMMA DecimalIsClosed ==
  \A n \in 0..(NanosMod - 1), d \in 0..NanosMod :
    Converting!Decimal[n][d] = Converting!Closed(n, d)
<1> DEFINE T == {n \in 0..(NanosMod - 1) : \E d \in 0..NanosMod :
                   Converting!Decimal[n][d] # Converting!Closed(n, d)}
<1>1. NanosMod \in Nat \ {0}
  BY MoneyIsSound, PowersAre DEF Converting!Sound
<1>2. SUFFICES ASSUME T # {} PROVE FALSE
  OBVIOUS
<1>3. PICK n \in T : \A m \in T : n <= m
  <2>1. T \subseteq Nat
    BY <1>1
  <2> HIDE DEF T
  <2> QED BY <1>2, <2>1, LeastNumber
<1>4. PICK d \in 0..NanosMod : Converting!Decimal[n][d] # Converting!Closed(n, d)
  BY <1>3
<1>5. CASE n = 0
  <2>1. 1 \in Converting!Powers
    BY SMT DEF Converting!Powers
  <2>2. Converting!Scale(0) = 1
    BY <1>1, <2>1, ScaleIsUnique, SMT
  <2>3. Converting!Closed(0, d) = d \div 1 + 0 * (NanosMod \div 1)
    BY <2>2 DEF Converting!Closed
  <2>4. d \div 1 + 0 * (NanosMod \div 1) = d
    BY <1>1, SMT
  <2>5. Converting!Decimal[0][d] = d
    BY <1>5, DecimalStep
  <2> QED BY <1>4, <1>5, <2>3, <2>4, <2>5
<1>6. CASE n # 0
  <2>1. n \in 1..(NanosMod - 1) /\ n \div 10 < n
    BY <1>1, <1>3, <1>6, SMT
  <2>2. n \div 10 \in 0..(NanosMod - 1) /\ Converting!Shift(n, d) \in 0..NanosMod
        /\ Converting!Closed(n, d) = Converting!Closed(n \div 10, Converting!Shift(n, d))
    BY <2>1, ScaleStep, ClosedStep
  <2>3. n \div 10 \notin T
    BY <1>1, <1>3, <2>1, <2>2, SMT
  <2>4. Converting!Decimal[n \div 10][Converting!Shift(n, d)] =
          Converting!Closed(n \div 10, Converting!Shift(n, d))
    BY <2>2, <2>3, Zenon
  <2>5. Converting!Decimal[n][d] = Converting!Decimal[n \div 10][Converting!Shift(n, d)]
    BY <1>3, <1>6, DecimalStep
  <2> QED BY <1>4, <2>2, <2>4, <2>5
<1> QED BY <1>5, <1>6

(* getDouble never loses value, and none is added when the first decimal   *)
(* is not zero.                                                            *)
LEMMA DecimalIsAtLeast ==
  ASSUME NEW n \in 0..(NanosMod - 1)
  PROVE  /\ Converting!Decimal[n][0] \in Nat
         /\ n <= Converting!Decimal[n][0]
         /\ n = 0 \/ n * 10 >= NanosMod => Converting!Decimal[n][0] = n
<1> DEFINE p == Converting!Scale(n)
           q == NanosMod \div p
<1>1. NanosMod \in Nat \ {0} /\ NanosMod \in Converting!Powers /\ 0 \in 0..NanosMod
  BY MoneyIsSound, PowersAre DEF Converting!Sound
<1>2. p \in Converting!Powers /\ n < p /\ p <= NanosMod
  BY ScaleIs
<1>3. Converting!Decimal[n][0] = 0 \div p + n * q
  <2>1. Converting!Decimal[n][0] = Converting!Closed(n, 0)
    BY <1>1, DecimalIsClosed
  <2> QED BY <2>1 DEF Converting!Closed
<1> HIDE DEF p
<1>4. p \in Nat \ {0} /\ NanosMod = p * q /\ q \in Nat
  BY <1>1, <1>2, PowersAre
<1> HIDE DEF q
<1>5. q >= 1
  BY <1>1, <1>4, SMT
<1>6. 0 \div p = 0
  BY <1>4, SMT
<1>7. n * q \in Nat /\ n <= n * q
  BY <1>1, <1>4, <1>5, SMT
<1>8. n * 10 >= NanosMod => q = 1
  <2> SUFFICES ASSUME n * 10 >= NanosMod PROVE q = 1
    OBVIOUS
  <2>1. ~(p < NanosMod)
    BY <1>1, <1>2, <1>4, PowersAre, SMT
  <2>2. p = NanosMod
    BY <1>1, <1>2, <1>4, <2>1, SMT
  <2> QED BY <1>1, <1>4, <2>2, SMT
<1>9. Converting!Decimal[n][0] = n * q
  BY <1>3, <1>6, <1>7, SMT
<1>10. n = 0 \/ n * 10 >= NanosMod => n * q = n
  BY <1>4, <1>8, SMT
<1> QED BY <1>7, <1>9, <1>10

(* Multiplying and dividing by rates keeps the order of amounts.           *)
LEMMA RatesKeepOrder ==
  ASSUME NEW x \in Nat, NEW y \in Nat, x <= y, NEW r \in Nat, NEW s \in Nat \ {0}
  PROVE  /\ (x * r) \div s \in Nat /\ (y * r) \div s \in Nat
         /\ (x * r) \div s <= (y * r) \div s
<1> DEFINE a == x * r
           b == y * r
<1>1. a \in Nat /\ b \in Nat /\ a <= b
  BY SMT
<1> HIDE DEF a, b
<1>2. a \div s \in Nat /\ b \div s \in Nat /\ a \div s <= b \div s
  BY <1>1, SMT
<1> QED BY <1>2 DEF a, b

(* A greater amount has a greater slack, but not by more than it is        *)
(* greater.                                                                *)
LEMMA SlackKeepsOrder ==
  ASSUME NEW v \in Nat, NEW w \in Nat, v <= w
  PROVE  /\ Converting!Slack(v) \in Nat /\ Converting!Slack(w) \in Nat
         /\ v - Converting!Slack(v) <= w - Converting!Slack(w)
<1> DEFINE P == Precision
           a == v \div P
           b == w \div P
           r == v % P
           s == w % P
<1>1. /\ P \in Nat \ {0}
      /\ v = P * a + r /\ w = P * b + s /\ a \in Nat /\ b \in Nat
      /\ r \in 0..(P - 1) /\ s \in 0..(P - 1)
  <2>1. P \in Nat \ {0}
    BY MoneyIsSound DEF Converting!Sound
  <2> HIDE DEF P
  <2> QED BY <2>1, SMT
<1>2. /\ Converting!Slack(v) = 1 + a /\ Converting!Slack(w) = 1 + b
  BY DEF Converting!Slack
<1> HIDE DEF P, a, b, r, s
<1>3. b - a <= w - v
  <2>1. CASE b <= a
    BY <1>1, <2>1
  <2>2. CASE a < b
    <3>1. PICK k \in Nat : b = a + 1 + k
      <4>1. b - a - 1 \in Nat /\ b = a + 1 + (b - a - 1)
        BY <1>1, <2>2
      <4> QED BY <4>1
    <3>2. P * b = P * a + P + P * k /\ P * k \in Nat /\ P * k >= k /\ P * a \in Nat
      BY <1>1, <3>1, SMT
    <3> QED BY <1>1, <3>1, <3>2
  <2> QED BY <1>1, <2>1, <2>2
<1> QED BY <1>1, <1>2, <1>3

(* What a conversion answers from the rates it has found: without a rate   *)
(* nothing or anything, and with the rates of known codes an amount that   *)
(* is close to the exact one, or above it when decimals were lost.         *)
LEMMA AnswersAre ==
  ASSUME NEW money \in Converting!Money, NEW rate \in Nat, NEW toRate \in Nat,
         NEW a \in Converting!Answers(money, rate, toRate)
  PROVE  /\ a \in Int
         /\ rate = 0 => a = Converting!Any
         /\ rate # 0 /\ toRate = 0 => a = 0
<1>1. CASE rate = 0
  BY <1>1 DEF Converting!Answers, Converting!Any
<1>2. CASE rate # 0 /\ toRate = 0
  <2>1. money.units * NanosMod \in Nat /\ Converting!Decimal[money.nanos][0] \in Nat
    BY DecimalIsAtLeast, MoneyIsSound, PowersAre DEF Converting!Sound, Converting!Money
  <2>2. Converting!getDouble(money) \in Nat
    BY <2>1 DEF Converting!getDouble
  <2>3. Converting!getDouble(money) * toRate = 0
    BY <1>2, <2>2
  <2> QED BY <1>2, <2>3 DEF Converting!Answers
<1>3. CASE rate # 0 /\ toRate # 0
  <2>1. \A v : Converting!getUnitsAndNanos(v) \subseteq Int
    BY DEF Converting!getUnitsAndNanos
  <2> QED BY <1>3, <2>1 DEF Converting!Answers
<1> QED BY <1>1, <1>2, <1>3

LEMMA AnswerIsClose ==
  ASSUME NEW money \in Converting!Money, NEW from \in Known, NEW to \in Known,
         NEW a \in Converting!Answers(money, Rate[from], Rate[to])
  PROVE  Converting!IsClose(money, from, to, a)
<1> DEFINE u == money.units * NanosMod
           n == money.nanos
           d == Converting!Decimal[n][0]
           r == Rate[to]
           s == Rate[from]
           exact == ((u + n) * r) \div s
           value == ((u + d) * r) \div s
<1>1. NanosMod \in Nat /\ r \in Nat \ {0} /\ s \in Nat \ {0}
  BY MoneyIsSound, PowersAre DEF Converting!Sound
<1>2. u \in Nat /\ n \in 0..(NanosMod - 1) /\ n \in Nat
  BY <1>1, SMT DEF Converting!Money
<1>3. d \in Nat /\ n <= d /\ (n = 0 \/ n * 10 >= NanosMod => d = n)
  BY <1>2, DecimalIsAtLeast
<1>4. IF (u + d) * r = 0 THEN a = 0 ELSE a \in Converting!getUnitsAndNanos(value)
  <2>1. Converting!getDouble(money) = u + d
    BY DEF Converting!getDouble
  <2>2. s # 0
    BY <1>1
  <2> HIDE DEF u, d, n
  <2>3. a \in IF (u + d) * r = 0 THEN {0} ELSE Converting!getUnitsAndNanos(value)
    BY <2>1, <2>2, Zenon DEF Converting!Answers
  <2> QED BY <2>3, Zenon
<1>5. Converting!Exact(money, from, to) = exact
  BY DEF Converting!Exact
<1>6. n = money.nanos
  OBVIOUS
<1> HIDE DEF u, n, d, r, s
<1>7. exact \in Nat /\ value \in Nat /\ exact <= value
  BY <1>1, <1>2, <1>3, RatesKeepOrder, SMT
<1>8. n = 0 \/ n * 10 >= NanosMod => value = exact
  BY <1>3, Zenon
<1>9. (u + d) * r = 0 => exact = 0 /\ value = 0
  <2> SUFFICES ASSUME (u + d) * r = 0 PROVE exact = 0 /\ value = 0
    OBVIOUS
  <2>1. u + d \in Nat
    BY <1>2, <1>3
  <2>2. \A x \in Nat : \A y \in Nat \ {0} : x * y = 0 => x = 0
    BY SMT
  <2>3. u + d = 0
    BY <1>1, <2>1, <2>2
  <2>4. u + n = 0 /\ u + d = 0
    BY <1>2, <1>3, <2>3
  <2>5. \A y \in Nat \ {0} : 0 * r = 0 /\ 0 \div y = 0
    BY <1>1, SMT
  <2> QED BY <1>1, <2>4, <2>5
<1> HIDE DEF exact, value
<1>10. /\ Converting!Slack(exact) \in Nat /\ Converting!Slack(value) \in Nat
       /\ exact - Converting!Slack(exact) <= value - Converting!Slack(value)
  BY <1>7, SlackKeepsOrder
<1>11. a \in Int /\ value - Converting!Slack(value) <= a /\ a <= value + Converting!Slack(value)
  <2>1. CASE (u + d) * r = 0
    <3>1. a = 0 /\ value = 0
      BY <1>4, <1>9, <2>1
    <3> QED BY <1>10, <3>1
  <2>2. CASE (u + d) * r # 0
    <3>1. a \in Converting!getUnitsAndNanos(value)
      BY <1>4, <2>2
    <3> QED BY <1>7, <1>10, <3>1 DEF Converting!getUnitsAndNanos
  <2> QED BY <2>1, <2>2
<1>12. a >= exact - Converting!Slack(exact)
  BY <1>7, <1>10, <1>11
<1>13. n = 0 \/ n * 10 >= NanosMod => a <= exact + Converting!Slack(exact)
  BY <1>8, <1>11, Zenon
<1> QED BY <1>5, <1>6, <1>12, <1>13 DEF Converting!IsClose

(* What a look-up finds, and what it leaves in the table: for a known code *)
(* its rate, unless the table is undefined.                                *)
LEMMA FoundIs ==
  ASSUME Converting!IInv, NEW c \in Conversions, Converting!Leave(c)
  PROVE  /\ raced => raced'
         /\ Converting!Code(c) \in DOMAIN currency_conversion'
         /\ \A code \in DOMAIN currency_conversion' :
              /\ currency_conversion'[code] \in Nat
              /\ code \in Known => \/ currency_conversion'[code] = Rate[code]
                                   \/ raced' /\ currency_conversion'[code] = 0
         /\ ~raced' => Known \subseteq DOMAIN currency_conversion'
<1> DEFINE code == Converting!Code(c)
<1>1. /\ raced' = Converting!Undefined
      /\ \E lost \in IF Converting!Undefined THEN SUBSET DOMAIN currency_conversion
                     ELSE {{}} :
           currency_conversion' = Converting!Found(lost, code)
  BY DEF Converting!Leave
<1>2. raced => raced'
  BY <1>1, Zenon DEF Converting!Undefined
<1>3. ~raced' => ~raced /\ ~Converting!Undefined
  BY <1>1, Zenon DEF Converting!Undefined
<1>4. PICK lost : /\ currency_conversion' = Converting!Found(lost, code)
                  /\ ~raced' => lost = {}
  BY <1>1, <1>3
<1> DEFINE kept == DOMAIN currency_conversion \ lost
<1>5. /\ DOMAIN currency_conversion' = kept \cup {code}
      /\ \A k \in kept : currency_conversion'[k] = currency_conversion[k]
      /\ code \notin kept => currency_conversion'[code] = 0
  BY <1>4 DEF Converting!Found
<1> HIDE DEF code
<1>6. /\ \A k \in DOMAIN currency_conversion :
           /\ currency_conversion[k] \in Nat
           /\ k \in Known => \/ currency_conversion[k] = Rate[k]
                             \/ raced /\ currency_conversion[k] = 0
      /\ ~raced => Known \subseteq DOMAIN currency_conversion
  BY DEF Converting!IInv, Converting!RatesAreTheirs, Converting!IsRateOf
<1>7. ~raced' => Known \subseteq kept
  BY <1>3, <1>4, <1>6
<1>8. ASSUME NEW k \in DOMAIN currency_conversion'
      PROVE  /\ currency_conversion'[k] \in Nat
             /\ k \in Known => \/ currency_conversion'[k] = Rate[k]
                               \/ raced' /\ currency_conversion'[k] = 0
  <2> HIDE DEF kept
  <2>1. CASE k \in kept
    <3>1. k \in DOMAIN currency_conversion /\ currency_conversion'[k] = currency_conversion[k]
      BY <1>5, <2>1 DEF kept
    <3> QED BY <1>2, <1>6, <3>1
  <2>2. CASE k \notin kept
    <3>1. k = code /\ currency_conversion'[k] = 0
      BY <1>5, <1>8, <2>2
    <3> QED BY <1>7, <2>2, <3>1
  <2> QED BY <2>1, <2>2
<1> QED BY <1>2, <1>5, <1>7, <1>8 DEF code

(* Steps after which a call is at no look-up, and has no answer.           *)
LEMMA RequestKeeps ==
  ASSUME Converting!IInv, NEW c \in Conversions,
         Converting!Convert(c) \/ Converting!GetSupportedCurrencies(c) \/ Converting!Listed(c)
  PROVE  Converting!IInv'
<1> DEFINE Stages == {"idle", "from", "to", "list", "compute", "answered"}
           Codes == Known \cup Unknown \cup {None}
           OneCall == [step : Stages, amount : Converting!Money, from : Codes, to : Codes,
                       rate : Nat, toRate : Nat, answer : Int]
<1>1. Converting!Idle \in OneCall /\ Converting!Idle.step = "idle"
  <2>1. [units |-> 0, nanos |-> 0] \in Converting!Money
    BY MoneyIsSound, PowersAre, SMT DEF Converting!Sound, Converting!Money
  <2> QED BY <2>1 DEF Converting!Idle, Converting!Any
<1>2. PICK new \in OneCall :
        /\ conversion' = [conversion EXCEPT ![c] = new]
        /\ new.step \in {"idle", "from", "list"}
        /\ new.step = "from" => {new.from, new.to} \subseteq Known \cup Unknown
  <2>1. CASE Converting!Convert(c)
    <3>1. PICK amount \in Amounts, from \in Known \cup Unknown, to \in Known \cup Unknown :
            conversion' = [conversion EXCEPT ![c] = [Converting!Idle EXCEPT !.step = "from",
                             !.amount = amount, !.from = from, !.to = to]]
      BY <2>1 DEF Converting!Convert
    <3>2. amount \in Converting!Money
      BY MoneyIsSound DEF Converting!Sound
    <3>3. /\ [Converting!Idle EXCEPT !.step = "from", !.amount = amount,
                                     !.from = from, !.to = to] \in OneCall
          /\ [Converting!Idle EXCEPT !.step = "from", !.amount = amount,
                                     !.from = from, !.to = to].step = "from"
          /\ {[Converting!Idle EXCEPT !.step = "from", !.amount = amount,
                                      !.from = from, !.to = to].from,
              [Converting!Idle EXCEPT !.step = "from", !.amount = amount,
                                      !.from = from, !.to = to].to} \subseteq Known \cup Unknown
      BY <1>1, <3>2
    <3> QED BY <3>1, <3>3
  <2>2. CASE Converting!GetSupportedCurrencies(c)
    <3>1. [Converting!Idle EXCEPT !.step = "list"] \in OneCall
          /\ [Converting!Idle EXCEPT !.step = "list"].step = "list"
      BY <1>1
    <3> QED BY <2>2, <3>1 DEF Converting!GetSupportedCurrencies
  <2>3. CASE Converting!Listed(c)
    BY <1>1, <2>3 DEF Converting!Listed
  <2> QED BY <2>1, <2>2, <2>3
<1>3. /\ conversion'[c] = new
      /\ \A d \in Conversions \ {c} : conversion'[d] = conversion[d]
      /\ conversion' \in [Conversions -> OneCall]
  <2>1. conversion \in [Conversions -> OneCall]
    BY DEF Converting!IInv, Converting!TypeOK
  <2> HIDE DEF OneCall
  <2> QED BY <1>2, <2>1
<1>4. /\ touching' \subseteq touching /\ c \notin touching'
      /\ UNCHANGED currency_conversion
  BY DEF Converting!Convert, Converting!GetSupportedCurrencies, Converting!Listed,
         Converting!Free, Converting!At, Converting!IInv, Converting!Named
<1>5. raced => raced'
  <2>1. CASE Converting!Listed(c)
    BY <2>1, Zenon DEF Converting!Listed, Converting!Undefined
  <2>2. CASE Converting!Convert(c) \/ Converting!GetSupportedCurrencies(c)
    BY <2>2 DEF Converting!Convert, Converting!GetSupportedCurrencies
  <2> QED BY <2>1, <2>2
<1>6. Converting!TypeOK'
  BY <1>3, <1>4 DEF Converting!IInv, Converting!TypeOK
<1>7. Converting!Named'
  BY <1>2, <1>3, <1>4 DEF Converting!IInv, Converting!Named, Converting!At
<1>8. Converting!RatesAreTheirs'
  <2>1. /\ \A k \in DOMAIN currency_conversion' :
             /\ currency_conversion'[k] \in Nat
             /\ Converting!IsRateOf(currency_conversion[k], k)'
        /\ ~raced' => Known \subseteq DOMAIN currency_conversion'
    BY <1>4, <1>5 DEF Converting!IInv, Converting!RatesAreTheirs, Converting!IsRateOf
  <2>2. \A d \in Conversions :
          /\ conversion'[d].step \in {"to", "compute"} =>
               Converting!IsRateOf(conversion[d].rate, conversion[d].from)'
          /\ conversion'[d].step = "compute" =>
               Converting!IsRateOf(conversion[d].toRate, conversion[d].to)'
    BY <1>2, <1>3, <1>5 DEF Converting!IInv, Converting!RatesAreTheirs,
                            Converting!IsRateOf, Converting!At
  <2> QED BY <2>1, <2>2 DEF Converting!RatesAreTheirs, Converting!At
<1>9. Converting!ConversionIsClose'
  BY <1>2, <1>3, <1>5 DEF Converting!IInv, Converting!ConversionIsClose, Converting!At
<1> QED BY <1>6, <1>7, <1>8, <1>9 DEF Converting!IInv

LEMMA LeaveKeeps ==
  ASSUME Converting!IInv, NEW c \in Conversions, Converting!Leave(c)
  PROVE  Converting!IInv'
<1> DEFINE code == Converting!Code(c)
           rate == currency_conversion'[code]
<1>1. /\ raced => raced' /\ code \in DOMAIN currency_conversion'
      /\ rate \in Nat
      /\ code \in Known => rate = Rate[code] \/ (raced' /\ rate = 0)
  BY FoundIs
<1>2. /\ touching' = touching \ {c} /\ c \in touching
      /\ conversion[c].step \in {"from", "to"}
      /\ code = IF conversion[c].step = "from" THEN conversion[c].from ELSE conversion[c].to
      /\ conversion' = IF conversion[c].step = "from"
                       THEN [conversion EXCEPT ![c].step = "to", ![c].rate = rate]
                       ELSE [conversion EXCEPT ![c].step = "compute", ![c].toRate = rate]
  BY DEF Converting!Leave, Converting!IInv, Converting!Named, Converting!At, Converting!Code
<1> HIDE DEF code, rate
<1>3. /\ \A d \in Conversions \ {c} : conversion'[d] = conversion[d]
      /\ conversion'[c].from = conversion[c].from /\ conversion'[c].to = conversion[c].to
      /\ conversion[c].step = "from" =>
           conversion'[c].step = "to" /\ conversion'[c].rate = rate
      /\ conversion[c].step = "to" =>
           /\ conversion'[c].step = "compute" /\ conversion'[c].toRate = rate
           /\ conversion'[c].rate = conversion[c].rate
  BY <1>2 DEF Converting!IInv, Converting!TypeOK
<1>4. Converting!TypeOK'
  <2> DEFINE CallType == [step : {"idle", "from", "to", "list", "compute", "answered"},
                          amount : Converting!Money, from : Known \cup Unknown \cup {None},
                          to : Known \cup Unknown \cup {None},
                          rate : Nat, toRate : Nat, answer : Int]
             asked == [conversion[c] EXCEPT !.step = "to", !.rate = rate]
             found == [conversion[c] EXCEPT !.step = "compute", !.toRate = rate]
  <2>1. touching \subseteq Conversions /\ conversion \in [Conversions -> CallType]
    BY DEF Converting!IInv, Converting!TypeOK
  <2>2. conversion[c] \in CallType /\ rate \in Nat
    BY <1>1, <2>1
  <2>3. asked \in CallType /\ found \in CallType
    BY <2>2
  <2>4. conversion' = [conversion EXCEPT ![c] = IF conversion[c].step = "from"
                                                THEN asked ELSE found]
    BY <1>2, <2>1
  <2> HIDE DEF CallType, asked, found
  <2>5. conversion' \in [Conversions -> CallType]
    BY <2>1, <2>3, <2>4
  <2>6. touching' \subseteq Conversions
    BY <1>2, <2>1
  <2> QED BY <2>5, <2>6 DEF Converting!TypeOK, CallType
<1>5. Converting!Named'
  <2> SUFFICES ASSUME NEW d \in Conversions
               PROVE  /\ conversion'[d].step \notin {"idle", "list"} =>
                           {conversion'[d].from, conversion'[d].to} \subseteq Known \cup Unknown
                      /\ d \in touching' => conversion'[d].step \in {"from", "to", "list"}
    BY DEF Converting!Named, Converting!At
  <2>1. /\ conversion[d].step \notin {"idle", "list"} =>
             {conversion[d].from, conversion[d].to} \subseteq Known \cup Unknown
        /\ d \in touching => conversion[d].step \in {"from", "to", "list"}
    BY DEF Converting!IInv, Converting!Named, Converting!At
  <2>2. CASE d # c
    <3>1. conversion'[d] = conversion[d] /\ (d \in touching' => d \in touching)
      BY <1>2, <1>3, <2>2
    <3> QED BY <2>1, <3>1
  <2>3. CASE d = c
    <3>1. d \notin touching' /\ conversion[d].step \in {"from", "to"}
          /\ conversion'[d].from = conversion[d].from
          /\ conversion'[d].to = conversion[d].to
      BY <1>2, <1>3, <2>3
    <3> QED BY <2>1, <3>1
  <2> QED BY <2>2, <2>3
<1>6. Converting!RatesAreTheirs'
  <2>1. /\ \A k \in DOMAIN currency_conversion' :
             /\ currency_conversion'[k] \in Nat
             /\ Converting!IsRateOf(currency_conversion[k], k)'
        /\ ~raced' => Known \subseteq DOMAIN currency_conversion'
    BY FoundIs DEF Converting!IsRateOf
  <2>2. ASSUME NEW d \in Conversions
        PROVE  /\ conversion'[d].step \in {"to", "compute"} =>
                    Converting!IsRateOf(conversion[d].rate, conversion[d].from)'
               /\ conversion'[d].step = "compute" =>
                    Converting!IsRateOf(conversion[d].toRate, conversion[d].to)'
    <3>1. CASE d # c
      BY <1>1, <1>3, <3>1 DEF Converting!IInv, Converting!RatesAreTheirs,
                              Converting!IsRateOf, Converting!At
    <3>2. CASE d = c
      <4>1. conversion[c].step = "to" =>
              Converting!IsRateOf(conversion[c].rate, conversion[c].from)
        BY DEF Converting!IInv, Converting!RatesAreTheirs
      <4> QED BY <1>1, <1>2, <1>3, <3>2, <4>1 DEF Converting!IsRateOf
    <3> QED BY <3>1, <3>2
  <2> QED BY <2>1, <2>2 DEF Converting!RatesAreTheirs, Converting!At
<1>7. Converting!ConversionIsClose'
  <2>1. conversion'[c].step # "answered"
    BY <1>2, <1>3
  <2>2. ASSUME NEW d \in Conversions, conversion'[d].step = "answered",
               {conversion'[d].from, conversion'[d].to} \subseteq Known
        PROVE  \/ Converting!IsClose(conversion[d].amount, conversion[d].from,
                                     conversion[d].to, conversion[d].answer)'
               \/ raced' /\ conversion'[d].answer \in {0, Converting!Any}
    <3>1. d # c
      BY <2>1, <2>2
    <3>2. conversion'[d] = conversion[d]
      BY <1>3, <3>1
    <3>3. \/ Converting!IsClose(conversion[d].amount, conversion[d].from,
                                conversion[d].to, conversion[d].answer)
          \/ raced /\ conversion[d].answer \in {0, Converting!Any}
      BY <2>2, <3>2 DEF Converting!IInv, Converting!ConversionIsClose, Converting!At
    <3> QED BY <1>1, <3>2, <3>3 DEF Converting!IsClose, Converting!Exact, Converting!Slack
  <2> QED BY <2>2 DEF Converting!ConversionIsClose, Converting!At
<1> QED BY <1>4, <1>5, <1>6, <1>7 DEF Converting!IInv

LEMMA AnswerKeeps ==
  ASSUME Converting!IInv, NEW c \in Conversions, Converting!Answer(c)
  PROVE  Converting!IInv'
<1> DEFINE money  == conversion[c].amount
           from   == conversion[c].from
           to     == conversion[c].to
           rate   == conversion[c].rate
           toRate == conversion[c].toRate
<1>1. PICK a \in Converting!Answers(money, rate, toRate) :
        conversion' = [conversion EXCEPT ![c].step = "answered", ![c].answer = a]
  BY DEF Converting!Answer
<1>2. /\ money \in Converting!Money /\ rate \in Nat /\ toRate \in Nat
      /\ from \in Known \cup Unknown /\ to \in Known \cup Unknown
      /\ Converting!IsRateOf(rate, from) /\ Converting!IsRateOf(toRate, to)
      /\ UNCHANGED <<currency_conversion, touching, raced>> /\ c \notin touching
  BY DEF Converting!Answer, Converting!At, Converting!IInv, Converting!TypeOK,
         Converting!Named, Converting!RatesAreTheirs
<1>3. a \in Int /\ (rate = 0 => a = Converting!Any) /\ (rate # 0 /\ toRate = 0 => a = 0)
  BY <1>2, AnswersAre
<1>4. {from, to} \subseteq Known =>
        Converting!IsClose(money, from, to, a) \/ (raced /\ a \in {0, Converting!Any})
  <2> SUFFICES ASSUME from \in Known, to \in Known
               PROVE  \/ Converting!IsClose(money, from, to, a)
                      \/ raced /\ a \in {0, Converting!Any}
    OBVIOUS
  <2>1. CASE rate = Rate[from] /\ toRate = Rate[to]
    BY <1>2, <2>1, AnswerIsClose
  <2>2. CASE raced /\ (rate = 0 \/ toRate = 0)
    BY <1>3, <2>2
  <2> HIDE DEF from, to, rate, toRate, money
  <2> QED BY <1>2, <2>1, <2>2, Zenon DEF Converting!IsRateOf
<1>5. /\ conversion'[c].amount = money /\ conversion'[c].from = from
      /\ conversion'[c].to = to /\ conversion'[c].answer = a
      /\ conversion'[c].step = "answered"
      /\ \A d \in Conversions \ {c} : conversion'[d] = conversion[d]
  BY <1>1 DEF Converting!IInv, Converting!TypeOK
<1>6. Converting!TypeOK'
  BY <1>1, <1>2, <1>3 DEF Converting!IInv, Converting!TypeOK
<1> HIDE DEF money, from, to, rate, toRate
<1>7. Converting!Named'
  BY <1>2, <1>5 DEF Converting!IInv, Converting!Named, Converting!At
<1>8. Converting!RatesAreTheirs'
  <2>1. \A d \in Conversions :
          /\ conversion'[d].step \in {"to", "compute"} =>
               Converting!IsRateOf(conversion[d].rate, conversion[d].from)'
          /\ conversion'[d].step = "compute" =>
               Converting!IsRateOf(conversion[d].toRate, conversion[d].to)'
    BY <1>2, <1>5 DEF Converting!IInv, Converting!RatesAreTheirs,
                      Converting!IsRateOf, Converting!At
  <2> QED BY <1>2, <2>1 DEF Converting!IInv, Converting!RatesAreTheirs,
                            Converting!IsRateOf, Converting!At
<1>9. Converting!ConversionIsClose'
  <2> SUFFICES ASSUME NEW d \in Conversions, conversion'[d].step = "answered",
                      {conversion'[d].from, conversion'[d].to} \subseteq Known
               PROVE  \/ Converting!IsClose(conversion'[d].amount, conversion'[d].from,
                                            conversion'[d].to, conversion'[d].answer)
                      \/ raced' /\ conversion'[d].answer \in {0, Converting!Any}
    BY DEF Converting!ConversionIsClose, Converting!At, Converting!IsClose, Converting!Exact
  <2>1. CASE d = c
    BY <1>2, <1>4, <1>5, <2>1
  <2>2. CASE d # c
    BY <1>2, <1>5, <2>2 DEF Converting!IInv, Converting!ConversionIsClose, Converting!At
  <2> QED BY <2>1, <2>2
<1> QED BY <1>6, <1>7, <1>8, <1>9 DEF Converting!IInv

(* A process that starts has its table, and no calls.                      *)
LEMMA IdleIs ==
  /\ Converting!Idle.step = "idle"
  /\ Converting!Idle \in [step : {"idle", "from", "to", "list", "compute", "answered"},
                          amount : Converting!Money, from : Known \cup Unknown \cup {None},
                          to : Known \cup Unknown \cup {None},
                          rate : Nat, toRate : Nat, answer : Int]
  /\ DOMAIN Rate = Known /\ \A code \in Known : Rate[code] \in Nat
<1>1. [units |-> 0, nanos |-> 0] \in Converting!Money
  BY MoneyIsSound, PowersAre, SMT DEF Converting!Sound, Converting!Money
<1> QED BY <1>1, MoneyIsSound DEF Converting!Idle, Converting!Any, Converting!Sound

(* server.cpp, lines 144-217: whatever codes other calls insert, a         *)
(* conversion between known codes is as close as doubles allow when no     *)
(* decimals are lost, and never too low; after an insertion that met       *)
(* another access, and until the process starts again, it may be 0 or      *)
(* undefined instead.                                                      *)
THEOREM ConversionIsCloseForAll == Converting!Spec => []ConversionIsClose
<1>1. Converting!Init => Converting!IInv
  BY IdleIs DEF Converting!Init, Converting!IInv, Converting!TypeOK, Converting!Named,
                Converting!RatesAreTheirs, Converting!IsRateOf,
                Converting!ConversionIsClose, Converting!At
<1>2. Converting!IInv /\ [Converting!Next]_(Converting!vars) => Converting!IInv'
  <2> SUFFICES ASSUME Converting!IInv, [Converting!Next]_(Converting!vars)
               PROVE  Converting!IInv'
    OBVIOUS
  <2>1. CASE UNCHANGED Converting!vars
    BY <2>1 DEF Converting!vars, Converting!IInv, Converting!TypeOK, Converting!Named,
                Converting!RatesAreTheirs, Converting!IsRateOf,
                Converting!ConversionIsClose, Converting!At
  <2>2. ASSUME NEW c \in Conversions, Converting!Enter(c) PROVE Converting!IInv'
    BY <2>2 DEF Converting!Enter, Converting!IInv, Converting!TypeOK, Converting!Named,
                Converting!RatesAreTheirs, Converting!IsRateOf,
                Converting!ConversionIsClose, Converting!At
  <2>3. CASE Converting!Crash
    BY IdleIs, <2>3 DEF Converting!Crash, Converting!IInv, Converting!TypeOK,
                        Converting!Named, Converting!RatesAreTheirs, Converting!IsRateOf,
                        Converting!ConversionIsClose, Converting!At
  <2> QED BY <2>1, <2>2, <2>3, RequestKeeps, LeaveKeeps, AnswerKeeps DEF Converting!Next
<1>3. Converting!IInv => ConversionIsClose
  BY DEF Converting!IInv, ConversionIsClose
<1> QED BY <1>1, <1>2, <1>3, PTL DEF Converting!Spec
=============================================================================
