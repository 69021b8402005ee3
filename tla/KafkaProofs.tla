---------------------------- MODULE KafkaProofs ----------------------------
(***************************************************************************)
(* The balance of answers in KafkaProducer, for any number of handlers and *)
(* goroutines and any capacity of the producer.                            *)
(***************************************************************************)
EXTENDS KafkaProducer, FiniteSetTheorems, TLAPS

Counted == {Waiting, GaveUp, Held, Logged}

LEMMA CountedAreFinite ==
    \A S \in Counted : IsFiniteSet(S) /\ Cardinality(S) \in Nat
<1>1. \A S \in Counted : S \subseteq Senders
  BY DEF Counted, Waiting, GaveUp, Held, Logged
<1>2. QED
  BY <1>1, KafkaAssumption, FS_Subset, FS_CardinalityType

\* A sender that leaves the inner select stops waiting; the goroutines it
\* starts have neither a message nor an answer.
LEMMA Leaving ==
  ASSUME TypeOK, AcceptedHasFate, NEW s \in Senders,
         NEW end \in {"answered", "gaveup"},
         state[s] = "waiting", Leave(s, end)
  PROVE  /\ state' \in [Senders -> SenderState]
         /\ Waiting' = Waiting \ {s}
         /\ GaveUp' = IF end = "gaveup" THEN GaveUp \cup {s} ELSE GaveUp
         /\ \A t \in Senders :
               (state'[t] \in {"idle", "input", "refused"})
                  <=> (state[t] \in {"idle", "input", "refused"})
<1>1. PICK started \in SUBSET {f \in Floods : state[f] = "idle"} :
        state' = [t \in Senders |-> IF t = s THEN end
                                    ELSE IF t \in started THEN "input" ELSE state[t]]
  BY DEF Leave
<1>2. \A t \in started : t \in Senders /\ state[t] = "idle"
  BY <1>1 DEF Senders
<1>3. \A t \in Senders :
        state'[t] = IF t = s THEN end ELSE IF t \in started THEN "input" ELSE state[t]
  BY <1>1
<1>4. state' \in [Senders -> SenderState]
  BY <1>1 DEF TypeOK, SenderState
<1>5. Waiting' = Waiting \ {s}
  BY <1>2, <1>3 DEF Waiting
<1>6. GaveUp' = IF end = "gaveup" THEN GaveUp \cup {s} ELSE GaveUp
  BY <1>2, <1>3 DEF GaveUp
<1>7. \A t \in Senders :
        (state'[t] \in {"idle", "input", "refused"})
           <=> (state[t] \in {"idle", "input", "refused"})
  BY <1>2, <1>3
<1>8. QED
  BY <1>4, <1>5, <1>6, <1>7

-----------------------------------------------------------------------------

LEMMA InitIInv == Init => IInv
<1> SUFFICES ASSUME Init PROVE IInv
  OBVIOUS
<1>1. TypeOK /\ AcceptedHasFate
  BY DEF Init, TypeOK, AcceptedHasFate, SenderState, Fate
<1>2. Waiting = {} /\ GaveUp = {} /\ Held = {} /\ Logged = {}
  BY DEF Init, Waiting, GaveUp, Held, Logged
<1>3. Balance
  BY <1>2, FS_EmptySet DEF Balance
<1>4. QED
  BY <1>1, <1>3 DEF IInv

\* Entering the outer select, or leaving it without a message, owes nobody
\* an answer.
LEMMA OutsideIInv ==
  ASSUME IInv, NEW h \in Senders, NEW next \in {"input", "refused"},
         state[h] \in {"idle", "input"}, state' = [state EXCEPT ![h] = next],
         UNCHANGED <<fate, receipt>>
  PROVE  IInv'
<1>1. \A t \in Senders : state'[t] = IF t = h THEN next ELSE state[t]
  BY DEF IInv, TypeOK
<1>2. TypeOK' /\ AcceptedHasFate'
  BY <1>1 DEF IInv, TypeOK, AcceptedHasFate, SenderState
<1>3. Waiting' = Waiting /\ GaveUp' = GaveUp /\ Held' = Held /\ Logged' = Logged
  BY <1>1 DEF Waiting, GaveUp, Held, Logged
<1>4. QED
  BY <1>2, <1>3 DEF IInv, Balance

LEMMA AcceptIInv ==
  ASSUME IInv, NEW s \in Senders, Accept(s) PROVE IInv'
<1>1. \A t \in Senders : /\ state'[t] = IF t = s THEN "waiting" ELSE state[t]
                         /\ fate'[t] = IF t = s THEN "sending" ELSE fate[t]
  BY DEF IInv, TypeOK, Accept
<1>2. TypeOK' /\ AcceptedHasFate'
  BY <1>1 DEF IInv, TypeOK, AcceptedHasFate, Accept, SenderState, Fate
<1>3. state[s] = "input" /\ fate[s] = "none"
  BY DEF Accept, IInv, AcceptedHasFate
<1>4. /\ Waiting' = Waiting \cup {s} /\ s \notin Waiting
      /\ Held' = Held \cup {s} /\ s \notin Held
      /\ GaveUp' = GaveUp /\ Logged' = Logged
  BY <1>1, <1>3 DEF Waiting, GaveUp, Held, Logged
<1>5. /\ Cardinality(Waiting') = Cardinality(Waiting) + 1
      /\ Cardinality(Held') = Cardinality(Held) + 1
  BY <1>4, CountedAreFinite, FS_AddElement DEF Counted
<1>6. Balance'
  BY <1>4, <1>5, CountedAreFinite DEF IInv, Balance, Counted
<1>7. QED
  BY <1>2, <1>6 DEF IInv

\* One answer is taken by one sender.
LEMMA TakeIInv ==
  ASSUME IInv, NEW s \in Senders, NEW m \in Senders,
         state[s] = "waiting", fate[m] \in {"succeeded", "failed"},
         Leave(s, "answered"),
         fate' = [fate EXCEPT ![m] = "delivered"],
         receipt' = [receipt EXCEPT ![s] = m]
  PROVE  IInv'
<1>1. TypeOK /\ AcceptedHasFate
  BY DEF IInv
<1>2. /\ state' \in [Senders -> SenderState]
      /\ Waiting' = Waiting \ {s} /\ GaveUp' = GaveUp
      /\ \A t \in Senders :
            (state'[t] \in {"idle", "input", "refused"})
               <=> (state[t] \in {"idle", "input", "refused"})
  BY <1>1, Leaving
<1>3. \A t \in Senders : fate'[t] = IF t = m THEN "delivered" ELSE fate[t]
  BY <1>1 DEF TypeOK
<1>4. TypeOK' /\ AcceptedHasFate'
  BY <1>1, <1>2, <1>3 DEF TypeOK, AcceptedHasFate, Fate
<1>5. Held' = Held \ {m} /\ m \in Held /\ s \in Waiting /\ Logged' = Logged
  BY <1>3 DEF Held, Logged, Waiting
<1>6. /\ Cardinality(Waiting') = Cardinality(Waiting) - 1
      /\ Cardinality(Held') = Cardinality(Held) - 1
  BY <1>2, <1>5, CountedAreFinite, FS_RemoveElement DEF Counted
<1>7. Balance'
  BY <1>2, <1>5, <1>6, CountedAreFinite DEF IInv, Balance, Counted
<1>8. QED
  BY <1>4, <1>7 DEF IInv

\* A handler that gives up leaves its answer to somebody else.
LEMMA GiveUpIInv ==
  ASSUME IInv, NEW h \in Senders, state[h] = "waiting", Leave(h, "gaveup"),
         UNCHANGED <<fate, receipt>>
  PROVE  IInv'
<1>1. TypeOK /\ AcceptedHasFate
  BY DEF IInv
<1>2. /\ state' \in [Senders -> SenderState]
      /\ Waiting' = Waiting \ {h} /\ GaveUp' = GaveUp \cup {h}
      /\ \A t \in Senders :
            (state'[t] \in {"idle", "input", "refused"})
               <=> (state[t] \in {"idle", "input", "refused"})
  BY <1>1, Leaving
<1>3. TypeOK' /\ AcceptedHasFate'
  BY <1>1, <1>2 DEF TypeOK, AcceptedHasFate
<1>4. h \in Waiting /\ h \notin GaveUp /\ Held' = Held /\ Logged' = Logged
  BY DEF Waiting, GaveUp, Held, Logged
<1>5. /\ Cardinality(Waiting') = Cardinality(Waiting) - 1
      /\ Cardinality(GaveUp') = Cardinality(GaveUp) + 1
  BY <1>2, <1>4, CountedAreFinite, FS_RemoveElement, FS_AddElement DEF Counted
<1>6. Balance'
  BY <1>4, <1>5, CountedAreFinite DEF IInv, Balance, Counted
<1>7. QED
  BY <1>3, <1>6 DEF IInv

LEMMA ProduceIInv ==
  ASSUME IInv, NEW m \in Senders, Produce(m) PROVE IInv'
<1>1. PICK result \in {"succeeded", "failed"} : fate' = [fate EXCEPT ![m] = result]
  BY DEF Produce
<1>2. \A t \in Senders : fate'[t] = IF t = m THEN result ELSE fate[t]
  BY <1>1 DEF IInv, TypeOK
<1>3. fate[m] = "sending" /\ UNCHANGED <<state, receipt>>
  BY DEF Produce
<1>4. TypeOK' /\ AcceptedHasFate'
  BY <1>1, <1>2, <1>3 DEF IInv, TypeOK, AcceptedHasFate, Fate
<1>5. Waiting' = Waiting /\ GaveUp' = GaveUp /\ Held' = Held /\ Logged' = Logged
  BY <1>2, <1>3 DEF Waiting, GaveUp, Held, Logged
<1>6. QED
  BY <1>4, <1>5 DEF IInv, Balance

LEMMA LogErrorIInv ==
  ASSUME IInv, NEW m \in Senders, LogError(m) PROVE IInv'
<1>1. \A t \in Senders : fate'[t] = IF t = m THEN "logged" ELSE fate[t]
  BY DEF IInv, TypeOK, LogError
<1>2. fate[m] = "failed" /\ UNCHANGED <<state, receipt>>
  BY DEF LogError
<1>3. TypeOK' /\ AcceptedHasFate'
  BY <1>1, <1>2 DEF IInv, TypeOK, AcceptedHasFate, Fate, LogError
<1>4. /\ Held' = Held \ {m} /\ m \in Held
      /\ Logged' = Logged \cup {m} /\ m \notin Logged
      /\ Waiting' = Waiting /\ GaveUp' = GaveUp
  BY <1>1, <1>2 DEF Waiting, GaveUp, Held, Logged
<1>5. /\ Cardinality(Held') = Cardinality(Held) - 1
      /\ Cardinality(Logged') = Cardinality(Logged) + 1
  BY <1>4, CountedAreFinite, FS_RemoveElement, FS_AddElement DEF Counted
<1>6. Balance'
  BY <1>4, <1>5, CountedAreFinite DEF IInv, Balance, Counted
<1>7. QED
  BY <1>3, <1>6 DEF IInv

LEMMA NextIInv == IInv /\ [Next]_vars => IInv'
<1> SUFFICES ASSUME IInv, [Next]_vars PROVE IInv'
  OBVIOUS
<1>1. ASSUME NEW h \in Orders, Publish(h) PROVE IInv'
  BY <1>1, OutsideIInv DEF Publish, Senders
<1>2. ASSUME NEW h \in Orders, GiveUp(h) PROVE IInv'
  BY <1>2, OutsideIInv, GiveUpIInv DEF GiveUp, Senders
<1>3. ASSUME NEW s \in Senders, Send(s) PROVE IInv'
  <2>1. CASE Accept(s)
    BY <2>1, AcceptIInv
  <2>2. ASSUME NEW m \in Senders, TakeSuccess(s, m) PROVE IInv'
    BY <2>2, TakeIInv DEF TakeSuccess
  <2>3. ASSUME NEW m \in Senders, TakeError(s, m) PROVE IInv'
    BY <2>3, TakeIInv DEF TakeError
  <2>4. QED
    BY <1>3, <2>1, <2>2, <2>3 DEF Send
<1>4. ASSUME NEW m \in Senders, Produce(m) \/ LogError(m) PROVE IInv'
  BY <1>4, ProduceIInv, LogErrorIInv
<1>5. CASE UNCHANGED vars
  BY <1>5 DEF vars, IInv, TypeOK, AcceptedHasFate, Balance, Waiting, GaveUp, Held, Logged
<1>6. QED
  BY <1>1, <1>2, <1>3, <1>4, <1>5 DEF Next

-----------------------------------------------------------------------------

\* The answers senders are owed and the answers there are always balance.
THEOREM KafkaInvariant == Spec => []IInv
<1>1. QED
  BY InitIInv, NextIInv, PTL DEF Spec

\* A blocked sender always has one of the two explanations: an answer lost to
\* the logging goroutine, or a producer full of abandoned answers.
THEOREM BlockedSendersAreExplainedForAll == Spec => []BlockedSendersAreExplained
<1>1. IInv => BlockedSendersAreExplained
  <2> SUFFICES ASSUME IInv PROVE BlockedSendersAreExplained
    OBVIOUS
  <2>1. /\ Cardinality(Waiting) + Cardinality(GaveUp)
              = Cardinality(Held) + Cardinality(Logged)
        /\ Cardinality(Waiting) \in Nat /\ Cardinality(GaveUp) \in Nat
        /\ Cardinality(Held) \in Nat /\ Cardinality(Logged) \in Nat
    BY CountedAreFinite DEF IInv, Balance, Counted
  <2>2. ASSUME Held = {}, Waiting # {} PROVE Logged # {}
    <3>1. Cardinality(Held) = 0 /\ Cardinality(Waiting) # 0
      BY <2>2, CountedAreFinite, FS_EmptySet DEF Counted
    <3>2. Cardinality(Logged) # 0
      BY <2>1, <3>1
    <3>3. QED
      BY <3>2, FS_EmptySet
  <2>3. ASSUME Cardinality(Held) >= Capacity, Waiting = {}
        PROVE  Cardinality(GaveUp) >= Capacity
    <3>1. Cardinality(Waiting) = 0
      BY <2>3, FS_EmptySet
    <3>2. QED
      BY <2>1, <2>3, <3>1, KafkaAssumption
  <2>4. QED
    BY <2>2, <2>3 DEF BlockedSendersAreExplained
<1>2. QED
  BY KafkaInvariant, <1>1, PTL

=============================================================================
