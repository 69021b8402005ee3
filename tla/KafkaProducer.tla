--------------------------- MODULE KafkaProducer ---------------------------
(***************************************************************************)
(* The hand-over of orders to Kafka: sendToPostProcessor of every          *)
(* PlaceOrder handler around the one asynchronous producer they share      *)
(* (src/checkout/main.go, src/checkout/kafka/producer.go).                 *)
(*                                                                         *)
(* A sender puts its message into the producer and then takes one answer   *)
(* from the producer's Successes or Errors channel.  The channels do not   *)
(* say whose answer comes next, a goroutine takes errors too, a handler    *)
(* whose context is done leaves without an answer, and the producer holds  *)
(* a bounded number of messages whose answers nobody took.                 *)
(*                                                                         *)
(* The flag kafkaQueueProblems makes a handler start goroutines that send  *)
(* a copy of its message each; they are senders too (Floods).              *)
(***************************************************************************)
EXTENDS Naturals, FiniteSets

CONSTANTS Orders,    \* PlaceOrder handlers, each with its own message
          Floods,    \* goroutines of the flag, each with its copy
          Capacity,  \* messages the producer holds before Input blocks
          None       \* no receipt

Senders == Orders \cup Floods

ASSUME KafkaAssumption ==
    /\ IsFiniteSet(Senders)
    /\ None \notin Senders
    /\ Capacity \in Nat \ {0}

VARIABLES state,    \* where each sender is in sendToPostProcessor
          fate,     \* what became of each sender's message
          receipt   \* the message whose answer a sender took

vars == <<state, fate, receipt>>

SenderState ==
    {"idle", "input", "waiting",        \* before, in the outer, in the inner select
     "answered", "refused", "gaveup"}   \* took an answer, or its context was done

Ended == {"answered", "refused", "gaveup"}

Fate == {"none", "sending", "succeeded", "failed",  \* not accepted, or held
         "delivered", "logged"}                     \* answer taken, or logged

Waiting == {s \in Senders : state[s] = "waiting"}
GaveUp  == {s \in Senders : state[s] = "gaveup"}
Held    == {m \in Senders : fate[m] \in {"sending", "succeeded", "failed"}}
Logged  == {m \in Senders : fate[m] = "logged"}

Init ==
    /\ state = [s \in Senders |-> "idle"]
    /\ fate = [m \in Senders |-> "none"]
    /\ receipt = [s \in Senders |-> None]

-----------------------------------------------------------------------------
(* Senders. *)

Publish(h) ==
    /\ state[h] = "idle"
    /\ state' = [state EXCEPT ![h] = "input"]
    /\ UNCHANGED <<fate, receipt>>

\* case Input() <- &msg
Accept(s) ==
    /\ state[s] = "input"
    /\ Cardinality(Held) < Capacity
    /\ state' = [state EXCEPT ![s] = "waiting"]
    /\ fate' = [fate EXCEPT ![s] = "sending"]
    /\ UNCHANGED receipt

\* A sender leaves the inner select.  A handler goes on to read the flag and
\* may start goroutines.
Leave(s, end) ==
    \E started \in SUBSET {f \in Floods : state[f] = "idle"} :
        /\ s \in Floods => started = {}
        /\ state' = [t \in Senders |-> IF t = s THEN end
                                       ELSE IF t \in started THEN "input" ELSE state[t]]

\* Mutant: the flag's goroutines send but read no success.
TakeSuccess_HandlersOnly(s, m) ==
    /\ s \in Orders
    /\ state[s] = "waiting" /\ fate[m] = "succeeded"
    /\ Leave(s, "answered")
    /\ fate' = [fate EXCEPT ![m] = "delivered"]
    /\ receipt' = [receipt EXCEPT ![s] = m]

\* Mutant: a sender that takes a success drains the channel.
TakeSuccess_Drains(s, m) ==
    /\ state[s] = "waiting" /\ fate[m] = "succeeded"
    /\ Leave(s, "answered")
    /\ fate' = [n \in Senders |-> IF fate[n] = "succeeded" THEN "delivered" ELSE fate[n]]
    /\ receipt' = [receipt EXCEPT ![s] = m]

\* case successMsg := <-Successes()
TakeSuccess(s, m) ==
    /\ state[s] = "waiting" /\ fate[m] = "succeeded"
    /\ Leave(s, "answered")
    /\ fate' = [fate EXCEPT ![m] = "delivered"]
    /\ receipt' = [receipt EXCEPT ![s] = m]

\* case errMsg := <-Errors(): handlers only, the goroutines read successes.
TakeError(h, m) ==
    /\ state[h] = "waiting" /\ fate[m] = "failed"
    /\ Leave(h, "answered")
    /\ fate' = [fate EXCEPT ![m] = "delivered"]
    /\ receipt' = [receipt EXCEPT ![h] = m]

\* Mutant: a handler that gives up in the outer select goes on to the flag's
\* goroutines as if its message had been accepted.
GiveUp_NoReturn(h) ==
    /\ state[h] \in {"input", "waiting"}
    /\ Leave(h, "gaveup")
    /\ UNCHANGED <<fate, receipt>>

\* case <-ctx.Done(), in the outer select (which returns) and in the inner.
GiveUp(h) ==
    /\ \/ state[h] = "input" /\ state' = [state EXCEPT ![h] = "refused"]
       \/ state[h] = "waiting" /\ Leave(h, "gaveup")
    /\ UNCHANGED <<fate, receipt>>

-----------------------------------------------------------------------------
(* The producer. *)

\* The library sends a message, or fails to.  With RequiredAcks = NoResponse
\* a message counts as sent when it was written to the connection.
Produce(m) ==
    /\ fate[m] = "sending"
    /\ \E result \in {"succeeded", "failed"} : fate' = [fate EXCEPT ![m] = result]
    /\ UNCHANGED <<state, receipt>>

\* The goroutine of CreateKafkaProducer: for err := range producer.Errors().
LogError(m) ==
    /\ fate[m] = "failed"
    /\ fate' = [fate EXCEPT ![m] = "logged"]
    /\ UNCHANGED <<state, receipt>>

Send(s) ==
    \/ Accept(s)
    \/ \E m \in Senders : TakeSuccess(s, m) \/ (s \in Orders /\ TakeError(s, m))

Next ==
    \/ \E h \in Orders : Publish(h) \/ GiveUp(h)
    \/ \E s \in Senders : Send(s)
    \/ \E m \in Senders : Produce(m) \/ LogError(m)

\* Goroutines run, and the library gets a result for every message it holds.
\* Nothing makes a context done, nor a handler publish.
Fairness == \A s \in Senders :
    WF_vars(Send(s)) /\ WF_vars(Produce(s)) /\ WF_vars(LogError(s))

Spec == Init /\ [][Next]_vars /\ Fairness

-----------------------------------------------------------------------------
(* Properties. *)

TypeOK ==
    /\ state \in [Senders -> SenderState]
    /\ fate \in [Senders -> Fate]
    /\ receipt \in [Senders -> Senders \cup {None}]

\* A message is in the producer's hands, or was, exactly when its sender got
\* past the outer select.
AcceptedHasFate ==
    \A s \in Senders :
        fate[s] = "none" <=> state[s] \in {"idle", "input", "refused"}

\* Answers still owed to senders, and those owed to nobody since their
\* senders gave up, are the answers still to come and those the logging
\* goroutine took in place of a sender.
Balance ==
    Cardinality(Waiting) + Cardinality(GaveUp)
        = Cardinality(Held) + Cardinality(Logged)

IInv == TypeOK /\ AcceptedHasFate /\ Balance

\* Nobody is blocked by chance.  A sender that waits although the producer
\* holds nothing lost its answer to the logging goroutine; a full producer
\* that nobody drains is full of answers to handlers that gave up.
BlockedSendersAreExplained ==
    /\ Held = {} /\ Waiting # {} => Logged # {}
    /\ Cardinality(Held) >= Capacity /\ Waiting = {} => Cardinality(GaveUp) >= Capacity

\* As long as no error is logged and fewer handlers than the producer holds
\* messages gave up, every handler and every goroutine that sends gets done.
LiveUnlessOverloaded ==
    [](Logged = {} /\ Cardinality(GaveUp) < Capacity) =>
        \A s \in Senders : state[s] = "input" ~> state[s] \in Ended

\* main.go:658, "Send message and handle response": the response a handler
\* records, with its offset and duration, is that of the message it sent.
ReceiptIsOwn == \A s \in Orders : receipt[s] \in {None, s}

=============================================================================
