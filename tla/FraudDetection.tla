---------------------------- MODULE FraudDetection ----------------------------
(***************************************************************************)
(* The fraud-detection service: one thread polls the topic and goes over   *)
(* the batch of records it gets.  The library commits the positions of the *)
(* batches before in a later poll, and all it has handed out on close,     *)
(* which is also called when a record cannot be parsed.                    *)
(***************************************************************************)
EXTENDS Naturals, Sequences

CONSTANTS
  MaxOrders,     \* bound on the orders in the topic
  MaxStarts,     \* bound on the starts of the process
  None

VARIABLES
  orders,        \* the topic: whether each record can be parsed
  position,      \* the end of the batch in hand
  next,          \* the record of the batch processed next
  committed,     \* the offset committed, or None
  up,
  starts,
  counted,       \* the orders that were ever counted
  excused        \* orders that were passed over for a reason named below
vars == <<orders, position, next, committed, up, starts, counted, excused>>

Init ==
  /\ orders = <<>>
  /\ position = 0 /\ next = 0 /\ committed = None
  /\ up = FALSE /\ starts = 0
  /\ counted = {} /\ excused = {}

Publish ==
  /\ Len(orders) < MaxOrders
  /\ \E parsed \in BOOLEAN : orders' = Append(orders, parsed)
  /\ UNCHANGED <<position, next, committed, up, starts, counted, excused>>

(* Without a commit the consumer starts at the end of the topic.           *)
Start ==
  /\ ~up /\ starts < MaxStarts
  /\ up' = TRUE /\ starts' = starts + 1
  /\ LET from == IF committed = None THEN Len(orders) ELSE committed
     IN  /\ position' = from /\ next' = from
         /\ excused' = IF committed = None
                       THEN excused \cup (0..(Len(orders) - 1)) ELSE excused
  /\ UNCHANGED <<orders, committed, counted>>

(* A mutant: the batch that is handed out is committed with it.            *)
Poll_CommitsBatch ==
  /\ up /\ next = position
  /\ \E end \in position..Len(orders) :
       /\ position' = end
       /\ committed' \in {committed, end}
  /\ UNCHANGED <<orders, next, up, starts, counted, excused>>

(* A poll may be due to commit; then it commits what came before it.       *)
Poll ==
  /\ up /\ next = position
  /\ \E end \in position..Len(orders) :
       /\ position' = end
       /\ committed' \in {committed, position}
  /\ UNCHANGED <<orders, next, up, starts, counted, excused>>

Count ==
  /\ up /\ next < position /\ orders[next + 1]
  /\ counted' = counted \cup {next}
  /\ next' = next + 1
  /\ UNCHANGED <<orders, position, committed, up, starts, excused>>

(* consumer.use closes the consumer on the way out, which commits the      *)
(* whole batch, or fails to.                                               *)
ParseFails ==
  /\ up /\ next < position /\ ~orders[next + 1]
  /\ up' = FALSE
  /\ \/ /\ committed' = position
        /\ excused' = excused \cup (next..(position - 1))
     \/ UNCHANGED <<committed, excused>>
  /\ UNCHANGED <<orders, position, next, starts, counted>>

Die ==
  /\ up
  /\ up' = FALSE
  /\ UNCHANGED <<orders, position, next, committed, starts, counted, excused>>

Next == Publish \/ Start \/ Poll \/ Count \/ ParseFails \/ Die

Spec == Init /\ [][Next]_vars

-----------------------------------------------------------------------------
(* Every order before the one that is processed next was counted, in this  *)
(* or an earlier start, unless the service started behind it without a     *)
(* committed offset, or it was behind a record that cannot be parsed, in   *)
(* the same batch.  A restart goes back to an order not passed over.       *)
OrdersAreCounted == up => \A o \in 0..(next - 1) : o \in counted \cup excused

-----------------------------------------------------------------------------
(* What the proofs add: also while the service is down, and below the      *)
(* committed offset, every order is accounted for.                         *)
TypeOK ==
  /\ orders \in Seq(BOOLEAN)
  /\ position \in 0..Len(orders) /\ next \in 0..position
  /\ committed = None \/ committed \in 0..Len(orders)
  /\ up \in BOOLEAN /\ starts \in Nat

Accounted(offset) == \A o \in 0..(offset - 1) : o \in counted \cup excused

IInv == TypeOK /\ Accounted(next) /\ (committed # None => Accounted(committed))
=============================================================================
