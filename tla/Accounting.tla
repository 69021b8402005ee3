------------------------------ MODULE Accounting ------------------------------
(***************************************************************************)
(* The accounting service: it takes orders from the topic one at a time    *)
(* and books each in one transaction of the database, while the client     *)
(* library commits, in the background, the offset after the last order it  *)
(* has handed out.                                                         *)
(***************************************************************************)
EXTENDS Naturals, Sequences

CONSTANTS
  MaxOrders,     \* bound on the orders in the topic
  MaxDeaths,     \* bound on the deaths of the process
  None

VARIABLES
  orders,        \* the topic: whether each record can be parsed
  position,      \* the offset consumed next
  committed,     \* the offset committed, or None
  inHand,        \* the order being processed, or None
  booked,        \* the orders in the database
  deaths,
  excused        \* orders that were not booked for a reason named below
vars == <<orders, position, committed, inHand, booked, deaths, excused>>

Init ==
  /\ orders = <<>>
  /\ position = 0 /\ committed = None /\ inHand = None
  /\ booked = {}
  /\ deaths = 0 /\ excused = {}

Publish ==
  /\ Len(orders) < MaxOrders
  /\ \E parsed \in BOOLEAN : orders' = Append(orders, parsed)
  /\ UNCHANGED <<position, committed, inHand, booked, deaths, excused>>

Consume ==
  /\ inHand = None /\ position < Len(orders)
  /\ inHand' = position
  /\ position' = position + 1
  /\ UNCHANGED <<orders, committed, booked, deaths, excused>>

(* EnableAutoCommit: what Consume has handed out counts as consumed.       *)
Commit ==
  /\ position > 0
  /\ committed' = position
  /\ UNCHANGED <<orders, position, inHand, booked, deaths, excused>>

-----------------------------------------------------------------------------
(* ProcessMessage logs every exception and goes on with the next order.    *)
Done == inHand' = None /\ UNCHANGED <<orders, position, committed, deaths>>

ParseFails ==
  /\ inHand # None /\ ~orders[inHand + 1]
  /\ excused' = excused \cup {inHand}
  /\ Done
  /\ UNCHANGED booked

(* The primary keys refuse an order that is there already.                 *)
SaveChanges ==
  /\ inHand # None /\ orders[inHand + 1]
  /\ booked' = booked \cup {inHand}
  /\ Done
  /\ UNCHANGED excused

SaveFails ==
  /\ inHand # None /\ orders[inHand + 1]
  /\ excused' = excused \cup {inHand}
  /\ Done
  /\ UNCHANGED booked

-----------------------------------------------------------------------------
(* A mutant: without a commit the service starts at the end.               *)
StartAt_Latest == IF committed = None THEN Len(orders) ELSE committed

(* AutoOffsetReset.Earliest *)
StartAt == IF committed = None THEN 0 ELSE committed

(* The process dies, also between a commit and the transaction, or in the  *)
(* transaction, and starts again.                                          *)
Restart ==
  /\ deaths < MaxDeaths
  /\ deaths' = deaths + 1
  /\ position' = StartAt
  /\ inHand' = None
  /\ excused' = IF inHand # None /\ committed = position
                THEN excused \cup {inHand} ELSE excused
  /\ UNCHANGED <<orders, committed, booked>>

Next == \/ Publish \/ Consume \/ Commit
        \/ ParseFails \/ SaveChanges \/ SaveFails \/ Restart

Spec == Init /\ [][Next]_vars

-----------------------------------------------------------------------------
(* An order that the service has passed is booked unless it could not be   *)
(* parsed or stored, or was in hand, its offset committed already, when    *)
(* the process died: other deaths only have orders delivered again.        *)
OrdersAreBooked ==
  \A o \in 0..(position - 1) : o # inHand => o \in booked \cup excused

-----------------------------------------------------------------------------
(* What the proofs add: orders below the committed offset are accounted    *)
(* for, but for one in hand, so that the service can start again there.    *)
TypeOK ==
  /\ orders \in Seq(BOOLEAN)
  /\ position \in 0..Len(orders)
  /\ committed = None \/ committed \in 0..position
  /\ inHand # None => inHand \in Nat /\ position = inHand + 1

IInv == TypeOK /\ OrdersAreBooked
=============================================================================
