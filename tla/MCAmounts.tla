----------------------------- MODULE MCAmounts -----------------------------
(***************************************************************************)
(* The checkout's arithmetic on small instances: single sums, in module    *)
(* MCMoney, and whole orders, in module MCOrderTotal.                      *)
(***************************************************************************)
EXTENDS MCMoney, MCOrderTotal

VARIABLE part   \* "sums" or "orders", for ever

Nothing == [currency |-> "USD", units |-> 0, nanos |-> 0]

AmountsInit ==
  \/ part = "sums" /\ TurnOn /\ shipping = Nothing /\ items = <<>> /\ Init
  \/ part = "orders" /\ Init /\ left = Nothing /\ right = Nothing

AmountsNext ==
  /\ UNCHANGED part
  /\ \/ part = "sums" /\ Press /\ UNCHANGED vars
     \/ part = "orders" /\ Next /\ UNCHANGED registers

AmountsSpec == AmountsInit /\ [][AmountsNext]_<<part, registers, vars>>

=============================================================================
