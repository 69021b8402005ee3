----------------------------- MODULE OrderTotal -----------------------------
(***************************************************************************)
(* How PlaceOrder computes the amount it charges (checkout/main.go, the    *)
(* loop between the preparation of the order and chargeCard): the shipping *)
(* cost, then for each order item its unit cost added to itself quantity   *)
(* times (money.MultiplySlow), every sum wrapped in money.Must.            *)
(*                                                                         *)
(* A failing sum panics and takes the process down; the step from one      *)
(* addition to the next is the step of this module, so that the values in  *)
(* between, which decide whether the next sum fails, are states.           *)
(***************************************************************************)
EXTENDS Money, Sequences, Functions

CONSTANTS Costs,       \* localised prices: what the currency service answers
          Quantities,  \* quantities of a cart item
          MaxItems     \* bound on the number of different items

\* Prices are valid and not negative: catalogue prices and quotes are, and
\* the currency service converts with positive rates.  A negative quantity
\* never gets here: the shipping service rejects it (its count is unsigned)
\* and the order fails while its shipping quote is asked for.
ASSUME CostsAssumption ==
    /\ Costs \subseteq {m \in MoneyValue : IsValid(m) /\ m.units >= 0 /\ m.nanos >= 0}
    /\ \A l, r \in Costs : l.currency = r.currency
    /\ Quantities \subseteq Nat
    /\ MaxItems \in Nat

OrderItem == [cost : Costs, quantity : Quantities]

VARIABLES
    shipping,  \* prep.shippingCostLocalized
    items,     \* prep.orderItems
    pc,        \* "shipping", "items", "multiply", "charge" or "panic"
    i,         \* the item the loop of PlaceOrder is at
    total,     \* the running total
    out,       \* MultiplySlow's accumulator
    n          \* MultiplySlow's countdown

vars == <<shipping, items, pc, i, total, out, n>>

Zero == [currency |-> shipping.currency, units |-> 0, nanos |-> 0]

Init ==
    /\ shipping \in Costs
    /\ items \in UNION {[1 .. k -> OrderItem] : k \in 0 .. MaxItems}
    /\ pc = "shipping"
    /\ i = 1
    /\ total = Zero
    /\ out = Zero
    /\ n = 0

\* Must: a failed sum panics, nothing recovers.
Must(l, r) ==
    /\ SumError(l, r) # NoError
    /\ pc' = "panic"
    /\ UNCHANGED <<i, total, out, n>>

\* Mutant: the total starts from nothing and the shipping cost is never added.
AddShipping_Forgotten ==
    /\ pc = "shipping"
    /\ pc' = "items"
    /\ UNCHANGED <<shipping, items, i, total, out, n>>

AddShipping ==
    /\ pc = "shipping"
    /\ \/ Must(total, shipping)
       \/ /\ SumError(total, shipping) = NoError
          /\ total' = Sum(total, shipping)
          /\ pc' = "items"
          /\ UNCHANGED <<i, out, n>>
    /\ UNCHANGED <<shipping, items>>

\* The call of MultiplySlow for the next item.
StartItem ==
    /\ pc = "items" /\ i <= Len(items)
    /\ out' = items[i].cost
    /\ n' = items[i].quantity
    /\ pc' = "multiply"
    /\ UNCHANGED <<shipping, items, i, total>>

\* Mutant: the accumulator is doubled instead of the cost being added to it.
MultiplyStep_Doubling ==
    /\ pc = "multiply" /\ n > 1
    /\ SumError(out, out) = NoError
    /\ out' = Sum(out, out)
    /\ n' = n - 1
    /\ UNCHANGED <<pc, i, total, shipping, items>>

\* for n > 1 { out = Must(Sum(out, m)); n-- }
MultiplyStep ==
    /\ pc = "multiply" /\ n > 1
    /\ \/ Must(out, items[i].cost)
       \/ /\ SumError(out, items[i].cost) = NoError
          /\ out' = Sum(out, items[i].cost)
          /\ n' = n - 1
          /\ UNCHANGED <<pc, i, total>>
    /\ UNCHANGED <<shipping, items>>

\* Mutant: the unit cost is added, not the multiplied one.
AddItem_UnitCost ==
    /\ pc = "multiply" /\ n <= 1
    /\ SumError(total, items[i].cost) = NoError
    /\ total' = Sum(total, items[i].cost)
    /\ i' = i + 1
    /\ pc' = "items"
    /\ UNCHANGED <<out, n, shipping, items>>

\* MultiplySlow returned: the multiplied price joins the total.
AddItem ==
    /\ pc = "multiply" /\ n <= 1
    /\ \/ Must(total, out)
       \/ /\ SumError(total, out) = NoError
          /\ total' = Sum(total, out)
          /\ i' = i + 1
          /\ pc' = "items"
          /\ UNCHANGED <<out, n>>
    /\ UNCHANGED <<shipping, items>>

\* The loop ends: the total goes to chargeCard.
Charge ==
    /\ pc = "items" /\ i > Len(items)
    /\ pc' = "charge"
    /\ UNCHANGED <<shipping, items, i, total, out, n>>

Next == AddShipping \/ StartItem \/ MultiplyStep \/ AddItem \/ Charge

Spec == Init /\ [][Next]_vars

-----------------------------------------------------------------------------

\* Sum leaves nanos below a unit and units that are not negative, in valid
\* and invalid results alike; all values keep the currency of the order.
TypeOK ==
    /\ shipping \in Costs /\ items \in Seq(OrderItem)
    /\ pc \in {"shipping", "items", "multiply", "charge", "panic"}
    /\ i \in 1 .. Len(items) + 1 /\ n \in Nat
    /\ \A m \in {total, out} :
        /\ m \in [currency : {shipping.currency}, units : Nat, nanos : Int]
        /\ m.nanos \in -NanosMod .. NanosMod - 1

\* MultiplySlow returns its argument once for a quantity of zero.
Billed(item) == IF item.quantity = 0 THEN 1 ELSE item.quantity

\* The amount due for the shipping cost and the first k items.
Due(k) ==
    Amount(shipping) +
        SumFunctionOnSet([j \in DOMAIN items |-> Billed(items[j]) * Amount(items[j].cost)],
                         1 .. k)

\* No money is lost or made up between the quote and the charge: whatever
\* representation the running total is in, it stands for the shipping cost
\* and the multiplied prices of the items done so far.
TotalIsExact ==
    pc \in {"items", "multiply", "charge"} => Amount(total) = Due(i - 1)

\* A price of at least half a unit, zero, or bought once cannot be multiplied
\* into the range Sum mishandles.
Multipliable(item) ==
    \/ item.quantity <= 1
    \/ Amount(item.cost) = 0
    \/ 2 * Amount(item.cost) >= NanosMod

Ordinary ==
    shipping.units >= 1 /\ \A k \in DOMAIN items : Multipliable(items[k])

\* An order with a shipping cost of at least one unit is never brought down
\* by a panic when no item is cheaper than half a unit, and what it charges
\* is a well-formed amount.  All seeded prices are in this range in dollars.
OrdinaryOrdersAreCharged ==
    Ordinary => pc # "panic" /\ (pc = "charge" => IsValid(total))

-----------------------------------------------------------------------------

\* The parts of the inductive invariant that the proofs add.

\* A valid accumulator is a price; while MultiplySlow runs, it is at an item.
AccumulatorsArePrices ==
    /\ IsValid(total) => total.nanos >= 0
    /\ IsValid(out) => out.nanos >= 0
    /\ pc = "multiply" => i <= Len(items)

\* MultiplySlow's loop invariant: what is accumulated and the n - 1 additions
\* that remain make the billed quantity.
MultiplyInvariant ==
    pc = "multiply" =>
        \/ n = 0 /\ items[i].quantity = 0 /\ out = items[i].cost
        \/ /\ n >= 1 /\ n <= items[i].quantity
           /\ Amount(out) + (n - 1) * Amount(items[i].cost) =
                  items[i].quantity * Amount(items[i].cost)

\* An ordinary order never meets the amounts that Sum mishandles: the total
\* has at least the shipping cost's unit; the accumulator is the unit cost, or
\* has reached a unit, or stands at zero.
OrdinaryInvariant ==
    Ordinary =>
        /\ pc # "panic"
        /\ pc = "shipping" => total = Zero
        /\ pc \in {"items", "multiply", "charge"} => IsValid(total) /\ total.units >= 1
        /\ pc = "multiply" =>
            /\ IsValid(out)
            /\ \/ out = items[i].cost
               \/ out.units >= 1
               \/ Amount(out) = 0 /\ Amount(items[i].cost) = 0

IInv == TypeOK /\ AccumulatorsArePrices /\ MultiplyInvariant /\ OrdinaryInvariant

\* The loop starts at nothing, ends after the last item, and adds what is due.
LoopInvariant ==
    /\ TotalIsExact
    /\ pc = "shipping" => i = 1 /\ total = Zero
    /\ pc = "charge" => i = Len(items) + 1

=============================================================================
