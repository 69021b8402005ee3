-------------------------------- MODULE Prices --------------------------------
(***************************************************************************)
(* What the two frontends make of prices: a single price, the total of a   *)
(* cart before it is ordered, and the items of an order afterwards, beside *)
(* what PlaceOrder charges.  Their arithmetic is on doubles, taken as      *)
(* exact, and ends in two decimals, which are left out: amounts are        *)
(* compared before they are rounded.                                       *)
(***************************************************************************)
EXTENDS OrderTotal

(* units + nanos / 1000000000 of the web frontend, as a count of nanos.    *)
ProductPrice(price) == price.units * NanosMod + price.nanos

(* units + nanos / 100000000 of the mobile app.                            *)
MobilePrice(price) == price.units * NanosMod + price.nanos * 10

UnitsOf(cart) ==
  SumFunction([j \in DOMAIN cart |-> cart[j].quantity * cart[j].cost.units])
NanosOf(cart) ==
  SumFunction([j \in DOMAIN cart |-> cart[j].quantity * cart[j].cost.nanos])

(* Units and nanos, what exceeds a unit of these carried over.             *)
Carried(units, nanos) ==
  [units |-> units + nanos \div NanosMod, nanos |-> nanos % NanosMod]

(* A mutant: the nanos are reduced, but what exceeds a unit is dropped.    *)
DisplayedTotal_NoExceed(cart, cost) ==
  [units |-> UnitsOf(cart) + cost.units, nanos |-> (NanosOf(cart) + cost.nanos) % NanosMod]

(* The total of the cart page, with the cost of shipping, and the same of  *)
(* the page of an order.                                                   *)
DisplayedTotal(cart, cost) ==
  Carried(UnitsOf(cart) + cost.units, NanosOf(cart) + cost.nanos)

(* The price of an item on the page of an order.                           *)
ItemTotal(item) ==
  Carried(item.cost.units * item.quantity, item.cost.nanos * item.quantity)

-----------------------------------------------------------------------------

\* The total on the cart page (CartItems.tsx:37), which is also that of the
\* prices and the shipping cost on the page of the order, is what PlaceOrder
\* (checkout/main.go:338) charges by another way of adding, unless an item of
\* quantity 0, which MultiplySlow bills once, is in the cart.
ShownIsCharged ==
    pc = "charge" /\ (\A k \in DOMAIN items : items[k].quantity # 0) =>
        /\ ProductPrice(DisplayedTotal(items, shipping)) = Amount(total)
        /\ ProductPrice(shipping) +
             SumFunction([j \in DOMAIN items |-> ProductPrice(ItemTotal(items[j]))])
               = Amount(total)

=============================================================================
