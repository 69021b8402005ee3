---------------------------- MODULE MCOrderTotal ----------------------------
(***************************************************************************)
(* Small orders for OrderTotal, and the price that the mobile app shows.   *)
(***************************************************************************)
EXTENDS Prices

\* Prices below and above one unit, at and around the middle of a unit.
SampleCosts ==
    {[currency |-> "USD", units |-> u, nanos |-> k] :
        u \in 0 .. 1, k \in {0, 1, 2, NanosMod - 1}}

-----------------------------------------------------------------------------

\* demo.proto:193, "Number of nano (10^-9) units of the amount": the mobile
\* app (ProductCard.tsx:49) shows the prices that the web frontend shows.
MobileShowsThePrice ==
    \A k \in DOMAIN items : MobilePrice(items[k].cost) = ProductPrice(items[k].cost)

=============================================================================
