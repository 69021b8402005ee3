----------------------------- MODULE MCCheckout -----------------------------
(***************************************************************************)
(* Small instances of Checkout: calls of one user for one or two products. *)
(***************************************************************************)
EXTENDS Checkout, TLC

CONSTANTS alice, p1

OfAlice == [r \in Requests |-> alice]

\* The cart of the first product alone brings the process down.
FirstProductPanics == {{p1}}

Symmetry == Permutations(Requests)

=============================================================================
