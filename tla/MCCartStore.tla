---------------------------- MODULE MCCartStore ----------------------------
(***************************************************************************)
(* A small instance of CartHistory: a user whose calls may overlap, and one*)
(* who waits for every answer, with an int32 that wraps.                   *)
(***************************************************************************)
EXTENDS CartHistory, TLC

Symmetry == Permutations(Calls) \cup Permutations(Products)

\* CartService.cs:37 takes any int32: one that makes the cart's quantity
\* negative, and one that wraps with itself.
SampleQuantities == {-1, 3}

=============================================================================
