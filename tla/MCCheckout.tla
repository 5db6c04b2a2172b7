----------------------------- MODULE MCCheckout -----------------------------
(***************************************************************************)
(* Instances of Checkout for TLC.                                          *)
(***************************************************************************)
EXTENDS Checkout, TLC

CONSTANTS v1, v2

\* Two of the first variant, one of the second.
MCStock == v1 :> 2 @@ v2 :> 1

Symmetry ==
    Permutations(Users) \cup Permutations(ItemIds) \cup Permutations(OrderIds)
        \cup Permutations(Sessions)
=============================================================================
