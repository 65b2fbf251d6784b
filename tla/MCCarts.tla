-------------------------------- MODULE MCCarts --------------------------------
(* TLC instances of Carts. *)
EXTENDS Carts, TLC

\* Requests and products are told apart by nothing but their identity.
Symmetry ==
    Permutations(Adds) \union Permutations(Gets) \union Permutations(Product)
=============================================================================
