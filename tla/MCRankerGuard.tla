---------------------------- MODULE MCRankerGuard ----------------------------
(* TLC instances of RankerGuard. *)
EXTENDS RankerGuard, TLC

\* Callers are told apart by nothing but their identity.
Symmetry == Permutations(Callers)
=============================================================================
