---------------------------- MODULE MCMapReduce ----------------------------
(* TLC instances of MapReduce. *)
EXTENDS MapReduce, TLC

\* Runs are told apart by nothing but their identity.
Symmetry == Permutations(Runs)
=============================================================================
