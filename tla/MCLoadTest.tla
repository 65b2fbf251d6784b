------------------------------ MODULE MCLoadTest ------------------------------
(* TLC instances of LoadTest. *)
EXTENDS LoadTest, TLC

\* Writes and reads are told apart by nothing but their identity.
Symmetry == Permutations(Writes) \union Permutations(Reads)
=============================================================================
