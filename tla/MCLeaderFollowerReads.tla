----------------------- MODULE MCLeaderFollowerReads -----------------------
(* TLC instances of LeaderFollowerReads. *)
EXTENDS LeaderFollowerReads, TLC

\* Writes, and reads, are told apart by nothing but their identity.
Symmetry == Permutations(Writes) \union Permutations(Gets)
============================================================================
