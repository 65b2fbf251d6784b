-------------------------- MODULE MCLeaderFollower --------------------------
(* TLC instances of LeaderFollower. *)
EXTENDS LeaderFollower, TLC

\* Writes are told apart by nothing but their identity.
Symmetry == Permutations(Writes)
=============================================================================
