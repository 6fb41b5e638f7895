-------------------------- MODULE MCLocalOperators --------------------------
(* TLC instances of LocalOperators. *)
EXTENDS LocalOperators, TLC

Symmetry == Permutations(Operations) \cup Permutations(Requests)
=============================================================================
