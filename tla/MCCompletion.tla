---------------------------- MODULE MCCompletion ----------------------------
(* TLC instance of Completion. *)
EXTENDS Completion, TLC

(* One contract covers everything; it may or may not ask for certainty. *)
MCTerms ==
    {[criteria |-> Criteria, claims |-> Claims, mandatory |-> TRUE, certainty |-> y] : y \in BOOLEAN}

Symmetry == Permutations(Operations) \cup Permutations(Contracts) \cup Permutations(Criteria)
==============================================================================
