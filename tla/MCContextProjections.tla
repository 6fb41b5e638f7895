------------------------ MODULE MCContextProjections ------------------------
(* TLC instance of ContextProjections. *)
EXTENDS ContextProjections, TLC

Symmetry == Permutations(Events)
=============================================================================
