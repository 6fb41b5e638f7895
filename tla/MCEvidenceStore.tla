-------------------------- MODULE MCEvidenceStore --------------------------
(* Two shards: one holds two files, which share the flush of their names.  *)
EXTENDS EvidenceStore, TLC

CONSTANTS c1, c2, c3, s1, s2

Placement == c1 :> s1 @@ c2 :> s1 @@ c3 :> s2

Symmetry == Permutations(EvidenceIds) \cup Permutations({c1, c2})
=============================================================================
