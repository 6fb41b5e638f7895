------------------------------ MODULE MCClaims ------------------------------
EXTENDS Claims

Symmetry == Permutations(Claims) \cup Permutations(EvidenceIds)
=============================================================================
