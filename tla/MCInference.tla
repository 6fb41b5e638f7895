----------------------------- MODULE MCInference -----------------------------
(* TLC instance of Inference. *)
EXTENDS Inference, TLC

UnitSize == [s \in Addresses \cup Evidence |-> 1]

(* Two thousand requests: small and large sources of every class. *)
MixedSamples ==
    {[ref |-> 0, class |-> "current_program", units |-> 1],
     [ref |-> 1, class |-> "host_control", units |-> 2],
     [ref |-> 2, class |-> "current_evidence", units |-> 2],
     [ref |-> 3, class |-> "recent_interaction", units |-> 3],
     [ref |-> 4, class |-> "recent_interaction", units |-> 1],
     [ref |-> 5, class |-> "advisory_memory", units |-> 1],
     [ref |-> 6, class |-> "recalled_history", units |-> 2],
     [ref |-> 7, class |-> "recalled_history", units |-> 1],
     [ref |-> 8, class |-> "recalled_history", units |-> 1]}

SampleLimits == {[items |-> 2, units |-> 20], [items |-> 3, units |-> 3]}

Symmetry == Permutations(Attempts) \cup Permutations(Receipts)
===============================================================================
