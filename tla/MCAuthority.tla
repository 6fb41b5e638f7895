----------------------------- MODULE MCAuthority -----------------------------
(* TLC instance of Authority, composed with Bindings. *)
EXTENDS Bindings, TLC

CONSTANTS t1

MCTerms ==
    {[capabilities |-> Capabilities, targets |-> Targets, ceiling |-> e, approval_required |-> a] :
        e \in {"modify"}, a \in BOOLEAN}

MCContracts == {[effect |-> "modify", risk |-> "low"], [effect |-> "delete", risk |-> "low"]}

MCPolicies == {[ask |-> {}, deny |-> {}], [ask |-> {"low"}, deny |-> {}], [ask |-> {}, deny |-> {"modify"}]}

Symmetry == Permutations(Grants) \cup Permutations(Contents)
==============================================================================
