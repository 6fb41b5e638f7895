---------------------------- MODULE ClaimSupport ----------------------------
(***************************************************************************)
(* What the Claim store promises to whoever relies on a Claim: support is  *)
(* given once and, once retracted, never comes back.                       *)
(***************************************************************************)
CONSTANT Claims
VARIABLE support     \* support[k]: the epistemic state of Claim k

Standings == {"proposed", "supported", "retracted"}

Init == support = [k \in Claims |-> "proposed"]

Support(k) ==
    /\ support[k] = "proposed"
    /\ support' = [support EXCEPT ![k] = "supported"]

(* It is contradicted or superseded. *)
Retract(k) ==
    /\ support[k] # "retracted"
    /\ support' = [support EXCEPT ![k] = "retracted"]

Next == \E k \in Claims : Support(k) \/ Retract(k)

Spec == Init /\ [][Next]_support
=============================================================================
