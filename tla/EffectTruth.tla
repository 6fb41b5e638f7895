---------------------------- MODULE EffectTruth ----------------------------
(***************************************************************************)
(* What the Operation journal promises about effects on the world.  An     *)
(* authority reaches the backend at most once.  The journal's claim about  *)
(* an Operation is either open, uncertain, or a fact: "confirmed" is only  *)
(* claimed of an effect that has landed, "absent" only of one that has not *)
(* and never will, and a fact is never taken back.  OperationHost, with    *)
(* its crashes, nested calls and recovery, implements this specification.  *)
(***************************************************************************)
CONSTANTS
    Operations,      \* operation identities
    Decisions        \* the authorities operations run under

VARIABLES
    truth,           \* truth[o]: what became of the effect of o in the world
    claim,           \* claim[o]: what the journal says of it
    under,           \* under[o]: the authority o was requested under
    used             \* the authorities that have reached the backend

vars == <<truth, claim, under, used>>

Truths == {"unsent", "in_flight", "landed", "no_effect"}
ClaimStates == {"none", "open", "uncertain", "confirmed", "absent", "not_applicable"}

Init ==
    /\ truth = [o \in Operations |-> "unsent"]
    /\ claim = [o \in Operations |-> "none"]
    /\ under = [o \in Operations |-> "none"]
    /\ used = {}

Request(o, d) ==
    /\ claim[o] = "none"
    /\ claim' = [claim EXCEPT ![o] = "open"]
    /\ under' = [under EXCEPT ![o] = d]
    /\ UNCHANGED <<truth, used>>

Send(o) ==
    /\ claim[o] = "open" /\ truth[o] = "unsent" /\ under[o] \notin used
    /\ \E t \in {"in_flight", "no_effect"} : truth' = [truth EXCEPT ![o] = t]
    /\ used' = used \cup {under[o]}
    /\ UNCHANGED <<claim, under>>

(* The backend settles the effect, whatever the host does meanwhile. *)
Settle(o) ==
    /\ truth[o] = "in_flight"
    /\ \E t \in {"landed", "no_effect"} : truth' = [truth EXCEPT ![o] = t]
    /\ UNCHANGED <<claim, under, used>>

(* The claims that are true of an effect, and stay true. *)
Sound(o) == {"uncertain"}
    \cup (IF truth[o] = "landed" THEN {"confirmed"} ELSE {})
    \cup (IF truth[o] \in {"unsent", "no_effect"} THEN {"absent"} ELSE {})
    \cup (IF truth[o] \in {"unsent", "no_effect"} THEN {"not_applicable"} ELSE {})

(* An Operation whose claim is made is never sent afterwards. *)
Claim(o) ==
    /\ claim[o] \in {"open", "uncertain"}
    /\ \E c \in Sound(o) : claim' = [claim EXCEPT ![o] = c]
    /\ UNCHANGED <<truth, under, used>>

Next ==
    \/ \E o \in Operations : Send(o) \/ Settle(o) \/ Claim(o)
    \/ \E o \in Operations, d \in Decisions : Request(o, d)

Spec == Init /\ [][Next]_vars
=============================================================================
