------------------------------- MODULE Claims -------------------------------
(***************************************************************************)
(* ClaimRepository (kernel/claim_store.py).  A Claim starts as proposed,   *)
(* and admitted Evidence is linked to it that refers to it, supports it or *)
(* contradicts it; in the end another Claim may succeed it.  A row, links  *)
(* and the Events all tell its story.  Every reading and every change of a *)
(* Claim compares them, so that one change that should not have been made  *)
(* blocks the Claim for good.                                              *)
(*                                                                         *)
(* Every call is one transaction of the one writer, without callbacks.     *)
(***************************************************************************)
EXTENDS SequencesExt, FiniteSets

CONSTANTS
    Claims,          \* claim identities
    EvidenceIds,     \* identities of Evidence
    MaxEvents        \* bound on claim Events

ASSUME ClaimConstants == "none" \notin Claims /\ MaxEvents \in Nat

VARIABLES
    admitted,        \* the Evidence that is admitted and can be read
    row,             \* row[k]: the projection of Claim k, or NoClaim
    events,          \* events[k]: its Events, each with the Claim it leads to
    links,           \* links[k]: its links to Evidence
    successor        \* successor[k]: the Claim that succeeds it, or "none"

vars == <<admitted, row, events, links, successor>>

Relations == {"reference", "support", "contradiction"}
Statuses  == {"proposed", "supported", "contradicted", "superseded"}

ClaimRecords == [status : Statuses, refs : SUBSET EvidenceIds]
NoClaim == [status |-> "none", refs |-> {}]
Links == [evidence : EvidenceIds, relation : Relations]

Exists(k) == row[k] # NoClaim
Of(k, relation) == {l.evidence : l \in {m \in links[k] : m.relation = relation}}

-----------------------------------------------------------------------------
(* Reading *)

(* _validated_history *)
HistoryReads(k) ==
    /\ events[k] # <<>> /\ Head(events[k]).claim.status = "proposed"
    /\ \A i \in DOMAIN events[k] : events[k][i].claim.status = "superseded" => i = Len(events[k])

(* get, and all the integrity it asks for *)
Readable(k) ==
    /\ Exists(k) /\ HistoryReads(k)
    /\ Last(events[k]).claim = row[k]
    /\ links[k] = UNION {events[k][i].links : i \in DOMAIN events[k]}
    /\ row[k].refs = {l.evidence : l \in links[k]} /\ row[k].refs \subseteq admitted
    /\ row[k].status = "supported" => Of(k, "support") # {}
    /\ row[k].status = "contradicted" => Of(k, "contradiction") # {}
    /\ row[k].status = "superseded" <=> successor[k] # "none"

(* verification_evidence gives a supported Claim's support Evidence, unless *)
(* there is Evidence against it.                                            *)
VerificationEvidence(k) ==
    IF row[k].status = "supported" /\ Of(k, "contradiction") = {} THEN Of(k, "support") ELSE {}

-----------------------------------------------------------------------------

(* No Claim succeeds itself or a Claim that does not exist.                *)
TypeOK ==
    /\ admitted \subseteq EvidenceIds
    /\ row \in [Claims -> ClaimRecords \cup {NoClaim}]
    /\ \A k \in Claims : \A i \in DOMAIN events[k] :
          events[k][i] \in [claim : ClaimRecords, links : SUBSET Links]
    /\ links \in [Claims -> SUBSET Links]
    /\ successor \in [Claims -> Claims \cup {"none"}]
    /\ \A k \in Claims : successor[k] # "none" => Exists(successor[k]) /\ successor[k] # k

Init ==
    /\ admitted = {}
    /\ row = [k \in Claims |-> NoClaim]
    /\ events = [k \in Claims |-> <<>>]
    /\ links = [k \in Claims |-> {}]
    /\ successor = [k \in Claims |-> "none"]

EventCount == FoldSet(LAMBDA k, n : n + Len(events[k]), 0, Claims)

(* _append_event, _insert_link for each link, and _write_projection.  A    *)
(* link that is there already is refused, by the database.                 *)
Change(k, claim, new) ==
    /\ EventCount < MaxEvents
    /\ new \cap links[k] = {}
    /\ row' = [row EXCEPT ![k] = claim]
    /\ events' = [events EXCEPT ![k] = Append(@, [claim |-> claim, links |-> new])]
    /\ links' = [links EXCEPT ![k] = @ \cup new]

-----------------------------------------------------------------------------
(* Calls *)

(* EvidenceRepository.admit *)
AdmitEvidence(e) ==
    /\ e \notin admitted
    /\ admitted' = admitted \cup {e}
    /\ UNCHANGED <<row, events, links, successor>>

Create(k) ==
    /\ ~Exists(k) /\ events[k] = <<>>
    /\ Change(k, [status |-> "proposed", refs |-> {}], {})
    /\ UNCHANGED <<admitted, successor>>

(* Mutants of AddReference: new Evidence reopens the Claim; an Event follows the supersession. *)
AddReferenceReopening(k, e) ==
    /\ Readable(k) /\ e \in admitted
    /\ row[k].status # "superseded"
    /\ Change(k, [status |-> "proposed", refs |-> row[k].refs \cup {e}],
              {[evidence |-> e, relation |-> "reference"]})
    /\ UNCHANGED <<admitted, successor>>

AddReferenceLate(k, e) ==
    /\ Readable(k) /\ e \in admitted
    /\ Change(k, [row[k] EXCEPT !.refs = @ \cup {e}], {[evidence |-> e, relation |-> "reference"]})
    /\ UNCHANGED <<admitted, successor>>

AddReference(k, e) ==
    /\ Readable(k) /\ e \in admitted
    /\ row[k].status # "superseded"
    /\ Change(k, [row[k] EXCEPT !.refs = @ \cup {e}], {[evidence |-> e, relation |-> "reference"]})
    /\ UNCHANGED <<admitted, successor>>

(* _transition_with_evidence *)
Transition(k, cited, relation, opposite, status) ==
    /\ Readable(k) /\ cited \subseteq admitted /\ cited # {}
    /\ cited \cap Of(k, opposite) = {}
    /\ Change(k, [status |-> status, refs |-> row[k].refs \cup cited],
              [evidence : cited, relation : {relation}])
    /\ UNCHANGED <<admitted, successor>>

(* Mutant of Supportable: more support is added later. *)
SupportableAgain(k) == row[k].status \in {"proposed", "supported"}

Supportable(k) == row[k].status = "proposed"

Support(k, cited) ==
    /\ Supportable(k)
    /\ Transition(k, cited, "support", "contradiction", "supported")

Contradict(k, cited) ==
    /\ row[k].status \in {"proposed", "supported"}
    /\ Transition(k, cited, "contradiction", "support", "contradicted")

(* Mutant of MayFollow: supersede forgets to look at the successor. *)
MayFollowUnread(k, n) == k # n /\ Exists(n)

MayFollow(k, n) == k # n /\ Readable(n) /\ row[n].status # "superseded"

Supersede(k, n) ==
    /\ Readable(k) /\ row[k].status # "superseded"
    /\ MayFollow(k, n)
    /\ successor' = [successor EXCEPT ![k] = n]
    /\ Change(k, [row[k] EXCEPT !.status = "superseded"], {})
    /\ UNCHANGED admitted

Next ==
    \/ \E e \in EvidenceIds : AdmitEvidence(e)
    \/ \E k \in Claims : Create(k)
    \/ \E k \in Claims, e \in EvidenceIds : AddReference(k, e)
    \/ \E k \in Claims, cited \in SUBSET EvidenceIds : Support(k, cited) \/ Contradict(k, cited)
    \/ \E k, n \in Claims : Supersede(k, n)

Spec == Init /\ [][Next]_vars

-----------------------------------------------------------------------------
(* Properties *)

(* Whatever sequence of calls was accepted, row, links, Events and the     *)
(* successor of every Claim still agree, so that get accepts it.           *)
EveryClaimReads == \A k \in Claims : Exists(k) => Readable(k)

(* Whoever follows the successors of a superseded Claim comes to one that  *)
(* is not superseded, though its successor may be superseded later: among  *)
(* any Claims there is one that is current, or that another succeeds.      *)
SuccessionEnds ==
    \A S \in SUBSET {k \in Claims : Exists(k)} : S # {} =>
        \E k \in S : row[k].status # "superseded" \/ successor[k] \in Claims \ S

(* The Evidence that a Verification rests on does not change while the     *)
(* Claim is supported, and a Claim that was ever moved away from support   *)
(* gives no Evidence again.                                                *)
SupportIsFixed ==
    [][\A k \in Claims :
        /\ VerificationEvidence(k) # {} => VerificationEvidence(k)' \in {VerificationEvidence(k), {}}
        /\ VerificationEvidence(k) = {} /\ VerificationEvidence(k)' # {} => row[k].status = "proposed"]_vars

Standing(k) == IF row[k].status \in {"none", "proposed"} THEN "proposed"
               ELSE IF VerificationEvidence(k) # {} THEN "supported" ELSE "retracted"

(* What Completion assumes of Claims.                                      *)
Supports == INSTANCE ClaimSupport WITH support <- [k \in Claims |-> Standing(k)]
ImplementsClaimSupport == Supports!Spec
=============================================================================
