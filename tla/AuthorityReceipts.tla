------------------------- MODULE AuthorityReceipts -------------------------
(***************************************************************************)
(* What the Authority boundary promises to whoever executes effects: an    *)
(* AuthorityDecision yields at most one execution authority, which is      *)
(* spent at most once, and once anything the decision rested on has        *)
(* changed (it is void) it is void for ever.  Authority implements this    *)
(* specification; OperationHost spends receipts through it.                *)
(***************************************************************************)

CONSTANT Decisions       \* decision identities; a receipt is named by its decision

VARIABLE receipt         \* receipt[d]: where the authority of decision d is in its life

(* No receipt yet; a receipt that may be spent; one that was; one that was  *)
(* issued but whose decision has changed under it; and a decision that      *)
(* changed before any receipt was issued.                                   *)
ReceiptStates == {"none", "issued", "spent", "void", "lapsed"}

ReceiptTypeOK == receipt \in [Decisions -> ReceiptStates]

ReceiptInit == receipt = [d \in Decisions |-> "none"]

IssueReceipt(d) ==
    /\ receipt[d] = "none"
    /\ receipt' = [receipt EXCEPT ![d] = "issued"]

SpendReceipt(d) ==
    /\ receipt[d] = "issued"
    /\ receipt' = [receipt EXCEPT ![d] = "spent"]

(* One host change may void any number of decisions at once. *)
VoidReceipts(D) ==
    /\ \A d \in D : receipt[d] \in {"none", "issued"}
    /\ receipt' = [d \in Decisions |->
          IF d \notin D THEN receipt[d]
          ELSE IF receipt[d] = "issued" THEN "void" ELSE "lapsed"]

ReceiptNext ==
    \/ \E d \in Decisions : IssueReceipt(d) \/ SpendReceipt(d)
    \/ \E D \in SUBSET Decisions : VoidReceipts(D)

ReceiptSpec == ReceiptInit /\ [][ReceiptNext]_receipt
=============================================================================
