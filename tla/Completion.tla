---------------------------- MODULE Completion ----------------------------
(***************************************************************************)
(* Verification and certification of one Program (kernel/verification.py,  *)
(* kernel/completion.py): contracts, Verifications, blockers and the       *)
(* CompletionOracle, over the Program, the Operations and the Claims that  *)
(* they read.                                                              *)
(*                                                                         *)
(* VerificationRepository.run calls a verifier outside any transaction;    *)
(* the verifier may re-enter the host, so everything may change before its *)
(* answer is admitted.  All other operations are one transaction each.     *)
(*                                                                         *)
(* Operations are seen through EffectTruth, which OperationHost implements.*)
(* A Claim gets its support Evidence once, when it becomes supported, so   *)
(* that the Evidence a contract requires is unchanged means that its       *)
(* Claims are still supported.  The Event sequence counts only the Events  *)
(* whose order something depends on.                                       *)
(***************************************************************************)
EXTENDS ProgramStates, Sequences

CONSTANTS
    Operations,      \* operation identities
    Decisions,       \* the authorities Operations run under
    Observing,       \* the decisions whose Capability only observes
    Criteria,        \* the success criteria of the Program
    Claims,          \* claim identities
    Contracts,       \* contract identities
    Terms,           \* the terms a contract may be registered with
    Blockers,        \* blocker identities
    MaxRevision,     \* bound on Program revisions reached by its callers
    MaxSequence,     \* bound on Events
    MaxDepth         \* bound on verifier calls inside verifier calls

ASSUME CompletionConstants ==
    /\ Observing \subseteq Decisions
    /\ "none" \notin Decisions
    /\ Terms \subseteq [criteria : SUBSET Criteria, claims : SUBSET Claims,
                        mandatory : BOOLEAN, certainty : BOOLEAN]
    /\ MaxRevision \in Nat /\ MaxSequence \in Nat /\ MaxDepth \in Nat

VARIABLES
    truth, claim, under, used,   \* the Operations and the world: see EffectTruth
    program,         \* the durable Program
    authority,       \* authority[d]: Program revision it is bound to, or NoAuthority
    support,         \* support[k]: the epistemic state of Claim k
    contract,        \* contract[c]: its terms, or NoContract
    blocker,         \* blocker[b]: "none", "open" or "resolved"
    asked,           \* the verifier calls in progress, innermost last
    verification,    \* verification[c]: the latest of contract c, or NoVerification
    receipts,        \* the CompletionReceipts
    sequence,        \* sequence of the newest Event
    changed          \* sequence of the newest Event of a mutating Operation

operations == <<truth, claim, under, used>>
verifying == <<asked, verification>>
vars == <<operations, program, authority, support, contract, blocker, verifying,
          receipts, sequence, changed>>

Journal == INSTANCE EffectTruth
ClaimStore == INSTANCE ClaimSupport

NoAuthority == 0          \* a Program of revision 0 is not active
NoContract == [mandatory |-> FALSE]
NoVerification == [result |-> "none"]
Results == {"pass", "fail", "indeterminate"}

Mutating(o) == claim[o] # "none" /\ under[o] \notin Observing

(* History: what the oracle must not overlook, as a verifier found it. *)
Facts == [program |-> program, claims |-> [o \in Operations |-> IF Mutating(o) THEN claim[o] ELSE "none"]]

Mandatory == {c \in Contracts : contract[c].mandatory}

Supported(c) == \A k \in contract[c].claims : support[k] = "supported"

-----------------------------------------------------------------------------

FactSets == [program : Snapshots, claims : [Operations -> Journal!ClaimStates]]

Frames == [contract : Contracts, boundary : Nat, saw : FactSets]

Verifications == [result : Results, sequence : Nat, saw : FactSets]

TypeOK ==
    /\ truth \in [Operations -> Journal!Truths]
    /\ claim \in [Operations -> Journal!ClaimStates]
    /\ under \in [Operations -> Decisions \cup {"none"}]
    /\ used \subseteq Decisions
    /\ program \in Snapshots
    /\ authority \in [Decisions -> Nat]
    /\ support \in [Claims -> ClaimStore!Standings]
    /\ contract \in [Contracts -> Terms \cup {NoContract}]
    /\ blocker \in [Blockers -> {"none", "open", "resolved"}]
    /\ asked \in Seq(Frames)
    /\ \A i \in 1 .. Len(asked) : contract[asked[i].contract] # NoContract
    /\ verification \in [Contracts -> Verifications \cup {NoVerification}]
    /\ receipts \subseteq [revision : Nat, result : {"certified", "rejected"}]
    /\ sequence \in Nat /\ changed \in Nat

Init ==
    /\ Journal!Init
    /\ program = NewProgram
    /\ authority = [d \in Decisions |-> NoAuthority]
    /\ ClaimStore!Init
    /\ contract = [c \in Contracts |-> NoContract]
    /\ blocker = [b \in Blockers |-> "none"]
    /\ asked = <<>>
    /\ verification = [c \in Contracts |-> NoVerification]
    /\ receipts = {}
    /\ sequence = 0
    /\ changed = 0

-----------------------------------------------------------------------------
(* The Program and its Operations *)

(* Whatever the store's callers commit; completion is not theirs to give. *)
ChangeProgram ==
    /\ program.revision < MaxRevision
    /\ \/ \E target \in Allowed[program.status] \ {"completed"} : program' = WithStatus(program, target)
       \/ /\ program.status \in WorkMutable
          /\ \E w \in WorkItems :
               \/ program.work[w] = "none" /\ program' = WithWork(program, w, "open")
               \/ program.work[w] = "open" /\ program' = WithWork(program, w, "satisfied")
       \/ program' = Revised(program)
    /\ UNCHANGED <<operations, authority, support, contract, blocker, verifying,
                   receipts, sequence, changed>>

IssueAuthority(d) ==
    /\ program.status = "active" /\ authority[d] = NoAuthority
    /\ authority' = [authority EXCEPT ![d] = program.revision]
    /\ UNCHANGED <<operations, program, support, contract, blocker, verifying,
                   receipts, sequence, changed>>

(* An Event of an Operation under d. *)
OperationEvent(d) ==
    /\ sequence < MaxSequence
    /\ sequence' = sequence + 1
    /\ changed' = IF d \in Observing THEN changed ELSE sequence + 1
    /\ UNCHANGED <<program, authority, support, contract, blocker, verifying, receipts>>

(* create_intent looks at neither the Program's status nor its revision. *)
RequestOperation(o, d) ==
    /\ authority[d] # NoAuthority
    /\ Journal!Request(o, d)
    /\ OperationEvent(d)

(* consume_execution_authority, mark_admitted, mark_running and the call of *)
(* the backend, unless the process dies before the call.                    *)
Dispatch(o) ==
    /\ claim[o] = "open" /\ truth[o] = "unsent"
    /\ program.status = "active" /\ authority[under[o]] = program.revision
    /\ \/ Journal!Send(o) /\ (under[o] \in Observing => truth'[o] = "no_effect")
       \/ UNCHANGED operations
    /\ OperationEvent(under[o])

(* fail_before_dispatch, finish, recover_interrupted, apply_reconciliation  *)
Account(o) ==
    /\ Journal!Claim(o)
    /\ claim'[o] = "not_applicable" <=> under[o] \in Observing
    /\ OperationEvent(under[o])

BackendSettles(o) ==
    /\ Journal!Settle(o)
    /\ UNCHANGED <<program, authority, support, contract, blocker, verifying,
                   receipts, sequence, changed>>

(* support, then contradict or supersede: the ClaimRepository's doing. *)
ChangeClaim(k) ==
    /\ ClaimStore!Support(k) \/ ClaimStore!Retract(k)
    /\ UNCHANGED <<operations, program, authority, contract, blocker, verifying,
                   receipts, sequence, changed>>

-----------------------------------------------------------------------------
(* Contracts, blockers and Verifications *)

RegisterContract(c) ==
    /\ program.status \notin Terminal
    /\ contract[c] = NoContract
    /\ \E terms \in Terms : contract' = [contract EXCEPT ![c] = terms]
    /\ UNCHANGED <<operations, program, authority, support, blocker, verifying,
                   receipts, sequence, changed>>

OpenBlocker(b) ==
    /\ program.status \notin Terminal
    /\ blocker[b] = "none"
    /\ blocker' = [blocker EXCEPT ![b] = "open"]
    /\ UNCHANGED <<operations, program, authority, support, contract, verifying,
                   receipts, sequence, changed>>

ResolveBlocker(b) ==
    /\ blocker[b] = "open"
    /\ blocker' = [blocker EXCEPT ![b] = "resolved"]
    /\ UNCHANGED <<operations, program, authority, support, contract, verifying,
                   receipts, sequence, changed>>

(* run, up to the call of the verifier *)
AskVerifier(c) ==
    /\ Len(asked) < MaxDepth
    /\ contract[c] # NoContract
    /\ program.status = "completion_pending"
    /\ Supported(c)
    /\ asked' = Append(asked, [contract |-> c, boundary |-> sequence, saw |-> Facts])
    /\ UNCHANGED <<operations, program, authority, support, contract, blocker, verification,
                   receipts, sequence, changed>>

(* Mutant of Admissible: Operations that change while the verifier runs are not looked for. *)
AdmissibleUnbounded(call) ==
    /\ program = call.saw.program
    /\ program.status = "completion_pending"
    /\ Supported(call.contract)

(* run, the checks inside its transaction *)
Admissible(call) ==
    /\ program = call.saw.program
    /\ program.status = "completion_pending"
    /\ Supported(call.contract)
    /\ changed <= call.boundary

(* _validate_observation: the answers that are not refused. *)
Observations == Results

(* The verifier answers.  It may raise, and then nothing is recorded. *)
VerifierAnswers ==
    /\ asked # <<>> /\ sequence < MaxSequence
    /\ asked' = SubSeq(asked, 1, Len(asked) - 1)
    /\ LET call == asked[Len(asked)] IN
       \/ UNCHANGED <<verification, sequence>>
       \/ /\ Admissible(call)
          /\ \E result \in Observations :
                verification' = [verification EXCEPT ![call.contract] =
                   [result |-> result, sequence |-> sequence + 1, saw |-> call.saw]]
          /\ sequence' = sequence + 1
    /\ UNCHANGED <<operations, program, authority, support, contract, blocker, receipts, changed>>

(* Process death: the calls in progress are lost. *)
Crash ==
    /\ asked # <<>>
    /\ asked' = <<>>
    /\ UNCHANGED <<operations, program, authority, support, contract, blocker, verification,
                   receipts, sequence, changed>>

-----------------------------------------------------------------------------
(* The CompletionOracle *)

(* Mutant of Current: a PASS on this revision of the Program stands, whatever Operations did. *)
CurrentByRevision(c) ==
    /\ verification[c].saw.program = program
    /\ program.status = "completion_pending"
    /\ Supported(c)

(* VerificationRepository.current *)
Current(c) ==
    /\ verification[c].saw.program = program
    /\ program.status = "completion_pending"
    /\ Supported(c)
    /\ changed <= verification[c].sequence

Passing(c) ==
    /\ verification[c] # NoVerification
    /\ Current(c)
    /\ verification[c].result = "pass"

CertaintyRequired == \E c \in Mandatory : contract[c].certainty

(* Mutant of OperationsSettled: only Operations whose outcome is open are waited for. *)
OperationsSettledByOutcome ==
    \A o \in Operations : Mutating(o) => claim[o] # "open"

(* No Operation that mutates is outstanding, or uncertain where it matters. *)
OperationsSettled ==
    \A o \in Operations : Mutating(o) =>
        /\ claim[o] # "open"
        /\ CertaintyRequired => claim[o] # "uncertain"

(* _evaluate finds no reason against completion. *)
Certifiable ==
    /\ \A w \in WorkItems : program.work[w] # "open"
    /\ Mandatory # {}
    /\ \A c \in Mandatory : Passing(c)
    /\ Criteria = UNION {contract[c].criteria : c \in Mandatory}
    /\ \A b \in Blockers : blocker[b] # "open"
    /\ OperationsSettled

Decide ==
    /\ program.status = "completion_pending"
    /\ program' = WithStatus(program, IF Certifiable THEN "completed" ELSE "active")
    /\ receipts' = receipts \cup {[revision |-> program.revision,
                                   result |-> IF Certifiable THEN "certified" ELSE "rejected"]}
    /\ UNCHANGED <<operations, authority, support, contract, blocker, verifying,
                   sequence, changed>>

Next ==
    \/ ChangeProgram \/ VerifierAnswers \/ Crash \/ Decide
    \/ \E d \in Decisions : IssueAuthority(d)
    \/ \E o \in Operations : Dispatch(o) \/ Account(o) \/ BackendSettles(o)
    \/ \E o \in Operations, d \in Decisions : RequestOperation(o, d)
    \/ \E k \in Claims : ChangeClaim(k)
    \/ \E c \in Contracts : RegisterContract(c) \/ AskVerifier(c)
    \/ \E b \in Blockers : OpenBlocker(b) \/ ResolveBlocker(b)

Spec == Init /\ [][Next]_vars

-----------------------------------------------------------------------------
(* Safety *)

(* A completed Program was certified, and stays finished: no WorkItem or    *)
(* blocker is open, nothing it asked for is on its way to the backend, and  *)
(* where a contract wants certainty no effect of it can land any more.      *)
(* Intents may still be recorded and reconciliations applied after the      *)
(* certificate; the Operations they are about must not move the world.      *)
CompletedMeansSettled ==
    program.status = "completed" =>
        /\ \E r \in receipts : r.result = "certified" /\ r.revision < program.revision
        /\ \A w \in WorkItems : program.work[w] # "open"
        /\ \A b \in Blockers : blocker[b] # "open"
        /\ \A o \in Operations : Mutating(o) =>
              /\ claim[o] = "open" => truth[o] = "unsent"
              /\ CertaintyRequired => truth[o] # "in_flight"

(* The certificate rests on answers about the facts as they are: for every  *)
(* mandatory contract, what the verifier was shown of the Program and what  *)
(* the journal said of each mutating Operation when it was asked is what    *)
(* the oracle sees when it decides, and its Claims are still supported.     *)
CertifiedStep ==
    program.status # "completed" /\ program'.status = "completed" =>
        \A c \in Mandatory :
            /\ verification[c].result = "pass"
            /\ verification[c].saw = Facts
            /\ Supported(c)

CertifiedOnCurrentFacts == [][CertifiedStep]_vars

=============================================================================
