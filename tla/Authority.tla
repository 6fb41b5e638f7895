------------------------------ MODULE Authority ------------------------------
(***************************************************************************)
(* Kernel authority (kernel/authority.py, kernel/authority_store.py):      *)
(* grants, policies, decisions, one-shot approvals and execution-authority *)
(* receipts, over the Host facts they are bound to: the Program revision   *)
(* and status, the Actor generation, the Capability binding, the policy    *)
(* revision and the grants.  Any of those may change between a decision    *)
(* and the use made of it.                                                 *)
(*                                                                         *)
(* Every operation reads and commits inside one call of a single-threaded  *)
(* process that holds the writer lock, with no callback in between, so it  *)
(* is one action.  One Program and one Actor are enough: a decision about  *)
(* one never reads the facts of another.                                   *)
(***************************************************************************)
EXTENDS Naturals, FiniteSets

CONSTANTS
    Capabilities,    \* capability identities
    Targets,         \* what a resolved effect acts on
    Grants,          \* grant identities
    Decisions,       \* decision identities
    GrantTerms,      \* the terms a grant may be issued with
    Contracts,       \* the contracts a Capability may be bound to
    Policies,        \* the policies that may be installed
    MaxDrift         \* bound on changes of Program, Actor, Capability and policy

EffectClasses == {"observe", "create", "modify", "delete", "external_side_effect"}
Risks == {"low", "high"}

ASSUME AuthorityConstants ==
    /\ GrantTerms \subseteq [capabilities : SUBSET Capabilities, targets : SUBSET Targets,
                             ceiling : EffectClasses, approval_required : BOOLEAN]
    /\ Contracts \subseteq [effect : EffectClasses, risk : Risks]
    /\ Policies \subseteq [ask : SUBSET Risks, deny : SUBSET EffectClasses]
    /\ MaxDrift \in Nat

VARIABLES
    program,       \* revision of the Program, and whether it is active
    generation,    \* generation of the Actor
    capability,    \* binding revision and contract of each Capability
    policy,        \* revision and content of the current policy
    grant,         \* terms of each grant and where it is in its life
    decision,      \* recorded decisions
    approval,      \* approval of each decision: "none", "given" or "consumed"
    receipt,       \* receipt of each decision: "none", "issued" or "consumed"
    drift

facts == <<program, generation, capability, policy, grant>>
records == <<decision, approval, receipt>>
vars == <<facts, records, drift>>

NoGrant == [state |-> "none"]
NoDecision == [kind |-> "none"]

(* effect_allowed_by_ceiling *)
Rank == [e \in EffectClasses |->
    CASE e = "observe" -> 0 [] e = "create" -> 1 [] e = "modify" -> 2
      [] e = "delete" -> 3 [] e = "external_side_effect" -> 4]

(* active_grants and grant_is_current: issued, not revoked, inside its dates. *)
Current(g) == grant[g].state = "current"

(* grant_matches *)
Matches(g, c, t, effect) ==
    /\ Current(g)
    /\ c \in grant[g].terms.capabilities
    /\ t \in grant[g].terms.targets
    /\ Rank[effect] <= Rank[grant[g].terms.ceiling]

(* _expected_decision: what policy and these grants say about a contract. *)
Verdict(contract, pol, G) ==
    IF contract.effect \in pol.deny \/ G = {} THEN "deny"
    ELSE IF contract.risk \in pol.ask \/ \A g \in G : grant[g].terms.approval_required
         THEN "ask" ELSE "allow"

-----------------------------------------------------------------------------

TypeOK ==
    /\ program \in [revision : Nat, active : BOOLEAN]
    /\ generation \in Nat
    /\ capability \in [Capabilities -> [revision : Nat, contract : Contracts]]
    /\ policy \in [revision : Nat, content : Policies]
    /\ grant \in [Grants -> {NoGrant} \cup
                    [state : {"pending", "current", "expired", "revoked"}, terms : GrantTerms]]
    /\ decision \in [Decisions -> {NoDecision} \cup
                    [kind : {"deny", "ask", "allow"}, program : Nat, generation : Nat,
                     capability : Capabilities, binding : Nat, effect : EffectClasses,
                     target : Targets, policy : Nat, grants : SUBSET Grants]]
    /\ approval \in [Decisions -> {"none", "given", "consumed"}]
    /\ receipt \in [Decisions -> {"none", "issued", "consumed"}]
    /\ drift \in 0 .. MaxDrift

Init ==
    /\ program = [revision |-> 0, active |-> TRUE]
    /\ generation = 0
    /\ capability \in [Capabilities -> [revision : {0}, contract : Contracts]]
    /\ policy \in [revision : {0}, content : Policies]
    /\ grant = [g \in Grants |-> NoGrant]
    /\ decision = [d \in Decisions |-> NoDecision]
    /\ approval = [d \in Decisions |-> "none"]
    /\ receipt = [d \in Decisions |-> "none"]
    /\ drift = 0

-----------------------------------------------------------------------------
(* The Host facts move. *)

Drift == drift < MaxDrift /\ drift' = drift + 1

(* Mutant of ReviseProgram: the status changes under the same revision. *)
ReviseProgramInPlace ==
    /\ Drift
    /\ \E active \in BOOLEAN : program' = [program EXCEPT !.active = active]
    /\ UNCHANGED <<generation, capability, policy, grant, records>>

(* Any committed Program change: the revision moves, the status may. *)
ReviseProgram ==
    /\ Drift
    /\ \E active \in BOOLEAN :
          program' = [revision |-> program.revision + 1, active |-> active]
    /\ UNCHANGED <<generation, capability, policy, grant, records>>

(* ActorRepository.replace_binding *)
ReplaceBinding ==
    /\ Drift
    /\ generation' = generation + 1
    /\ UNCHANGED <<program, capability, policy, grant, records>>

(* CapabilityRepository.replace_handler: the contract is fixed for life. *)
ReplaceHandler(c) ==
    /\ Drift
    /\ capability' = [capability EXCEPT ![c].revision = @ + 1]
    /\ UNCHANGED <<program, generation, policy, grant, records>>

(* Mutant of InstallPolicy: another policy under the same revision. *)
InstallPolicyInPlace ==
    /\ Drift
    /\ \E content \in Policies : policy' = [policy EXCEPT !.content = content]
    /\ UNCHANGED <<program, generation, capability, grant, records>>

InstallPolicy ==
    /\ Drift
    /\ \E content \in Policies :
          policy' = [revision |-> policy.revision + 1, content |-> content]
    /\ UNCHANGED <<program, generation, capability, grant, records>>

(* issued_at may lie in the future. *)
IssueGrant(g) ==
    /\ grant[g] = NoGrant
    /\ \E state \in {"pending", "current"}, terms \in GrantTerms :
          grant' = [grant EXCEPT ![g] = [state |-> state, terms |-> terms]]
    /\ UNCHANGED <<program, generation, capability, policy, records, drift>>

(* revoke_grant: once, whether or not the grant is inside its dates. *)
RevokeGrant(g) ==
    /\ grant[g].state \in {"pending", "current", "expired"}
    /\ grant' = [grant EXCEPT ![g].state = "revoked"]
    /\ UNCHANGED <<program, generation, capability, policy, records, drift>>

(* The clock passes issued_at or expires_at. *)
ClockTick(g) ==
    /\ \/ grant[g].state = "pending" /\ grant' = [grant EXCEPT ![g].state = "current"]
       \/ grant[g].state = "current" /\ grant' = [grant EXCEPT ![g].state = "expired"]
    /\ UNCHANGED <<program, generation, capability, policy, records, drift>>

-----------------------------------------------------------------------------
(* AuthorityEngine *)

Decide(d, c, t) ==
    LET contract == capability[c].contract
        matching == {g \in Grants : Matches(g, c, t, contract.effect)}
        kind     == Verdict(contract, policy.content, matching)
    IN
    /\ decision[d] = NoDecision
    /\ program.active
    /\ decision' = [decision EXCEPT ![d] =
          [kind |-> kind, program |-> program.revision, generation |-> generation,
           capability |-> c, binding |-> capability[c].revision, effect |-> contract.effect,
           target |-> t, policy |-> policy.revision,
           grants |-> IF kind = "deny" THEN {} ELSE matching]]
    /\ UNCHANGED <<facts, approval, receipt, drift>>

(* approve: only the policy is compared; the rest is compared on use. *)
Approve(d) ==
    /\ decision[d].kind = "ask"
    /\ policy.revision = decision[d].policy
    /\ approval[d] = "none"
    /\ approval' = [approval EXCEPT ![d] = "given"]
    /\ UNCHANGED <<facts, decision, receipt, drift>>

(* The revision comparisons both issue_... and consume_... make. *)
SameRevisions(d) ==
    /\ program.revision = decision[d].program
    /\ generation = decision[d].generation
    /\ capability[decision[d].capability].revision = decision[d].binding
    /\ program.active
    /\ policy.revision = decision[d].policy

(* _validate_decision_semantics: every grant the decision names still       *)
(* matches, and they still lead to the recorded verdict.                    *)
SameSemantics(d) ==
    LET dec == decision[d] IN
    /\ \A g \in dec.grants : Matches(g, dec.capability, dec.target, dec.effect)
    /\ dec.kind = Verdict(capability[dec.capability].contract, policy.content, dec.grants)

(* Mutant of IssueAuthority: the approval is only looked at. *)
IssueAuthorityUnconsuming(d) ==
    /\ decision[d].kind \in {"ask", "allow"}
    /\ SameRevisions(d) /\ SameSemantics(d)
    /\ receipt[d] = "none"
    /\ decision[d].kind = "ask" => approval[d] = "given"
    /\ receipt' = [receipt EXCEPT ![d] = "issued"]
    /\ UNCHANGED <<facts, decision, approval, drift>>

(* issue_execution_authority and _persist_execution_authority: the approval *)
(* is consumed in the transaction that inserts the receipt.                 *)
IssueAuthority(d) ==
    /\ decision[d].kind \in {"ask", "allow"}
    /\ SameRevisions(d) /\ SameSemantics(d)
    /\ receipt[d] = "none"
    /\ decision[d].kind = "ask" => approval[d] = "given"
    /\ approval' = IF decision[d].kind = "ask"
                   THEN [approval EXCEPT ![d] = "consumed"] ELSE approval
    /\ receipt' = [receipt EXCEPT ![d] = "issued"]
    /\ UNCHANGED <<facts, decision, drift>>

(* Mutant of ConsumeAuthority: only revisions are compared on use. *)
ConsumeAuthorityByRevision(d) ==
    /\ receipt[d] = "issued"
    /\ SameRevisions(d)
    /\ decision[d].kind = "ask" => approval[d] = "consumed"
    /\ receipt' = [receipt EXCEPT ![d] = "consumed"]
    /\ UNCHANGED <<facts, decision, approval, drift>>

(* consume_execution_authority *)
ConsumeAuthority(d) ==
    /\ receipt[d] = "issued"
    /\ SameRevisions(d) /\ SameSemantics(d)
    /\ decision[d].kind = "ask" => approval[d] = "consumed"
    /\ receipt' = [receipt EXCEPT ![d] = "consumed"]
    /\ UNCHANGED <<facts, decision, approval, drift>>

Next ==
    \/ ReviseProgram \/ ReplaceBinding \/ InstallPolicy
    \/ \E c \in Capabilities : ReplaceHandler(c)
    \/ \E g \in Grants : IssueGrant(g) \/ RevokeGrant(g) \/ ClockTick(g)
    \/ \E d \in Decisions :
         \/ \E c \in Capabilities, t \in Targets : Decide(d, c, t)
         \/ Approve(d) \/ IssueAuthority(d) \/ ConsumeAuthority(d)

Spec == Init /\ [][Next]_vars

-----------------------------------------------------------------------------
(* Safety *)

(* One-shot approval: a person's approval is used up exactly when an        *)
(* execution authority is issued on it, never before and never without it,  *)
(* and only decisions that asked have approvals.                            *)
ApprovalIsSpentOnIssue ==
    \A d \in Decisions :
        /\ approval[d] # "none" => decision[d].kind = "ask"
        /\ approval[d] = "consumed" => receipt[d] # "none"
        /\ decision[d].kind = "ask" /\ receipt[d] # "none" => approval[d] = "consumed"
        /\ receipt[d] # "none" => decision[d].kind \in {"ask", "allow"}

(* LocalAuditOperator._ask_view and _validate_current_ask: what they raise  *)
(* IntegrityViolation for.  Everything else that moved makes an ask stale.  *)
AskIsCorrupt(d) ==
    LET dec      == decision[d]
        contract == capability[dec.capability].contract
    IN  \/ receipt[d] # "none" /\ approval[d] # "consumed"
        \/ /\ SameRevisions(d)
           /\ \/ dec.effect # contract.effect
              \/ /\ \A g \in dec.grants : Matches(g, dec.capability, dec.target, dec.effect)
                 /\ dec.kind # Verdict(contract, policy.content, dec.grants)

(* However the Host facts, the grants and the clock moved since, an ask can *)
(* still be shown: at worst as stale.  One that could not be would take the *)
(* audit and the bundle of its whole Program with it.                       *)
AsksStayAuditable == \A d \in Decisions : decision[d].kind = "ask" => ~AskIsCorrupt(d)

(* Judged from scratch by the facts of this moment: the Program is active,  *)
(* policy does not deny the effect the Capability now has, a grant in force *)
(* covers it, and where policy or every such grant wants a person, a person *)
(* approved this very decision.                                             *)
PermittedNow(d) ==
    LET dec      == decision[d]
        contract == capability[dec.capability].contract
        covering == {g \in Grants : Matches(g, dec.capability, dec.target, contract.effect)}
    IN  /\ program.active
        /\ contract.effect \notin policy.content.deny
        /\ covering # {}
        /\ \/ contract.risk \in policy.content.ask
           \/ \A g \in covering : grant[g].terms.approval_required
           => approval[d] = "consumed"

(* An authority is only ever consumed when the facts of that moment permit  *)
(* the effect, however much changed since the decision was taken.           *)
ConsumedOnlyWhenPermitted ==
    [][\A d \in Decisions : receipt[d] = "issued" /\ receipt'[d] = "consumed" => PermittedNow(d)]_vars

(* Nothing a decision rests on comes back once it has changed, so a void    *)
(* decision stays void: Authority implements AuthorityReceipts.             *)
Void(d) ==
    /\ decision[d] # NoDecision
    /\ \/ decision[d].kind = "deny" \/ ~SameRevisions(d) \/ ~SameSemantics(d)

Lifecycle == [d \in Decisions |->
    CASE receipt[d] = "consumed"            -> "spent"
      [] receipt[d] = "issued" /\ Void(d)  -> "void"
      [] receipt[d] = "issued" /\ ~Void(d) -> "issued"
      [] receipt[d] = "none" /\ Void(d)    -> "lapsed"
      [] receipt[d] = "none" /\ ~Void(d)   -> "none"]

Receipts == INSTANCE AuthorityReceipts WITH receipt <- Lifecycle

ImplementsReceipts == Receipts!ReceiptSpec

=============================================================================
