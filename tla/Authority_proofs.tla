--------------------------- MODULE Authority_proofs ---------------------------
(***************************************************************************)
(* Proofs about Authority, for any grants, contracts, policies and numbers *)
(* of changes, and about Bindings, which composes it with the history of   *)
(* model configurations.  The composed behaviours are behaviours of        *)
(* Authority, so that what is proved of Spec holds of BindingSpec.         *)
(***************************************************************************)
EXTENDS Bindings, SequenceTheorems, TLAPS

Kinds == {"deny", "ask", "allow"}

Decided(d) == decision[d] # NoDecision

Terms == {NoGrant} \cup [state : {"pending", "current", "expired", "revoked"}, terms : GrantTerms]

DecisionRecords ==
    [kind : Kinds, program : Nat, generation : Nat, capability : Capabilities, binding : Nat,
     effect : EffectClasses, target : Targets, policy : Nat, grants : SUBSET Grants]

(* No decision is ahead of the facts, and the contract it read is that the  *)
(* Capability still has.                                                    *)
NeverAhead ==
    \A d \in Decisions : Decided(d) =>
        /\ decision[d].program <= program.revision
        /\ decision[d].generation <= generation
        /\ decision[d].binding <= capability[decision[d].capability].revision
        /\ decision[d].policy <= policy.revision
        /\ decision[d].effect = capability[decision[d].capability].contract.effect

(* The terms of a grant that cover an effect; whether it is in force apart. *)
Covers(g, c, t, effect) ==
    /\ c \in grant[g].terms.capabilities
    /\ t \in grant[g].terms.targets
    /\ Rank[effect] <= Rank[grant[g].terms.ceiling]

(* The grants a decision names were in force when it was taken, and cover   *)
(* it still; they may have ended since, and do not start again.             *)
NamedGrantsCover ==
    \A d \in Decisions : Decided(d) => \A g \in decision[d].grants :
        /\ grant[g].state \in {"current", "expired", "revoked"}
        /\ Covers(g, decision[d].capability, decision[d].target, decision[d].effect)

(* Under the policy it was taken by, a decision stays the verdict on the    *)
(* grants it names.                                                         *)
VerdictStands ==
    \A d \in Decisions : Decided(d) /\ decision[d].policy = policy.revision =>
        decision[d].kind = Verdict(capability[decision[d].capability].contract,
                                   policy.content, decision[d].grants)

IInv == TypeOK /\ ApprovalIsSpentOnIssue /\ NeverAhead /\ NamedGrantsCover /\ VerdictStands

USE AuthorityConstants

-----------------------------------------------------------------------------
(* What the type says of one fact or one record. *)

LEMMA CapabilityShape ==
    ASSUME TypeOK, NEW c \in Capabilities
    PROVE  /\ capability[c].revision \in Nat
           /\ capability[c].contract \in Contracts
           /\ capability[c].contract.effect \in EffectClasses
  BY DEF TypeOK

LEMMA GrantShape ==
    ASSUME TypeOK, NEW g \in Grants, grant[g] # NoGrant
    PROVE  /\ grant[g].state \in {"pending", "current", "expired", "revoked"}
           /\ grant[g].terms \in GrantTerms
           /\ grant[g] = [state |-> grant[g].state, terms |-> grant[g].terms]
  BY DEF TypeOK

LEMMA DecisionShape ==
    ASSUME TypeOK, NEW d \in Decisions, Decided(d)
    PROVE  decision[d] \in DecisionRecords
  BY DEF TypeOK, Decided, DecisionRecords, Kinds

LEMMA UndecidedKind ==
    ASSUME TypeOK, NEW d \in Decisions
    PROVE  /\ ~Decided(d) => decision[d].kind = "none"
           /\ decision[d].kind \in Kinds => Decided(d)
           /\ Decided(d) => decision[d].kind \in Kinds
  BY DecisionShape DEF Decided, NoDecision, Kinds, DecisionRecords

(* An undecided decision has neither approval nor receipt. *)
LEMMA UndecidedIsBare ==
    ASSUME TypeOK, ApprovalIsSpentOnIssue, NEW d \in Decisions, ~Decided(d)
    PROVE  approval[d] = "none" /\ receipt[d] = "none"
  BY UndecidedKind DEF ApprovalIsSpentOnIssue

LEMMA VerdictIsKind ==
    ASSUME NEW contract, NEW pol, NEW G PROVE Verdict(contract, pol, G) \in Kinds
  BY DEF Verdict, Kinds

(* A verdict on no grants is a denial. *)
LEMMA DenialNamesNone ==
    ASSUME NEW contract, NEW pol PROVE Verdict(contract, pol, {}) = "deny"
  BY DEF Verdict

-----------------------------------------------------------------------------

LEMMA InitInv == Init => IInv
<1> SUFFICES ASSUME Init PROVE IInv
  OBVIOUS
<1>1. TypeOK
  BY DEF Init, TypeOK
<1>2. \A d \in Decisions : ~Decided(d) /\ decision[d].kind = "none"
  BY DEF Init, Decided, NoDecision
<1>3. ApprovalIsSpentOnIssue
  BY <1>2 DEF Init, ApprovalIsSpentOnIssue
<1> QED
  BY <1>1, <1>2, <1>3 DEF IInv, NeverAhead, NamedGrantsCover, VerdictStands

(* While the records stand, so do the approvals. *)
LEMMA RecordsKept ==
    ASSUME ApprovalIsSpentOnIssue, UNCHANGED records PROVE ApprovalIsSpentOnIssue'
  BY DEF ApprovalIsSpentOnIssue, records

LEMMA ReviseProgramInv == IInv /\ ReviseProgram => IInv'
<1> SUFFICES ASSUME IInv, ReviseProgram PROVE IInv'
  OBVIOUS
<1> USE DEF IInv, ReviseProgram, Drift, records
<1>1. TypeOK'
  BY DEF TypeOK
<1>2. NeverAhead'
  <2>1. program'.revision = program.revision + 1 /\ program.revision \in Nat
    BY DEF TypeOK
  <2> SUFFICES ASSUME NEW d \in Decisions, Decided(d)
               PROVE  decision[d].program <= program'.revision
    BY DEF NeverAhead, Decided
  <2>2. decision[d].program \in Nat
    BY DecisionShape DEF DecisionRecords
  <2> QED
    BY <2>1, <2>2 DEF NeverAhead
<1> QED
  BY <1>1, <1>2, RecordsKept DEF NamedGrantsCover, Covers, VerdictStands, Verdict, Decided

LEMMA ReplaceBindingInv == IInv /\ ReplaceBinding => IInv'
<1> SUFFICES ASSUME IInv, ReplaceBinding PROVE IInv'
  OBVIOUS
<1> USE DEF IInv, ReplaceBinding, Drift, records
<1>1. TypeOK'
  BY DEF TypeOK
<1>2. NeverAhead'
  <2> SUFFICES ASSUME NEW d \in Decisions, Decided(d)
               PROVE  decision[d].generation <= generation'
    BY DEF NeverAhead, Decided
  <2>1. decision[d].generation \in Nat /\ generation \in Nat
    BY DecisionShape DEF DecisionRecords, TypeOK
  <2> QED
    BY <2>1 DEF NeverAhead
<1> QED
  BY <1>1, <1>2, RecordsKept DEF NamedGrantsCover, Covers, VerdictStands, Verdict, Decided

LEMMA ReplaceHandlerInv ==
    ASSUME NEW c \in Capabilities PROVE IInv /\ ReplaceHandler(c) => IInv'
<1> SUFFICES ASSUME IInv, ReplaceHandler(c) PROVE IInv'
  OBVIOUS
<1> USE DEF IInv, ReplaceHandler, Drift, records
<1>1. \A k \in Capabilities :
        /\ capability'[k].contract = capability[k].contract
        /\ capability'[k].revision \in {capability[k].revision, capability[k].revision + 1}
  BY DEF TypeOK
<1>2. TypeOK'
  BY DEF TypeOK
<1>3. NeverAhead'
  <2> SUFFICES ASSUME NEW d \in Decisions, Decided(d)
               PROVE  /\ decision[d].binding <= capability'[decision[d].capability].revision
                      /\ decision[d].effect = capability'[decision[d].capability].contract.effect
    BY DEF NeverAhead, Decided
  <2>1. decision[d].binding \in Nat /\ decision[d].capability \in Capabilities
    BY DecisionShape DEF DecisionRecords
  <2> QED
    BY <1>1, <2>1, CapabilityShape DEF NeverAhead
<1>4. VerdictStands'
  <2> SUFFICES ASSUME NEW d \in Decisions, Decided(d), decision[d].policy = policy.revision
               PROVE  decision[d].kind = Verdict(capability'[decision[d].capability].contract,
                                                 policy.content, decision[d].grants)
    BY DEF VerdictStands, Decided, Verdict
  <2>1. decision[d].capability \in Capabilities
    BY DecisionShape DEF DecisionRecords
  <2> QED
    BY <1>1, <2>1 DEF VerdictStands
<1> QED
  BY <1>2, <1>3, <1>4, RecordsKept DEF NamedGrantsCover, Covers, Decided

LEMMA InstallPolicyInv == IInv /\ InstallPolicy => IInv'
<1> SUFFICES ASSUME IInv, InstallPolicy PROVE IInv'
  OBVIOUS
<1> USE DEF IInv, InstallPolicy, Drift, records
<1>1. TypeOK'
  BY DEF TypeOK
<1>2. \A d \in Decisions : Decided(d) =>
        decision[d].policy <= policy'.revision /\ decision[d].policy # policy'.revision
  <2> SUFFICES ASSUME NEW d \in Decisions, Decided(d)
               PROVE  decision[d].policy <= policy'.revision /\ decision[d].policy # policy'.revision
    OBVIOUS
  <2>1. policy'.revision = policy.revision + 1 /\ policy.revision \in Nat
    BY DEF TypeOK
  <2>2. decision[d].policy \in Nat /\ decision[d].policy <= policy.revision
    BY DecisionShape DEF DecisionRecords, NeverAhead
  <2> QED
    BY <2>1, <2>2
<1> QED
  BY <1>1, <1>2, RecordsKept DEF NeverAhead, NamedGrantsCover, Covers, VerdictStands, Decided

(* When every grant keeps its terms once issued, and does not come back, a  *)
(* change of the grants disturbs no decision.                               *)
GrantsMoveOn ==
    \A g \in Grants : grant[g] # NoGrant =>
        /\ grant'[g].terms = grant[g].terms
        /\ grant[g].state \in {"current", "expired", "revoked"}
              => grant'[g].state \in {"current", "expired", "revoked"}
        /\ grant[g].state \in {"expired", "revoked"} => grant'[g].state \in {"expired", "revoked"}

LEMMA GrantsMoveOnInv ==
    ASSUME IInv, TypeOK', GrantsMoveOn,
           UNCHANGED <<program, generation, capability, policy, records, drift>>
    PROVE  IInv'
<1> USE DEF IInv, records
<1>1. ASSUME NEW d \in Decisions, Decided(d), NEW g \in decision[d].grants
      PROVE  g \in Grants /\ grant[g] # NoGrant
  <2>1. g \in Grants
    BY <1>1, DecisionShape DEF DecisionRecords
  <2>2. grant[g].state \in {"current", "expired", "revoked"}
    BY <1>1 DEF NamedGrantsCover
  <2> QED
    BY <2>1, <2>2 DEF NoGrant
<1>2. NamedGrantsCover'
  BY <1>1 DEF NamedGrantsCover, Covers, GrantsMoveOn, Decided
<1>3. VerdictStands'
  <2> SUFFICES ASSUME NEW d \in Decisions, Decided(d), decision[d].policy = policy.revision
               PROVE  decision[d].kind =
                        Verdict(capability[decision[d].capability].contract,
                                policy.content, decision[d].grants)'
    BY DEF VerdictStands, Decided
  <2>1. \A g \in decision[d].grants : grant'[g].terms = grant[g].terms
    BY <1>1 DEF GrantsMoveOn
  <2> QED
    BY <2>1 DEF VerdictStands, Verdict
<1> QED
  BY <1>2, <1>3, RecordsKept DEF NeverAhead, Decided

LEMMA IssueGrantMoves ==
    ASSUME NEW g \in Grants, TypeOK, IssueGrant(g) PROVE GrantsMoveOn /\ TypeOK'
<1>1. GrantsMoveOn
  BY DEF IssueGrant, GrantsMoveOn, TypeOK
<1>2. TypeOK'
  BY DEF IssueGrant, TypeOK, records
<1> QED
  BY <1>1, <1>2

LEMMA RevokeGrantMoves ==
    ASSUME NEW g \in Grants, TypeOK, RevokeGrant(g) PROVE GrantsMoveOn /\ TypeOK'
<1>1. grant[g] # NoGrant
  BY DEF RevokeGrant, NoGrant
<1>2. /\ grant' = [grant EXCEPT ![g] = [state |-> "revoked", terms |-> grant[g].terms]]
      /\ grant[g].terms \in GrantTerms
  <2>1. [grant[g] EXCEPT !.state = "revoked"] = [state |-> "revoked", terms |-> grant[g].terms]
    <3>1. \A s, t, u : [[state |-> s, terms |-> t] EXCEPT !.state = u] = [state |-> u, terms |-> t]
      OBVIOUS
    <3>2. PICK s, t : grant[g] = [state |-> s, terms |-> t]
      BY <1>1, GrantShape
    <3> QED
      BY <3>1, <3>2
  <2> QED
    BY <1>1, <2>1, GrantShape DEF RevokeGrant
<1>3. GrantsMoveOn
  BY <1>2 DEF GrantsMoveOn, TypeOK
<1>4. TypeOK'
  <2> DEFINE New == [state |-> "revoked", terms |-> grant[g].terms]
  <2>1. New \in Terms
    BY <1>2 DEF Terms
  <2>2. grant' \in [Grants -> Terms]
    BY <1>2, <2>1 DEF TypeOK, Terms
  <2> QED
    BY <2>2 DEF RevokeGrant, TypeOK, Terms, records
<1> QED
  BY <1>3, <1>4

LEMMA ClockTickMoves ==
    ASSUME NEW g \in Grants, TypeOK, ClockTick(g) PROVE GrantsMoveOn /\ TypeOK'
<1>1. grant[g] # NoGrant
  BY DEF ClockTick, NoGrant
<1>2. PICK state \in {"current", "expired"} :
        /\ grant' = [grant EXCEPT ![g] = [state |-> state, terms |-> grant[g].terms]]
        /\ grant[g].state \notin {"expired", "revoked"}
  BY <1>1, GrantShape DEF ClockTick, TypeOK
<1>3. grant[g].terms \in GrantTerms
  BY <1>1, GrantShape
<1>4. GrantsMoveOn
  BY <1>2 DEF GrantsMoveOn, TypeOK
<1>5. TypeOK'
  BY <1>2, <1>3 DEF ClockTick, TypeOK, records
<1> QED
  BY <1>4, <1>5

LEMMA GrantInv ==
    ASSUME NEW g \in Grants
    PROVE  IInv /\ (IssueGrant(g) \/ RevokeGrant(g) \/ ClockTick(g)) => IInv'
  BY IssueGrantMoves, RevokeGrantMoves, ClockTickMoves, GrantsMoveOnInv
     DEF IInv, IssueGrant, RevokeGrant, ClockTick

-----------------------------------------------------------------------------
(* The decision, the approval and the receipt. *)

Matching(c, t) == {g \in Grants : Matches(g, c, t, capability[c].contract.effect)}

(* What Decide records. *)
LEMMA DecideRecords ==
    ASSUME NEW d \in Decisions, NEW c \in Capabilities, NEW t \in Targets, TypeOK, Decide(d, c, t)
    PROVE  /\ ~Decided(d)
           /\ \A e \in Decisions \ {d} : decision'[e] = decision[e]
           /\ decision'[d] \in DecisionRecords
           /\ decision'[d].capability = c /\ decision'[d].target = t
           /\ decision'[d].program = program.revision
           /\ decision'[d].generation = generation
           /\ decision'[d].binding = capability[c].revision
           /\ decision'[d].policy = policy.revision
           /\ decision'[d].effect = capability[c].contract.effect
           /\ decision'[d].grants = IF decision'[d].kind = "deny" THEN {} ELSE Matching(c, t)
           /\ decision'[d].kind = Verdict(capability[c].contract, policy.content, Matching(c, t))
           /\ UNCHANGED <<facts, approval, receipt, drift>>
<1> DEFINE kind == Verdict(capability[c].contract, policy.content, Matching(c, t))
           new == [kind |-> kind, program |-> program.revision, generation |-> generation,
                   capability |-> c, binding |-> capability[c].revision,
                   effect |-> capability[c].contract.effect, target |-> t,
                   policy |-> policy.revision,
                   grants |-> IF kind = "deny" THEN {} ELSE Matching(c, t)]
<1>1. decision' = [decision EXCEPT ![d] = new] /\ ~Decided(d)
  BY DEF Decide, Matching, Decided
<1>2. decision'[d] = new /\ \A e \in Decisions \ {d} : decision'[e] = decision[e]
  BY <1>1 DEF TypeOK
<1>3. kind \in Kinds /\ Matching(c, t) \in SUBSET Grants
  BY VerdictIsKind DEF Matching
<1> HIDE DEF kind
<1>4. new \in DecisionRecords
  BY <1>3, CapabilityShape DEF TypeOK, DecisionRecords
<1>5. UNCHANGED <<facts, approval, receipt, drift>>
  BY DEF Decide
<1> QED
  BY <1>1, <1>2, <1>4, <1>5 DEF kind

LEMMA DecideInv ==
    ASSUME NEW d \in Decisions, NEW c \in Capabilities, NEW t \in Targets
    PROVE  IInv /\ Decide(d, c, t) => IInv'
<1> SUFFICES ASSUME IInv, Decide(d, c, t) PROVE IInv'
  OBVIOUS
<1> USE DEF IInv, facts
<1>1. /\ decision'[d] \in DecisionRecords
      /\ \A e \in Decisions \ {d} : decision'[e] = decision[e]
      /\ UNCHANGED <<facts, approval, receipt, drift>>
  BY DecideRecords
<1>2. \A g \in decision'[d].grants :
        /\ g \in Grants /\ grant[g].state = "current"
        /\ Covers(g, c, t, capability[c].contract.effect)
  <2>1. decision'[d].grants \subseteq Matching(c, t)
    BY DecideRecords
  <2> QED
    BY <2>1 DEF Matching, Matches, Current, Covers
<1>3. TypeOK'
  <2>1. DOMAIN decision' = Decisions /\ decision' = [e \in Decisions |-> decision'[e]]
    BY DEF Decide, TypeOK
  <2>2. \A e \in Decisions : decision'[e] \in DecisionRecords \cup {NoDecision}
    BY <1>1 DEF TypeOK, DecisionRecords, Kinds
  <2> QED
    BY <1>1, <2>1, <2>2 DEF TypeOK, DecisionRecords, Kinds
<1>4. ApprovalIsSpentOnIssue'
  <2>1. approval[d] = "none" /\ receipt[d] = "none"
    BY DecideRecords, UndecidedIsBare
  <2> QED
    BY <1>1, <2>1 DEF ApprovalIsSpentOnIssue
<1>5. NeverAhead'
  <2> SUFFICES ASSUME NEW e \in Decisions, Decided(e)' PROVE
        /\ decision'[e].program <= program.revision
        /\ decision'[e].generation <= generation
        /\ decision'[e].binding <= capability[decision'[e].capability].revision
        /\ decision'[e].policy <= policy.revision
        /\ decision'[e].effect = capability[decision'[e].capability].contract.effect
    BY <1>1 DEF NeverAhead
  <2>1. CASE e = d
    <3>1. /\ decision'[d].program = program.revision /\ decision'[d].generation = generation
          /\ decision'[d].policy = policy.revision /\ decision'[d].capability = c
          /\ decision'[d].binding = capability[c].revision
          /\ decision'[d].effect = capability[c].contract.effect
      BY DecideRecords
    <3>2. /\ program.revision \in Nat /\ generation \in Nat /\ policy.revision \in Nat
          /\ capability[c].revision \in Nat
      BY CapabilityShape DEF TypeOK
    <3> QED
      BY <2>1, <3>1, <3>2
  <2>2. CASE e # d
    BY <1>1, <2>2 DEF NeverAhead, Decided
  <2> QED
    BY <2>1, <2>2
<1>6. NamedGrantsCover'
  <2> SUFFICES ASSUME NEW e \in Decisions, Decided(e)', NEW g \in decision'[e].grants PROVE
        /\ grant[g].state \in {"current", "expired", "revoked"}
        /\ Covers(g, decision'[e].capability, decision'[e].target, decision'[e].effect)
    BY <1>1 DEF NamedGrantsCover, Covers
  <2>1. CASE e = d
    BY <1>2, <2>1, DecideRecords
  <2>2. CASE e # d
    BY <1>1, <2>2 DEF NamedGrantsCover, Decided
  <2> QED
    BY <2>1, <2>2
<1>7. VerdictStands'
  <2> SUFFICES ASSUME NEW e \in Decisions, Decided(e)', decision'[e].policy = policy.revision
               PROVE  decision'[e].kind = Verdict(capability[decision'[e].capability].contract,
                                                  policy.content, decision'[e].grants)
    BY <1>1 DEF VerdictStands, Verdict
  <2>1. CASE e = d
    <3>1. decision'[d].kind = Verdict(capability[c].contract, policy.content, Matching(c, t))
          /\ decision'[d].capability = c
          /\ decision'[d].grants = IF decision'[d].kind = "deny" THEN {} ELSE Matching(c, t)
      BY DecideRecords
    <3> QED
      BY <2>1, <3>1, DenialNamesNone
  <2>2. CASE e # d
    BY <1>1, <2>2 DEF VerdictStands, Decided
  <2> QED
    BY <2>1, <2>2
<1> QED
  BY <1>3, <1>4, <1>5, <1>6, <1>7

(* An approval or a receipt changes nothing a decision says. *)
LEMMA DecisionsKept ==
    ASSUME NeverAhead, NamedGrantsCover, VerdictStands, UNCHANGED <<facts, decision, drift>>
    PROVE  NeverAhead' /\ NamedGrantsCover' /\ VerdictStands'
  BY DEF NeverAhead, NamedGrantsCover, VerdictStands, Verdict, Covers, Decided, facts

LEMMA ApproveInv ==
    ASSUME NEW d \in Decisions PROVE IInv /\ Approve(d) => IInv'
<1> SUFFICES ASSUME IInv, Approve(d) PROVE IInv'
  OBVIOUS
<1>1. TypeOK'
  BY DEF IInv, Approve, TypeOK, facts
<1>2. ApprovalIsSpentOnIssue'
  BY DEF IInv, Approve, TypeOK, ApprovalIsSpentOnIssue
<1> QED
  BY <1>1, <1>2, DecisionsKept DEF IInv, Approve

LEMMA IssueAuthorityInv ==
    ASSUME NEW d \in Decisions PROVE IInv /\ IssueAuthority(d) => IInv'
<1> SUFFICES ASSUME IInv, IssueAuthority(d) PROVE IInv'
  OBVIOUS
<1>1. TypeOK'
  BY DEF IInv, IssueAuthority, TypeOK, facts
<1>2. ApprovalIsSpentOnIssue'
  BY DEF IInv, IssueAuthority, TypeOK, ApprovalIsSpentOnIssue
<1> QED
  BY <1>1, <1>2, DecisionsKept DEF IInv, IssueAuthority

LEMMA ConsumeAuthorityInv ==
    ASSUME NEW d \in Decisions PROVE IInv /\ ConsumeAuthority(d) => IInv'
<1> SUFFICES ASSUME IInv, ConsumeAuthority(d) PROVE IInv'
  OBVIOUS
<1>1. TypeOK'
  BY DEF IInv, ConsumeAuthority, TypeOK, facts
<1>2. ApprovalIsSpentOnIssue'
  BY DEF IInv, ConsumeAuthority, TypeOK, ApprovalIsSpentOnIssue
<1> QED
  BY <1>1, <1>2, DecisionsKept DEF IInv, ConsumeAuthority

LEMMA StutterInv == IInv /\ UNCHANGED vars => IInv'
<1> SUFFICES ASSUME IInv, UNCHANGED vars PROVE IInv'
  OBVIOUS
<1>1. TypeOK'
  BY DEF IInv, TypeOK, vars, facts, records
<1> QED
  BY <1>1, DecisionsKept, RecordsKept DEF IInv, vars, records

LEMMA NextInv == IInv /\ [Next]_vars => IInv'
<1> SUFFICES ASSUME IInv, [Next]_vars PROVE IInv'
  OBVIOUS
<1>1. CASE ReviseProgram
  BY <1>1, ReviseProgramInv
<1>2. CASE ReplaceBinding
  BY <1>2, ReplaceBindingInv
<1>3. CASE InstallPolicy
  BY <1>3, InstallPolicyInv
<1>4. CASE \E c \in Capabilities : ReplaceHandler(c)
  BY <1>4, ReplaceHandlerInv
<1>5. CASE \E g \in Grants : IssueGrant(g) \/ RevokeGrant(g) \/ ClockTick(g)
  BY <1>5, GrantInv
<1>6. CASE \E d \in Decisions, c \in Capabilities, t \in Targets : Decide(d, c, t)
  BY <1>6, DecideInv
<1>7. CASE \E d \in Decisions : Approve(d) \/ IssueAuthority(d) \/ ConsumeAuthority(d)
  BY <1>7, ApproveInv, IssueAuthorityInv, ConsumeAuthorityInv
<1>8. CASE UNCHANGED vars
  BY <1>8, StutterInv
<1> QED
  BY <1>1, <1>2, <1>3, <1>4, <1>5, <1>6, <1>7, <1>8 DEF Next

-----------------------------------------------------------------------------
(* What holds of every behaviour of Authority. *)

THEOREM Invariance == Spec => []IInv
  BY InitInv, NextInv, PTL DEF Spec

(* Every record of authority has the shape its table allows. *)
THEOREM TypeCorrect == Spec => []TypeOK
<1>1. IInv => TypeOK
  BY DEF IInv
<1> QED
  BY <1>1, Invariance, PTL

(* An approval is consumed exactly by the issue of an execution authority. *)
THEOREM OneShotApproval == Spec => []ApprovalIsSpentOnIssue
<1>1. IInv => ApprovalIsSpentOnIssue
  BY DEF IInv
<1> QED
  BY <1>1, Invariance, PTL

LEMMA AsksAreAuditable == IInv => AsksStayAuditable
<1> SUFFICES ASSUME IInv, NEW d \in Decisions, decision[d].kind = "ask" PROVE ~AskIsCorrupt(d)
  BY DEF AsksStayAuditable
<1>1. Decided(d)
  BY UndecidedKind DEF IInv, Kinds
<1>2. receipt[d] = "none" \/ approval[d] = "consumed"
  BY DEF IInv, ApprovalIsSpentOnIssue
<1>3. decision[d].effect = capability[decision[d].capability].contract.effect
  BY <1>1 DEF IInv, NeverAhead
<1>4. SameRevisions(d) => decision[d].kind =
         Verdict(capability[decision[d].capability].contract, policy.content, decision[d].grants)
  BY <1>1 DEF IInv, VerdictStands, SameRevisions
<1> QED
  BY <1>2, <1>3, <1>4 DEF AskIsCorrupt

(* No move of the Host facts, of the grants or of the clock makes the audit *)
(* of a pending ask raise IntegrityViolation.                               *)
THEOREM AsksNeverCorrupt == Spec => []AsksStayAuditable
  BY AsksAreAuditable, Invariance, PTL

(* What the revisions and the recorded verdict compare is enough for the    *)
(* facts of this moment to permit the effect.                               *)
LEMMA ComparedIsPermitted ==
    ASSUME IInv, NEW d \in Decisions, ConsumeAuthority(d) PROVE PermittedNow(d)
<1> DEFINE dec == decision[d]
           contract == capability[dec.capability].contract
           covering == {g \in Grants : Matches(g, dec.capability, dec.target, contract.effect)}
<1>1. dec.kind \in {"ask", "allow"} /\ Decided(d)
  BY UndecidedKind DEF IInv, ConsumeAuthority, ApprovalIsSpentOnIssue, Kinds
<1>2. dec.grants \subseteq covering
  <2>1. dec.grants \subseteq Grants
    BY <1>1, DecisionShape DEF IInv, DecisionRecords
  <2>2. dec.effect = contract.effect
    BY <1>1 DEF IInv, NeverAhead
  <2> QED
    BY <2>1, <2>2 DEF ConsumeAuthority, SameSemantics
<1>3. dec.kind = Verdict(contract, policy.content, dec.grants)
  BY DEF ConsumeAuthority, SameSemantics
<1>4. contract.effect \notin policy.content.deny /\ dec.grants # {}
  BY <1>1, <1>3 DEF Verdict
<1>5. contract.risk \in policy.content.ask \/ (\A g \in covering : grant[g].terms.approval_required)
        => dec.kind = "ask"
  BY <1>2, <1>3, <1>4 DEF Verdict
<1>6. program.active /\ (dec.kind = "ask" => approval[d] = "consumed")
  BY DEF ConsumeAuthority, SameRevisions
<1> QED
  BY <1>2, <1>4, <1>5, <1>6 DEF PermittedNow

(* Only consume_execution_authority consumes a receipt. *)
LEMMA ConsumedByConsume ==
    ASSUME TypeOK, [Next]_vars, NEW d \in Decisions, receipt[d] = "issued", receipt'[d] = "consumed"
    PROVE  ConsumeAuthority(d)
<1>1. CASE receipt' = receipt
  BY <1>1
<1>2. CASE \E e \in Decisions : IssueAuthority(e)
  BY <1>2 DEF IssueAuthority, TypeOK
<1>3. CASE \E e \in Decisions : ConsumeAuthority(e)
  <2>1. PICK e \in Decisions : ConsumeAuthority(e)
    BY <1>3
  <2>2. e = d
    BY <2>1 DEF ConsumeAuthority, TypeOK
  <2> QED
    BY <2>1, <2>2
<1> QED
  BY <1>1, <1>2, <1>3
  DEF Next, vars, records, ReviseProgram, ReplaceBinding, InstallPolicy, ReplaceHandler,
      IssueGrant, RevokeGrant, ClockTick, Decide, Approve

(* A receipt is consumed only when the Program, the policy and the grants   *)
(* of that moment, judged afresh, permit the effect.                        *)
THEOREM OnlyThePermittedIsConsumed == Spec => ConsumedOnlyWhenPermitted
<1>1. IInv /\ [Next]_vars =>
        [\A d \in Decisions :
            receipt[d] = "issued" /\ receipt'[d] = "consumed" => PermittedNow(d)]_vars
  BY ConsumedByConsume, ComparedIsPermitted DEF IInv
<1> QED
  BY <1>1, Invariance, PTL DEF Spec, ConsumedOnlyWhenPermitted

-----------------------------------------------------------------------------
(* Authority implements AuthorityReceipts.  Voiding is for ever because     *)
(* revisions only grow, under the same revision nothing changes, and a      *)
(* grant that ended does not start again.                                   *)

FactsMoveOn ==
    /\ program.revision < program'.revision \/ program' = program
    /\ generation <= generation'
    /\ \A c \in Capabilities : capability[c].revision <= capability'[c].revision
    /\ policy.revision < policy'.revision \/ policy' = policy
    /\ GrantsMoveOn
    /\ \A d \in Decisions : Decided(d) => decision'[d] = decision[d]

LEMMA StepMovesOn == TypeOK /\ [Next]_vars => FactsMoveOn
<1> SUFFICES ASSUME TypeOK, [Next]_vars PROVE FactsMoveOn
  OBVIOUS
<1>1. /\ program.revision \in Nat /\ generation \in Nat /\ policy.revision \in Nat
      /\ \A c \in Capabilities : capability[c].revision \in Nat
  BY CapabilityShape DEF TypeOK
<1>2. UNCHANGED grant => GrantsMoveOn
  BY DEF GrantsMoveOn
<1>3. CASE ReviseProgram
  BY <1>1, <1>2, <1>3 DEF ReviseProgram, FactsMoveOn, records
<1>4. CASE ReplaceBinding
  BY <1>1, <1>2, <1>4 DEF ReplaceBinding, FactsMoveOn, records
<1>5. CASE InstallPolicy
  BY <1>1, <1>2, <1>5 DEF InstallPolicy, FactsMoveOn, records
<1>6. CASE \E c \in Capabilities : ReplaceHandler(c)
  <2>1. \A c \in Capabilities :
          capability'[c].revision \in {capability[c].revision, capability[c].revision + 1}
    BY <1>6 DEF ReplaceHandler, TypeOK
  <2> QED
    BY <1>1, <1>2, <1>6, <2>1 DEF ReplaceHandler, FactsMoveOn, records
<1>7. CASE \E g \in Grants : IssueGrant(g) \/ RevokeGrant(g) \/ ClockTick(g)
  <2>1. GrantsMoveOn
    BY <1>7, IssueGrantMoves, RevokeGrantMoves, ClockTickMoves
  <2> QED
    BY <1>1, <1>7, <2>1 DEF IssueGrant, RevokeGrant, ClockTick, FactsMoveOn, records
<1>8. CASE \E d \in Decisions, c \in Capabilities, t \in Targets : Decide(d, c, t)
  <2>1. \A d \in Decisions : Decided(d) => decision'[d] = decision[d]
    BY <1>8, DecideRecords
  <2> QED
    BY <1>1, <1>2, <1>8, <2>1 DEF Decide, FactsMoveOn, facts
<1>9. CASE \E d \in Decisions : Approve(d) \/ IssueAuthority(d) \/ ConsumeAuthority(d)
  BY <1>1, <1>2, <1>9 DEF Approve, IssueAuthority, ConsumeAuthority, FactsMoveOn, facts
<1>10. CASE UNCHANGED vars
  BY <1>1, <1>2, <1>10 DEF vars, FactsMoveOn, facts, records
<1> QED
  BY <1>3, <1>4, <1>5, <1>6, <1>7, <1>8, <1>9, <1>10 DEF Next

(* Given the invariant, what makes a decision void. *)
LEMMA VoidMeans ==
    ASSUME IInv, NEW d \in Decisions, Decided(d)
    PROVE  Void(d) <=> \/ decision[d].kind = "deny"
                       \/ ~SameRevisions(d)
                       \/ \E g \in decision[d].grants : ~Current(g)
<1>1. \A g \in decision[d].grants :
        Matches(g, decision[d].capability, decision[d].target, decision[d].effect) <=> Current(g)
  BY DEF IInv, NamedGrantsCover, Covers, Matches
<1>2. SameRevisions(d) => decision[d].kind =
         Verdict(capability[decision[d].capability].contract, policy.content, decision[d].grants)
  BY DEF IInv, VerdictStands, SameRevisions
<1> QED
  BY <1>1, <1>2 DEF Void, SameSemantics, Decided

LEMMA VoidStays ==
    ASSUME IInv, IInv', FactsMoveOn, NEW d \in Decisions, Void(d) PROVE Void(d)'
<1> DEFINE dec == decision[d]
<1>1. Decided(d) /\ Decided(d)' /\ decision'[d] = dec
  BY DEF Void, Decided, FactsMoveOn
<1>2. dec \in DecisionRecords
  BY <1>1, DecisionShape DEF IInv
<1>3. CASE dec.kind = "deny"
  BY <1>1, <1>3 DEF Void, Decided
<1>4. CASE ~SameRevisions(d)
  <2>1. /\ dec.program <= program.revision /\ dec.generation <= generation
        /\ dec.binding <= capability[dec.capability].revision /\ dec.policy <= policy.revision
    BY <1>1 DEF IInv, NeverAhead
  <2>2. /\ dec.program \in Nat /\ dec.generation \in Nat /\ dec.binding \in Nat
        /\ dec.policy \in Nat /\ dec.capability \in Capabilities
    BY <1>2 DEF DecisionRecords
  <2>3. /\ program.revision \in Nat /\ generation \in Nat /\ policy.revision \in Nat
        /\ capability[dec.capability].revision \in Nat
        /\ program'.revision \in Nat /\ generation' \in Nat /\ policy'.revision \in Nat
        /\ capability'[dec.capability].revision \in Nat
    BY <2>2 DEF IInv, TypeOK
  <2>4. /\ program.revision < program'.revision \/ program' = program
        /\ generation <= generation'
        /\ capability[dec.capability].revision <= capability'[dec.capability].revision
        /\ policy.revision < policy'.revision \/ policy' = policy
    BY <2>2 DEF FactsMoveOn
  <2>5. ~(/\ program'.revision = dec.program
          /\ generation' = dec.generation
          /\ capability'[dec.capability].revision = dec.binding
          /\ program'.active
          /\ policy'.revision = dec.policy)
    BY <1>4, <2>1, <2>2, <2>3, <2>4 DEF SameRevisions
  <2> QED
    BY <1>1, <2>5 DEF Void, SameRevisions, Decided
<1>5. CASE \E g \in dec.grants : ~Current(g)
  <2>1. PICK g \in dec.grants : ~Current(g)
    BY <1>5
  <2>2. g \in Grants
    BY <1>2, <2>1 DEF DecisionRecords
  <2>3. grant[g].state \in {"expired", "revoked"} /\ grant[g] # NoGrant
    BY <1>1, <2>1 DEF IInv, NamedGrantsCover, Current, NoGrant
  <2>4. grant'[g].state \in {"expired", "revoked"}
    BY <2>2, <2>3 DEF FactsMoveOn, GrantsMoveOn
  <2>5. ~Matches(g, dec.capability, dec.target, dec.effect)'
    BY <2>4 DEF Matches, Current
  <2> QED
    BY <1>1, <2>1, <2>5 DEF Void, SameSemantics, Decided
<1> QED
  BY <1>1, <1>3, <1>4, <1>5, VoidMeans

LEMMA LifecycleOf ==
    ASSUME TypeOK, NEW d \in Decisions
    PROVE  Lifecycle[d] = IF receipt[d] = "consumed" THEN "spent"
                          ELSE IF receipt[d] = "issued" THEN IF Void(d) THEN "void" ELSE "issued"
                          ELSE IF Void(d) THEN "lapsed" ELSE "none"
<1>1. receipt[d] \in {"none", "issued", "consumed"}
  BY DEF TypeOK
<1> QED
  BY <1>1 DEF Lifecycle

LEMMA LifecycleIsFunction == Lifecycle' = [d \in Decisions |-> Lifecycle'[d]]
<1> DEFINE F(d) == CASE receipt'[d] = "consumed"            -> "spent"
                     [] receipt'[d] = "issued" /\ Void(d)'  -> "void"
                     [] receipt'[d] = "issued" /\ ~Void(d)' -> "issued"
                     [] receipt'[d] = "none" /\ Void(d)'    -> "lapsed"
                     [] receipt'[d] = "none" /\ ~Void(d)'   -> "none"
<1>1. Lifecycle' = [d \in Decisions |-> F(d)]
  BY DEF Lifecycle
<1> HIDE DEF F
<1> QED
  BY <1>1

(* Whatever voids decisions, and touches no receipt, is a VoidReceipts. *)
LEMMA OnlyVoids ==
    ASSUME IInv, IInv', FactsMoveOn, UNCHANGED receipt
    PROVE  Receipts!ReceiptNext
<1> DEFINE D == {d \in Decisions : Void(d)' /\ ~Void(d) /\ receipt[d] # "consumed"}
<1>1. ASSUME NEW d \in D PROVE Lifecycle[d] \in {"none", "issued"}
  BY LifecycleOf DEF IInv
<1>2. ASSUME NEW d \in Decisions
      PROVE  Lifecycle'[d] = IF d \notin D THEN Lifecycle[d]
                             ELSE IF Lifecycle[d] = "issued" THEN "void" ELSE "lapsed"
  <2>1. Void(d) => Void(d)'
    BY VoidStays
  <2>2. Lifecycle'[d] = IF receipt[d] = "consumed" THEN "spent"
                        ELSE IF receipt[d] = "issued" THEN IF Void(d)' THEN "void" ELSE "issued"
                        ELSE IF Void(d)' THEN "lapsed" ELSE "none"
    <3>1. receipt'[d] \in {"none", "issued", "consumed"} /\ receipt'[d] = receipt[d]
      BY DEF IInv, TypeOK
    <3> QED
      BY <3>1 DEF Lifecycle
  <2> QED
    BY <2>1, <2>2, LifecycleOf DEF IInv
<1>3. Lifecycle' = [d \in Decisions |-> Lifecycle'[d]]
  BY LifecycleIsFunction
<1>4. Receipts!VoidReceipts(D)
  BY <1>1, <1>2, <1>3 DEF Receipts!VoidReceipts
<1> QED
  BY <1>4 DEF Receipts!ReceiptNext

(* A receipt issued or consumed voids nothing. *)
LEMMA OthersStand ==
    ASSUME TypeOK, TypeOK', UNCHANGED <<facts, decision>>,
           NEW d \in Decisions, receipt'[d] = receipt[d]
    PROVE  Lifecycle'[d] = Lifecycle[d]
<1>1. receipt[d] \in {"none", "issued", "consumed"}
  BY DEF TypeOK
<1>2. Void(d)' <=> Void(d)
  BY DEF Void, SameRevisions, SameSemantics, Matches, Current, Verdict, facts
<1>3. Lifecycle'[d] = CASE receipt'[d] = "consumed"            -> "spent"
                        [] receipt'[d] = "issued" /\ Void(d)'  -> "void"
                        [] receipt'[d] = "issued" /\ ~Void(d)' -> "issued"
                        [] receipt'[d] = "none" /\ Void(d)'    -> "lapsed"
                        [] receipt'[d] = "none" /\ ~Void(d)'   -> "none"
  BY DEF Lifecycle
<1> QED
  BY <1>1, <1>2, <1>3, LifecycleOf

(* The one receipt that moves. *)
LEMMA OneMoves ==
    ASSUME TypeOK, TypeOK', UNCHANGED <<facts, decision>>, NEW d \in Decisions, ~Void(d),
           NEW s \in {"issued", "consumed"}, receipt' = [receipt EXCEPT ![d] = s]
    PROVE  Lifecycle' = [Lifecycle EXCEPT ![d] = IF s = "issued" THEN "issued" ELSE "spent"]
<1>1. ~Void(d)'
  BY DEF Void, SameRevisions, SameSemantics, Matches, Current, Verdict, facts
<1>2. receipt'[d] = s /\ \A e \in Decisions \ {d} : receipt'[e] = receipt[e]
  BY DEF TypeOK
<1>3. Lifecycle'[d] = IF s = "issued" THEN "issued" ELSE "spent"
  BY <1>1, <1>2 DEF Lifecycle
<1>4. \A e \in Decisions \ {d} : Lifecycle'[e] = Lifecycle[e]
  BY <1>2, OthersStand
<1>5. DOMAIN Lifecycle = Decisions /\ Lifecycle' = [e \in Decisions |-> Lifecycle'[e]]
  BY LifecycleIsFunction DEF Lifecycle
<1> QED
  BY <1>3, <1>4, <1>5

LEMMA ReceiptStepRefines == IInv /\ IInv' /\ [Next]_vars => [Receipts!ReceiptNext]_Lifecycle
<1> SUFFICES ASSUME IInv, IInv', [Next]_vars PROVE Receipts!ReceiptNext
  OBVIOUS
<1>1. FactsMoveOn
  BY StepMovesOn DEF IInv
<1>2. CASE UNCHANGED receipt
  BY <1>1, <1>2, OnlyVoids
<1>3. CASE \E d \in Decisions : IssueAuthority(d)
  <2>1. PICK d \in Decisions : IssueAuthority(d)
    BY <1>3
  <2>2. ~Void(d) /\ receipt[d] = "none" /\ receipt' = [receipt EXCEPT ![d] = "issued"]
        /\ UNCHANGED <<facts, decision>>
    BY <2>1 DEF IssueAuthority, Void
  <2>3. Lifecycle[d] = "none" /\ Lifecycle' = [Lifecycle EXCEPT ![d] = "issued"]
    BY <2>2, OneMoves, LifecycleOf DEF IInv
  <2> QED
    BY <2>3 DEF Receipts!ReceiptNext, Receipts!IssueReceipt
<1>4. CASE \E d \in Decisions : ConsumeAuthority(d)
  <2>1. PICK d \in Decisions : ConsumeAuthority(d)
    BY <1>4
  <2>2. ~Void(d) /\ receipt[d] = "issued" /\ receipt' = [receipt EXCEPT ![d] = "consumed"]
        /\ UNCHANGED <<facts, decision>>
    BY <2>1 DEF ConsumeAuthority, Void, IInv, ApprovalIsSpentOnIssue
  <2>3. Lifecycle[d] = "issued" /\ Lifecycle' = [Lifecycle EXCEPT ![d] = "spent"]
    BY <2>2, OneMoves, LifecycleOf DEF IInv
  <2> QED
    BY <2>3 DEF Receipts!ReceiptNext, Receipts!SpendReceipt
<1> QED
  BY <1>2, <1>3, <1>4
  DEF Next, vars, records, ReviseProgram, ReplaceBinding, InstallPolicy, ReplaceHandler,
      IssueGrant, RevokeGrant, ClockTick, Decide, Approve

(* A decision yields at most one receipt, spent at most once, and once      *)
(* anything it rested on has changed it is void for ever.                   *)
THEOREM AuthorityImplementsReceipts == Spec => ImplementsReceipts
<1>1. Init => Receipts!ReceiptInit
  <2> SUFFICES ASSUME Init PROVE Lifecycle = [d \in Decisions |-> "none"]
    BY DEF Receipts!ReceiptInit
  <2>1. \A d \in Decisions : receipt[d] = "none" /\ ~Void(d)
    BY DEF Init, Void
  <2> QED
    BY <2>1 DEF Lifecycle
<1>2. IInv /\ IInv' /\ [Next]_vars => [Receipts!ReceiptNext]_Lifecycle
  BY ReceiptStepRefines
<1> QED
  BY <1>1, <1>2, Invariance, PTL DEF Spec, ImplementsReceipts, Receipts!ReceiptSpec

-----------------------------------------------------------------------------
(* Bindings.  Its steps are steps of Authority, so Authority's theorems     *)
(* hold of it.                                                              *)

LEMMA BindingStep == BindingNext => [Next]_vars
<1> SUFFICES ASSUME BindingNext PROVE [Next]_vars
  OBVIOUS
<1>1. CASE Unbind \/ \E k \in Callers : Rebind(k)
  BY <1>1 DEF Unbind, Rebind, BindTo, Next
<1>2. CASE \E d \in Decisions : DecideOn(d)
  BY <1>2 DEF DecideOn, Next
<1>3. CASE Authorize
  BY <1>3 DEF Authorize, Next
<1> QED
  BY <1>1, <1>2, <1>3
  DEF BindingNext, RegisterProvider, UpdateAtOnce, UpdateProvider, Amend, Read

(* Every behaviour of the composition is one of Authority. *)
THEOREM BindingsAreAuthority == BindingSpec => Spec
<1>1. BindingInit => Init
  BY DEF BindingInit
<1>2. [BindingNext]_allVars => [Next]_vars
  BY BindingStep DEF allVars
<1> QED
  BY <1>1, <1>2, PTL DEF BindingSpec, Spec

Binding == [provider : Providers \cup {Nothing}, revision : Nat]

BindingTyped ==
    /\ providers \in [Providers -> Seq(Contents)]
    /\ basis \in [Providers -> Seq(Contents)]
    /\ bound \in Seq(Binding) /\ Len(bound) = generation + 1
    /\ seen \in [Callers -> [provider : {Nothing}] \cup
                   [provider : Providers, revision : Nat, content : Contents, generation : Nat]]
    /\ DOMAIN decidedFor = Decisions

(* A revision of a provider that exists. *)
Known(p, revision) == p \in Providers /\ revision \in 1 .. Len(providers[p])

(* Whatever the Actor was ever bound to resolves. *)
BoundIsKnown ==
    \A i \in 1 .. Len(bound) :
        bound[i].provider # Nothing => Known(bound[i].provider, bound[i].revision)

(* What a caller has read is still in the history. *)
SeenIsKept ==
    \A k \in Callers : HasRead(k) =>
        /\ Known(seen[k].provider, seen[k].revision)
        /\ seen[k].content = providers[seen[k].provider][seen[k].revision]

(* A decision belongs to the configuration of its generation. *)
DecidedOnGeneration ==
    \A d \in Decisions : Decided(d) =>
        decidedFor[d] = Resolve(bound[decision[d].generation + 1])

BindingInv ==
    /\ BindingTyped /\ BoundIsKnown /\ SeenIsKept /\ DecidedOnGeneration
    /\ RevisionsBuildOnEachOther

LEMMA BindingInitInv == BindingInit => BindingInv
<1> SUFFICES ASSUME BindingInit PROVE BindingInv
  OBVIOUS
<1> USE DEF BindingInit
<1>1. bound = <<Unconfigured>> /\ Unconfigured \in Binding
  BY DEF Unconfigured, Binding, Nothing
<1>2. BindingTyped
  BY <1>1 DEF BindingTyped, Init, Nothing
<1>3. BoundIsKnown
  BY <1>1 DEF BoundIsKnown, Unconfigured
<1>4. RevisionsBuildOnEachOther
  <2> SUFFICES ASSUME NEW p \in Providers PROVE <<>> = SubSeq(<<>>, 1, Len(<<>>) - 1)
    BY DEF RevisionsBuildOnEachOther
  <2> QED
    BY SubSeqEmpty
<1> QED
  BY <1>2, <1>3, <1>4
  DEF BindingInv, SeenIsKept, HasRead, DecidedOnGeneration, Init, Decided

(* Histories only grow: what was a revision stays that revision. *)
HistoriesGrow ==
    \A p \in Providers :
        /\ Len(providers[p]) <= Len(providers'[p])
        /\ \A i \in 1 .. Len(providers[p]) : providers'[p][i] = providers[p][i]

LEMMA ResolvesAsBefore ==
    ASSUME HistoriesGrow, NEW b, b.provider # Nothing => Known(b.provider, b.revision)
    PROVE  Resolve(b)' = Resolve(b)
  BY DEF HistoriesGrow, Resolve, Known

LEMMA KnownStays ==
    ASSUME BindingTyped, BindingTyped', HistoriesGrow, NEW p, NEW r, Known(p, r)
    PROVE  Known(p, r)' /\ providers'[p][r] = providers[p][r]
<1>1. Len(providers[p]) \in Nat /\ Len(providers'[p]) \in Nat
  BY DEF BindingTyped, Known
<1> QED
  BY <1>1 DEF HistoriesGrow, Known

(* What one more revision does to a history and to what its authors read. *)
LEMMA AppendRevision ==
    ASSUME NEW S, NEW s \in Seq(S), NEW e \in S, s # <<>>
    PROVE  /\ Append(s, e) \in Seq(S) /\ Len(Append(s, e)) = Len(s) + 1
           /\ \A i \in 1 .. Len(s) : Append(s, e)[i] = s[i]
           /\ SubSeq(Append(s, e), 1, Len(s)) = Append(SubSeq(s, 1, Len(s) - 1), s[Len(s)])
<1>1. /\ Append(s, e) \in Seq(S) /\ Len(Append(s, e)) = Len(s) + 1
      /\ \A i \in 1 .. Len(s) : Append(s, e)[i] = s[i]
  BY AppendProperties
<1>2. Len(s) \in Nat /\ 1 \in 1 .. Len(s) /\ Len(s) \in 1 .. Len(s)
  BY EmptySeq, LenProperties
<1>3. s[Len(s)] \in S
  BY <1>2, ElementOfSeq
<1>4. SubSeq(Append(s, e), 1, Len(s)) = s
  <2>1. Append(s, e) = s \o <<e>> /\ <<e>> \in Seq(S)
    BY AppendIsConcat
  <2>2. SubSeq(s \o <<e>>, 1, Len(s)) = SubSeq(s, 1, Len(s))
    BY <1>2, <2>1, SubSeqOfConcat1
  <2> QED
    BY <2>1, <2>2, SubSeqFull
<1>5. Append(SubSeq(s, 1, Len(s) - 1), s[Len(s)]) = s
  <2>1. SubSeq(s, 1, Len(s)) = SubSeq(s, 1, Len(s) - 1) \o <<s[Len(s)]>>
    BY <1>2, SubSeqRecursiveSecond
  <2>2. \A i \in 1 .. Len(s) - 1 : s[i] \in S
    BY <1>2, ElementOfSeq
  <2>3. SubSeq(s, 1, Len(s) - 1) \in Seq(S)
    BY <1>2, <2>2, SubSeqProperties
  <2> QED
    BY <1>3, <2>1, <2>3, AppendIsConcat, SubSeqFull
<1> QED
  BY <1>1, <1>4, <1>5

(* The Actor and its decisions are left alone, the histories grow. *)
LEMMA HistoriesGrowInv ==
    ASSUME IInv, BindingInv, BindingTyped', HistoriesGrow, SeenIsKept', RevisionsBuildOnEachOther',
           UNCHANGED <<generation, decision, bound, decidedFor>>
    PROVE  BindingInv'
<1> USE DEF BindingInv
<1>1. BoundIsKnown'
  BY KnownStays DEF BoundIsKnown
<1>2. DecidedOnGeneration'
  <2> SUFFICES ASSUME NEW d \in Decisions, Decided(d)
               PROVE  decidedFor[d] = Resolve(bound[decision[d].generation + 1])'
    BY DEF DecidedOnGeneration, Decided
  <2> DEFINE b == bound[decision[d].generation + 1]
  <2>1. decision[d].generation \in Nat /\ generation \in Nat /\ decision[d].generation <= generation
    BY DecisionShape DEF IInv, TypeOK, NeverAhead, DecisionRecords
  <2>2. b.provider # Nothing => Known(b.provider, b.revision)
    BY <2>1 DEF BoundIsKnown, BindingTyped
  <2>3. Resolve(b)' = Resolve(b)
    BY <2>2, ResolvesAsBefore
  <2> QED
    BY <2>3 DEF DecidedOnGeneration
<1> QED
  BY <1>1, <1>2

(* What a caller has read stays so while histories grow. *)
LEMMA SeenStays ==
    ASSUME BindingTyped, BindingTyped', SeenIsKept, HistoriesGrow, UNCHANGED seen
    PROVE  SeenIsKept'
  BY KnownStays DEF SeenIsKept, HasRead

LEMMA AmendInv ==
    ASSUME NEW p \in Providers, NEW content \in Contents, IInv, BindingInv, providers[p] # <<>>,
           Amend(p, LastOf(providers[p]), content)
    PROVE  BindingInv'
<1> DEFINE s == providers[p]
<1>1. /\ s \in Seq(Contents) /\ providers' = [providers EXCEPT ![p] = Append(s, content)]
      /\ basis' = [basis EXCEPT ![p] = Append(basis[p], s[Len(s)])]
      /\ UNCHANGED <<vars, bound, seen, decidedFor>>
  BY DEF Amend, LastOf, BindingInv, BindingTyped
<1>2. /\ Append(s, content) \in Seq(Contents) /\ Len(Append(s, content)) = Len(s) + 1
      /\ \A i \in 1 .. Len(s) : Append(s, content)[i] = s[i]
      /\ SubSeq(Append(s, content), 1, Len(s)) = Append(SubSeq(s, 1, Len(s) - 1), s[Len(s)])
      /\ Len(s) \in Nat /\ Len(Append(s, content)) - 1 = Len(s)
  BY <1>1, AppendRevision, LenProperties
<1>3. BindingTyped'
  <2>1. Append(basis[p], s[Len(s)]) \in Seq(Contents)
    <3>1. s[Len(s)] \in Contents /\ basis[p] \in Seq(Contents)
      BY <1>1, EmptySeq, ElementOfSeq DEF BindingInv, BindingTyped
    <3> QED
      BY <3>1, AppendProperties
  <2> QED
    BY <1>1, <1>2, <2>1 DEF BindingInv, BindingTyped, vars, facts
<1>4. HistoriesGrow
  <2> SUFFICES ASSUME NEW q \in Providers PROVE
        /\ Len(providers[q]) <= Len(providers'[q])
        /\ \A i \in 1 .. Len(providers[q]) : providers'[q][i] = providers[q][i]
    BY DEF HistoriesGrow
  <2>1. CASE q = p
    BY <1>1, <1>2, <2>1 DEF BindingInv, BindingTyped
  <2>2. CASE q # p
    <3>1. providers'[q] = providers[q] /\ Len(providers[q]) \in Nat
      BY <1>1, <2>2, LenProperties DEF BindingInv, BindingTyped
    <3> QED
      BY <3>1
  <2> QED
    BY <2>1, <2>2
<1>5. RevisionsBuildOnEachOther'
  <2> SUFFICES ASSUME NEW q \in Providers
               PROVE  basis'[q] = SubSeq(providers'[q], 1, Len(providers'[q]) - 1)
    BY DEF RevisionsBuildOnEachOther
  <2>1. CASE q = p
    <3>1. basis[p] = SubSeq(s, 1, Len(s) - 1)
      BY DEF BindingInv, RevisionsBuildOnEachOther
    <3>2. providers'[p] = Append(s, content)
      BY <1>1 DEF BindingInv, BindingTyped
    <3>3. basis'[p] = Append(basis[p], s[Len(s)])
      BY <1>1 DEF BindingInv, BindingTyped
    <3>4. SubSeq(providers'[p], 1, Len(providers'[p]) - 1) = SubSeq(Append(s, content), 1, Len(s))
      BY <1>2, <3>2
    <3> QED
      BY <1>2, <2>1, <3>1, <3>3, <3>4
  <2>2. CASE q # p
    <3>1. basis'[q] = basis[q] /\ providers'[q] = providers[q]
      BY <1>1, <2>2 DEF BindingInv, BindingTyped
    <3> QED
      BY <3>1 DEF BindingInv, RevisionsBuildOnEachOther
  <2> QED
    BY <2>1, <2>2
<1>6. SeenIsKept'
  BY <1>1, <1>3, <1>4, SeenStays DEF BindingInv
<1> QED
  BY <1>1, <1>3, <1>4, <1>5, <1>6, HistoriesGrowInv DEF vars, facts, records

LEMMA RegisterProviderInv ==
    ASSUME NEW p \in Providers, IInv, BindingInv, RegisterProvider(p) PROVE BindingInv'
<1>1. PICK content \in Contents : providers' = [providers EXCEPT ![p] = <<content>>]
  BY DEF RegisterProvider
<1>2. providers[p] = <<>> /\ UNCHANGED <<vars, basis, bound, seen, decidedFor>>
  BY DEF RegisterProvider
<1>3. BindingTyped'
  BY <1>1, <1>2 DEF BindingInv, BindingTyped, vars, facts
<1>4. \A q \in Providers \ {p} : providers'[q] = providers[q] /\ Len(providers[q]) \in Nat
  BY <1>1, LenProperties DEF BindingInv, BindingTyped
<1>5. providers'[p] = <<content>> /\ Len(providers[p]) = 0
  BY <1>1, <1>2 DEF BindingInv, BindingTyped
<1>6. HistoriesGrow
  BY <1>4, <1>5 DEF HistoriesGrow
<1>7. RevisionsBuildOnEachOther'
  <2> SUFFICES ASSUME NEW q \in Providers
               PROVE  basis'[q] = SubSeq(providers'[q], 1, Len(providers'[q]) - 1)
    BY DEF RevisionsBuildOnEachOther
  <2>1. basis'[q] = SubSeq(providers[q], 1, Len(providers[q]) - 1)
    BY <1>2 DEF BindingInv, RevisionsBuildOnEachOther
  <2>2. CASE q = p
    <3>1. Len(<<content>>) = 1
      OBVIOUS
    <3>2. SubSeq(providers[p], 1, 0 - 1) = <<>> /\ SubSeq(<<content>>, 1, 1 - 1) = <<>>
      BY SubSeqEmpty
    <3> QED
      BY <1>5, <2>1, <2>2, <3>1, <3>2
  <2>3. CASE q # p
    BY <1>4, <2>1, <2>3
  <2> QED
    BY <2>2, <2>3
<1>8. SeenIsKept'
  BY <1>2, <1>3, <1>6, SeenStays DEF BindingInv
<1> QED
  BY <1>2, <1>3, <1>6, <1>7, <1>8, HistoriesGrowInv DEF vars, facts, records

LEMMA UpdateProviderInv ==
    ASSUME NEW k \in Callers, NEW content \in Contents, IInv, BindingInv, UpdateProvider(k, content)
    PROVE  BindingInv'
<1> DEFINE p == seen[k].provider
<1>1. HasRead(k) /\ seen[k].revision = Len(providers[p]) /\ Amend(p, seen[k].content, content)
  BY DEF UpdateProvider, UpToDate
<1>2. p \in Providers /\ Len(providers[p]) \in 1 .. Len(providers[p])
      /\ seen[k].content = providers[p][Len(providers[p])]
  BY <1>1 DEF BindingInv, SeenIsKept, Known
<1>3. providers[p] # <<>>
  BY <1>2
<1> QED
  BY <1>1, <1>2, <1>3, AmendInv DEF LastOf

LEMMA ReadInv ==
    ASSUME NEW k \in Callers, NEW p \in Providers, IInv, BindingInv, Read(k, p) PROVE BindingInv'
<1> DEFINE s == providers[p]
           new == [provider |-> p, revision |-> Len(s), content |-> LastOf(s),
                   generation |-> generation]
<1>1. seen' = [seen EXCEPT ![k] = new] /\ s # <<>> /\ UNCHANGED <<vars, registry, bound, decidedFor>>
  BY DEF Read
<1>2. s \in Seq(Contents) /\ Len(s) \in Nat /\ Len(s) \in 1 .. Len(s)
  BY <1>1, EmptySeq, LenProperties DEF BindingInv, BindingTyped
<1>3. LastOf(s) \in Contents
  BY <1>2, ElementOfSeq DEF LastOf
<1>4. BindingTyped'
  <2>1. new \in [provider : Providers, revision : Nat, content : Contents, generation : Nat]
    BY <1>2, <1>3 DEF IInv, TypeOK
  <2> QED
    BY <1>1, <2>1 DEF BindingInv, BindingTyped, vars, facts, registry
<1>5. SeenIsKept'
  <2> SUFFICES ASSUME NEW j \in Callers, HasRead(j)' PROVE
        /\ Known(seen'[j].provider, seen'[j].revision)
        /\ seen'[j].content = providers[seen'[j].provider][seen'[j].revision]
    BY <1>1 DEF SeenIsKept, Known, registry
  <2>1. CASE j = k
    <3>1. seen'[j] = new
      BY <1>1, <2>1 DEF BindingInv, BindingTyped
    <3> QED
      BY <1>2, <3>1 DEF Known, LastOf
  <2>2. CASE j # k
    <3>1. seen'[j] = seen[j]
      BY <1>1, <2>2 DEF BindingInv, BindingTyped
    <3> QED
      BY <3>1 DEF BindingInv, SeenIsKept, HasRead
  <2> QED
    BY <2>1, <2>2
<1> QED
  BY <1>1, <1>4, <1>5
  DEF BindingInv, BoundIsKnown, DecidedOnGeneration, RevisionsBuildOnEachOther, Known, Resolve,
      Decided, vars, facts, records, registry

LEMMA BindToInv ==
    ASSUME NEW binding \in Binding, IInv, BindingInv, BindTo(binding),
           binding.provider # Nothing => Known(binding.provider, binding.revision)
    PROVE  BindingInv'
<1>1. /\ bound' = Append(bound, binding) /\ generation' = generation + 1
      /\ UNCHANGED <<registry, seen, decidedFor, decision>>
  BY DEF BindTo, ReplaceBinding, records
<1>2. /\ bound \in Seq(Binding) /\ Len(bound) = generation + 1 /\ generation \in Nat
  BY DEF BindingInv, BindingTyped, IInv, TypeOK
<1>3. /\ bound' \in Seq(Binding) /\ Len(bound') = Len(bound) + 1
      /\ \A i \in 1 .. Len(bound) : bound'[i] = bound[i]
      /\ bound'[Len(bound) + 1] = binding
  BY <1>1, <1>2, AppendProperties
<1>4. BindingTyped'
  BY <1>1, <1>2, <1>3 DEF BindingInv, BindingTyped, registry
<1>5. BoundIsKnown'
  <2> SUFFICES ASSUME NEW i \in 1 .. Len(bound) + 1, bound'[i].provider # Nothing
               PROVE  Known(bound'[i].provider, bound'[i].revision)
    BY <1>1, <1>3 DEF BoundIsKnown, Known, registry
  <2>1. CASE i = Len(bound) + 1
    BY <1>3, <2>1
  <2>2. CASE i \in 1 .. Len(bound)
    BY <1>3, <2>2 DEF BindingInv, BoundIsKnown
  <2> QED
    BY <1>2, <2>1, <2>2
<1>6. DecidedOnGeneration'
  <2> SUFFICES ASSUME NEW d \in Decisions, Decided(d)
               PROVE  decidedFor[d] = Resolve(bound'[decision[d].generation + 1])
    BY <1>1 DEF DecidedOnGeneration, Decided, Resolve, registry
  <2>1. decision[d].generation \in Nat /\ decision[d].generation <= generation
    BY DecisionShape DEF IInv, NeverAhead, DecisionRecords
  <2>2. bound'[decision[d].generation + 1] = bound[decision[d].generation + 1]
    BY <1>2, <1>3, <2>1
  <2> QED
    BY <2>2 DEF BindingInv, DecidedOnGeneration
<1> QED
  BY <1>1, <1>4, <1>5, <1>6
  DEF BindingInv, SeenIsKept, HasRead, Known, RevisionsBuildOnEachOther, registry

LEMMA RebindInv ==
    ASSUME NEW k \in Callers, IInv, BindingInv, Rebind(k) PROVE BindingInv'
<1> DEFINE b == ModelBinding(seen[k].provider, seen[k].revision)
<1>1. BindTo(b) /\ HasRead(k)
  BY DEF Rebind, UpToDate
<1>2. Known(b.provider, b.revision)
  BY <1>1 DEF BindingInv, SeenIsKept, ModelBinding
<1>3. b \in Binding
  BY <1>2 DEF Known, Binding, ModelBinding, BindingInv, BindingTyped
<1> QED
  BY <1>1, <1>2, <1>3, BindToInv

LEMMA UnbindInv == IInv /\ BindingInv /\ Unbind => BindingInv'
<1>1. Unconfigured \in Binding /\ Unconfigured.provider = Nothing
  BY DEF Unconfigured, Binding
<1> QED
  BY <1>1, BindToInv DEF Unbind

LEMMA DecideOnInv ==
    ASSUME NEW d \in Decisions, IInv, BindingInv, DecideOn(d) PROVE BindingInv'
<1>1. PICK c \in Capabilities, t \in Targets : Decide(d, c, t)
  BY DEF DecideOn
<1>2. /\ decision'[d].generation = generation /\ \A e \in Decisions \ {d} : decision'[e] = decision[e]
      /\ UNCHANGED <<facts, registry, bound, seen>>
      /\ decidedFor' = [decidedFor EXCEPT ![d] = InUse]
  BY <1>1, DecideRecords DEF IInv, DecideOn
<1>3. BindingTyped'
  BY <1>2 DEF BindingInv, BindingTyped, facts, registry
<1>4. DecidedOnGeneration'
  <2> SUFFICES ASSUME NEW e \in Decisions, Decided(e)'
               PROVE  decidedFor'[e] = Resolve(bound[decision'[e].generation + 1])
    BY <1>2 DEF DecidedOnGeneration, Resolve, registry
  <2>1. CASE e = d
    <3>1. decidedFor'[d] = InUse
      BY <1>2 DEF BindingInv, BindingTyped
    <3>2. InUse = Resolve(bound[generation + 1])
      BY DEF InUse, LastOf, BindingInv, BindingTyped
    <3> QED
      BY <1>2, <2>1, <3>1, <3>2
  <2>2. CASE e # d
    <3>1. decidedFor'[e] = decidedFor[e] /\ decision'[e] = decision[e]
      BY <1>2, <2>2 DEF BindingInv, BindingTyped
    <3> QED
      BY <3>1 DEF BindingInv, DecidedOnGeneration, Decided
  <2> QED
    BY <2>1, <2>2
<1> QED
  BY <1>2, <1>3, <1>4
  DEF BindingInv, BoundIsKnown, SeenIsKept, HasRead, Known, RevisionsBuildOnEachOther, registry

LEMMA SameBindings ==
    ASSUME BindingInv, UNCHANGED <<generation, decision, bindingVars>> PROVE BindingInv'
  BY DEF BindingInv, BindingTyped, BoundIsKnown, SeenIsKept, HasRead, Known, DecidedOnGeneration,
         Decided, Resolve, RevisionsBuildOnEachOther, bindingVars, registry

LEMMA AuthorizeInv == IInv /\ BindingInv /\ Authorize => BindingInv'
<1> SUFFICES ASSUME BindingInv, Authorize PROVE UNCHANGED <<generation, decision, bindingVars>>
  BY SameBindings
<1> QED
  BY DEF Authorize, ReviseProgram, InstallPolicy, ReplaceHandler, IssueGrant, RevokeGrant, ClockTick,
         Approve, IssueAuthority, ConsumeAuthority, records, facts

LEMMA BindingNextInv == IInv /\ BindingInv /\ [BindingNext]_allVars => BindingInv'
<1> SUFFICES ASSUME IInv, BindingInv, [BindingNext]_allVars PROVE BindingInv'
  OBVIOUS
<1>1. CASE \E p \in Providers : RegisterProvider(p)
  BY <1>1, RegisterProviderInv
<1>2. CASE \E p \in Providers, content \in Contents : UpdateAtOnce(p, content)
  BY <1>2, AmendInv DEF UpdateAtOnce
<1>3. CASE \E k \in Callers, p \in Providers : Read(k, p)
  BY <1>3, ReadInv
<1>4. CASE \E k \in Callers, content \in Contents : UpdateProvider(k, content)
  BY <1>4, UpdateProviderInv
<1>5. CASE \E k \in Callers : Rebind(k)
  BY <1>5, RebindInv
<1>6. CASE Unbind
  BY <1>6, UnbindInv
<1>7. CASE \E d \in Decisions : DecideOn(d)
  BY <1>7, DecideOnInv
<1>8. CASE Authorize
  BY <1>8, AuthorizeInv
<1>9. CASE UNCHANGED allVars
  BY <1>9, SameBindings DEF allVars, vars, facts, records
<1> QED
  BY <1>1, <1>2, <1>3, <1>4, <1>5, <1>6, <1>7, <1>8, <1>9 DEF BindingNext

-----------------------------------------------------------------------------
(* What holds of every behaviour of the composition. *)

LEMMA BothInvariant == BindingSpec => [](IInv /\ BindingInv)
<1>1. BindingInit => BindingInv
  BY BindingInitInv
<1>2. IInv /\ BindingInv /\ [BindingNext]_allVars => BindingInv'
  BY BindingNextInv
<1> QED
  BY <1>1, <1>2, Invariance, BindingsAreAuthority, PTL DEF BindingSpec

(* Every revision of a provider was written by one who had read the         *)
(* revision before it.                                                      *)
THEOREM NoLostUpdate == BindingSpec => []RevisionsBuildOnEachOther
<1>1. BindingInv => RevisionsBuildOnEachOther
  BY DEF BindingInv
<1> QED
  BY <1>1, BothInvariant, PTL

(* A receipt is spent under the model configuration its decision was taken  *)
(* under.                                                                   *)
THEOREM SpentAsDecided == BindingSpec => SpentOnDecidedConfiguration
<1>1. ASSUME IInv, BindingInv, [BindingNext]_allVars,
             NEW d \in Decisions, receipt[d] = "issued", receipt'[d] = "consumed"
      PROVE  InUse = decidedFor[d]
  <2>1. [Next]_vars
    BY <1>1, BindingStep DEF allVars
  <2>2. SameRevisions(d)
    BY <1>1, <2>1, ConsumedByConsume DEF IInv, ConsumeAuthority
  <2>3. Decided(d)
    BY <1>1, UndecidedIsBare DEF IInv
  <2>4. bound[decision[d].generation + 1] = LastOf(bound)
    BY <1>1, <2>2 DEF SameRevisions, LastOf, BindingInv, BindingTyped
  <2> QED
    BY <1>1, <2>3, <2>4 DEF BindingInv, DecidedOnGeneration, InUse
<1>2. IInv /\ BindingInv /\ [BindingNext]_allVars =>
        [\A d \in Decisions :
            receipt[d] = "issued" /\ receipt'[d] = "consumed" => InUse = decidedFor[d]]_allVars
  BY <1>1
<1> QED
  BY <1>2, BothInvariant, PTL DEF BindingSpec, SpentOnDecidedConfiguration

=============================================================================
