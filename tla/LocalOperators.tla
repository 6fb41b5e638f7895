--------------------------- MODULE LocalOperators ---------------------------
(***************************************************************************)
(* The local product over one Program: capability invocation, approval and *)
(* execution (product/capability_operator.py), the Program's lifecycle and *)
(* its user pause (product/program_operator.py, kernel/program_control.py) *)
(* on top of the kernel's OperationHost.                                   *)
(*                                                                         *)
(* Each command of the CLI opens the store, runs one call and closes it;   *)
(* the writer lock lets no other process in before it ends or dies.  So    *)
(* what a call reads cannot move before the call uses it, except by the    *)
(* clock, but it may die between any two of its transactions, or one of    *)
(* them may fail; and hours may pass between asking for approval and       *)
(* executing.  The product's executors never call the host back, so no     *)
(* calls nest here.                                                        *)
(***************************************************************************)
EXTENDS OperationHost, ProgramStates, FiniteSets

CONSTANTS
    Requests,       \* request identities callers choose
    MaxRevision,    \* bound on Program revisions reached by its callers
    MaxControl      \* bound on pauses and resumes

ASSUME LocalConstants == MaxRevision \in Nat /\ MaxControl \in Nat

VARIABLES
    ledger,      \* the status the Program had at each revision, oldest first
    linked,      \* the operation_refs of the Program
    control,     \* the Program-control history
    decision,    \* the recorded decisions
    approval,    \* approval of each decision: "none", "given" or "consumed"
    call         \* the capability call in progress, or NoCall

programState == <<ledger, linked, control>>
localVars == <<vars, programState, decision, approval, call>>

NoCall == [step |-> "none"]
NoDecision == [kind |-> "none"]

Revision == Len(ledger) - 1
Status == ledger[Len(ledger)]
Paused == control # <<>> /\ control[Len(control)].paused

(* No call is in progress: the store may be opened for the next one. *)
Idle == up /\ call = NoCall /\ stack = <<>>

(* Mutant of Ready: a user pause does not hold capability calls back. *)
ReadyThoughPaused == Status = "active"

(* _require_program_ready *)
Ready == Status = "active" /\ ~Paused

-----------------------------------------------------------------------------

LocalTypeOK ==
    /\ TypeOK
    /\ ledger \in Seq(Statuses) /\ ledger # <<>>
    /\ linked \subseteq Operations
    /\ control \in Seq([paused : BOOLEAN, revision : Nat])
    /\ decision \in [Decisions -> {NoDecision} \cup
          [kind : {"deny", "ask", "allow"}, request : Requests, revision : Nat]]
    /\ approval \in [Decisions -> {"none", "given", "consumed"}]
    /\ call \in {NoCall} \cup [step : {"decided", "issued"}, decision : Decisions]
                         \cup [step : {"hosted", "executed"}, operation : Operations]

LocalInit ==
    /\ Init
    /\ ledger = <<"created">>
    /\ linked = {}
    /\ control = <<>>
    /\ decision = [d \in Decisions |-> NoDecision]
    /\ approval = [d \in Decisions |-> "none"]
    /\ call = NoCall

-----------------------------------------------------------------------------
(* The Program and its control *)

(* Every receipt and unused decision is bound to the Program revision. *)
Unused == {d \in Decisions : decision[d] # NoDecision /\ receipt[d] \in {"none", "issued"}}

Commit(status) ==
    /\ ledger' = Append(ledger, status)
    /\ VoidReceipts(Unused)

(* start and cancel, and what kernel callers and the CompletionOracle do.   *)
Transition ==
    /\ Idle /\ Revision < MaxRevision
    /\ \E target \in Allowed[Status] : Commit(target)
    /\ UNCHANGED <<journal, world, sent, stack, up, crashes, raised, linked, control, decision, approval, call>>

(* Mutant of Controllable: a control may be committed whatever the status. *)
ControllableAlways == TRUE

(* pause, resume and _commit look at the status, before and inside the      *)
(* transaction.                                                             *)
Controllable == Status = "active"

(* pause and resume: a caller who has seen the latest Program and control   *)
(* revisions turns the control over.                                        *)
SetPaused(paused) ==
    /\ Idle /\ Len(control) < MaxControl
    /\ Controllable
    /\ Paused # paused
    /\ control' = Append(control, [paused |-> paused, revision |-> Revision])
    /\ UNCHANGED <<vars, ledger, linked, decision, approval, call>>

-----------------------------------------------------------------------------
(* Capability calls *)

(* invoke, up to the decision; whether policy and grants say deny, ask or   *)
(* allow is Authority's matter.                                             *)
Invoke(d, r) ==
    /\ Idle /\ Ready
    /\ decision[d] = NoDecision
    /\ \E kind \in {"deny", "ask", "allow"} :
         /\ decision' = [decision EXCEPT ![d] =
                            [kind |-> kind, request |-> r, revision |-> Revision]]
         /\ call' = IF kind = "allow" THEN [step |-> "decided", decision |-> d] ELSE NoCall
    /\ UNCHANGED <<vars, programState, approval>>

(* issue_execution_authority for an allow decision *)
IssueAllowed ==
    /\ call.step = "decided"
    /\ IssueAuthority(call.decision)
    /\ call' = [call EXCEPT !.step = "issued"]
    /\ UNCHANGED <<programState, decision, approval>>

(* It raised: a grant has expired since the decision. *)
RefuseAllowed ==
    /\ call.step = "decided"
    /\ receipt[call.decision] = "lapsed"
    /\ call' = NoCall
    /\ UNCHANGED <<vars, programState, decision, approval>>

(* LocalProgramOperator.approve: the decision may be stale by now. *)
Approve(d) ==
    /\ Idle
    /\ decision[d].kind = "ask" /\ approval[d] = "none"
    /\ approval' = [approval EXCEPT ![d] = "given"]
    /\ UNCHANGED <<vars, programState, decision, call>>

(* Mutant of ExecuteApproved: an authority already issued is issued again. *)
ExecuteApprovedAgain(d) ==
    /\ Idle /\ Ready
    /\ approval[d] \in {"given", "consumed"}
    /\ receipt' = [receipt EXCEPT ![d] = "issued"]
    /\ approval' = [approval EXCEPT ![d] = "consumed"]
    /\ call' = [step |-> "issued", decision |-> d]
    /\ UNCHANGED <<journal, world, sent, stack, up, crashes, raised, programState, decision>>

(* execute_approved, up to and with issue_execution_authority *)
ExecuteApproved(d) ==
    /\ Idle /\ Ready
    /\ approval[d] = "given"
    /\ IssueAuthority(d)
    /\ approval' = [approval EXCEPT ![d] = "consumed"]
    /\ call' = [step |-> "issued", decision |-> d]
    /\ UNCHANGED <<programState, decision>>

(* execute_authorized is entered. *)
BeginExecution(o) ==
    /\ call.step = "issued"
    /\ CreateIntent(o, call.decision)
    /\ call' = [step |-> "hosted", operation |-> o]
    /\ UNCHANGED <<programState, decision, approval>>

HostStep ==
    /\ ConsumeAuthority \/ MarkAdmitted \/ MarkRunning \/ Dispatch
    /\ UNCHANGED <<programState, decision, approval, call>>

(* The admission was refused and the exception ends the call. *)
HostRefuses ==
    /\ RefuseAdmission
    /\ call' = NoCall
    /\ UNCHANGED <<programState, decision, approval>>

(* What the product's executors report: a write is confirmed or it raised;  *)
(* an observation may also fail.                                            *)
ProductReports(o) ==
    IF Observes(o)
    THEN {"succeeded", "failed", "timed_out"} \X {"not_applicable"}
    ELSE {<<"succeeded", "confirmed">>, <<"failed", "indeterminate">>}

(* Mutant of HostReturns: the call ends where the host returns. *)
HostReturnsUnlinked ==
    /\ call.step = "hosted"
    /\ Finish
    /\ LET done == journal'[call.operation]
       IN  <<done.outcome, done.effect>> \in ProductReports(call.operation)
    /\ call' = NoCall
    /\ UNCHANGED <<programState, decision, approval>>

HostReturns ==
    /\ call.step = "hosted"
    /\ Finish
    /\ LET done == journal'[call.operation]
       IN  <<done.outcome, done.effect>> \in ProductReports(call.operation)
    /\ call' = [call EXCEPT !.step = "executed"]
    /\ UNCHANGED <<programState, decision, approval>>

(* _link_operation: a Program revision of its own. *)
LinkOperation ==
    /\ call.step = "executed" /\ up
    /\ linked' = linked \cup {call.operation}
    /\ Commit(Status)
    /\ call' = NoCall
    /\ UNCHANGED <<journal, world, sent, stack, up, crashes, raised, control, decision, approval>>

(* A grant expires, or the policy, the Actor or the Capability is changed   *)
(* by another command.                                                      *)
GrantsChange ==
    /\ \E D \in (SUBSET Unused) \ {{}} : VoidReceipts(D)
    /\ UNCHANGED <<journal, world, sent, stack, up, crashes, raised, programState, decision, approval, call>>

ProcessDies ==
    /\ Crash
    /\ call' = NoCall
    /\ UNCHANGED <<programState, decision, approval>>

(* One of its transactions fails, that of _link_operation included, and the *)
(* call ends with its process alive.                                        *)
CallRaises ==
    /\ call # NoCall
    /\ Raise
    /\ call' = NoCall
    /\ UNCHANGED <<programState, decision, approval>>

(* The next command.  None of them calls recover_interrupted. *)
NextCommand ==
    /\ Restart
    /\ UNCHANGED <<programState, decision, approval, call>>

BackendActs(o) ==
    /\ BackendSettles(o)
    /\ UNCHANGED <<programState, decision, approval, call>>

LocalNext ==
    \/ Transition \/ \E paused \in BOOLEAN : SetPaused(paused)
    \/ \E d \in Decisions : Approve(d) \/ ExecuteApproved(d) \/ \E r \in Requests : Invoke(d, r)
    \/ IssueAllowed \/ RefuseAllowed \/ HostStep \/ HostRefuses \/ HostReturns \/ LinkOperation
    \/ \E o \in Operations : BeginExecution(o) \/ BackendActs(o)
    \/ GrantsChange \/ ProcessDies \/ CallRaises \/ NextCommand

LocalSpec == LocalInit /\ [][LocalNext]_localVars

-----------------------------------------------------------------------------
(* Safety *)

(* _verified_history accepts what was committed: pauses and resumes         *)
(* alternate, and each is anchored to a revision at which the Program was   *)
(* active, in order.  Were it not so, every later view and control of the   *)
(* Program would raise an IntegrityViolation.                               *)
ControlVerifies ==
    \A i \in 1 .. Len(control) :
        /\ control[i].paused <=> i % 2 = 1
        /\ control[i].revision <= Revision
        /\ ledger[control[i].revision + 1] = "active"
        /\ i > 1 => control[i - 1].revision <= control[i].revision

(* Nothing reaches a backend while the Program is paused or not active, or  *)
(* at another revision than the one it was decided on: not by a new call,   *)
(* not by an approval given before the pause, nor after a process died.     *)
DispatchStep ==
    \A o \in Operations : sent'[o] > sent[o] =>
        LET d == decision[journal[o].receipt] IN
        /\ Status = "active" /\ ~Paused
        /\ d.revision = Revision
        /\ d.kind = "ask" => approval[journal[o].receipt] = "consumed"

DispatchOnlyWhenRunnable == [][DispatchStep]_localVars

(* The Program refers to Operations that were executed, and to all of them, *)
(* except those whose process died, or whose call failed, before it wrote   *)
(* the reference: one for each death and each failure at the most.          *)
Executed == {o \in Operations : sent[o] > 0 /\ journal[o].outcome \in Outcomes}

ExecutedIsLinked ==
    /\ linked \subseteq Executed
    /\ Cardinality(Executed \ linked) <=
          crashes + raised + (IF call.step = "executed" THEN 1 ELSE 0)

(* The product drives the kernel only as OperationHost allows. *)
ImplementsOperationHost == Spec

-----------------------------------------------------------------------------
(* What the documents say and the product does not do. *)

(* After a process has died, the next one knows of no Operation that would  *)
(* still be running: what was interrupted is indeterminate and has to be    *)
(* reconciled.                                                              *)
InterruptedIsRecovered ==
    Idle => \A o \in Operations : journal[o].outcome # "running"

(* A mutation is sent again for the same request only when the effect of    *)
(* every earlier attempt is confirmed absent or was reconciled.             *)
RetryStep ==
    \A o1, o2 \in Operations :
        sent'[o2] > sent[o2] /\ o1 # o2 /\ sent[o1] > 0 /\ ~Observes(o1)
          /\ decision[journal[o1].receipt].request = decision[journal[o2].receipt].request
        => \/ journal[o1].effect \in {"absent", "confirmed"}
           \/ journal[o1].reconciliation = "resolved"

RetriedOnlyWhenSettled == [][RetryStep]_localVars
=============================================================================
