---------------------------- MODULE OperationHost ----------------------------
(***************************************************************************)
(* Protected execution (kernel/operation_journal.py, kernel/operations.py):*)
(* OperationHost.execute_authorized records an intent, spends its          *)
(* authority, admits and starts the Operation, calls the backend and       *)
(* records the outcome, one transaction per step; recover_interrupted      *)
(* accounts for what a dead process left; reconcile asks the backend what  *)
(* became of an uncertain effect.                                          *)
(*                                                                         *)
(* The host is single-threaded: calls nest only through the two callbacks  *)
(* (executor.execute and reconciler.reconcile), so the calls in progress   *)
(* are a stack and only the top one moves.  The process may die between    *)
(* any two steps, or a call may end by an exception nothing in it catches. *)
(* The backend settles an effect in its own time.                          *)
(*                                                                         *)
(* Authority is used through its abstract specification; an Operation's    *)
(* Capability effect class is that of its decision.                        *)
(***************************************************************************)
EXTENDS AuthorityReceipts, Sequences, Naturals

CONSTANTS
    Operations,      \* operation identities
    Observing,       \* the decisions whose Capability only observes
    MaxDepth,        \* bound on nested calls
    MaxCrashes,      \* bound on process deaths
    MaxRaises        \* bound on calls that end by an exception

ASSUME HostConstants ==
    /\ Observing \subseteq Decisions
    /\ MaxDepth \in Nat \ {0}
    /\ MaxCrashes \in Nat /\ MaxRaises \in Nat
    /\ "none" \notin Operations /\ "none" \notin Decisions

VARIABLES
    journal,     \* journal[o]: the durable record of o
    world,       \* world[o]: what became of the effect of o outside the host
    sent,        \* sent[o]: how often the backend was called for o
    stack,       \* the calls in progress, innermost last
    up,          \* is a host process running
    crashes,     \* process deaths so far
    raised       \* calls ended by an exception so far

hostVars == <<stack, up, crashes, raised>>
vars == <<receipt, journal, world, sent, hostVars>>

Running == {"not_started", "running"}
Outcomes == {"succeeded", "failed", "cancelled", "timed_out"}
EffectStatuses == {"unknown", "confirmed", "absent", "indeterminate", "not_applicable"}

NoOperation == [receipt |-> "none", outcome |-> "none", effect |-> "unknown",
                reconciliation |-> "not_required", admitted |-> FALSE]

Intent(d) == [NoOperation EXCEPT !.receipt = d, !.outcome = "not_started"]

Records == [receipt        : Decisions \cup {"none"},
            outcome        : Running \cup Outcomes \cup {"none"},
            effect         : EffectStatuses,
            reconciliation : {"not_required", "pending", "resolved", "unresolved"},
            admitted       : BOOLEAN]

Frames == [kind : {"execute", "reconcile", "recover"},
           op   : Operations \cup {"none"},
           at   : {"intent", "consumed", "admitted", "running", "calling", "sweeping"},
           todo : SUBSET Operations]

Observes(o) == journal[o].receipt \in Observing

(* validate_operation_semantics *)
ValidRecord(rec) ==
    IF rec.outcome \in Running
    THEN rec.effect = "unknown" /\ rec.reconciliation = "not_required"
    ELSE /\ rec.effect # "unknown"
         /\ IF rec.effect = "indeterminate"
            THEN rec.reconciliation \in {"pending", "unresolved"}
            ELSE /\ rec.reconciliation \in {"not_required", "resolved"}
                 /\ ~(rec.outcome = "succeeded" /\ rec.effect = "absent")

(* _validate_effect_dimension *)
ValidDimension(o, effect) == Observes(o) <=> effect = "not_applicable"

(* _reconciliation_status *)
Reconciliation(effect) == IF effect = "indeterminate" THEN "pending" ELSE "not_required"

Finished(rec, outcome, effect) ==
    [rec EXCEPT !.outcome = outcome, !.effect = effect, !.reconciliation = Reconciliation(effect)]

(* fail_before_dispatch *)
NotDispatched(o) == Finished(journal[o], "failed", IF Observes(o) THEN "not_applicable" ELSE "absent")

(* Mutant of Interrupted: an interrupted call is taken for a failed one. *)
InterruptedAsAbsent(o) == NotDispatched(o)

(* Mutant of Interrupted: the uncertain effect is not put up for reconciliation. *)
InterruptedUnreconciled(o) ==
    [journal[o] EXCEPT !.outcome = "failed",
                       !.effect = IF Observes(o) THEN "not_applicable" ELSE "indeterminate"]

(* recover_interrupted, for an Operation found running *)
Interrupted(o) ==
    Finished(journal[o], "failed", IF Observes(o) THEN "not_applicable" ELSE "indeterminate")

-----------------------------------------------------------------------------
(* The call stack *)

Top == stack[Len(stack)]
Pop == SubSeq(stack, 1, Len(stack) - 1)
Push(frame) == Append(stack, frame)
Advance(at) == [stack EXCEPT ![Len(stack)].at = at]

AtTop(kind, at) == stack # <<>> /\ Top.kind = kind /\ Top.at = at

(* A host method can be entered: nothing is running, or a callback is. *)
MayEnter ==
    /\ up
    /\ Len(stack) < MaxDepth
    /\ stack # <<>> => Top.at = "calling"

Frame(kind, o, at) == [kind |-> kind, op |-> o, at |-> at, todo |-> {}]

-----------------------------------------------------------------------------

TypeOK ==
    /\ ReceiptTypeOK
    /\ journal \in [Operations -> Records]
    /\ \A o \in Operations : journal[o] # NoOperation => ValidRecord(journal[o])
    /\ world \in [Operations -> {"unsent", "in_flight", "landed", "no_effect"}]
    /\ sent \in [Operations -> Nat]
    /\ stack \in Seq(Frames)
    /\ up \in BOOLEAN
    /\ crashes \in 0 .. MaxCrashes /\ raised \in 0 .. MaxRaises

Init ==
    /\ ReceiptInit
    /\ journal = [o \in Operations |-> NoOperation]
    /\ world = [o \in Operations |-> "unsent"]
    /\ sent = [o \in Operations |-> 0]
    /\ stack = <<>>
    /\ up = TRUE
    /\ crashes = 0 /\ raised = 0

(* Authority moves: a receipt is issued by the host; facts change under     *)
(* receipts at any time (a grant may expire by the clock alone).            *)
IssueAuthority(d) ==
    /\ MayEnter
    /\ IssueReceipt(d)
    /\ UNCHANGED <<journal, world, sent, hostVars>>

FactsChange ==
    /\ \E D \in (SUBSET Decisions) \ {{}} : VoidReceipts(D)
    /\ UNCHANGED <<journal, world, sent, hostVars>>

(* execute_authorized: get_execution_authority asks for an unconsumed       *)
(* receipt, fresh or not; create_intent.                                    *)
CreateIntent(o, d) ==
    /\ MayEnter
    /\ receipt[d] \in {"issued", "void"}
    /\ journal[o] = NoOperation
    /\ journal' = [journal EXCEPT ![o] = Intent(d)]
    /\ stack' = Push(Frame("execute", o, "intent"))
    /\ UNCHANGED <<receipt, world, sent, up, crashes, raised>>

(* Mutant of ConsumeAuthority: the receipt is validated but not marked. *)
ConsumeAuthorityUnmarked ==
    /\ AtTop("execute", "intent")
    /\ receipt[journal[Top.op].receipt] = "issued"
    /\ stack' = Advance("consumed")
    /\ UNCHANGED <<receipt, journal, world, sent, up, crashes, raised>>

(* consume_execution_authority *)
ConsumeAuthority ==
    /\ AtTop("execute", "intent")
    /\ SpendReceipt(journal[Top.op].receipt)
    /\ stack' = Advance("consumed")
    /\ UNCHANGED <<journal, world, sent, up, crashes, raised>>

(* It raised: the receipt is stale or spent, or its transaction failed.     *)
RefuseAdmission ==
    /\ AtTop("execute", "intent")
    /\ journal' = [journal EXCEPT ![Top.op] = NotDispatched(Top.op)]
    /\ stack' = Pop
    /\ UNCHANGED <<receipt, world, sent, up, crashes, raised>>

MarkAdmitted ==
    /\ AtTop("execute", "consumed")
    /\ journal[Top.op].outcome = "not_started" /\ ~journal[Top.op].admitted
    /\ journal' = [journal EXCEPT ![Top.op].admitted = TRUE]
    /\ stack' = Advance("admitted")
    /\ UNCHANGED <<receipt, world, sent, up, crashes, raised>>

MarkRunning ==
    /\ AtTop("execute", "admitted")
    /\ journal[Top.op].outcome = "not_started" /\ journal[Top.op].admitted
    /\ journal' = [journal EXCEPT ![Top.op].outcome = "running"]
    /\ stack' = Advance("running")
    /\ UNCHANGED <<receipt, world, sent, up, crashes, raised>>

(* Mutant of Dispatch: the backend is called before the start is recorded. *)
DispatchBeforeStart ==
    /\ AtTop("execute", "admitted")
    /\ world' = [world EXCEPT ![Top.op] = IF Observes(Top.op) THEN "no_effect" ELSE "in_flight"]
    /\ sent' = [sent EXCEPT ![Top.op] = @ + 1]
    /\ stack' = Advance("calling")
    /\ UNCHANGED <<receipt, journal, up, crashes, raised>>

(* executor.execute is entered: from here the effect may happen. *)
Dispatch ==
    /\ AtTop("execute", "running")
    /\ world' = [world EXCEPT ![Top.op] = IF Observes(Top.op) THEN "no_effect" ELSE "in_flight"]
    /\ sent' = [sent EXCEPT ![Top.op] = @ + 1]
    /\ stack' = Advance("calling")
    /\ UNCHANGED <<receipt, journal, up, crashes, raised>>

(* What a truthful backend may report: certainty only when it is settled,   *)
(* absence also of what never reached it.                                   *)
(* "unknown" stands for every observation that finish refuses.              *)
Reportable(o) ==
    {"indeterminate", "not_applicable", "unknown"}
    \cup (IF world[o] = "landed" THEN {"confirmed"} ELSE {})
    \cup (IF world[o] \in {"unsent", "no_effect"} THEN {"absent"} ELSE {})

(* Mutant of Recordable: finish takes an answer for any Operation. *)
RecordableLate(o, outcome, effect) ==
    ValidDimension(o, effect) /\ ValidRecord(Finished(journal[o], outcome, effect))

(* finish: only a running Operation, and only a legal observation, which    *)
(* includes what the host makes of a timeout, a cancellation or a fault.    *)
Recordable(o, outcome, effect) ==
    /\ journal[o].outcome = "running"
    /\ ValidDimension(o, effect)
    /\ ValidRecord(Finished(journal[o], outcome, effect))

Finish ==
    /\ AtTop("execute", "calling")
    /\ \E outcome \in Outcomes, effect \in Reportable(Top.op) :
         IF Recordable(Top.op, outcome, effect)
         THEN journal' = [journal EXCEPT ![Top.op] = Finished(@, outcome, effect)]
         ELSE UNCHANGED journal
    /\ stack' = Pop
    /\ UNCHANGED <<receipt, world, sent, up, crashes, raised>>

(* OperationHost.reconcile: the reconciler is called on an uncertain effect *)
BeginReconcile(o) ==
    /\ MayEnter
    /\ journal[o].effect = "indeterminate"
    /\ stack' = Push(Frame("reconcile", o, "calling"))
    /\ UNCHANGED <<receipt, journal, world, sent, up, crashes, raised>>

Reconciled(rec, effect) ==
    [rec EXCEPT !.effect = effect,
                !.reconciliation = IF effect = "indeterminate" THEN "unresolved" ELSE "resolved"]

(* Mutant of Applicable: the record read before the callback is trusted. *)
ApplicableUnread(o, effect) == ValidRecord(Reconciled(journal[o], effect))

(* apply_reconciliation reads the record again after the callback. *)
Applicable(o, effect) ==
    /\ journal[o].effect = "indeterminate"
    /\ journal[o].reconciliation \in {"pending", "unresolved"}
    /\ ValidRecord(Reconciled(journal[o], effect))

ApplyReconciliation ==
    /\ AtTop("reconcile", "calling")
    /\ \E effect \in Reportable(Top.op) \ {"not_applicable", "unknown"} :
         IF Applicable(Top.op, effect)
         THEN journal' = [journal EXCEPT ![Top.op] = Reconciled(@, effect)]
         ELSE UNCHANGED journal
    /\ stack' = Pop
    /\ UNCHANGED <<receipt, world, sent, up, crashes, raised>>

(* recover_interrupted reads the list of Operations, then takes each in a   *)
(* transaction of its own.                                                  *)
BeginRecovery ==
    /\ MayEnter
    /\ stack' = Push([kind |-> "recover", op |-> "none", at |-> "sweeping",
                      todo |-> {o \in Operations : journal[o] # NoOperation}])
    /\ UNCHANGED <<receipt, journal, world, sent, up, crashes, raised>>

(* Mutant of Recovered: only Operations that were dispatched are recovered. *)
RecoveredIfRunning(o) ==
    IF journal[o].outcome = "running" THEN Interrupted(o) ELSE journal[o]

Recovered(o) ==
    CASE journal[o].outcome = "not_started" -> NotDispatched(o)
      [] journal[o].outcome = "running"     -> Interrupted(o)
      [] OTHER                              -> journal[o]

RecoverOne(o) ==
    /\ AtTop("recover", "sweeping") /\ o \in Top.todo
    /\ journal' = [journal EXCEPT ![o] = Recovered(o)]
    /\ stack' = [stack EXCEPT ![Len(stack)].todo = @ \ {o}]
    /\ UNCHANGED <<receipt, world, sent, up, crashes, raised>>

EndRecovery ==
    /\ AtTop("recover", "sweeping") /\ Top.todo = {}
    /\ stack' = Pop
    /\ UNCHANGED <<receipt, journal, world, sent, up, crashes, raised>>

Crash ==
    /\ up /\ crashes < MaxCrashes
    /\ up' = FALSE
    /\ stack' = <<>>
    /\ crashes' = crashes + 1
    /\ UNCHANGED <<receipt, journal, world, sent, raised>>

(* The call ends by an exception with the process alive, and the record it  *)
(* had open stays as it is: a transaction of the journal failed and was     *)
(* rolled back, the reconciler raised, or its answer was refused; also a    *)
(* caller of the host that fails outside any call of it.  A callback that   *)
(* has caught the exception of a call it made goes on.                      *)
Raise ==
    /\ up /\ raised < MaxRaises
    /\ stack' = IF stack = <<>> THEN <<>> ELSE Pop
    /\ raised' = raised + 1
    /\ UNCHANGED <<receipt, journal, world, sent, up, crashes>>

Restart ==
    /\ ~up
    /\ up' = TRUE
    /\ UNCHANGED <<receipt, journal, world, sent, stack, crashes, raised>>

(* The world settles an effect, whether or not the host is still there. *)
BackendSettles(o) ==
    /\ world[o] = "in_flight"
    /\ \E t \in {"landed", "no_effect"} : world' = [world EXCEPT ![o] = t]
    /\ UNCHANGED <<receipt, journal, sent, hostVars>>

Step ==
    \/ ConsumeAuthority \/ RefuseAdmission \/ MarkAdmitted \/ MarkRunning \/ Dispatch
    \/ Finish \/ ApplyReconciliation
    \/ (\E o \in Operations : RecoverOne(o)) \/ EndRecovery

Next ==
    \/ \E d \in Decisions : IssueAuthority(d)
    \/ FactsChange
    \/ \E o \in Operations, d \in Decisions : CreateIntent(o, d)
    \/ \E o \in Operations : BeginReconcile(o) \/ BackendSettles(o)
    \/ BeginRecovery \/ Crash \/ Raise \/ Restart
    \/ Step

Spec == Init /\ [][Next]_vars

(* The host is one thread: while it lives, the call it is in goes on. *)
FairSpec == Spec /\ WF_vars(Step)

-----------------------------------------------------------------------------
(* Safety *)

(* The journal never claims of an effect what is not so: confirmed means it *)
(* landed, absent that it has not and will not, and not_applicable is only  *)
(* said of observations.  So retry_is_safe (effect absent) never invites a  *)
(* second mutation, whichever of fail_before_dispatch, finish, recovery and *)
(* reconciliation wrote the record, and wherever the process died.          *)
RecordedEffectIsTrue ==
    \A o \in Operations :
        /\ journal[o].effect = "confirmed" => world[o] = "landed"
        /\ journal[o].effect = "absent" => world[o] \in {"unsent", "no_effect"}
        /\ journal[o].effect = "not_applicable" => Observes(o)

(* One authority reaches the backend at most once, although several intents *)
(* may be recorded under it (a crash after create_intent leaves it unspent).*)
OneDispatchPerAuthority ==
    \A o1, o2 \in Operations :
        /\ sent[o1] <= 1
        /\ sent[o1] > 0 /\ sent[o2] > 0 /\ journal[o1].receipt = journal[o2].receipt => o1 = o2

(* Nothing reaches the backend before the journal durably holds that it was *)
(* admitted on a spent authority and started: a crash cannot lose it.       *)
JournaledBeforeDispatch ==
    \A o \in Operations : sent[o] > 0 =>
        /\ journal[o].admitted
        /\ journal[o].outcome \in Outcomes \cup {"running"}
        /\ receipt[journal[o].receipt] = "spent"

(* While recovery runs, nothing is open that it will not still get to; so   *)
(* when it ends nothing is open, wherever earlier processes died and even   *)
(* when it runs inside a callback of a call that is itself in progress.     *)
Sweeping == stack # <<>> /\ Top.kind = "recover"

RecoveryMissesNothing ==
    Sweeping => \A o \in Operations : journal[o].outcome \in Running => o \in Top.todo

(* A terminal outcome is never rewritten and a determinate effect is never  *)
(* reopened: a backend answer that arrives after recovery has given up on   *)
(* the Operation, or a reconciler's after another one, changes nothing.     *)
SettledStep ==
    \A o \in Operations :
        /\ journal[o].outcome \in Outcomes => journal'[o].outcome = journal[o].outcome
        /\ journal[o].outcome \in Outcomes /\ journal[o].effect # "indeterminate"
              => journal'[o] = journal[o]

SettledStaysSettled == [][SettledStep]_vars

(* The journal implements EffectTruth. *)
ClaimOf(o) ==
    IF journal[o] = NoOperation THEN "none"
    ELSE IF journal[o].outcome \in Running THEN "open"
    ELSE IF journal[o].effect = "indeterminate" THEN "uncertain"
    ELSE journal[o].effect

Truth == INSTANCE EffectTruth WITH
    truth <- world,
    claim <- [o \in Operations |-> ClaimOf(o)],
    under <- [o \in Operations |-> journal[o].receipt],
    used  <- {journal[o].receipt : o \in {p \in Operations : sent[p] > 0}}

ImplementsEffectTruth == Truth!Spec

(* Liveness: a recovery that has begun comes to a moment at which no        *)
(* Operation is open, whatever it found open, unless the process dies again *)
(* or a call raises.                                                        *)
RecoverySettlesAll ==
    \A n \in 0 .. MaxRaises :
        Sweeping /\ raised = n
            ~> \/ ~up \/ raised > n
               \/ \A o \in Operations : journal[o].outcome \notin Running

=============================================================================
