---------------------------- MODULE OperationAudit ----------------------------
(***************************************************************************)
(* The audit of protected execution.  Every step of OperationHost that     *)
(* writes the journal appends one semantic Event, with its receipt, in the *)
(* same transaction (OperationJournal._append_event).  The Program audit   *)
(* (product/audit_operator.py) and the import of a Program bundle          *)
(* (product/program_bundle_audit.py) read that history back and refuse the *)
(* whole Program when one Operation's history is not one they know.        *)
(*                                                                         *)
(* The history is laid over OperationHost: nothing reads it but the audit. *)
(***************************************************************************)
EXTENDS OperationHost, FiniteSetsExt

CONSTANT MaxEvents    \* bound: no reconciliation is begun after that many Events

ASSUME EventBound == MaxEvents \in Nat

VARIABLE events       \* events[o]: the semantic Events of o, oldest first

auditVars == <<vars, events>>

(* An Operation as its Events carry it: the admission is not a part of it. *)
Snapshot(rec) == [rec EXCEPT !.admitted = FALSE]

NoReceipt == [kind |-> "none", outcome |-> "none", effect |-> "unknown"]

(* The receipt that is inserted with the record being written. *)
ReceiptOf(kind, o) ==
    [kind |-> kind, outcome |-> journal'[o].outcome, effect |-> journal'[o].effect]

Logs(o, type, r) ==
    events' = [events EXCEPT ![o] =
        Append(@, [type |-> type, snapshot |-> Snapshot(journal'[o]), receipt |-> r])]

-----------------------------------------------------------------------------
(* The steps of OperationHost, with what they append *)

LogIntent(o, d) == CreateIntent(o, d) /\ Logs(o, "requested", NoReceipt)

LogRefusal == RefuseAdmission /\ Logs(Top.op, "finished", ReceiptOf("execution", Top.op))

LogAdmission == MarkAdmitted /\ Logs(Top.op, "admitted", NoReceipt)

LogStart == MarkRunning /\ Logs(Top.op, "started", NoReceipt)

(* A refused answer leaves the record, and the history, as they were. *)
LogFinish ==
    /\ Finish
    /\ IF journal' = journal THEN UNCHANGED events
       ELSE Logs(Top.op, "finished", ReceiptOf("execution", Top.op))

LogRecovery(o) ==
    /\ RecoverOne(o)
    /\ CASE journal[o].outcome = "not_started" -> Logs(o, "finished", ReceiptOf("execution", o))
         [] journal[o].outcome = "running" -> Logs(o, "interrupted", ReceiptOf("execution", o))
         [] OTHER -> UNCHANGED events

(* An answer that is applied is an Event even when the effect stays         *)
(* indeterminate and the record does not change.                            *)
LogReconciliation ==
    /\ ApplyReconciliation
    /\ \E effect \in Reportable(Top.op) \ {"not_applicable", "unknown"} :
         IF Applicable(Top.op, effect)
         THEN /\ journal'[Top.op] = Reconciled(journal[Top.op], effect)
              /\ Logs(Top.op, "reconciled", ReceiptOf("reconciliation", Top.op))
         ELSE UNCHANGED <<journal, events>>

LogNothing ==
    \/ \E d \in Decisions : IssueAuthority(d)
    \/ FactsChange
    \/ \E o \in Operations : BackendSettles(o) \/ (Len(events[o]) < MaxEvents /\ BeginReconcile(o))
    \/ BeginRecovery \/ Crash \/ Raise \/ Restart

SilentStep == ConsumeAuthority \/ Dispatch \/ EndRecovery

AuditStep ==
    \/ LogRefusal \/ LogAdmission \/ LogStart \/ LogFinish \/ LogReconciliation
    \/ (\E o \in Operations : LogRecovery(o))
    \/ SilentStep /\ UNCHANGED events

AuditInit == Init /\ events = [o \in Operations |-> <<>>]

AuditNext ==
    \/ \E o \in Operations, d \in Decisions : LogIntent(o, d)
    \/ LogNothing /\ UNCHANGED events
    \/ AuditStep

AuditSpec == AuditInit /\ [][AuditNext]_auditVars

AuditFairSpec == AuditSpec /\ WF_auditVars(AuditStep)

-----------------------------------------------------------------------------
(* What the audit accepts *)

Before(i) == 1 .. i - 1
Types(o, S) == {events[o][j].type : j \in S}
Count(o, types) == Cardinality({i \in DOMAIN events[o] : events[o][i].type \in types})
Receipts(o, kind) == {i \in DOMAIN events[o] : events[o][i].receipt.kind = kind}

(* _operation_events: may Event i of o follow what is before it?           *)
IsRequest(o, i) ==
    /\ i = 1
    /\ events[o][i].snapshot = Intent(journal[o].receipt)
    /\ events[o][i].receipt = NoReceipt

IsAdmission(o, i) ==
    /\ i > 1 /\ "admitted" \notin Types(o, Before(i))
    /\ events[o][i].snapshot = events[o][i - 1].snapshot
    /\ events[o][i].snapshot.outcome = "not_started"
    /\ events[o][i].receipt = NoReceipt

IsStart(o, i) ==
    /\ i > 1 /\ "admitted" \in Types(o, Before(i))
    /\ events[o][i - 1].snapshot.outcome = "not_started"
    /\ events[o][i].snapshot.outcome = "running"
    /\ events[o][i].receipt = NoReceipt

IsEnd(o, i) ==
    LET event == events[o][i]
        before == events[o][i - 1].snapshot
    IN  /\ i > 1 /\ event.receipt.kind = "execution"
        /\ IF event.type = "interrupted"
           THEN before.outcome = "running" /\ event.snapshot.outcome = "failed"
           ELSE before.outcome \in Running
        /\ before.outcome = "not_started" => event.snapshot.outcome = "failed"
        /\ event.snapshot.outcome = event.receipt.outcome
        /\ event.snapshot.effect = event.receipt.effect
        /\ event.snapshot.reconciliation =
               (IF event.receipt.effect = "indeterminate" THEN "pending" ELSE "not_required")

IsReconciliation(o, i) ==
    LET event == events[o][i]
        before == events[o][i - 1].snapshot
    IN  /\ i > 1 /\ event.receipt.kind = "reconciliation"
        /\ before.outcome \notin Running
        /\ before.effect = "indeterminate" /\ before.reconciliation \in {"pending", "unresolved"}
        /\ event.snapshot.outcome = before.outcome
        /\ event.snapshot.effect = event.receipt.effect
        /\ event.snapshot.reconciliation =
               (IF event.receipt.effect = "indeterminate" THEN "unresolved" ELSE "resolved")

EventAccepted(o, i) ==
    LET event == events[o][i]
    IN  /\ event.snapshot.receipt = journal[o].receipt
        /\ ValidRecord(event.snapshot)
        /\ CASE event.type = "requested"  -> IsRequest(o, i)
             [] event.type = "admitted"   -> IsAdmission(o, i)
             [] event.type = "started"    -> IsStart(o, i)
             [] event.type = "reconciled" -> IsReconciliation(o, i)
             [] OTHER                     -> IsEnd(o, i)

(* audit_operation: the projection is the latest snapshot, and its          *)
(* admission is anchored in the history.                                    *)
AuditAccepts(o) ==
    /\ events[o] # <<>>
    /\ \A i \in DOMAIN events[o] : EventAccepted(o, i)
    /\ events[o][Len(events[o])].snapshot = Snapshot(journal[o])
    /\ journal[o].admitted <=> "admitted" \in Types(o, DOMAIN events[o])

(* program_bundle_audit._validate_operation, which sees the receipts and    *)
(* the types of the Events, not their snapshots.                            *)
ImportAccepts(o) ==
    LET types == Types(o, DOMAIN events[o])
        ends == {i \in DOMAIN events[o] : events[o][i].type \in {"finished", "interrupted"}}
        answers == Receipts(o, "reconciliation")
        settled == IF answers # {} THEN Max(answers)
                   ELSE IF ends # {} THEN Max(ends) ELSE 0
    IN  /\ events[o][1].type = "requested"
        /\ \A type \in {"requested", "admitted", "started"} : Count(o, {type}) <= 1
        /\ Cardinality(ends) <= 1 /\ Cardinality(Receipts(o, "execution")) <= 1
        /\ Count(o, {"reconciled"}) = Cardinality(answers)
        /\ answers # {} => ends # {} /\ Min(ends) < Min(answers)
        /\ \A i \in DOMAIN events[o] :
              events[o][i].type = "started" => "admitted" \in Types(o, Before(i))
        /\ CASE journal[o].outcome = "not_started" -> types \subseteq {"requested", "admitted"}
             [] journal[o].outcome = "running" ->
                  ends = {} /\ events[o][Len(events[o])].type = "started"
             [] OTHER ->
                  /\ Receipts(o, "execution") # {}
                  /\ journal[o].outcome = events[o][Max(ends)].receipt.outcome
                  /\ journal[o].effect = events[o][settled].receipt.effect
                  /\ journal[o].reconciliation =
                         IF journal[o].effect = "indeterminate"
                         THEN IF answers # {} THEN "unresolved" ELSE "pending"
                         ELSE IF answers # {} THEN "resolved" ELSE "not_required"

(* Whatever interleaving of calls, nested callbacks, late answers, deaths   *)
(* and recoveries an Operation went through, the audit of its Program and   *)
(* the import of the Program's bundle both accept its history: one odd      *)
(* Operation would make the whole Program unauditable and unexportable.     *)
HistoriesAudit ==
    \A o \in Operations : journal[o] # NoOperation => AuditAccepts(o) /\ ImportAccepts(o)

=============================================================================
