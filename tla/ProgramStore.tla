---------------------------- MODULE ProgramStore ----------------------------
(***************************************************************************)
(* The durable Program store (kernel/durable_program.py): an append-only   *)
(* Event ledger and a projection row per Program, both in one SQLite file  *)
(* that one process at a time may open (LocalWriterLock).                  *)
(*                                                                         *)
(* Callers plan a change against a revision they have read and may retry   *)
(* it, from any process, until they are told how it ended.  A write is a   *)
(* transaction in several steps (event, projection, commit), and a process *)
(* may die between any two of them.  A COMMIT that raises leaves the       *)
(* transaction open: the process lives, reads what it has not committed,   *)
(* and can begin no other transaction until it closes the store.  Rows may *)
(* be damaged or lost; repair rebuilds them from the ledger.               *)
(*                                                                         *)
(* The ledger is kept per Program: events of different Programs are        *)
(* ordered by a global sequence that no per-Program operation observes.    *)
(***************************************************************************)
EXTENDS ProgramStates, Sequences

CONSTANTS
    Programs,     \* program identities
    Processes,    \* host processes that may open the store
    Requests,     \* callers of the store
    Changes,      \* Changes[r]: the changes caller r asks for
    MaxRevision,  \* bound: no change is planned on a Program of this revision
    MaxDamage,    \* bound on projection rows damaged
    MaxCrashes    \* bound on process deaths

ASSUME BoundsAreNat == MaxRevision \in Nat /\ MaxDamage \in Nat /\ MaxCrashes \in Nat

ChangeKinds == [kind : {"create", "revise", "certify", "reject"}]
          \cup [kind : {"transition"}, target : Statuses]
          \cup [kind : {"add_work", "satisfy_work"}, item : WorkItems]

ASSUME ChangesAreKnown == Changes \in [Requests -> SUBSET ChangeKinds]

VARIABLES
    ledger,      \* committed Program Events, per Program
    row,         \* committed projection row, per Program
    holder,      \* processes that hold an open repository on the store file
    txn,         \* the open transaction with its uncommitted ledger and row, or NoTxn
    call,        \* what each process is executing
    request,     \* the caller's side of each request
    applied,     \* history: commits of a request since it was planned
    damage, crashes

vars == <<ledger, row, holder, txn, call, request, applied, damage, crashes>>

Missing == [status |-> "missing"]   \* no projection row
Corrupt == [status |-> "corrupt"]   \* a row that fails its digest or identity check
Unreadable == {Missing, Corrupt}
NoTxn   == [stage |-> "none"]
Idle    == [kind |-> "idle"]
NoPlan  == [state |-> "none"]
Answered(how) == [state |-> how]   \* what was planned no longer matters

LastSnapshot(p) == ledger[p][Len(ledger[p])].snapshot

(* The store is stuck: a COMMIT raised, and nobody rolled back. *)
Stuck == txn.stage = "commit_failed"

-----------------------------------------------------------------------------
(* Event types and what rebuild() accepts. *)

(* PROGRAM_EVENT_TYPES *)
EventTypes == {"program.created", "program.activated", "program.revised", "program.work_added",
               "program.work_satisfied", "program.blocked", "program.unblocked",
               "program.completion_proposed", "program.completion_rejected",
               "program.completed", "program.failed", "program.cancelled"}

Event == [type : EventTypes, snapshot : Snapshots]

(* _transition_event_type *)
TransitionEvent(source, target) ==
    CASE target = "active" /\ source = "created"            -> "program.activated"
      [] target = "active" /\ source = "blocked"            -> "program.unblocked"
      [] source = "completion_pending"
           /\ target \in {"active", "blocked"}              -> "program.completion_rejected"
      [] target = "blocked" /\ source = "active"            -> "program.blocked"
      [] target = "completion_pending"                      -> "program.completion_proposed"
      [] target = "completed"                               -> "program.completed"
      [] target = "failed"                                  -> "program.failed"
      [] target = "cancelled"                               -> "program.cancelled"

(* _validate_event_semantics: the Event explains the step from prev to next. *)
Explains(prev, next, type) ==
    \/ /\ next.status # prev.status
       /\ next.status \in Allowed[prev.status]
       /\ type = TransitionEvent(prev.status, next.status)
       /\ next.work = prev.work
    \/ /\ next.status = prev.status
       /\ \/ /\ type = "program.work_added"
             /\ \E w \in WorkItems : prev.work[w] = "none" /\ next = WithWork(prev, w, "open")
          \/ /\ type = "program.work_satisfied"
             /\ \E w \in WorkItems : prev.work[w] = "open" /\ next = WithWork(prev, w, "satisfied")
          \/ type = "program.revised" /\ next.work = prev.work

(* rebuild: the history of one Program replays without an IntegrityViolation. *)
Replays(history) ==
    /\ history[1].type = "program.created" /\ history[1].snapshot = NewProgram
    /\ \A i \in 1 .. Len(history) - 1 :
          LET prev == history[i].snapshot
              next == history[i + 1].snapshot
          IN  next.revision = prev.revision + 1 /\ Explains(prev, next, history[i + 1].type)

(* The Event a change appends on top of snapshot s: one, or none if refused. *)
Events(s, c) ==
    CASE c.kind = "transition" ->
            IF c.target \in Allowed[s.status] \ {"completed"}
            THEN {[type |-> TransitionEvent(s.status, c.target), snapshot |-> WithStatus(s, c.target)]}
            ELSE {}
      [] c.kind = "add_work" ->
            IF s.status \in WorkMutable /\ s.work[c.item] = "none"
            THEN {[type |-> "program.work_added", snapshot |-> WithWork(s, c.item, "open")]}
            ELSE {}
      [] c.kind = "satisfy_work" ->
            IF s.status \in WorkMutable /\ s.work[c.item] = "open"
            THEN {[type |-> "program.work_satisfied", snapshot |-> WithWork(s, c.item, "satisfied")]}
            ELSE {}
      [] c.kind = "revise" ->
            {[type |-> "program.revised", snapshot |-> Revised(s)]}
      [] c.kind = "certify" ->
            IF s.status = "completion_pending"
            THEN {[type |-> "program.completed", snapshot |-> WithStatus(s, "completed")]}
            ELSE {}
      [] c.kind = "reject" ->
            IF s.status = "completion_pending"
            THEN {[type |-> "program.completion_rejected", snapshot |-> WithStatus(s, "active")]}
            ELSE {}
      [] c.kind = "create" -> {}

(* Mutant of Accepted: _commit_change() does not compare the expected revision. *)
AcceptedIgnoringRevision(r) ==
    LET plan == request[r] IN
    IF plan.change.kind = "create"
    THEN IF row[plan.program] = Missing /\ ledger[plan.program] = <<>>
         THEN {[type |-> "program.created", snapshot |-> NewProgram]} ELSE {}
    ELSE IF row[plan.program] \notin Unreadable
         THEN Events(row[plan.program], plan.change) ELSE {}

(* create() wants neither a row nor any history; every other change wants a *)
(* readable row at the revision the caller expects.                         *)
Accepted(r) ==
    LET plan == request[r] IN
    IF plan.change.kind = "create"
    THEN IF row[plan.program] = Missing /\ ledger[plan.program] = <<>>
         THEN {[type |-> "program.created", snapshot |-> NewProgram]}
         ELSE {}
    ELSE IF row[plan.program] \notin Unreadable /\ row[plan.program].revision = plan.expected
         THEN Events(row[plan.program], plan.change)
         ELSE {}

-----------------------------------------------------------------------------

TypeOK ==
    /\ ledger \in [Programs -> Seq(Event)]
    /\ row \in [Programs -> Snapshots \cup Unreadable]
    /\ holder \subseteq Processes
    /\ \/ txn = NoTxn
       \/ /\ txn.process \in Processes
          /\ txn.program \in Programs
          /\ txn.stage \in {"begun", "event_appended", "projection_written", "commit_failed"}
    /\ \A pr \in Processes : call[pr].kind \in {"idle", "request", "repair"}
    /\ \A r \in Requests : request[r].state \in {"none", "planned", "acked", "refused"}
    /\ applied \in [Requests -> Nat]
    /\ damage \in 0 .. MaxDamage
    /\ crashes \in 0 .. MaxCrashes

Init ==
    /\ ledger = [p \in Programs |-> <<>>]
    /\ row = [p \in Programs |-> Missing]
    /\ holder = {}
    /\ txn = NoTxn
    /\ call = [pr \in Processes |-> Idle]
    /\ request = [r \in Requests |-> NoPlan]
    /\ applied = [r \in Requests |-> 0]
    /\ damage = 0
    /\ crashes = 0

(* Mutant of Open: The writer lock is not taken. *)
OpenUnlocked(pr) ==
    /\ pr \notin holder
    /\ holder' = holder \cup {pr}
    /\ UNCHANGED <<ledger, row, txn, call, request, applied, damage, crashes>>

(* ProgramRepository(path): the non-blocking flock fails if it is held. *)
Open(pr) ==
    /\ holder = {}
    /\ holder' = holder \cup {pr}
    /\ UNCHANGED <<ledger, row, txn, call, request, applied, damage, crashes>>

RolledBack(pr) == IF txn # NoTxn /\ txn.process = pr THEN NoTxn ELSE txn

(* close(): the connection goes with whatever it has not committed. *)
Close(pr) ==
    /\ pr \in holder /\ call[pr] = Idle
    /\ holder' = holder \ {pr}
    /\ txn' = RolledBack(pr)
    /\ UNCHANGED <<ledger, row, call, request, applied, damage, crashes>>

(* Process death: the lock goes, an open transaction is rolled back, the    *)
(* caller hears nothing.                                                    *)
Crash(pr) ==
    /\ pr \in holder /\ crashes < MaxCrashes
    /\ holder' = holder \ {pr}
    /\ call' = [call EXCEPT ![pr] = Idle]
    /\ txn' = RolledBack(pr)
    /\ crashes' = crashes + 1
    /\ UNCHANGED <<ledger, row, request, applied, damage>>

(* The row a process reads: its own transaction shows, committed or not. *)
Seen(pr, p) == IF txn # NoTxn /\ txn.process = pr /\ txn.program = p THEN txn.row ELSE row[p]

(* A caller reads the Program and decides what to ask for, remembering the  *)
(* revision it has seen as expected_revision.                               *)
Plan(r) ==
    /\ request[r].state # "planned"
    /\ \E pr \in holder, p \in Programs, c \in Changes[r] :
         LET seen == Seen(pr, p) IN
         /\ call[pr] = Idle
         /\ seen # Corrupt
         /\ seen = Missing <=> c.kind = "create"
         /\ seen # Missing => seen.revision < MaxRevision
         /\ request' = [request EXCEPT ![r] =
               [state |-> "planned", program |-> p, change |-> c,
                expected |-> IF seen = Missing THEN 0 ELSE seen.revision]]
    /\ applied' = [applied EXCEPT ![r] = 0]
    /\ UNCHANGED <<ledger, row, holder, txn, call, damage, crashes>>

(* create() or _commit_change(): BEGIN IMMEDIATE, then the checks.  On a     *)
(* stuck store BEGIN raises: that tells the caller nothing about its change, *)
(* and it may ask again.                                                     *)
Begin(pr, r) ==
    /\ pr \in holder /\ call[pr] = Idle /\ txn = NoTxn
    /\ request[r].state = "planned"
    /\ \E e \in Accepted(r) :
         txn' = [process |-> pr, program |-> request[r].program, stage |-> "begun",
                 event |-> e, ledger |-> ledger[request[r].program],
                 row |-> row[request[r].program]]
    /\ call' = [call EXCEPT ![pr] = [kind |-> "request", request |-> r]]
    /\ UNCHANGED <<ledger, row, holder, request, applied, damage, crashes>>

(* The checks raise: conflict, stale revision, illegal change, bad row. *)
Refuse(pr, r) ==
    /\ pr \in holder /\ call[pr] = Idle /\ txn = NoTxn
    /\ request[r].state = "planned"
    /\ Accepted(r) = {}
    /\ request' = [request EXCEPT ![r] = Answered("refused")]
    /\ UNCHANGED <<ledger, row, holder, txn, call, applied, damage, crashes>>

(* The call of pr that opened the transaction is still running. *)
InTransaction(pr) == txn # NoTxn /\ txn.process = pr /\ call[pr] # Idle

(* _insert_event *)
AppendEvent(pr) ==
    /\ InTransaction(pr) /\ txn.stage = "begun"
    /\ txn' = [txn EXCEPT !.stage = "event_appended", !.ledger = Append(@, txn.event)]
    /\ UNCHANGED <<ledger, row, holder, call, request, applied, damage, crashes>>

(* INSERT or UPDATE ... WHERE revision = expected on the projection. *)
WriteProjection(pr) ==
    /\ InTransaction(pr) /\ txn.stage = "event_appended"
    /\ txn' = [txn EXCEPT !.stage = "projection_written", !.row = txn.event.snapshot]
    /\ UNCHANGED <<ledger, row, holder, call, request, applied, damage, crashes>>

(* Mutant of Abort: the exception is swallowed and the change tried again. *)
AbortAndRetry(pr) ==
    /\ InTransaction(pr) /\ call[pr].kind = "request"
    /\ txn' = NoTxn
    /\ call' = [call EXCEPT ![pr] = Idle]
    /\ UNCHANGED <<ledger, row, holder, request, applied, damage, crashes>>

(* An exception inside the transaction: ROLLBACK, and the caller is told.   *)
Abort(pr) ==
    /\ InTransaction(pr) /\ call[pr].kind = "request"
    /\ txn' = NoTxn
    /\ request' = [request EXCEPT ![call[pr].request] = Answered("refused")]
    /\ call' = [call EXCEPT ![pr] = Idle]
    /\ UNCHANGED <<ledger, row, holder, applied, damage, crashes>>

(* Mutant of ReadyToCommit: The event and the projection are committed separately. *)
CommitEventAlone == txn.stage \in {"event_appended", "projection_written"}

ReadyToCommit == txn.stage = "projection_written"

Commit(pr) ==
    /\ InTransaction(pr) /\ ReadyToCommit
    /\ ledger' = [ledger EXCEPT ![txn.program] = txn.ledger]
    /\ row' = [row EXCEPT ![txn.program] = txn.row]
    /\ txn' = NoTxn
    /\ applied' = IF call[pr].kind = "request"
                  THEN [applied EXCEPT ![call[pr].request] = @ + 1] ELSE applied
    /\ call' = IF call[pr].kind = "request"
               THEN [call EXCEPT ![pr] = [kind |-> "request", request |-> @.request, done |-> TRUE]]
               ELSE [call EXCEPT ![pr] = Idle]
    /\ UNCHANGED <<holder, request, damage, crashes>>

(* COMMIT raises: it runs after the `except` that rolls back, so the         *)
(* transaction stays open while the caller is told that its change failed.   *)
(* (Where SQLite itself rolls back on the error, the outcome is Abort's.)    *)
CommitFails(pr) ==
    /\ InTransaction(pr) /\ ReadyToCommit
    /\ txn' = [txn EXCEPT !.stage = "commit_failed"]
    /\ request' = IF call[pr].kind = "request"
                  THEN [request EXCEPT ![call[pr].request] = Answered("refused")] ELSE request
    /\ call' = [call EXCEPT ![pr] = Idle]
    /\ UNCHANGED <<ledger, row, holder, applied, damage, crashes>>

(* After the commit the result still has to reach the caller. *)
Acknowledge(pr) ==
    /\ call[pr].kind = "request" /\ "done" \in DOMAIN call[pr]
    /\ request' = [request EXCEPT ![call[pr].request] = Answered("acked")]
    /\ call' = [call EXCEPT ![pr] = Idle]
    /\ UNCHANGED <<ledger, row, holder, txn, applied, damage, crashes>>

(* repair_projection, first half: rebuild() reads the ledger, outside any   *)
(* transaction.  On a stuck store nothing comes of it: the BEGIN of the      *)
(* second half raises.                                                      *)
Rebuild(pr, p) ==
    /\ pr \in holder /\ call[pr] = Idle /\ ~Stuck
    /\ ledger[p] # <<>> /\ Replays(ledger[p])
    /\ call' = [call EXCEPT ![pr] = [kind |-> "repair", program |-> p, snapshot |-> LastSnapshot(p)]]
    /\ UNCHANGED <<ledger, row, holder, txn, request, applied, damage, crashes>>

(* repair_projection, second half: upsert of what was rebuilt. *)
RepairRow(pr) ==
    /\ call[pr].kind = "repair" /\ txn = NoTxn
    /\ txn' = [process |-> pr, program |-> call[pr].program, stage |-> "projection_written",
               event |-> ledger[call[pr].program][Len(ledger[call[pr].program])],
               ledger |-> ledger[call[pr].program], row |-> call[pr].snapshot]
    /\ UNCHANGED <<ledger, row, holder, call, request, applied, damage, crashes>>

(* A projection row is lost or corrupted, by a write that waits for the     *)
(* lock of an open transaction.                                             *)
Damage(p) ==
    /\ damage < MaxDamage /\ txn = NoTxn
    /\ row[p] \notin Unreadable
    /\ \E bad \in Unreadable : row' = [row EXCEPT ![p] = bad]
    /\ damage' = damage + 1
    /\ UNCHANGED <<ledger, holder, txn, call, request, applied, crashes>>

Serve(pr) ==
    \/ AppendEvent(pr) \/ WriteProjection(pr) \/ Commit(pr) \/ Acknowledge(pr) \/ RepairRow(pr)

Next ==
    \/ \E pr \in Processes :
         \/ Open(pr) \/ Close(pr) \/ Crash(pr) \/ Serve(pr) \/ Abort(pr) \/ CommitFails(pr)
         \/ \E r \in Requests : Begin(pr, r) \/ Refuse(pr, r)
         \/ \E p \in Programs : Rebuild(pr, p)
    \/ \E r \in Requests : Plan(r)
    \/ \E p \in Programs : Damage(p)

Spec == Init /\ [][Next]_vars

(* Somebody opens the store again after a crash or a close; a process runs  *)
(* what it has started; and a caller that keeps finding the store open is   *)
(* served.                                                                  *)
Fairness ==
    /\ WF_vars(\E pr \in Processes : Open(pr))
    /\ \A pr \in Processes : WF_vars(Serve(pr))
    /\ \A r \in Requests : SF_vars(\E pr \in Processes : Begin(pr, r) \/ Refuse(pr, r))

FairSpec == Spec /\ Fairness

-----------------------------------------------------------------------------
(* Safety *)

(* Without damage a projection row is the newest Event of the committed     *)
(* ledger, whatever processes died or repaired rows in between, and no row  *)
(* exists for a Program that has no history (verify_integrity).  repair     *)
(* reads the ledger before it opens its transaction, so this rests on the   *)
(* writer lock.                                                             *)
RowMatchesLedger ==
    \A p \in Programs :
        /\ ledger[p] = <<>> => row[p] = Missing
        /\ row[p] \notin Unreadable => row[p] = LastSnapshot(p)

(* Whatever the writers committed, rebuild() accepts: a history that no row *)
(* can be rebuilt from would make damage permanent.                         *)
LedgerReplays ==
    \A p \in Programs : ledger[p] # <<>> => Replays(ledger[p])

(* verify_integrity and rebuild succeed at every moment, for every Program. *)
IntegrityVerifies == RowMatchesLedger /\ LedgerReplays

(* A change is committed at most once however often the caller retries      *)
(* after a crash, even when the acknowledgement of its commit was lost, and *)
(* an acknowledged change was committed.                                    *)
AppliedOnce ==
    \A r \in Requests :
        /\ applied[r] <= 1
        /\ request[r].state = "acked" => applied[r] = 1

(* The committed ledgers are a Program lifecycle. *)
Durable == [p \in Programs |->
              IF ledger[p] = <<>> THEN [NewProgram EXCEPT !.status = "absent"] ELSE LastSnapshot(p)]

Lifecycle == INSTANCE ProgramLifecycle WITH program <- Durable

ImplementsLifecycle == Lifecycle!Spec

(* Liveness: every request is answered in the end, through crashes, aborted *)
(* transactions, failed COMMITs and damaged rows, unless a process keeps    *)
(* the store with a transaction whose COMMIT failed: the only ways out of   *)
(* that are close() and death, and no error path of the store takes them    *)
(* (a product command does when it leaves its `with`; a host that keeps its *)
(* repository need not).                                                    *)
RequestsAnswered ==
    []<>~Stuck =>
        \A r \in Requests : request[r].state = "planned" ~> request[r].state # "planned"

=============================================================================
