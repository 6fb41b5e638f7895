------------------------- MODULE ProgramStore_proofs -------------------------
(***************************************************************************)
(* Proofs about ProgramStore, for any Programs, WorkItems, processes and   *)
(* callers, any changes they ask for, any damage and any number of process *)
(* deaths and failed COMMITs: the ledger replays and the rows are its      *)
(* newest Events, a change is committed once however often it is retried,  *)
(* and the committed ledgers are a ProgramLifecycle.                       *)
(***************************************************************************)
EXTENDS ProgramStore, SequenceTheorems, TLAPS

-----------------------------------------------------------------------------
(* The inductive invariant *)

Stages == {"begun", "event_appended", "projection_written", "commit_failed"}

(* The forms of a request, of a call in progress and of a transaction. *)
Planned(p, c, n) == [state |-> "planned", program |-> p, change |-> c, expected |-> n]

Executing(r)    == [kind |-> "request", request |-> r]
Committed(r)    == [kind |-> "request", request |-> r, done |-> TRUE]
Repairing(p, s) == [kind |-> "repair", program |-> p, snapshot |-> s]

Transactions == [process : Processes, program : Programs, stage : Stages, event : Event,
                 ledger : Seq(Event), row : Snapshots \cup Unreadable]

StoreTyped ==
    /\ ledger \in [Programs -> Seq(Event)]
    /\ row \in [Programs -> Snapshots \cup Unreadable]
    /\ holder \subseteq Processes
    /\ DOMAIN call = Processes /\ DOMAIN request = Requests
    /\ applied \in [Requests -> Nat]
    /\ damage \in 0 .. MaxDamage /\ crashes \in 0 .. MaxCrashes

RequestsTyped ==
    \A r \in Requests :
        \/ request[r] \in {NoPlan, Answered("acked"), Answered("refused")}
        \/ \E p \in Programs, c \in ChangeKinds, n \in Nat : request[r] = Planned(p, c, n)

(* The writer lock: one process has the store open, and no other one calls. *)
OneWriter ==
    /\ \A a, b \in holder : a = b
    /\ \A pr \in Processes : call[pr] # Idle => pr \in holder

(* What is read before a transaction is still so inside of it. *)
CallsKnow ==
    \A pr \in Processes :
        \/ call[pr] = Idle
        \/ \E r \in Requests : call[pr] = Executing(r)
        \/ \E r \in Requests : /\ call[pr] = Committed(r)
                               /\ request[r].state = "planned" /\ applied[r] = 1
        \/ \E p \in Programs : ledger[p] # <<>> /\ call[pr] = Repairing(p, LastSnapshot(p))

(* The Event may follow the history of p. *)
MayFollow(e, p, c, n) ==
    IF ledger[p] = <<>>
    THEN c.kind = "create" /\ e = [type |-> "program.created", snapshot |-> NewProgram]
    ELSE /\ c.kind # "create" /\ e \in Events(LastSnapshot(p), c)
         /\ LastSnapshot(p).revision = n

(* A transaction serves a request that was not committed before, or it     *)
(* repairs a row; until it commits, it differs from the store as far as it *)
(* has got.                                                                *)
ServesRequest ==
    LET p == txn.program IN
    \E r \in Requests, c \in ChangeKinds, n \in Nat :
        /\ ~Stuck /\ call[txn.process] = Executing(r)
        /\ request[r] = Planned(p, c, n) /\ applied[r] = 0
        /\ MayFollow(txn.event, p, c, n)
        /\ txn.ledger = IF txn.stage = "begun" THEN ledger[p] ELSE Append(ledger[p], txn.event)
        /\ txn.row = IF txn.stage = "projection_written" THEN txn.event.snapshot ELSE row[p]

RepairsRow ==
    LET p == txn.program IN
    /\ ledger[p] # <<>> /\ call[txn.process] = Repairing(p, LastSnapshot(p))
    /\ txn.stage = "projection_written" /\ txn.ledger = ledger[p] /\ txn.row = LastSnapshot(p)

(* The transaction of a COMMIT that failed belongs to no call any more. *)
Abandoned == Stuck /\ call[txn.process] = Idle

TransactionHolds ==
    \/ txn = NoTxn
    \/ /\ txn \in Transactions /\ txn.process \in holder
       /\ ServesRequest \/ RepairsRow \/ Abandoned

(* A change that was committed cannot be accepted again. *)
RetriesMiss ==
    \A r \in Requests : request[r].state = "planned" /\ applied[r] # 0 =>
        LET p == request[r].program IN
        /\ ledger[p] # <<>>
        /\ request[r].change.kind # "create" => LastSnapshot(p).revision > request[r].expected

IInv ==
    /\ StoreTyped /\ RequestsTyped /\ OneWriter /\ CallsKnow /\ TransactionHolds
    /\ RetriesMiss /\ AppliedOnce /\ RowMatchesLedger /\ LedgerReplays

-----------------------------------------------------------------------------
(* The state functions *)

LEMMA AllowedIs ==
    /\ Allowed["created"] = {"active", "cancelled"}
    /\ Allowed["active"] = {"blocked", "completion_pending", "failed", "cancelled"}
    /\ Allowed["blocked"] = {"active", "failed", "cancelled"}
    /\ Allowed["completion_pending"] = {"active", "blocked", "completed", "failed", "cancelled"}
    /\ \A s \in Terminal : Allowed[s] = {}
<1> DEFINE F(s) ==
      CASE s = "created"            -> {"active", "cancelled"}
        [] s = "active"             -> {"blocked", "completion_pending", "failed", "cancelled"}
        [] s = "blocked"            -> {"active", "failed", "cancelled"}
        [] s = "completion_pending" -> {"active", "blocked", "completed", "failed", "cancelled"}
        [] s \in Terminal           -> {}
<1>1. /\ F("created") = {"active", "cancelled"}
      /\ F("active") = {"blocked", "completion_pending", "failed", "cancelled"}
      /\ F("blocked") = {"active", "failed", "cancelled"}
      /\ F("completion_pending") = {"active", "blocked", "completed", "failed", "cancelled"}
      /\ \A s \in Terminal : F(s) = {}
  BY DEF Terminal
<1>2. Allowed = [s \in Statuses |-> F(s)]
  BY DEF Allowed
<1> HIDE DEF F
<1>3. \A s \in Statuses : Allowed[s] = F(s)
  BY <1>2
<1> QED
  BY <1>1, <1>3 DEF Statuses, Terminal

LEMMA TransitionsAreNamed ==
    /\ \A s \in Statuses : \A t \in Allowed[s] :
          t \in Statuses /\ t # s /\ TransitionEvent(s, t) \in EventTypes
    /\ TransitionEvent("completion_pending", "completed") = "program.completed"
    /\ TransitionEvent("completion_pending", "active") = "program.completion_rejected"
<1>1. /\ TransitionEvent("created", "active") = "program.activated"
      /\ TransitionEvent("created", "cancelled") = "program.cancelled"
  BY DEF TransitionEvent
<1>2. /\ TransitionEvent("active", "blocked") = "program.blocked"
      /\ TransitionEvent("active", "completion_pending") = "program.completion_proposed"
      /\ TransitionEvent("active", "failed") = "program.failed"
      /\ TransitionEvent("active", "cancelled") = "program.cancelled"
  BY DEF TransitionEvent
<1>3. /\ TransitionEvent("blocked", "active") = "program.unblocked"
      /\ TransitionEvent("blocked", "failed") = "program.failed"
      /\ TransitionEvent("blocked", "cancelled") = "program.cancelled"
  BY DEF TransitionEvent
<1>4. /\ TransitionEvent("completion_pending", "active") = "program.completion_rejected"
      /\ TransitionEvent("completion_pending", "blocked") = "program.completion_rejected"
      /\ TransitionEvent("completion_pending", "completed") = "program.completed"
      /\ TransitionEvent("completion_pending", "failed") = "program.failed"
      /\ TransitionEvent("completion_pending", "cancelled") = "program.cancelled"
  BY DEF TransitionEvent
<1>5. ASSUME NEW s \in Statuses, NEW t \in Allowed[s]
      PROVE  t \in Statuses /\ t # s /\ TransitionEvent(s, t) \in EventTypes
  <2> USE AllowedIs DEF Statuses, EventTypes
  <2>1. CASE s = "created"
    BY <1>1, <2>1
  <2>2. CASE s = "active"
    BY <1>2, <2>2
  <2>3. CASE s = "blocked"
    BY <1>3, <2>3
  <2>4. CASE s = "completion_pending"
    BY <1>4, <2>4
  <2>5. CASE s \in Terminal
    BY <2>5
  <2> QED
    BY <2>1, <2>2, <2>3, <2>4, <2>5 DEF Terminal
<1> QED
  BY <1>4, <1>5

LEMMA KindsTyped ==
    ASSUME NEW c \in ChangeKinds
    PROVE  /\ c.kind \in {"create", "revise", "certify", "reject", "transition", "add_work", "satisfy_work"}
           /\ c.kind = "transition" => c.target \in Statuses
           /\ c.kind \in {"add_work", "satisfy_work"} => c.item \in WorkItems
BY DEF ChangeKinds

LEMMA SnapshotsChange ==
    ASSUME NEW s \in Snapshots
    PROVE  /\ s.status \in Statuses /\ s.revision \in Nat
           /\ s.work \in [WorkItems -> {"none", "open", "satisfied"}]
           /\ \A target \in Statuses :
                /\ WithStatus(s, target) \in Snapshots
                /\ WithStatus(s, target).status = target
                /\ WithStatus(s, target).revision = s.revision + 1
                /\ WithStatus(s, target).work = s.work
           /\ \A w \in WorkItems, state \in {"open", "satisfied"} :
                /\ WithWork(s, w, state) \in Snapshots
                /\ WithWork(s, w, state).status = s.status
                /\ WithWork(s, w, state).revision = s.revision + 1
           /\ NewProgram \in Snapshots /\ NewProgram.status = "created" /\ NewProgram.revision = 0
<1>1. s.status \in Statuses /\ s.revision \in Nat /\ s.work \in [WorkItems -> {"none", "open", "satisfied"}]
  BY DEF Snapshots
<1>2. \A target \in Statuses :
                /\ WithStatus(s, target) \in Snapshots
                /\ WithStatus(s, target).status = target
                /\ WithStatus(s, target).revision = s.revision + 1
                /\ WithStatus(s, target).work = s.work
  BY <1>1 DEF Snapshots, WithStatus
<1>3. ASSUME NEW w \in WorkItems, NEW state \in {"open", "satisfied"}
      PROVE  /\ WithWork(s, w, state) \in Snapshots
             /\ WithWork(s, w, state).status = s.status
             /\ WithWork(s, w, state).revision = s.revision + 1
  <2> DEFINE work == [s.work EXCEPT ![w] = state]
  <2>1. work \in [WorkItems -> {"none", "open", "satisfied"}]
    BY <1>1
  <2>2. WithWork(s, w, state) = [revision |-> s.revision + 1, status |-> s.status, work |-> work]
    BY DEF WithWork
  <2> HIDE DEF work
  <2> QED
    BY <1>1, <2>1, <2>2 DEF Snapshots
<1>4. NewProgram \in Snapshots /\ NewProgram.status = "created" /\ NewProgram.revision = 0
  BY DEF Snapshots, NewProgram, Statuses
<1> QED
  BY <1>1, <1>2, <1>3, <1>4

(* What one change may do to a Program. *)
Moves(s, t) ==
    \/ \E target \in Allowed[s.status] : t = WithStatus(s, target)
    \/ /\ s.status \in WorkMutable
       /\ \E w \in WorkItems : \/ s.work[w] = "none" /\ t = WithWork(s, w, "open")
                               \/ s.work[w] = "open" /\ t = WithWork(s, w, "satisfied")
    \/ t = Revised(s)

(* Every Event a change appends is one that rebuild() accepts. *)
LEMMA EventsExplain ==
    ASSUME NEW s \in Snapshots, NEW c \in ChangeKinds, NEW e \in Events(s, c)
    PROVE  /\ e \in Event /\ e.snapshot.revision = s.revision + 1
           /\ Explains(s, e.snapshot, e.type) /\ Moves(s, e.snapshot)
           /\ c.kind # "create"
<1> DEFINE Goal == /\ e \in Event /\ e.snapshot.revision = s.revision + 1
                   /\ Explains(s, e.snapshot, e.type) /\ Moves(s, e.snapshot)
                   /\ c.kind # "create"
<1>1. s.status \in Statuses
  BY SnapshotsChange
<1>2. ASSUME NEW target \in Allowed[s.status], NEW type, type = TransitionEvent(s.status, target),
             e = [type |-> type, snapshot |-> WithStatus(s, target)], c.kind # "create"
      PROVE  Goal
  <2>1. target \in Statuses /\ target # s.status /\ type \in EventTypes
    BY <1>1, <1>2, TransitionsAreNamed
  <2> DEFINE t == WithStatus(s, target)
  <2>2. t \in Snapshots /\ t.status = target /\ t.revision = s.revision + 1 /\ t.work = s.work
    BY <2>1, SnapshotsChange
  <2>3. e.type = type /\ e.snapshot = t /\ e = [type |-> type, snapshot |-> t]
    BY <1>2
  <2>4. Moves(s, t)
    BY <1>2 DEF Moves
  <2> HIDE DEF t
  <2>5. Explains(s, t, type)
    BY <1>2, <2>1, <2>2 DEF Explains
  <2> QED
    BY <1>2, <2>1, <2>2, <2>3, <2>4, <2>5 DEF Event, EventTypes
<1>3. ASSUME NEW w \in WorkItems, s.status \in WorkMutable, c.kind # "create",
             \/ /\ s.work[w] = "none"
                /\ e = [type |-> "program.work_added", snapshot |-> WithWork(s, w, "open")]
             \/ /\ s.work[w] = "open"
                /\ e = [type |-> "program.work_satisfied", snapshot |-> WithWork(s, w, "satisfied")]
      PROVE  Goal
  <2>1. /\ e.snapshot \in Snapshots /\ e.snapshot.status = s.status /\ e.snapshot.revision = s.revision + 1
        /\ e.type \in EventTypes /\ e = [type |-> e.type, snapshot |-> e.snapshot]
    <3>1. CASE /\ s.work[w] = "none"
               /\ e = [type |-> "program.work_added", snapshot |-> WithWork(s, w, "open")]
      BY <3>1, SnapshotsChange DEF EventTypes
    <3>2. CASE /\ s.work[w] = "open"
               /\ e = [type |-> "program.work_satisfied", snapshot |-> WithWork(s, w, "satisfied")]
      BY <3>2, SnapshotsChange DEF EventTypes
    <3> QED
      BY <1>3, <3>1, <3>2
  <2>2. \/ e.type = "program.work_added" /\ s.work[w] = "none" /\ e.snapshot = WithWork(s, w, "open")
        \/ e.type = "program.work_satisfied" /\ s.work[w] = "open" /\ e.snapshot = WithWork(s, w, "satisfied")
    BY <1>3
  <2>3. Explains(s, e.snapshot, e.type)
    BY <2>1, <2>2 DEF Explains
  <2>4. Moves(s, e.snapshot)
    BY <1>3, <2>2 DEF Moves
  <2> QED
    BY <1>3, <2>1, <2>3, <2>4 DEF Event, EventTypes
<1>4. CASE c.kind = "transition"
  <2>1. e \in IF c.target \in Allowed[s.status] \ {"completed"}
              THEN {[type |-> TransitionEvent(s.status, c.target), snapshot |-> WithStatus(s, c.target)]}
              ELSE {}
    BY <1>4 DEF Events
  <2> QED
    BY <1>2, <1>4, <2>1
<1>5. CASE c.kind = "add_work"
  <2>1. e \in IF s.status \in WorkMutable /\ s.work[c.item] = "none"
              THEN {[type |-> "program.work_added", snapshot |-> WithWork(s, c.item, "open")]}
              ELSE {}
    BY <1>5 DEF Events
  <2> QED
    BY <1>3, <1>5, <2>1, KindsTyped
<1>6. CASE c.kind = "satisfy_work"
  <2>1. e \in IF s.status \in WorkMutable /\ s.work[c.item] = "open"
              THEN {[type |-> "program.work_satisfied", snapshot |-> WithWork(s, c.item, "satisfied")]}
              ELSE {}
    BY <1>6 DEF Events
  <2> QED
    BY <1>3, <1>6, <2>1, KindsTyped
<1>7. CASE c.kind = "revise"
  <2>1. e = [type |-> "program.revised", snapshot |-> Revised(s)]
    BY <1>7 DEF Events
  <2> DEFINE t == WithStatus(s, s.status)
  <2>2. t \in Snapshots /\ t.status = s.status /\ t.revision = s.revision + 1 /\ t.work = s.work
    BY <1>1, SnapshotsChange
  <2>3. e.type = "program.revised" /\ e.snapshot = t /\ t = Revised(s)
        /\ e = [type |-> "program.revised", snapshot |-> t]
    BY <2>1 DEF Revised
  <2> HIDE DEF t
  <2>4. Explains(s, t, "program.revised") /\ Moves(s, t)
    BY <2>2, <2>3 DEF Explains, Moves
  <2>5. e \in Event
    BY <2>2, <2>3 DEF Event, EventTypes
  <2> QED
    BY <1>7, <2>2, <2>3, <2>4, <2>5
<1>8. CASE c.kind = "certify"
  <2>1. e \in IF s.status = "completion_pending"
              THEN {[type |-> "program.completed", snapshot |-> WithStatus(s, "completed")]}
              ELSE {}
    BY <1>8 DEF Events
  <2>2. s.status = "completion_pending" /\ "completed" \in Allowed[s.status]
    BY <2>1, AllowedIs
  <2> QED
    BY <1>2, <1>8, <2>1, <2>2, TransitionsAreNamed
<1>9. CASE c.kind = "reject"
  <2>1. e \in IF s.status = "completion_pending"
              THEN {[type |-> "program.completion_rejected", snapshot |-> WithStatus(s, "active")]}
              ELSE {}
    BY <1>9 DEF Events
  <2>2. s.status = "completion_pending" /\ "active" \in Allowed[s.status]
    BY <2>1, AllowedIs
  <2> QED
    BY <1>2, <1>9, <2>1, <2>2, TransitionsAreNamed
<1>10. CASE c.kind = "create"
  BY <1>10 DEF Events
<1> QED
  BY <1>4, <1>5, <1>6, <1>7, <1>8, <1>9, <1>10, KindsTyped

-----------------------------------------------------------------------------
(* Histories *)

LEMMA LastIs ==
    ASSUME NEW l \in Seq(Event), l # <<>>
    PROVE  /\ Len(l) \in Nat \ {0} /\ l[Len(l)] \in Event
           /\ l[Len(l)].snapshot \in Snapshots /\ l[Len(l)].type \in EventTypes
<1>1. Len(l) \in Nat \ {0}
  BY EmptySeq
<1>2. l[Len(l)] \in Event
  BY <1>1, ElementOfSeq
<1> QED
  BY <1>1, <1>2 DEF Event

(* The newest Event is in the history, and the one before it was the newest. *)
LEMMA HistoryGrows ==
    ASSUME NEW l \in Seq(Event), NEW e \in Event
    PROVE  /\ Append(l, e) \in Seq(Event) /\ Append(l, e) # <<>>
           /\ Append(l, e)[Len(Append(l, e))] = e
           /\ Len(Append(l, e)) = Len(l) + 1 /\ Len(l) \in Nat
           /\ \A i \in 1 .. Len(l) : Append(l, e)[i] = l[i]
<1>1. /\ Append(l, e) \in Seq(Event) /\ Len(Append(l, e)) = Len(l) + 1
      /\ Append(l, e)[Len(l) + 1] = e
      /\ \A i \in 1 .. Len(l) : Append(l, e)[i] = l[i]
  BY AppendProperties
<1>2. Len(l) \in Nat
  BY LenProperties
<1>3. Append(l, e) # <<>>
  <2>1. Len(Append(l, e)) # 0
    BY <1>1, <1>2
  <2> QED
    BY <2>1, EmptySeq
<1> QED
  BY <1>1, <1>2, <1>3

LEMMA ReplayStarts ==
    ASSUME NEW e \in Event, e.type = "program.created", e.snapshot = NewProgram
    PROVE  Replays(Append(<<>>, e))
<1>1. <<>> \in Seq(Event) /\ Len(<<>>) = 0
  BY EmptySeq
<1>2. Len(Append(<<>>, e)) = 1 /\ Append(<<>>, e)[1] = e
  BY <1>1, HistoryGrows
<1> DEFINE l == Append(<<>>, e)
<1> HIDE DEF l
<1> QED
  BY <1>2 DEF Replays, l

LEMMA ReplayGoesOn ==
    ASSUME NEW l \in Seq(Event), l # <<>>, Replays(l), NEW e \in Event,
           e.snapshot.revision = l[Len(l)].snapshot.revision + 1,
           Explains(l[Len(l)].snapshot, e.snapshot, e.type)
    PROVE  Replays(Append(l, e))
<1> DEFINE n == Len(l)
           h == Append(l, e)
<1>1. n \in Nat \ {0}
  BY LastIs
<1>2. Len(h) = n + 1 /\ h[n + 1] = e /\ \A i \in 1 .. n : h[i] = l[i]
  BY HistoryGrows
<1>3. /\ l[1].type = "program.created" /\ l[1].snapshot = NewProgram
      /\ \A i \in 1 .. n - 1 : /\ l[i + 1].snapshot.revision = l[i].snapshot.revision + 1
                               /\ Explains(l[i].snapshot, l[i + 1].snapshot, l[i + 1].type)
  BY DEF Replays
<1> HIDE DEF h, n
<1>4. ASSUME NEW i \in 1 .. n
      PROVE  /\ h[i + 1].snapshot.revision = h[i].snapshot.revision + 1
             /\ Explains(h[i].snapshot, h[i + 1].snapshot, h[i + 1].type)
  <2>1. CASE i \in 1 .. n - 1
    <3>1. i + 1 \in 1 .. n
      BY <1>1, <2>1
    <3> QED
      BY <1>2, <1>3, <2>1, <3>1
  <2>2. CASE i = n
    BY <1>1, <1>2, <2>2 DEF n
  <2> QED
    BY <1>1, <2>1, <2>2
<1>5. h[1] = l[1] /\ 1 .. Len(h) - 1 = 1 .. n
  BY <1>1, <1>2
<1> QED
  BY <1>3, <1>4, <1>5 DEF Replays, h

-----------------------------------------------------------------------------
(* The calls *)

LEMMA Forms ==
    /\ \A r : /\ Executing(r) # Idle /\ Executing(r).kind = "request" /\ Executing(r).request = r
              /\ "done" \notin DOMAIN Executing(r)
              /\ Committed(r) # Idle /\ Committed(r).kind = "request" /\ Committed(r).request = r
              /\ "done" \in DOMAIN Committed(r)
    /\ \A r, s : Executing(r) # Committed(s)
    /\ \A p, s : /\ Repairing(p, s) # Idle /\ Repairing(p, s).kind = "repair"
                 /\ Repairing(p, s).program = p /\ Repairing(p, s).snapshot = s
    /\ Idle.kind = "idle"
    /\ \A p, c, n : /\ Planned(p, c, n).state = "planned" /\ Planned(p, c, n).program = p
                    /\ Planned(p, c, n).change = c /\ Planned(p, c, n).expected = n
    /\ NoPlan.state = "none" /\ \A how : Answered(how).state = how
<1>1. \A r : /\ Executing(r).kind = "request" /\ Executing(r).request = r
             /\ "done" \notin DOMAIN Executing(r)
             /\ Committed(r).kind = "request" /\ Committed(r).request = r
             /\ "done" \in DOMAIN Committed(r)
  BY DEF Executing, Committed
<1>2. \A p, s : /\ Repairing(p, s).kind = "repair"
                /\ Repairing(p, s).program = p /\ Repairing(p, s).snapshot = s
  BY DEF Repairing
<1>3. Idle.kind = "idle"
  BY DEF Idle
<1>4. \A p, c, n : /\ Planned(p, c, n).state = "planned" /\ Planned(p, c, n).program = p
                    /\ Planned(p, c, n).change = c /\ Planned(p, c, n).expected = n
  BY DEF Planned
<1>5. NoPlan.state = "none" /\ \A how : Answered(how).state = how
  BY DEF NoPlan, Answered
<1> QED
  BY <1>1, <1>2, <1>3, <1>4, <1>5

LEMMA TransactionsTyped ==
    ASSUME NEW t \in Transactions
    PROVE  /\ t # NoTxn
           /\ t.process \in Processes /\ t.program \in Programs /\ t.stage \in Stages /\ t.event \in Event
           /\ t.ledger \in Seq(Event) /\ t.row \in Snapshots \cup Unreadable
<1> DEFINE W == Snapshots \cup Unreadable
<1>1. t.stage \in Stages /\ NoTxn.stage = "none"
  BY DEF Transactions, NoTxn
<1>2. t # NoTxn
  BY <1>1 DEF Stages
<1>3. Transactions = [process : Processes, program : Programs, stage : Stages, event : Event,
                      ledger : Seq(Event), row : W]
  BY DEF Transactions
<1> HIDE DEF W
<1>4. /\ t.process \in Processes /\ t.program \in Programs /\ t.event \in Event
      /\ t.ledger \in Seq(Event) /\ t.row \in W
  BY <1>3
<1> QED
  BY <1>1, <1>2, <1>4 DEF W

(* A step inside a transaction: on with the ledger or with the row. *)
Moving(t, s, l, w, next) ==
    /\ t \in Transactions /\ s \in Stages /\ l \in Seq(Event) /\ w \in Snapshots \cup Unreadable
    /\ \/ next = [t EXCEPT !.stage = s, !.ledger = l] /\ w = t.row
       \/ next = [t EXCEPT !.stage = s, !.row = w] /\ l = t.ledger

Moved(t, s, l, w, next) ==
    /\ next \in Transactions /\ next.stage = s /\ next.ledger = l /\ next.row = w
    /\ next.process = t.process /\ next.program = t.program /\ next.event = t.event

LEMMA TransactionsMove ==
    ASSUME NEW t, NEW s, NEW l, NEW w, NEW next, Moving(t, s, l, w, next)
    PROVE  Moved(t, s, l, w, next)
<1> USE DEF Moving, Moved
<1> DEFINE W == Snapshots \cup Unreadable
<1>1. Transactions = [process : Processes, program : Programs, stage : Stages, event : Event,
                      ledger : Seq(Event), row : W]
  BY DEF Transactions
<1>2. w \in W
  OBVIOUS
<1> HIDE DEF W
<1>3. CASE next = [t EXCEPT !.stage = s, !.ledger = l] /\ w = t.row
  BY <1>1, <1>2, <1>3
<1>4. CASE next = [t EXCEPT !.stage = s, !.row = w] /\ l = t.ledger
  BY <1>1, <1>2, <1>4
<1> QED
  BY <1>3, <1>4

LEMMA InitHolds == Init => IInv
<1> SUFFICES ASSUME Init PROVE IInv
  OBVIOUS
<1>1. StoreTyped
  <2>1. <<>> \in Seq(Event)
    BY EmptySeq
  <2>2. Missing \in Unreadable
    BY DEF Unreadable
  <2> HIDE DEF Missing
  <2> QED
    BY <2>1, <2>2, BoundsAreNat DEF Init, StoreTyped
<1>2. \A r \in Requests : request[r].state = "none"
  BY DEF Init, NoPlan
<1>3. RequestsTyped /\ OneWriter /\ CallsKnow /\ TransactionHolds
  BY DEF Init, RequestsTyped, OneWriter, CallsKnow, TransactionHolds
<1>4. RetriesMiss /\ AppliedOnce
  BY <1>2 DEF Init, RetriesMiss, AppliedOnce
<1>5. RowMatchesLedger /\ LedgerReplays
  BY DEF Init, RowMatchesLedger, LedgerReplays, Unreadable
<1> QED
  BY <1>1, <1>3, <1>4, <1>5 DEF IInv

(* Whoever holds the store and is idle is alone with it. *)
LEMMA NobodyElseCalls ==
    ASSUME IInv, NEW pr \in holder, call[pr] = Idle
    PROVE  /\ \A other \in Processes : call[other] = Idle
           /\ txn = NoTxn \/ (txn \in Transactions /\ txn.process = pr /\ Abandoned)
<1>1. \A other \in Processes : call[other] = Idle
  BY DEF IInv, OneWriter
<1>2. ASSUME txn # NoTxn PROVE txn \in Transactions /\ txn.process = pr /\ Abandoned
  <2>1. /\ txn \in Transactions /\ txn.process \in holder
        /\ ServesRequest \/ RepairsRow \/ Abandoned
    BY <1>2 DEF IInv, TransactionHolds
  <2>2. call[txn.process] = Idle
    BY <1>1, <2>1, TransactionsTyped
  <2>3. ~ServesRequest /\ ~RepairsRow
    BY <2>2, Forms DEF ServesRequest, RepairsRow
  <2>4. txn.process = pr
    BY <2>1 DEF IInv, OneWriter
  <2> QED
    BY <2>1, <2>3, <2>4
<1> QED
  BY <1>1, <1>2

(* A process that calls is the one that holds the store, and the only one. *)
LEMMA OneCaller ==
    ASSUME IInv, NEW pr \in Processes, call[pr] # Idle
    PROVE  /\ pr \in holder
           /\ \A other \in Processes : other # pr => call[other] = Idle
BY DEF IInv, OneWriter

-----------------------------------------------------------------------------
(* The steps *)

stored == <<ledger, row, request, applied>>

(* What only the store and the callers decide does not move with calls. *)
LEMMA StoreStays ==
    ASSUME IInv, UNCHANGED stored
    PROVE  RequestsTyped' /\ RetriesMiss' /\ AppliedOnce' /\ RowMatchesLedger' /\ LedgerReplays'
<1> USE DEF stored
<1>1. RequestsTyped' /\ RetriesMiss' /\ AppliedOnce'
  BY DEF IInv, RequestsTyped, RetriesMiss, AppliedOnce, LastSnapshot
<1>2. RowMatchesLedger' /\ LedgerReplays'
  BY DEF IInv, RowMatchesLedger, LedgerReplays, LastSnapshot
<1> QED
  BY <1>1, <1>2

LEMMA OpenHolds ==
    ASSUME IInv, NEW pr \in Processes, Open(pr)
    PROVE  IInv'
<1> USE DEF Open
<1>1. UNCHANGED stored
  BY DEF stored
<1>2. (\A other \in Processes : call[other] = Idle) /\ txn = NoTxn
  BY DEF IInv, OneWriter, TransactionHolds
<1>3. OneWriter' /\ CallsKnow' /\ TransactionHolds'
  BY <1>2 DEF OneWriter, CallsKnow, TransactionHolds
<1>4. StoreTyped'
  BY DEF IInv, StoreTyped
<1> QED
  BY <1>1, <1>3, <1>4, StoreStays DEF IInv

LEMMA CloseHolds ==
    ASSUME IInv, NEW pr \in Processes, Close(pr)
    PROVE  IInv'
<1>1. /\ pr \in holder /\ call[pr] = Idle /\ holder' = holder \ {pr} /\ txn' = RolledBack(pr)
      /\ UNCHANGED <<ledger, row, call, request, applied, damage, crashes>>
  BY DEF Close
<1>2. UNCHANGED stored
  BY <1>1 DEF stored
<1>3. (\A other \in Processes : call[other] = Idle) /\ txn' = NoTxn
  BY <1>1, NobodyElseCalls DEF RolledBack
<1>4. OneWriter' /\ CallsKnow' /\ TransactionHolds'
  BY <1>1, <1>3 DEF IInv, OneWriter, CallsKnow, TransactionHolds
<1>5. StoreTyped'
  BY <1>1 DEF IInv, StoreTyped
<1> QED
  BY <1>2, <1>4, <1>5, StoreStays DEF IInv

LEMMA CrashHolds ==
    ASSUME IInv, NEW pr \in Processes, Crash(pr)
    PROVE  IInv'
<1> USE DEF Crash, RolledBack
<1>1. UNCHANGED stored
  BY DEF stored
<1>2. DOMAIN call' = Processes /\ \A other \in Processes : call'[other] = Idle
  BY DEF IInv, StoreTyped, OneWriter
<1>3. txn' = NoTxn
  BY DEF IInv, OneWriter, TransactionHolds
<1>4. OneWriter' /\ CallsKnow' /\ TransactionHolds'
  BY <1>2, <1>3 DEF IInv, OneWriter, CallsKnow, TransactionHolds
<1>5. StoreTyped'
  BY <1>2, BoundsAreNat DEF IInv, StoreTyped
<1> QED
  BY <1>1, <1>4, <1>5, StoreStays DEF IInv

(* What a process reads, committed or not, has a row's type. *)
LEMMA SeenTyped ==
    ASSUME IInv, NEW pr \in holder, call[pr] = Idle, NEW p \in Programs
    PROVE  Seen(pr, p) \in Snapshots \cup Unreadable
<1>1. row[p] \in Snapshots \cup Unreadable
  BY DEF IInv, StoreTyped
<1>2. txn # NoTxn => txn.row \in Snapshots \cup Unreadable
  BY NobodyElseCalls, TransactionsTyped
<1> QED
  BY <1>1, <1>2 DEF Seen

LEMMA PlanHolds ==
    ASSUME IInv, NEW r \in Requests, Plan(r)
    PROVE  IInv'
<1>1. /\ UNCHANGED <<ledger, row, holder, txn, call, damage, crashes>>
      /\ applied' = [applied EXCEPT ![r] = 0]
  BY DEF Plan
<1>2. PICK pr \in holder, p \in Programs, c \in Changes[r] :
        /\ call[pr] = Idle /\ Seen(pr, p) # Corrupt
        /\ request' = [request EXCEPT ![r] =
             Planned(p, c, IF Seen(pr, p) = Missing THEN 0 ELSE Seen(pr, p).revision)]
  BY DEF Plan, Planned
<1>3. /\ \A other \in Processes : call[other] = Idle
      /\ txn = NoTxn \/ (txn \in Transactions /\ txn.process = pr /\ Abandoned)
  BY <1>2, NobodyElseCalls
<1> DEFINE n == IF Seen(pr, p) = Missing THEN 0 ELSE Seen(pr, p).revision
<1>4. n \in Nat
  <2>1. Seen(pr, p) # Missing => Seen(pr, p) \in Snapshots
    BY <1>2, SeenTyped DEF Unreadable
  <2> QED
    BY <2>1, SnapshotsChange
<1>5. c \in ChangeKinds
  BY ChangesAreKnown
<1>6. request' = [request EXCEPT ![r] = Planned(p, c, n)]
  BY <1>2
<1> HIDE DEF n
<1>7. /\ DOMAIN request' = Requests /\ applied' \in [Requests -> Nat]
      /\ \A s \in Requests : request'[s] = IF s = r THEN Planned(p, c, n) ELSE request[s]
      /\ \A s \in Requests : applied'[s] = IF s = r THEN 0 ELSE applied[s]
  BY <1>1, <1>6 DEF IInv, StoreTyped
<1>8. RequestsTyped'
  BY <1>4, <1>5, <1>7 DEF IInv, RequestsTyped
<1>9. OneWriter' /\ CallsKnow' /\ TransactionHolds'
  BY <1>1, <1>3 DEF IInv, OneWriter, CallsKnow, TransactionHolds, Abandoned, Stuck
<1>10. RetriesMiss'
  BY <1>1, <1>7 DEF IInv, RetriesMiss, LastSnapshot
<1>11. AppliedOnce'
  BY <1>7, Forms DEF IInv, AppliedOnce
<1>12. RowMatchesLedger' /\ LedgerReplays'
  BY <1>1 DEF IInv, RowMatchesLedger, LedgerReplays, LastSnapshot
<1>13. StoreTyped'
  BY <1>1, <1>7 DEF IInv, StoreTyped
<1> QED
  BY <1>8, <1>9, <1>10, <1>11, <1>12, <1>13 DEF IInv

(* Whatever is accepted may follow, and was not committed before. *)
LEMMA AcceptedIsNew ==
    ASSUME IInv, NEW r \in Requests, NEW p \in Programs, NEW c \in ChangeKinds, NEW n \in Nat,
           request[r] = Planned(p, c, n), NEW e \in Accepted(r)
    PROVE  e \in Event /\ MayFollow(e, p, c, n) /\ applied[r] = 0
<1>1. /\ request[r].program = p /\ request[r].change = c /\ request[r].expected = n
      /\ request[r].state = "planned"
  BY Forms
<1>2. /\ applied[r] \in Nat /\ (applied[r] # 0 => ledger[p] # <<>>)
      /\ (applied[r] # 0 /\ c.kind # "create" => LastSnapshot(p).revision > n)
  BY <1>1 DEF IInv, StoreTyped, RetriesMiss
<1>3. CASE c.kind = "create"
  <2>1. ledger[p] = <<>> /\ e = [type |-> "program.created", snapshot |-> NewProgram]
    BY <1>1, <1>3 DEF Accepted
  <2>2. NewProgram \in Snapshots
    BY DEF Snapshots, NewProgram, Statuses
  <2> QED
    BY <1>2, <1>3, <2>1, <2>2 DEF MayFollow, Event, EventTypes
<1>4. CASE c.kind # "create"
  <2>1. row[p] \notin Unreadable /\ row[p].revision = n /\ e \in Events(row[p], c)
    BY <1>1, <1>4 DEF Accepted
  <2>2. row[p] = LastSnapshot(p) /\ ledger[p] # <<>> /\ row[p] \in Snapshots
    BY <2>1 DEF IInv, StoreTyped, RowMatchesLedger, Unreadable
  <2>3. e \in Event
    BY <2>1, <2>2, EventsExplain
  <2>4. LastSnapshot(p).revision \in Nat /\ LastSnapshot(p).revision = n
    BY <2>1, <2>2, SnapshotsChange
  <2> QED
    BY <1>2, <1>4, <2>1, <2>2, <2>3, <2>4 DEF MayFollow
<1> QED
  BY <1>3, <1>4

LEMMA PlansAre ==
    ASSUME IInv, NEW r \in Requests, request[r].state = "planned"
    PROVE  \E p \in Programs, c \in ChangeKinds, n \in Nat : request[r] = Planned(p, c, n)
BY Forms DEF IInv, RequestsTyped

LEMMA BeginHolds ==
    ASSUME IInv, NEW pr \in Processes, NEW r \in Requests, Begin(pr, r)
    PROVE  IInv'
<1>1. /\ pr \in holder /\ call[pr] = Idle /\ txn = NoTxn /\ request[r].state = "planned"
      /\ call' = [call EXCEPT ![pr] = Executing(r)]
      /\ UNCHANGED <<ledger, row, holder, request, applied, damage, crashes>>
  BY DEF Begin, Executing
<1>2. PICK p \in Programs, c \in ChangeKinds, n \in Nat : request[r] = Planned(p, c, n)
  BY <1>1, PlansAre
<1>3. request[r].program = p
  BY <1>2, Forms
<1>4. PICK e \in Accepted(r) :
        txn' = [process |-> pr, program |-> p, stage |-> "begun", event |-> e,
                ledger |-> ledger[p], row |-> row[p]]
  BY <1>3 DEF Begin
<1>5. e \in Event /\ MayFollow(e, p, c, n) /\ applied[r] = 0
  BY <1>2, AcceptedIsNew
<1>6. ledger[p] \in Seq(Event) /\ row[p] \in Snapshots \cup Unreadable
  BY DEF IInv, StoreTyped
<1>7. /\ txn' \in Transactions /\ txn'.process = pr /\ txn'.program = p /\ txn'.stage = "begun"
      /\ txn'.event = e /\ txn'.ledger = ledger[p] /\ txn'.row = row[p]
  <2> DEFINE W == Snapshots \cup Unreadable
  <2>1. row[p] \in W
    BY <1>6
  <2> HIDE DEF W
  <2>2. txn' \in [process : Processes, program : Programs, stage : Stages, event : Event,
                  ledger : Seq(Event), row : W]
    BY <1>4, <1>5, <1>6, <2>1 DEF Stages
  <2> QED
    BY <1>4, <2>2 DEF Transactions, W
<1>8. DOMAIN call' = Processes /\ \A other \in Processes : call'[other] = IF other = pr THEN Executing(r) ELSE Idle
  BY <1>1, NobodyElseCalls DEF IInv, StoreTyped
<1>9. TransactionHolds'
  <2>1. ServesRequest'
    BY <1>1, <1>2, <1>5, <1>7, <1>8 DEF ServesRequest, Stuck, MayFollow, LastSnapshot
  <2> QED
    BY <1>1, <1>7, <2>1 DEF TransactionHolds
<1>10. OneWriter' /\ CallsKnow'
  BY <1>1, <1>8 DEF IInv, OneWriter, CallsKnow
<1>11. StoreTyped'
  BY <1>1, <1>8 DEF IInv, StoreTyped
<1>12. UNCHANGED stored
  BY <1>1 DEF stored
<1> QED
  BY <1>9, <1>10, <1>11, <1>12, StoreStays DEF IInv

(* The caller of a change that is not committed is told so. *)
LEMMA RefusalHolds ==
    ASSUME IInv, NEW r \in Requests, request' = [request EXCEPT ![r] = Answered("refused")],
           DOMAIN call' = Processes, \A pr \in Processes : call'[pr] = Idle, TransactionHolds',
           UNCHANGED <<ledger, row, holder, applied, damage, crashes>>
    PROVE  IInv'
<1>1. DOMAIN request' = Requests
      /\ \A s \in Requests : request'[s] = IF s = r THEN Answered("refused") ELSE request[s]
  BY DEF IInv, StoreTyped
<1>2. RequestsTyped'
  BY <1>1 DEF IInv, RequestsTyped
<1>3. OneWriter' /\ CallsKnow'
  BY DEF IInv, OneWriter, CallsKnow
<1>4. RetriesMiss' /\ AppliedOnce'
  BY <1>1, Forms DEF IInv, RetriesMiss, AppliedOnce, LastSnapshot
<1>5. RowMatchesLedger' /\ LedgerReplays'
  BY DEF IInv, RowMatchesLedger, LedgerReplays, LastSnapshot
<1>6. StoreTyped'
  BY <1>1 DEF IInv, StoreTyped
<1> QED
  BY <1>2, <1>3, <1>4, <1>5, <1>6 DEF IInv

LEMMA RefuseHolds ==
    ASSUME IInv, NEW pr \in Processes, NEW r \in Requests, Refuse(pr, r)
    PROVE  IInv'
<1>1. /\ pr \in holder /\ call[pr] = Idle /\ txn = NoTxn
      /\ request' = [request EXCEPT ![r] = Answered("refused")]
      /\ UNCHANGED <<ledger, row, holder, txn, call, applied, damage, crashes>>
  BY DEF Refuse
<1>2. TransactionHolds' /\ \A other \in Processes : call[other] = Idle
  BY <1>1, NobodyElseCalls DEF TransactionHolds
<1>3. DOMAIN call' = Processes
  BY <1>1 DEF IInv, StoreTyped
<1> QED
  BY <1>1, <1>2, <1>3, RefusalHolds

(* The call that has a transaction open. *)
LEMMA InTransactionIs ==
    ASSUME IInv, NEW pr \in Processes, InTransaction(pr)
    PROVE  /\ txn \in Transactions /\ txn.process = pr /\ pr \in holder
           /\ \A other \in Processes : other # pr => call[other] = Idle
           /\ ServesRequest \/ RepairsRow
           /\ ServesRequest => call[pr].kind = "request"
           /\ RepairsRow => call[pr].kind = "repair"
<1>1. txn \in Transactions /\ txn.process = pr /\ pr \in holder /\ (ServesRequest \/ RepairsRow)
  BY DEF InTransaction, IInv, TransactionHolds, Abandoned
<1>2. \A other \in Processes : other # pr => call[other] = Idle
  BY <1>1 DEF IInv, OneWriter
<1>3. /\ ServesRequest => call[pr].kind = "request"
      /\ RepairsRow => call[pr].kind = "repair"
  BY <1>1, Forms DEF ServesRequest, RepairsRow
<1> QED
  BY <1>1, <1>2, <1>3

LEMMA CallsStay ==
    ASSUME IInv, UNCHANGED <<stored, call, holder>>
    PROVE  CallsKnow' /\ OneWriter'
BY DEF IInv, CallsKnow, OneWriter, LastSnapshot, stored

LEMMA AppendEventHolds ==
    ASSUME IInv, NEW pr \in Processes, AppendEvent(pr)
    PROVE  IInv'
<1>1. /\ txn \in Transactions /\ txn.process = pr /\ pr \in holder /\ txn.stage = "begun"
      /\ txn' = [txn EXCEPT !.stage = "event_appended", !.ledger = Append(txn.ledger, txn.event)]
      /\ UNCHANGED <<ledger, row, holder, call, request, applied, damage, crashes>>
  BY InTransactionIs DEF AppendEvent
<1>2. ServesRequest
  BY <1>1, InTransactionIs DEF AppendEvent, RepairsRow
<1>3. "event_appended" \in Stages /\ Append(txn.ledger, txn.event) \in Seq(Event)
  BY <1>1, TransactionsTyped, HistoryGrows DEF Stages
<1>4. /\ txn' \in Transactions /\ txn'.stage = "event_appended"
      /\ txn'.ledger = Append(txn.ledger, txn.event) /\ txn'.process = pr
      /\ txn'.program = txn.program /\ txn'.event = txn.event /\ txn'.row = txn.row
  <2> DEFINE l == Append(txn.ledger, txn.event)
             w == txn.row
  <2>1. Moving(txn, "event_appended", l, w, txn')
    BY <1>1, <1>3, TransactionsTyped DEF Moving
  <2> HIDE DEF l, w
  <2>2. Moved(txn, "event_appended", l, w, txn')
    BY <2>1, TransactionsMove
  <2> QED
    BY <1>1, <2>2 DEF Moved, l, w
<1>5. TransactionHolds'
  <2>1. ServesRequest'
    BY <1>1, <1>2, <1>4 DEF ServesRequest, Stuck, MayFollow, LastSnapshot
  <2> QED
    BY <1>1, <1>4, <2>1 DEF TransactionHolds
<1>6. UNCHANGED <<stored, call, holder>>
  BY <1>1 DEF stored
<1>7. StoreTyped'
  BY <1>1 DEF IInv, StoreTyped
<1> QED
  BY <1>5, <1>6, <1>7, CallsStay, StoreStays DEF IInv

LEMMA WriteProjectionHolds ==
    ASSUME IInv, NEW pr \in Processes, WriteProjection(pr)
    PROVE  IInv'
<1>1. /\ txn \in Transactions /\ txn.process = pr /\ pr \in holder /\ txn.stage = "event_appended"
      /\ txn' = [txn EXCEPT !.stage = "projection_written", !.row = txn.event.snapshot]
      /\ UNCHANGED <<ledger, row, holder, call, request, applied, damage, crashes>>
  BY InTransactionIs DEF WriteProjection
<1>2. ServesRequest
  BY <1>1, InTransactionIs DEF WriteProjection, RepairsRow
<1>3. "projection_written" \in Stages /\ txn.event.snapshot \in Snapshots
  BY <1>1, TransactionsTyped DEF Stages, Event
<1>4. /\ txn' \in Transactions /\ txn'.stage = "projection_written"
      /\ txn'.ledger = txn.ledger /\ txn'.process = pr
      /\ txn'.program = txn.program /\ txn'.event = txn.event /\ txn'.row = txn.event.snapshot
  <2> DEFINE l == txn.ledger
             w == txn.event.snapshot
  <2>1. Moving(txn, "projection_written", l, w, txn')
    BY <1>1, <1>3, TransactionsTyped DEF Moving
  <2> HIDE DEF l, w
  <2>2. Moved(txn, "projection_written", l, w, txn')
    BY <2>1, TransactionsMove
  <2> QED
    BY <1>1, <2>2 DEF Moved, l, w
<1>5. TransactionHolds'
  <2>1. ServesRequest'
    BY <1>1, <1>2, <1>4 DEF ServesRequest, Stuck, MayFollow, LastSnapshot
  <2> QED
    BY <1>1, <1>4, <2>1 DEF TransactionHolds
<1>6. UNCHANGED <<stored, call, holder>>
  BY <1>1 DEF stored
<1>7. StoreTyped'
  BY <1>1 DEF IInv, StoreTyped
<1> QED
  BY <1>5, <1>6, <1>7, CallsStay, StoreStays DEF IInv

LEMMA AbortHolds ==
    ASSUME IInv, NEW pr \in Processes, Abort(pr)
    PROVE  IInv'
<1>1. /\ InTransaction(pr) /\ call[pr].kind = "request" /\ txn' = NoTxn
      /\ call' = [call EXCEPT ![pr] = Idle]
      /\ UNCHANGED <<ledger, row, holder, applied, damage, crashes>>
  BY DEF Abort
<1>2. ServesRequest /\ txn.process = pr
  BY <1>1, InTransactionIs, Forms DEF RepairsRow
<1>3. PICK r \in Requests : call[pr] = Executing(r)
  BY <1>2 DEF ServesRequest
<1>4. call[pr].request = r
  BY <1>3, Forms
<1>5. request' = [request EXCEPT ![r] = Answered("refused")]
  BY <1>4 DEF Abort
<1>6. DOMAIN call' = Processes /\ \A other \in Processes : call'[other] = Idle
  BY <1>1, InTransactionIs DEF IInv, StoreTyped
<1>7. TransactionHolds'
  BY <1>1 DEF TransactionHolds
<1> QED
  BY <1>1, <1>5, <1>6, <1>7, RefusalHolds

(* A COMMIT that fails leaves the transaction, and the store as it was. *)
LEMMA CommitFailsHolds ==
    ASSUME IInv, NEW pr \in Processes, CommitFails(pr)
    PROVE  IInv'
<1>1. /\ InTransaction(pr) /\ call' = [call EXCEPT ![pr] = Idle]
      /\ txn' = [txn EXCEPT !.stage = "commit_failed"]
      /\ UNCHANGED <<ledger, row, holder, applied, damage, crashes>>
  BY DEF CommitFails
<1>2. /\ txn \in Transactions /\ txn.process = pr /\ pr \in holder
      /\ \A other \in Processes : other # pr => call[other] = Idle
      /\ ServesRequest \/ RepairsRow
  BY <1>1, InTransactionIs
<1>3. DOMAIN call' = Processes /\ \A other \in Processes : call'[other] = Idle
  BY <1>1, <1>2 DEF IInv, StoreTyped
<1>4. /\ txn' \in Transactions /\ txn'.stage = "commit_failed" /\ txn'.process = pr
  <2> DEFINE W == Snapshots \cup Unreadable
  <2>1. Transactions = [process : Processes, program : Programs, stage : Stages, event : Event,
                        ledger : Seq(Event), row : W]
    BY DEF Transactions
  <2>2. "commit_failed" \in Stages
    BY DEF Stages
  <2> HIDE DEF W
  <2> QED
    BY <1>1, <1>2, <2>1, <2>2
<1>5. TransactionHolds'
  BY <1>1, <1>2, <1>3, <1>4 DEF TransactionHolds, Abandoned, Stuck
<1>6. CASE ServesRequest
  <2>1. PICK r \in Requests : call[pr] = Executing(r)
    BY <1>2, <1>6 DEF ServesRequest
  <2>2. request' = [request EXCEPT ![r] = Answered("refused")]
    <3>1. call[pr].kind = "request" /\ call[pr].request = r
      BY <2>1, Forms
    <3> QED
      BY <3>1 DEF CommitFails
  <2> QED
    BY <1>1, <1>3, <1>5, <2>2, RefusalHolds
<1>7. CASE RepairsRow
  <2>1. UNCHANGED stored
    BY <1>1, <1>7, InTransactionIs DEF CommitFails, stored
  <2>2. OneWriter' /\ CallsKnow' /\ StoreTyped'
    BY <1>1, <1>3, <2>1 DEF IInv, OneWriter, CallsKnow, StoreTyped, stored
  <2> QED
    BY <1>5, <2>1, <2>2, StoreStays DEF IInv
<1> QED
  BY <1>2, <1>6, <1>7

(* One more Event: the history replays, and its newest snapshot is of the  *)
(* next revision.                                                          *)
LEMMA HistoryFollows ==
    ASSUME IInv, NEW p \in Programs, NEW e \in Event, NEW c \in ChangeKinds, NEW n, MayFollow(e, p, c, n)
    PROVE  /\ Replays(Append(ledger[p], e))
           /\ ledger[p] # <<>> => e.snapshot.revision = LastSnapshot(p).revision + 1
           /\ c.kind # "create" => ledger[p] # <<>> /\ n \in Nat /\ e.snapshot.revision = n + 1
           /\ ledger[p] = <<>> => e.snapshot = NewProgram
           /\ ledger[p] # <<>> => Moves(LastSnapshot(p), e.snapshot) /\ LastSnapshot(p) \in Snapshots
<1>1. ledger[p] \in Seq(Event)
  BY DEF IInv, StoreTyped
<1>2. CASE ledger[p] = <<>>
  <2>1. c.kind = "create" /\ e = [type |-> "program.created", snapshot |-> NewProgram]
    BY <1>2 DEF MayFollow
  <2>2. e.type = "program.created" /\ e.snapshot = NewProgram
    BY <2>1
  <2> QED
    BY <1>2, <2>1, <2>2, ReplayStarts
<1>3. CASE ledger[p] # <<>>
  <2> DEFINE s == LastSnapshot(p)
  <2>1. s \in Snapshots /\ Replays(ledger[p])
    BY <1>1, <1>3, LastIs DEF IInv, LedgerReplays, LastSnapshot
  <2>2. e \in Events(s, c) /\ s.revision = n /\ c.kind # "create"
    BY <1>3 DEF MayFollow
  <2>3. /\ e.snapshot.revision = s.revision + 1 /\ Explains(s, e.snapshot, e.type) /\ Moves(s, e.snapshot)
        /\ s.revision \in Nat
    BY <2>1, <2>2, EventsExplain, SnapshotsChange
  <2>4. Replays(Append(ledger[p], e))
    BY <1>1, <1>3, <2>1, <2>3, ReplayGoesOn DEF LastSnapshot
  <2> QED
    BY <1>3, <2>1, <2>2, <2>3, <2>4
<1> QED
  BY <1>2, <1>3

(* What the commit of a change does to the store. *)
Commits(p, r, c, n, e) ==
    /\ p \in Programs /\ r \in Requests /\ c \in ChangeKinds /\ n \in Nat /\ e \in Event
    /\ request[r] = Planned(p, c, n) /\ applied[r] = 0 /\ MayFollow(e, p, c, n)
    /\ ledger' = [ledger EXCEPT ![p] = Append(ledger[p], e)]
    /\ row' = [row EXCEPT ![p] = e.snapshot]
    /\ applied' = [applied EXCEPT ![r] = @ + 1]
    /\ UNCHANGED request

LEMMA CommitOfRequest ==
    ASSUME IInv, NEW pr \in Processes, Commit(pr), ServesRequest
    PROVE  \E r \in Requests, c \in ChangeKinds, n \in Nat :
              Commits(txn.program, r, c, n, txn.event) /\ call' = [call EXCEPT ![pr] = Committed(r)]
<1>1. /\ InTransaction(pr) /\ txn.stage = "projection_written"
      /\ ledger' = [ledger EXCEPT ![txn.program] = txn.ledger]
      /\ row' = [row EXCEPT ![txn.program] = txn.row] /\ UNCHANGED request
  BY DEF Commit, ReadyToCommit
<1>2. txn \in Transactions /\ txn.process = pr /\ call[pr].kind = "request"
  BY <1>1, InTransactionIs
<1>3. PICK r \in Requests, c \in ChangeKinds, n \in Nat :
        /\ call[pr] = Executing(r) /\ request[r] = Planned(txn.program, c, n) /\ applied[r] = 0
        /\ MayFollow(txn.event, txn.program, c, n)
        /\ txn.ledger = Append(ledger[txn.program], txn.event) /\ txn.row = txn.event.snapshot
  BY <1>1, <1>2 DEF ServesRequest
<1>4. call[pr].request = r
  BY <1>3, Forms
<1>5. applied' = [applied EXCEPT ![r] = @ + 1] /\ call' = [call EXCEPT ![pr] = Committed(r)]
  BY <1>2, <1>4 DEF Commit, Committed
<1>6. txn.program \in Programs /\ txn.event \in Event
  BY <1>2, TransactionsTyped
<1> QED
  BY <1>1, <1>3, <1>5, <1>6 DEF Commits

LEMMA ChangesAreStored ==
    ASSUME IInv, NEW p, NEW r, NEW c, NEW n, NEW e, Commits(p, r, c, n, e)
    PROVE  /\ ledger' \in [Programs -> Seq(Event)] /\ row' \in [Programs -> Snapshots \cup Unreadable]
           /\ applied' \in [Requests -> Nat] /\ applied'[r] = 1 /\ request[r].state = "planned"
           /\ RequestsTyped' /\ RetriesMiss' /\ AppliedOnce' /\ RowMatchesLedger' /\ LedgerReplays'
<1> USE DEF Commits
<1> DEFINE l == ledger[p]
           k == Append(l, e)
<1>1. l \in Seq(Event) /\ e.snapshot \in Snapshots /\ e \in Event
  BY DEF IInv, StoreTyped, Event
<1>2. /\ k \in Seq(Event) /\ k # <<>> /\ k[Len(k)].snapshot = e.snapshot
  BY <1>1, HistoryGrows
<1>3. /\ Replays(k)
      /\ l # <<>> => e.snapshot.revision = LastSnapshot(p).revision + 1
      /\ c.kind # "create" => n \in Nat /\ e.snapshot.revision = n + 1
      /\ l # <<>> => LastSnapshot(p) \in Snapshots
  BY HistoryFollows
<1>4. ledger' = [ledger EXCEPT ![p] = k]
  OBVIOUS
<1> HIDE DEF k
<1>5. /\ ledger' \in [Programs -> Seq(Event)]
      /\ \A q \in Programs : ledger'[q] = IF q = p THEN k ELSE ledger[q]
  BY <1>2, <1>4 DEF IInv, StoreTyped
<1>6. /\ row' \in [Programs -> Snapshots \cup Unreadable]
      /\ \A q \in Programs : row'[q] = IF q = p THEN e.snapshot ELSE row[q]
  <2> DEFINE W == Snapshots \cup Unreadable
             w == e.snapshot
  <2>1. w \in W /\ row \in [Programs -> W] /\ row' = [row EXCEPT ![p] = w]
    BY <1>1 DEF IInv, StoreTyped
  <2> HIDE DEF W, w
  <2>2. row' \in [Programs -> W] /\ \A q \in Programs : row'[q] = IF q = p THEN w ELSE row[q]
    BY <2>1
  <2> QED
    BY <2>2 DEF W, w
<1>7. /\ applied' \in [Requests -> Nat]
      /\ \A s \in Requests : applied'[s] = IF s = r THEN 1 ELSE applied[s]
  BY DEF IInv, StoreTyped
<1>8. /\ request[r].state = "planned" /\ request[r].program = p
      /\ request[r].change = c /\ request[r].expected = n
  BY Forms
<1>9. RequestsTyped'
  BY DEF IInv, RequestsTyped
<1>10. RetriesMiss'
  <2> SUFFICES ASSUME NEW s \in Requests, request[s].state = "planned", applied'[s] # 0
               PROVE  LET q == request[s].program IN
                      /\ ledger'[q] # <<>>
                      /\ request[s].change.kind # "create" =>
                            ledger'[q][Len(ledger'[q])].snapshot.revision > request[s].expected
    BY DEF RetriesMiss, LastSnapshot
  <2>1. CASE s = r
    BY <1>2, <1>3, <1>5, <1>8, <2>1
  <2>2. CASE s # r
    <3> DEFINE q == request[s].program
    <3>1. PICK q1 \in Programs, c1 \in ChangeKinds, n1 \in Nat : request[s] = Planned(q1, c1, n1)
      BY PlansAre
    <3>2. q \in Programs /\ request[s].expected \in Nat
      BY <3>1, Forms
    <3>3. /\ ledger[q] # <<>>
          /\ request[s].change.kind # "create" => LastSnapshot(q).revision > request[s].expected
      BY <1>7, <2>2 DEF IInv, RetriesMiss
    <3> HIDE DEF q
    <3>4. CASE q = p
      <4>1. LastSnapshot(p).revision \in Nat
        BY <1>3, <3>3, <3>4, SnapshotsChange
      <4> QED
        BY <1>2, <1>3, <1>5, <3>2, <3>3, <3>4, <4>1 DEF q
    <3>5. CASE q # p
      BY <1>5, <3>2, <3>3, <3>5 DEF q, LastSnapshot
    <3> QED
      BY <3>4, <3>5
  <2> QED
    BY <2>1, <2>2
<1>11. AppliedOnce'
  BY <1>7, <1>8 DEF IInv, AppliedOnce
<1>12. RowMatchesLedger'
  BY <1>2, <1>5, <1>6 DEF IInv, RowMatchesLedger, LastSnapshot
<1>13. LedgerReplays'
  BY <1>3, <1>5 DEF IInv, LedgerReplays, k
<1> QED
  BY <1>5, <1>6, <1>7, <1>8, <1>9, <1>10, <1>11, <1>12, <1>13

LEMMA CommitHolds ==
    ASSUME IInv, NEW pr \in Processes, Commit(pr)
    PROVE  IInv'
<1>1. /\ InTransaction(pr) /\ txn' = NoTxn /\ UNCHANGED <<holder, request, damage, crashes>>
      /\ txn.stage = "projection_written"
  BY DEF Commit, ReadyToCommit
<1>2. /\ txn \in Transactions /\ txn.process = pr /\ pr \in holder
      /\ \A other \in Processes : other # pr => call[other] = Idle
  BY <1>1, InTransactionIs
<1>3. CASE ServesRequest
  <2>1. PICK r \in Requests, c \in ChangeKinds, n \in Nat :
           Commits(txn.program, r, c, n, txn.event) /\ call' = [call EXCEPT ![pr] = Committed(r)]
    BY <1>3, CommitOfRequest
  <2>2. /\ ledger' \in [Programs -> Seq(Event)] /\ row' \in [Programs -> Snapshots \cup Unreadable]
        /\ applied' \in [Requests -> Nat] /\ applied'[r] = 1 /\ request[r].state = "planned"
        /\ RequestsTyped' /\ RetriesMiss' /\ AppliedOnce' /\ RowMatchesLedger' /\ LedgerReplays'
    BY <2>1, ChangesAreStored
  <2>3. DOMAIN call' = Processes
        /\ \A other \in Processes : call'[other] = IF other = pr THEN Committed(r) ELSE Idle
    BY <1>2, <2>1 DEF IInv, StoreTyped
  <2>4. OneWriter' /\ CallsKnow' /\ TransactionHolds'
    BY <1>1, <1>2, <2>2, <2>3 DEF IInv, OneWriter, CallsKnow, TransactionHolds
  <2>5. StoreTyped'
    BY <1>1, <2>2, <2>3 DEF IInv, StoreTyped
  <2> QED
    BY <2>2, <2>4, <2>5 DEF IInv
<1>4. CASE RepairsRow
  <2> DEFINE p == txn.program
  <2>1. /\ p \in Programs /\ ledger[p] # <<>> /\ call[pr].kind = "repair"
        /\ ledger' = [ledger EXCEPT ![p] = ledger[p]] /\ row' = [row EXCEPT ![p] = LastSnapshot(p)]
        /\ UNCHANGED applied /\ call' = [call EXCEPT ![pr] = Idle]
    BY <1>1, <1>2, <1>4, InTransactionIs, TransactionsTyped DEF Commit, RepairsRow
  <2> HIDE DEF p
  <2>2. ledger' = ledger
    BY <2>1 DEF IInv, StoreTyped
  <2>3. LastSnapshot(p) \in Snapshots
    BY <2>1, LastIs DEF IInv, StoreTyped, LastSnapshot
  <2>4. /\ row' \in [Programs -> Snapshots \cup Unreadable]
        /\ \A q \in Programs : row'[q] = IF q = p THEN LastSnapshot(p) ELSE row[q]
    <3> DEFINE W == Snapshots \cup Unreadable
               w == LastSnapshot(p)
    <3>1. w \in W /\ row \in [Programs -> W] /\ row' = [row EXCEPT ![p] = w]
      BY <2>1, <2>3 DEF IInv, StoreTyped
    <3> HIDE DEF W, w
    <3>2. row' \in [Programs -> W] /\ \A q \in Programs : row'[q] = IF q = p THEN w ELSE row[q]
      BY <2>1, <3>1
    <3> QED
      BY <3>2 DEF W, w
  <2>5. DOMAIN call' = Processes /\ \A other \in Processes : call'[other] = Idle
    BY <1>2, <2>1 DEF IInv, StoreTyped
  <2>6. OneWriter' /\ CallsKnow' /\ TransactionHolds'
    BY <1>1, <2>5 DEF IInv, OneWriter, CallsKnow, TransactionHolds
  <2>7. RequestsTyped' /\ RetriesMiss' /\ AppliedOnce' /\ LedgerReplays'
    BY <1>1, <2>1, <2>2 DEF IInv, RequestsTyped, RetriesMiss, AppliedOnce, LedgerReplays, LastSnapshot
  <2>8. RowMatchesLedger'
    BY <2>1, <2>2, <2>4 DEF IInv, RowMatchesLedger, LastSnapshot
  <2>9. StoreTyped'
    BY <1>1, <2>1, <2>2, <2>4, <2>5 DEF IInv, StoreTyped
  <2> QED
    BY <2>6, <2>7, <2>8, <2>9 DEF IInv
<1> QED
  BY <1>1, <1>3, <1>4, InTransactionIs

LEMMA AcknowledgeHolds ==
    ASSUME IInv, NEW pr \in Processes, Acknowledge(pr)
    PROVE  IInv'
<1>1. /\ call[pr].kind = "request" /\ "done" \in DOMAIN call[pr]
      /\ call' = [call EXCEPT ![pr] = Idle]
      /\ request' = [request EXCEPT ![call[pr].request] = Answered("acked")]
      /\ UNCHANGED <<ledger, row, holder, txn, applied, damage, crashes>>
  BY DEF Acknowledge
<1>2. PICK r \in Requests : call[pr] = Committed(r) /\ request[r].state = "planned" /\ applied[r] = 1
  BY <1>1, Forms DEF IInv, CallsKnow
<1>3. DOMAIN request' = Requests
      /\ \A s \in Requests : request'[s] = IF s = r THEN Answered("acked") ELSE request[s]
  BY <1>1, <1>2, Forms DEF IInv, StoreTyped
<1>4. DOMAIN call' = Processes /\ \A other \in Processes : call'[other] = Idle
  BY <1>1, <1>2, OneCaller, Forms DEF IInv, StoreTyped
<1>5. TransactionHolds'
  <2>1. txn = NoTxn \/ (txn \in Transactions /\ txn.process \in holder /\ Abandoned)
    <3> SUFFICES ASSUME txn # NoTxn PROVE txn \in Transactions /\ txn.process \in holder /\ Abandoned
      OBVIOUS
    <3>1. /\ txn \in Transactions /\ txn.process \in holder
          /\ ServesRequest \/ RepairsRow \/ Abandoned
      BY DEF IInv, TransactionHolds
    <3>2. txn.process = pr
      BY <1>2, <3>1, OneCaller, Forms DEF IInv, OneWriter
    <3>3. ~ServesRequest /\ ~RepairsRow
      BY <1>2, <3>2, Forms DEF ServesRequest, RepairsRow
    <3> QED
      BY <3>1, <3>3
  <2> QED
    BY <1>1, <1>4, <2>1, TransactionsTyped DEF TransactionHolds, Abandoned, Stuck
<1>6. RequestsTyped'
  BY <1>1, <1>3 DEF IInv, RequestsTyped
<1>7. OneWriter' /\ CallsKnow'
  BY <1>1, <1>4 DEF IInv, OneWriter, CallsKnow
<1>8. RetriesMiss' /\ AppliedOnce'
  BY <1>1, <1>2, <1>3, Forms DEF IInv, RetriesMiss, AppliedOnce, LastSnapshot
<1>9. RowMatchesLedger' /\ LedgerReplays'
  BY <1>1 DEF IInv, RowMatchesLedger, LedgerReplays, LastSnapshot
<1>10. StoreTyped'
  BY <1>1, <1>3, <1>4 DEF IInv, StoreTyped
<1> QED
  BY <1>5, <1>6, <1>7, <1>8, <1>9, <1>10 DEF IInv

LEMMA RebuildHolds ==
    ASSUME IInv, NEW pr \in Processes, NEW p \in Programs, Rebuild(pr, p)
    PROVE  IInv'
<1>1. /\ pr \in holder /\ call[pr] = Idle /\ ledger[p] # <<>>
      /\ call' = [call EXCEPT ![pr] = Repairing(p, LastSnapshot(p))]
      /\ UNCHANGED <<ledger, row, holder, txn, request, applied, damage, crashes>>
  BY DEF Rebuild, Repairing
<1>2. txn = NoTxn /\ \A other \in Processes : call[other] = Idle
  BY <1>1, NobodyElseCalls DEF Rebuild, Abandoned
<1>3. DOMAIN call' = Processes
      /\ \A other \in Processes : call'[other] = IF other = pr THEN Repairing(p, LastSnapshot(p)) ELSE Idle
  BY <1>1, <1>2 DEF IInv, StoreTyped
<1>4. OneWriter' /\ CallsKnow' /\ TransactionHolds'
  BY <1>1, <1>2, <1>3 DEF IInv, OneWriter, CallsKnow, TransactionHolds, LastSnapshot
<1>5. UNCHANGED stored
  BY <1>1 DEF stored
<1>6. StoreTyped'
  BY <1>1, <1>3 DEF IInv, StoreTyped
<1> QED
  BY <1>4, <1>5, <1>6, StoreStays DEF IInv

(* What was rebuilt outside the transaction is still the newest Event in it. *)
LEMMA RepairRowHolds ==
    ASSUME IInv, NEW pr \in Processes, RepairRow(pr)
    PROVE  IInv'
<1>1. /\ call[pr].kind = "repair"
      /\ UNCHANGED <<ledger, row, holder, call, request, applied, damage, crashes>>
  BY DEF RepairRow
<1>2. PICK p \in Programs : ledger[p] # <<>> /\ call[pr] = Repairing(p, LastSnapshot(p))
  BY <1>1, Forms DEF IInv, CallsKnow
<1>3. call[pr].program = p /\ call[pr].snapshot = LastSnapshot(p) /\ call[pr] # Idle
  BY <1>2, Forms
<1>4. txn' = [process |-> pr, program |-> p, stage |-> "projection_written",
              event |-> ledger[p][Len(ledger[p])], ledger |-> ledger[p], row |-> LastSnapshot(p)]
  BY <1>3 DEF RepairRow
<1>5. ledger[p] \in Seq(Event) /\ ledger[p][Len(ledger[p])] \in Event /\ LastSnapshot(p) \in Snapshots
  BY <1>2, LastIs DEF IInv, StoreTyped, LastSnapshot
<1>6. /\ txn' \in Transactions /\ txn'.process = pr /\ txn'.program = p
      /\ txn'.stage = "projection_written" /\ txn'.ledger = ledger[p] /\ txn'.row = LastSnapshot(p)
  <2> DEFINE W == Snapshots \cup Unreadable
  <2>1. LastSnapshot(p) \in W
    BY <1>5
  <2> HIDE DEF W
  <2>2. txn' \in [process : Processes, program : Programs, stage : Stages, event : Event,
                  ledger : Seq(Event), row : W]
    BY <1>4, <1>5, <2>1 DEF Stages
  <2> QED
    BY <1>4, <2>2 DEF Transactions, W
<1>7. TransactionHolds'
  <2>1. RepairsRow'
    BY <1>1, <1>2, <1>6 DEF RepairsRow, LastSnapshot
  <2>2. pr \in holder
    BY <1>3, OneCaller
  <2> QED
    BY <1>1, <1>6, <2>1, <2>2 DEF TransactionHolds
<1>8. UNCHANGED <<stored, call, holder>>
  BY <1>1 DEF stored
<1>9. StoreTyped'
  BY <1>1 DEF IInv, StoreTyped
<1> QED
  BY <1>7, <1>8, <1>9, CallsStay, StoreStays DEF IInv

LEMMA DamageHolds ==
    ASSUME IInv, NEW p \in Programs, Damage(p)
    PROVE  IInv'
<1>1. PICK bad \in Unreadable : row' = [row EXCEPT ![p] = bad]
  BY DEF Damage
<1>2. /\ damage < MaxDamage /\ damage' = damage + 1 /\ txn = NoTxn /\ row[p] \notin Unreadable
      /\ UNCHANGED <<ledger, holder, txn, call, request, applied, crashes>>
  BY DEF Damage
<1>3. /\ row' \in [Programs -> Snapshots \cup Unreadable]
      /\ \A q \in Programs : row'[q] = IF q = p THEN bad ELSE row[q]
  <2> DEFINE W == Snapshots \cup Unreadable
  <2>1. bad \in W /\ row \in [Programs -> W]
    BY DEF IInv, StoreTyped
  <2> HIDE DEF W
  <2>2. row' \in [Programs -> W] /\ \A q \in Programs : row'[q] = IF q = p THEN bad ELSE row[q]
    BY <1>1, <2>1
  <2> QED
    BY <2>2 DEF W
<1>4. RowMatchesLedger'
  <2>1. ledger[p] # <<>>
    BY <1>2 DEF IInv, RowMatchesLedger, Unreadable
  <2> QED
    BY <1>2, <1>3, <2>1 DEF IInv, RowMatchesLedger, LastSnapshot
<1>5. RequestsTyped' /\ OneWriter' /\ CallsKnow' /\ TransactionHolds'
  BY <1>2 DEF IInv, RequestsTyped, OneWriter, CallsKnow, TransactionHolds, LastSnapshot
<1>6. RetriesMiss' /\ AppliedOnce' /\ LedgerReplays'
  BY <1>2 DEF IInv, RetriesMiss, AppliedOnce, LedgerReplays, LastSnapshot
<1>7. StoreTyped'
  <2>1. damage' \in 0 .. MaxDamage
    BY <1>2, BoundsAreNat DEF IInv, StoreTyped
  <2> QED
    BY <1>2, <1>3, <2>1 DEF IInv, StoreTyped
<1> QED
  BY <1>4, <1>5, <1>6, <1>7 DEF IInv

LEMMA NextHolds == IInv /\ [Next]_vars => IInv'
<1> SUFFICES ASSUME IInv, [Next]_vars PROVE IInv'
  OBVIOUS
<1>1. CASE UNCHANGED vars
  <2>1. UNCHANGED <<stored, call, holder, txn, damage, crashes>>
    BY <1>1 DEF vars, stored
  <2>2. StoreTyped' /\ TransactionHolds'
    BY <2>1 DEF IInv, StoreTyped, TransactionHolds, ServesRequest, RepairsRow, Abandoned, Stuck,
               MayFollow, LastSnapshot, stored
  <2> QED
    BY <2>1, <2>2, CallsStay, StoreStays DEF IInv
<1>2. ASSUME NEW pr \in Processes,
             \/ Open(pr) \/ Close(pr) \/ Crash(pr) \/ Serve(pr) \/ Abort(pr) \/ CommitFails(pr)
             \/ \E r \in Requests : Begin(pr, r) \/ Refuse(pr, r)
             \/ \E p \in Programs : Rebuild(pr, p)
      PROVE  IInv'
  BY <1>2, OpenHolds, CloseHolds, CrashHolds, AbortHolds, BeginHolds, RefuseHolds, RebuildHolds,
     AppendEventHolds, WriteProjectionHolds, CommitHolds, CommitFailsHolds, AcknowledgeHolds, RepairRowHolds DEF Serve
<1>3. ASSUME NEW r \in Requests, Plan(r) PROVE IInv'
  BY <1>3, PlanHolds
<1>4. ASSUME NEW p \in Programs, Damage(p) PROVE IInv'
  BY <1>4, DamageHolds
<1> QED
  BY <1>1, <1>2, <1>3, <1>4 DEF Next

-----------------------------------------------------------------------------
(* Theorems *)

THEOREM Invariance == Spec => []IInv
BY InitHolds, NextHolds, PTL DEF Spec

LEMMA IInvTypes == IInv => TypeOK
<1> SUFFICES ASSUME IInv PROVE TypeOK
  OBVIOUS
<1>1. \A pr \in Processes : call[pr].kind \in {"idle", "request", "repair"}
  BY Forms DEF IInv, CallsKnow
<1>2. \A r \in Requests : request[r].state \in {"none", "planned", "acked", "refused"}
  BY Forms DEF IInv, RequestsTyped
<1>3. \/ txn = NoTxn
      \/ /\ txn.process \in Processes /\ txn.program \in Programs
         /\ txn.stage \in {"begun", "event_appended", "projection_written", "commit_failed"}
  BY TransactionsTyped DEF IInv, TransactionHolds, Stages
<1> QED
  BY <1>1, <1>2, <1>3 DEF IInv, StoreTyped, TypeOK

(* Every variable of the store keeps its type. *)
THEOREM TypeCorrect == Spec => []TypeOK
BY Invariance, IInvTypes, PTL

(* verify_integrity and rebuild succeed at every moment: the rows are the  *)
(* newest Events of histories that replay, whatever processes died, tried  *)
(* again or repaired in between.                                           *)
THEOREM IntegrityHolds == Spec => []IntegrityVerifies
<1>1. IInv => IntegrityVerifies
  BY DEF IInv, IntegrityVerifies
<1> QED
  BY <1>1, Invariance, PTL

(* A change is committed once, however often it is retried. *)
THEOREM OnceApplied == Spec => []AppliedOnce
<1>1. IInv => AppliedOnce
  BY DEF IInv
<1> QED
  BY <1>1, Invariance, PTL

-----------------------------------------------------------------------------
(* The committed ledgers are a Program lifecycle. *)

(* The lifecycle speaks of the same states. *)
LEMMA SameStates ==
    /\ Lifecycle!NewProgram = NewProgram
    /\ Lifecycle!Absent = [NewProgram EXCEPT !.status = "absent"]
    /\ Lifecycle!Allowed = Allowed /\ Lifecycle!WorkMutable = WorkMutable
    /\ \A s, target : Lifecycle!WithStatus(s, target) = WithStatus(s, target)
    /\ \A s, w, state : Lifecycle!WithWork(s, w, state) = WithWork(s, w, state)
    /\ \A s : Lifecycle!Revised(s) = Revised(s)
<1>1. Lifecycle!NewProgram = NewProgram
  BY DEF Lifecycle!NewProgram, NewProgram
<1>2. Lifecycle!Absent = [NewProgram EXCEPT !.status = "absent"]
  BY <1>1 DEF Lifecycle!Absent
<1>3. Lifecycle!WorkMutable = WorkMutable
  BY DEF Lifecycle!WorkMutable, WorkMutable
<1>4. Lifecycle!Statuses = Statuses /\ Lifecycle!Terminal = Terminal
  BY DEF Lifecycle!Statuses, Statuses, Lifecycle!Terminal, Terminal
<1>5. Lifecycle!Allowed = Allowed
  <2> DEFINE F(s) ==
        CASE s = "created"            -> {"active", "cancelled"}
          [] s = "active"             -> {"blocked", "completion_pending", "failed", "cancelled"}
          [] s = "blocked"            -> {"active", "failed", "cancelled"}
          [] s = "completion_pending" -> {"active", "blocked", "completed", "failed", "cancelled"}
          [] s \in Terminal           -> {}
  <2>1. Allowed = [s \in Statuses |-> F(s)]
    BY DEF Allowed
  <2>2. Lifecycle!Allowed = [s \in Lifecycle!Statuses |->
            CASE s = "created"            -> {"active", "cancelled"}
              [] s = "active"             -> {"blocked", "completion_pending", "failed", "cancelled"}
              [] s = "blocked"            -> {"active", "failed", "cancelled"}
              [] s = "completion_pending" -> {"active", "blocked", "completed", "failed", "cancelled"}
              [] s \in Lifecycle!Terminal -> {}]
    BY DEF Lifecycle!Allowed
  <2>3. Lifecycle!Allowed = [s \in Statuses |-> F(s)]
    BY <1>4, <2>2
  <2> HIDE DEF F
  <2> QED
    BY <2>1, <2>3
<1>6. /\ \A s, target : Lifecycle!WithStatus(s, target) = WithStatus(s, target)
      /\ \A s, w, state : Lifecycle!WithWork(s, w, state) = WithWork(s, w, state)
  BY DEF Lifecycle!WithStatus, WithStatus, Lifecycle!WithWork, WithWork
<1>7. \A s : Lifecycle!Revised(s) = Revised(s)
  BY <1>6 DEF Lifecycle!Revised, Revised
<1> QED
  BY <1>1, <1>2, <1>3, <1>5, <1>6, <1>7

LEMMA DurableIs ==
    ASSUME NEW p \in Programs
    PROVE  Durable[p] = IF ledger[p] = <<>> THEN Lifecycle!Absent ELSE LastSnapshot(p)
BY SameStates DEF Durable

LEMMA DurableStays == UNCHANGED ledger => UNCHANGED Durable
BY DEF Durable, LastSnapshot

(* The commit of a change is a step of the lifecycle. *)
LEMMA ChangesAreSteps ==
    ASSUME IInv, NEW p, NEW r, NEW c, NEW n, NEW e, Commits(p, r, c, n, e)
    PROVE  Lifecycle!Next
<1> USE DEF Commits
<1> DEFINE k == Append(ledger[p], e)
           D == Durable
           t == e.snapshot
<1>1. ledger[p] \in Seq(Event)
  BY DEF IInv, StoreTyped
<1>2. k # <<>> /\ k[Len(k)].snapshot = t
  BY <1>1, HistoryGrows
<1>3. ledger' = [ledger EXCEPT ![p] = k]
  OBVIOUS
<1> HIDE DEF k
<1>4. \A q \in Programs : ledger'[q] = IF q = p THEN k ELSE ledger[q]
  BY <1>3 DEF IInv, StoreTyped
<1>5. D' = [q \in Programs |-> IF q = p THEN t ELSE D[q]]
  <2>1. \A q \in Programs :
            (IF ledger'[q] = <<>> THEN [NewProgram EXCEPT !.status = "absent"]
                                  ELSE ledger'[q][Len(ledger'[q])].snapshot)
              = IF q = p THEN t ELSE D[q]
    <3> SUFFICES ASSUME NEW q \in Programs
                 PROVE  (IF ledger'[q] = <<>> THEN [NewProgram EXCEPT !.status = "absent"]
                                              ELSE ledger'[q][Len(ledger'[q])].snapshot)
                           = IF q = p THEN t ELSE D[q]
      OBVIOUS
    <3>1. D[q] = IF ledger[q] = <<>> THEN [NewProgram EXCEPT !.status = "absent"]
                                     ELSE ledger[q][Len(ledger[q])].snapshot
      BY DEF Durable, LastSnapshot
    <3> HIDE DEF D, t
    <3>2. CASE q = p
      <4>1. ledger'[q] = k
        BY <1>4, <3>2
      <4>2. k # <<>> /\ k[Len(k)].snapshot = t
        BY <1>2 DEF t
      <4> QED
        BY ONLY <4>1, <4>2, <3>2
    <3>3. CASE q # p
      BY <1>4, <3>1, <3>3
    <3> QED
      BY <3>2, <3>3
  <2>2. D' = [q \in Programs |->
                 IF ledger'[q] = <<>> THEN [NewProgram EXCEPT !.status = "absent"]
                                      ELSE ledger'[q][Len(ledger'[q])].snapshot]
    BY DEF Durable, LastSnapshot
  <2> HIDE DEF D
  <2> QED
    BY <2>1, <2>2
<1>6. D = [q \in Programs |-> D[q]]
  BY DEF Durable
<1> HIDE DEF D, t
<1>7. D' = [D EXCEPT ![p] = t]
  BY <1>5, <1>6
<1>8. CASE ledger[p] = <<>>
  <2>1. D[p] = Lifecycle!Absent /\ t = NewProgram
    BY <1>8, DurableIs, HistoryFollows DEF D, t
  <2>2. Lifecycle!Create(p)
    BY <1>7, <2>1, SameStates DEF Lifecycle!Create, D
  <2> QED
    BY <2>2 DEF Lifecycle!Next
<1>9. CASE ledger[p] # <<>>
  <2>1. D[p] = LastSnapshot(p) /\ Moves(D[p], t) /\ D[p] \in Snapshots
    BY <1>9, DurableIs, HistoryFollows DEF D, t
  <2>2. D[p] # Lifecycle!Absent
    <3>1. Lifecycle!Absent.status = "absent"
      BY DEF Lifecycle!Absent, NewProgram
    <3>2. D[p].status \in Statuses
      BY <2>1, SnapshotsChange
    <3> QED
      BY <3>1, <3>2 DEF Statuses
  <2>3. ASSUME NEW target \in Allowed[D[p].status], t = WithStatus(D[p], target)
        PROVE  Lifecycle!Transition(p)
    BY <1>7, <2>2, <2>3, SameStates DEF Lifecycle!Transition, D
  <2>4. ASSUME D[p].status \in WorkMutable, NEW w \in WorkItems,
               \/ D[p].work[w] = "none" /\ t = WithWork(D[p], w, "open")
               \/ D[p].work[w] = "open" /\ t = WithWork(D[p], w, "satisfied")
        PROVE  Lifecycle!ChangeWork(p)
    BY <1>7, <2>4, SameStates DEF Lifecycle!ChangeWork, D
  <2>5. ASSUME t = Revised(D[p]) PROVE Lifecycle!Revise(p)
    BY <1>7, <2>2, <2>5, SameStates DEF Lifecycle!Revise, D
  <2>6. \/ \E target \in Allowed[D[p].status] : t = WithStatus(D[p], target)
        \/ /\ D[p].status \in WorkMutable
           /\ \E w \in WorkItems : \/ D[p].work[w] = "none" /\ t = WithWork(D[p], w, "open")
                                   \/ D[p].work[w] = "open" /\ t = WithWork(D[p], w, "satisfied")
        \/ t = Revised(D[p])
    BY <2>1 DEF Moves
  <2> QED
    BY <2>3, <2>4, <2>5, <2>6 DEF Lifecycle!Next
<1> QED
  BY <1>8, <1>9

(* Every step of the store is one of the lifecycle or leaves it alone:     *)
(* crashes, retries, competing writers, damage and repair do not show.     *)
THEOREM StoreImplementsLifecycle == Spec => ImplementsLifecycle
<1>1. Init => Lifecycle!Init
  BY SameStates DEF Init, Lifecycle!Init, Durable
<1>2. IInv /\ [Next]_vars => [Lifecycle!Next]_Durable
  <2> SUFFICES ASSUME IInv, [Next]_vars PROVE Lifecycle!Next \/ UNCHANGED Durable
    OBVIOUS
  <2>1. ASSUME NEW pr \in Processes, Commit(pr) PROVE Lifecycle!Next \/ UNCHANGED Durable
    <3>1. txn \in Transactions /\ (ServesRequest \/ RepairsRow)
      BY <2>1, InTransactionIs DEF Commit
    <3>2. CASE ServesRequest
      BY <2>1, <3>2, CommitOfRequest, ChangesAreSteps
    <3>3. CASE RepairsRow
      <4>1. ledger' = [ledger EXCEPT ![txn.program] = ledger[txn.program]]
        BY <2>1, <3>3 DEF Commit, RepairsRow
      <4>2. UNCHANGED ledger
        BY <4>1 DEF IInv, StoreTyped
      <4> QED
        BY <4>2, DurableStays
    <3> QED
      BY <3>1, <3>2, <3>3
  <2>2. CASE \A pr \in Processes : ~Commit(pr)
    <3>1. UNCHANGED ledger
      BY <2>2 DEF Next, vars, Serve, Open, Close, Crash, Abort, CommitFails, Begin, Refuse, Rebuild, Plan, Damage,
                  AppendEvent, WriteProjection, Acknowledge, RepairRow
    <3> QED
      BY <3>1, DurableStays
  <2> QED
    BY <2>1, <2>2
<1> QED
  BY <1>1, <1>2, Invariance, PTL DEF Spec, ImplementsLifecycle, Lifecycle!Spec
=============================================================================
