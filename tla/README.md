# AI Capital: TLA+ models and proofs

AI Capital is a local kernel for autonomous work: Programs are durable, models only propose, and the Host decides what may
touch the world, records what did, and certifies completion. This directory holds TLA+ modules of that kernel and of the
local product around it, TLC configurations that check them on small instances, and proofs that TLAPS checks for every
value of the constants. Paths below are relative to `src/ai_capital/`.

    tlc -workers 2 -config OperationHost.cfg MCOperationHost
    tlapm OperationHost_proofs.tla

`PROJECT.json` lists the runs, the source lines behind each definition, a mutant (a plausible bug) that each property
catches, the hazards of the code with the properties that watch them, and the theorems.

## 1. The system

One process at a time owns the SQLite file (`LocalWriterLock`), on one connection and one thread. Every write is a
`BEGIN IMMEDIATE ... COMMIT` transaction that appends Events to one global ledger and updates projection rows. So nothing
runs in parallel *inside* the store. What makes the code hard is elsewhere:

- **death between transactions**: an execution is six transactions with an external call among them;
- **callbacks**: `provider.generate`, `EffectExecutor.execute`, `EffectReconciler.reconcile` and `Verifier.verify` run
  outside any transaction and may re-enter the host, so calls nest and state read before a callback is stale after it;
- **time between calls**: a decision, an approval, a receipt or a Verification is used by a later call, perhaps of a later
  process, after any of the facts it rests on has moved, the clock among them;
- **lost acknowledgements**: a caller that was told nothing sends its change again;
- **failing calls that leave something behind**: a COMMIT that raises leaves its transaction open, a directory flush that
  fails leaves the directory, a link that fails leaves an Operation nobody refers to, and the process goes on.

### Components

| component (code) | state it keeps | operations | interacts with | hard behaviour | correct when |
|---|---|---|---|---|---|
| Program store (`kernel/durable_program.py`, `program_state.py`, `events.py`) | ledger, projection row per Program, writer lock | create, transition, add/satisfy work, rebuild, verify, repair | everything: it owns the transactions | death and faults inside a transaction, a COMMIT that raises, lost acknowledgement, damaged rows, two processes | row = replay of the ledger; a change is applied once; any committed history replays |
| Authority (`authority.py`, `authority_store.py`) | policies, grants, decisions, approvals, receipts | decide, approve, issue, consume, grant, revoke, install policy | reads Program, Actor, Capability | facts and clock move between decision, issue and use | spent only while permitted by the facts of that moment; one receipt per decision, one use per approval |
| Operation journal and host (`operation_journal.py`, `operations.py`) | Operation records, execution and reconciliation receipts | create_intent, mark_admitted, mark_running, finish, fail_before_dispatch, recover_interrupted, apply_reconciliation | spends receipts; calls executor and reconciler | death or an exception between transactions, nesting, late answers, uncertain effects | the journal never says of an effect what is not so; at most one dispatch per authority |
| Verification and completion (`verification.py`, `completion.py`) | contracts, Verifications, blockers, certificates | register, run, open/resolve blocker, decide | reads Program, Operations, Claims; calls verifiers; transitions the Program | facts move under a verifier or after its PASS | a certificate rests on current facts and leaves nothing open |
| Local operators (`product/capability_operator.py`, `program_operator.py`, `kernel/program_control.py`) | pause/resume history; nothing else of their own | start, pause, resume, cancel, invoke, approve, execute_approved | compose all of the above, one command per process | death or failure between effect and reference; approval used much later | nothing is dispatched while paused; the control history verifies |
| Claims (`claim_store.py`) | Claims, their history, links to Evidence, successors | create, add_reference, support, contradict, supersede | read by verification and Context | every reading compares four copies of the story; chains of successors | every Claim reads; what a Verification rests on does not change under it |
| Evidence store (`evidence_store.py`) | artifacts as files, Evidence rows | admit, get | read by Claims, verification, Context | bytes, names, directories and rows become durable one after the other | the bytes of admitted Evidence exist |
| Actors and Capabilities (`actor_store.py`, `capability_store.py`, `capability_broker.py`, `ownership.py`) | identities, generations, bindings | register, replace, snapshot | read by authority and inference | stale generations and revisions | a stale holder is fenced |
| Providers (`product/provider_configuration.py`, `provider_operator.py`, `actor_provider.py`) | configuration revisions per provider; the binding of each Actor generation to one of them | register, update, show, rebind | Actor store; inference | read, think, write; rebound and back | no update is lost; an effect is authorised for the configuration that asked |
| Inference host (`inference.py`, `bounded_inference.py`) | attempt receipts, turns | infer | provider callback; Program, Actor, Context | answer to a question about a state that is gone | an accepted turn belongs to current facts; every answer is recorded |
| Bounded Context (`context.py`) | persisted sources, Context receipts, recall index; columns and triggers on the Events | persist, compile, recall, and rebuild all of it at every start | reads every store; read by inference | budgets; controls that must not be demoted; rows edited or deleted outside the Host | the best choice under the budget; what is left out is named; only what was appended is read; no control is missed |
| Workspace snapshots (`product/workspace_*.py`) | blobs as files, metadata rows, snapshots | capture, show | Program store, file system, Evidence directory | files edited while they are read; directories that cannot be scanned; files before rows | the files of a snapshot were together in the workspace at one moment, and it reads |
| Program bundles (`product/program_bundle_*.py`) | imported bundles and their artifacts | export, import | snapshots, audit | import half way, repeated | an imported bundle reads; what is exported is accepted |
| Audit views (`product/audit_operator.py`) | nothing of their own | asks, approve, audit of Operations, Evidence, Verifications | join every store | a legal history it does not foresee | every legal history is accepted |

`PROJECT.json` "components" lists every part with what is modelled of it.

## 2. The modules

| module | models | kind |
|---|---|---|
| `ProgramStates` | statuses, allowed transitions, what a change does to a snapshot | pure definitions, shared |
| `ProgramLifecycle` | the life of Programs as callers see it | abstract specification |
| `ProgramStore` | ledger, rows, lock, transactions, retries, damage | detailed; implements `ProgramLifecycle` |
| `AuthorityReceipts` | what Authority promises to whoever spends a receipt | abstract specification |
| `Authority` | policy, grants, decisions, approvals, receipts, changing facts | detailed; implements `AuthorityReceipts` |
| `EffectTruth` | what the journal promises about effects | abstract specification |
| `OperationHost` | the Operation journal and its host, over `AuthorityReceipts` | detailed; implements `EffectTruth` |
| `Completion` | contracts, verifiers, blockers, certificate, over `EffectTruth` | detailed; composes Program, Operations and Claims |
| `LocalOperators` | the product's commands, over `OperationHost` and `AuthorityReceipts` | composition; implements `OperationHost` |
| `ContextSelection` | choice of Context sources under a budget, recall limits, and what is best | pure algorithms and their reference definition |
| `Inference` | Context sources, compiled receipts, model calls and their attempts | detailed; uses `ContextSelection` |
| `ClaimSupport` | what the Claim store promises to whoever relies on a Claim | abstract specification; used by `Completion` |
| `Claims` | Claims with rows, Events, links and successors | detailed; implements `ClaimSupport` |
| `EvidenceStore` | admission, down to names and bytes on disk | detailed |
| `OperationAudit` | the Events and receipts each step of `OperationHost` leaves, and what the audit and the import accept of them | composition |
| `Bindings` | provider configurations, Actor generations and their bindings, beside `Authority` | composition |
| `ContextProjections` | the tables beside the Events, their triggers and rebuilding, and rows edited by others | detailed |
| `Workspace` | capture of a workspace under edits, import of bundles, over the files of `EvidenceStore` | composition |
| `ProgramStore_proofs` | theorems about `ProgramStore` | proofs |
| `Authority_proofs` | theorems about `Authority` and `Bindings` | proofs |
| `OperationHost_proofs` | theorems about `OperationHost`, `OperationAudit` and `LocalOperators` | proofs |
| `Completion_proofs` | theorems about `Completion` | proofs |
| `Inference_proofs` | theorems about `ContextSelection` and `Inference` | proofs |
| `ContextProjections_proofs` | theorems about `ContextProjections` | proofs |
| `EvidenceStore_proofs` | theorems about `EvidenceStore` and `Workspace` | proofs |
| `Claims_proofs` | theorems about `Claims` | proofs |
| `MC*` | TLC instances: sets of terms, policies, changes; symmetry | |

Modules are layered through their abstract specifications: `OperationHost` uses Authority only as `AuthorityReceipts`, and
`Completion` uses the journal only as `EffectTruth` and the Claims only as `ClaimSupport`; each is shown to be implemented by
the detailed module below it.

### How state and actions correspond to the code

**ProgramStore.** `ledger[p]` are the committed `program.*` Events, each with its type and snapshot (canonical JSON and
digests are left out; a row that fails its digest is `Corrupt`). `txn` is the one open transaction with its uncommitted
ledger and row; `Begin`, `AppendEvent`, `WriteProjection`, `Commit`, `Acknowledge` are the steps of `_commit_change` in
order, with the fault hooks between them; `Abort` is an exception of the body and its ROLLBACK. A COMMIT that raises
(`CommitFails`) does so after the `except` that rolls back: the caller is told that its change failed, the transaction stays
open, and the store is `Stuck`. The process then reads the row it has not committed (`Seen`) and plans by it, and each later
BEGIN of it raises, which tells its caller nothing new and is a stutter here; only `Close` and `Crash` drop the transaction
(`RolledBack`). Where SQLite itself rolls back on the error, the outcome is that of `Abort`. `Crash` loses the transaction
and the lock. The other modules take a failing transaction as one that was rolled back. A caller `Plan`s against the revision
it read and retries until answered. `Rebuild` reads the ledger outside any transaction and `RepairRow` writes later, as
`repair_projection` does.

**Authority.** Each call of `AuthorityEngine` is one action, because it reads and commits under the lock with no callback in
between. `Verdict` is `_expected_decision`; `SameRevisions` are the checks of issue and consume on revisions and status,
`SameSemantics` is `_validate_decision_semantics`, which recomputes the verdict from today's grants and policy. `ClockTick`
starts or expires a grant, with no Event to notice it by. `AskIsCorrupt` is what `_ask_view` and `_validate_current_ask` of the
audit raise `IntegrityViolation` for, as opposed to finding an ask stale.

**Bindings.** `providers[p]` is the immutable history of a provider, `bound[n]` the model binding of an Actor generation,
`seen[k]` what a caller read before it thinks and writes. Every write names the revision or generation it read, and other
callers (`UpdateAtOnce`, `Unbind`), and all of `Authority`, come in between. `basis` and `decidedFor` are histories.

**OperationHost.** `stack` is the nesting of host calls in the process: `execute_authorized`, `reconcile`,
`recover_interrupted`. Only the innermost moves, and new ones begin only when there is none or the innermost is inside its
callback. `world` and `sent` are the truth outside the host: no code of the repository reads them. `Crash` empties the
stack at any point; `recover_interrupted` sweeps the list of Operations it read first, one transaction for each. `Raise`
ends the innermost call with the process alive: a transaction of the journal fails, the reconciler raises, or its answer is
refused. What the call had open stays open, and the caller it was nested in may go on.

**OperationAudit.** Each action is one of `OperationHost` conjoined with the Event and the receipt its transaction inserts.
`EventAccepted` is `_operation_events` of the audit, one operator for each type of Event it knows, and `ImportAccepts` is
`_validate_operation` of the bundle, its comparisons of the reconciliation status included.

**Completion.** `asked` are the verifiers being called, innermost last, each with the Event sequence at which it was asked
(`evaluation_boundary`) and, as history only, what it was shown. `VerifierAnswers` re-checks inside its transaction what
`run` re-checks. `Certifiable` is `_evaluate`. Only Events whose order something depends on are counted in `sequence`.

**LocalOperators.** Each command is a call in progress (`call`), on top of the host's own stack. `_require_program_ready` is
`Ready`; `_link_operation`, a Program revision of its own after the execution, is `LinkOperation`. Deny, ask or allow is
chosen freely, `Authority` being checked apart. The module extends `OperationHost` and conjoins its actions to the commands,
which take the host's calls one at a time: none of them nests. `CallRaises` ends a command at any step with its process
alive, also at `_link_operation`. No command recovers interrupted Operations, so no action does.

**Inference.** `calls` is the nesting of provider calls: each is `generating`, and the innermost may be `stale`, between the
transaction that found its answer out of date and the one that keeps it so. Compiling runs without a callback and is one
action. `Fresh` is `validate_success_freshness` of the bounded host, run inside the recording transaction. `answered` and
`lost` are histories that only properties read, apart from keeping the identity of an attempt from being used twice. An
answer is `lost` by a death (`Crash`) or when the transaction of `record_attempt` fails (`RecordFails`). Of a source only
class, Program revision and size are kept; Actor replacement is a new `generation`. Snapshot of Capabilities, coverage flag
and the preflight of Evidence are left out: they add entries and refusals, no order.

**ContextProjections.** `event[e]` is a row of `events` with the columns `context.py` adds; `recallRow`, `sourceRow`,
`receiptRow`, `receiptIndex` are its projections and `controlGuard`, `compiledGuard` the tables of invalidated Events.
`UpdateEvent` is one direct `UPDATE` with the four triggers that fire on it, `DeleteEvent` one direct `DELETE` of an Event,
on which no trigger fires, so that its projections stay until they are rebuilt without it, `LoseProjection` a projection row
deleted or damaged, and `Start` the rebuilding of `_migrate` at the current schema version, all of it or nothing. A
compilation is two steps because a caller may hold the result of the first; what it chooses is in `ContextSelection`. The
faults reach what a row authenticates (text, type, digest, columns), not the keys of a projection row, and never the guard
tables. `_next_sequence` gives the highest sequence plus one, so a new Event may take over the sequence of a deleted one
(`reused`). `edited`, `blind` and `reused` say which Events a direct write changed, and which controls nothing tells of any
more or the guard cannot name.

**Claims.** Each method of `ClaimRepository` is one action, one transaction without callback. `Readable` is all that `get`
compares, and guards every change, as `get` does. Of Evidence only whether it is admitted is kept.

**EvidenceStore.** One call at a time; its steps are the system calls of `_mkdir_durable` and `_store_artifact` and the
transaction. A name is `named` until the directory it is in is flushed, and only then survives a loss of power; bytes are safe
once their file is flushed. The temporary file has a random name and is seen by nobody, so it is part of the call. The files
behave as POSIX promises; the write-through replacement of Windows is stronger. A COMMIT of SQLite is taken as durable.
A call may fail or die at every step, the flush of a new directory included: the directory is then `abandoned`, since no
later call finds it missing, until a call makes another directory beside it and flushes both. Contents whose name was durable
are `orphaned` when a loss of power takes an abandoned directory above them, until they are stored again.

**Workspace.** `store_file` repeats the steps of `_store_artifact` with the same layout, under a root that may be the same
directory; so it runs on the files of `EvidenceStore`, and Evidence, snapshots and bundles share names, deaths and power
failures. `Edit` changes a file at any moment, also between two steps of a capture. Reading one file is one step: the
comparisons of identity, size and time around it turn a concurrent change into a refusal. A path never returns to contents it
had before, since no reading could tell that from no change. A listing may pass over a path that is there (`List`):
`os.walk` is given no `onerror` and goes on without a directory it cannot scan. When both listings do, the snapshot is
recorded without the files in it, and nothing says so; `unscanned` are those the second one passed over.

What a snapshot shows is less than "the workspace of one moment". All the files in it were there together, at one moment; and
each path that is not in it was absent at such a moment or `unscanned`, but not all of them at the same one. The second
listing is not atomic: with paths x, q and r, let x be listed while q and r are absent; then r is created, x is edited and
read; the second listing finds q absent; q is created, r is deleted, and the listing finds r absent and x as it was read. The
manifest is x alone, and at no moment since x was edited was x the whole workspace. `SnapshotFilesCoexist` says what does
hold.

## 3. What is checked

States are distinct ones, after symmetry where it is used.

| run | states | question | shows |
|---|---|---|---|
| `program_store` | 223 thousand | two processes and two retrying callers through every kind of change, deaths, aborts, COMMITs that raise, damage and repair | the row is the newest Event and the ledger replays; a change whose acknowledgement was lost is not applied twice; every request is answered unless a COMMIT that raised keeps the store stuck forever (liveness); refinement of `ProgramLifecycle` |
| `authority` | 2.0 million | one decision over two grants, while Program, Capability, policy and grants drift, providers are configured and the Actor is bound elsewhere and back | a receipt is consumed only while the facts of that moment permit, and for the configuration that asked; approvals are spent exactly on issue; an ask can always be shown; no update of a provider is lost; refinement of `AuthorityReceipts` |
| `operation_host` | 371 thousand | two intents that may want one authority, mutating or observing; two deaths, a call that raises; nesting three deep | truth of the record, one dispatch per authority, journal before dispatch, recovery misses nothing, what is settled stays so; every history the host can leave is accepted by the audit and by the import; refinement of `EffectTruth`; a recovery settles every open Operation unless the process dies or a call raises (liveness) |
| `context_projections` | 351 thousand | three Events and two direct writes that change or delete any of their rows, before and after restarts and between the two halves of a compilation | only what was appended is read, and by recall never an Event that was edited; no Host control is missed but in the ways section 5 names; lost projections cost a restart and nothing else |
| `completion` | 2.9 million | a Program from creation to certificate, with two verifiers that may call one another | a completed Program has nothing open; the certificate rests on what is still so |
| `local_operators` | 421 thousand | the product's commands with a death and a failing call anywhere | nothing dispatched while paused or at another revision; the control history verifies; only a death or a failing call leaves an Operation unlinked; refinement of `OperationHost` |
| `inference` | 725 thousand | two nested model calls, sources, Program and Actor moving, a death or a record that cannot be written; two thousand requests to the selection | an answer is accepted only on current facts, every answer is recorded unless a death or a failing record loses it, a Host control keeps its standing; what is chosen is the best that fits, what is not is named |
| `stores` | 3.8 million | a capture under edits and of directories that cannot be scanned, an import and an admission into shared directories, with a fault and a loss of power at any step | the files of a snapshot were together in the workspace at one moment; what a snapshot or a bundle names can be read, and admitted bytes exist and are whole, but for what went with a directory whose first flush was interrupted |
| `claims` | 18 thousand | three Claims, two pieces of Evidence, every legal order of calls | every Claim reads; successions end; the Evidence a Verification rests on is fixed; refinement of `ClaimSupport` |
| `evidence_store_directory` | - | a disagreement, see below | violated |
| `local_operators_interrupted` | - | a disagreement, see below | violated |
| `local_operators_retry` | - | a disagreement, see below | violated |

**Bounds.** `MaxRevision`, `MaxSequence`, `MaxControl`, `MaxDrift`, `MaxDamage`, `MaxCrashes`, `MaxRaises`, `MaxFaults`,
`MaxLosses`, `MaxSnapshots`, `MaxDepth` bound how often a counter moves; each guards only the actions that move it. They are
chosen so that the interesting case fits; `completion` counts only the Events whose order matters, of which four fit. In
`program_store` every type of Event has occurred at revision 3. In `completion` a Program reaches `completion_pending` at
revision 2, so 4 leaves a rejection, a change and a second proposal. One death shows what is lost, the second shows recovery
dying; one call that raises, before, between or after the deaths, leaves what a recovery must find (the two disagreements of
the product need none, and have `MaxRaises = 0`); two nested calls show a stale outer call, three a call inside a recovery
inside a call. Two intents under one receipt are the fewest that conflict; the theorems are for any number. Two grants let
one lapse while the other still covers the effect. One Program is enough: no operation reads another Program, and the runs
that have one Program keep `Programs` a parameter where the code's rows are per Program. Two sources, two Context receipts
and two attempts are the fewest in which a nested call outdates an outer one; nine sample sources of three sizes under
budgets 4 and 6 let a large source block, and be passed over for, a small one, and two recall limits let the items or the
units run out first. Three Claims are the fewest with a successor's successor, and `MaxEvents` leaves room for two more
Events than such a chain needs. Three contents in two directories share one flush and not another; a fault and a loss of
power let the loss hit what the fault left, with bytes stored again after it, and a snapshot, an import and an admission use
the same bytes (two losses pass as well, in more time than a run should take). Two paths with three contents let a file
appear, change and vanish around the reading of another. Three revisions are the fewest in which an update by a caller two
revisions behind would be lost; two changes of binding lead away and back. Three Events, two revisions and two direct writes
let an Event be edited and put back, a control be deleted before a restart, or lose its columns and its row, with a Context
compiled before or after; two writes over four Events and three over three also pass, in more time than a run should take. A
control that has the sequence of a guarded one is reached with two writes, its unmarked edit with three. In `operation_host`
`MaxEvents` stops new reconciliations after five Events: one more than a history needs that ends unreconciled.

**Symmetry** is used for identities that no definition orders, and only in runs without liveness.

**Fairness.** `OperationAudit` (as `OperationHost`): the host is one thread, so the call it is in goes on (weak fairness of
`Step`), which includes that a callback returns; nothing makes a call begin, and a death or an exception may come instead.
`ProgramStore`: somebody opens the store again after a death or a close, a process runs what it has begun, and a caller that
again and again finds the store open is served (strong fairness of that caller's `Begin` or `Refuse`). The last is the
caller's persistence, not the code's. No error path of the store closes a stuck one: a product command does when it leaves its
`with` block, a host that keeps its repository need not. That the store does not stay stuck forever (`[]<>~Stuck`) is therefore
a premise of `RequestsAnswered` and not fairness; without it the property is false of the code.

**Deadlock** is checked for the store (`program_store`). The other models may stop: a Program may be finished, every decision
used, or a bound reached.

### Disagreements found

Each is a run of its own, whose counterexample TLC prints.

1. `local_operators_interrupted`. The pattern register (section 17, Q1) says that process death after a protected external
   effect *recovers one indeterminate Operation*. `recover_interrupted` does exactly that, and the theorems below are about
   it, but nothing in the product calls it. After such a death the next command finds the Operation `running`,
   `pending_reconciliation` does not list it, and the Program is presented as `running`, not `reconciling`.
2. `local_operators_retry`. The constitution (section 15) allows a protected mutation to be retried only when the prior
   effect is confirmed absent, idempotent by contract, or reconciled. `invoke` takes a `request_id` and does not look at
   earlier Operations of that request; `replay_is_intrinsically_safe` is never called.
3. `evidence_store_directory`. `_mkdir_durable` says that it durably persists every new directory entry. It flushes the
   parents of the directories it finds missing; when that flush fails, or the process dies before it, the directory is there,
   the repeated admission does not find it missing, and Evidence is admitted below an entry that was never flushed. A loss
   of power may then take admitted bytes, and files of snapshots and bundles (`workspace_blobs.py` repeats the code). The run
   `stores` includes that interruption, and its properties except exactly what is lost this way (`orphaned`).

## 4. What is proved

Every safety and action property of the passing runs, and every refinement they state, is a theorem: for any number of
Programs, Operations, decisions, Claims, contents, processes, deaths, faults and nested calls. Each module goes the same way:
`Init => IInv`, `IInv /\ [Next]_vars => IInv'` with one lemma per action, and the properties from `IInv`. TLC finds each
invariant to hold on the instance of the corresponding run (apart from typing over infinite sets, which it cannot enumerate).

**Assumptions** are those declared, named, in the modules and evaluated by TLC in the runs: bounds are naturals
(`BoundsAreNat`, `HostConstants`, `LocalConstants`, `ContextConstants`, `ClaimConstants`, `BindingConstants`, `StoreConstants`),
the word for "nobody" names nobody, and the shape of what is given as input (`CompletionConstants`: contract terms;
`ChangesAreKnown` and `EventBound`; `AuthorityConstants`: targets and policies; `LimitsAreNat`, `SamplesDiffer` and
`AddressesAreDisjoint`: sources have positive sizes and differ by reference; `WorkspaceConstants`: paths differ, and contents do
not come back). No theorem about a specification has a hypothesis beyond these.

**ProgramStore_proofs**: `TypeCorrect`, `IntegrityHolds`, `OnceApplied`, `StoreImplementsLifecycle`.

- `IInv == StoreTyped /\ RequestsTyped /\ OneWriter /\ CallsKnow /\ TransactionHolds /\ RetriesMiss /\ AppliedOnce /\
  RowMatchesLedger /\ LedgerReplays`.
- A caller reads outside the transaction and writes inside it. That what it read is still so rests on the lock (`OneWriter`)
  and on the transaction saying what it does, also when its COMMIT raised and nobody waits for it any more: it serves a
  request whose revision is current, or repairs a row from the newest Event (`TransactionHolds`). `CallsKnow` carries a
  repair's reading to its write.
- A retry is harmless because it misses (`RetriesMiss`): once a change is applied, the revision its caller expects is gone, or
  the Program exists already.
- The ledger replays because an appended Event is explained by the last one. `Replays` speaks of neighbours in the ledger,
  so that appending needs no induction.

**Authority_proofs**: `TypeCorrect`, `OneShotApproval`, `AsksNeverCorrupt`, `OnlyThePermittedIsConsumed`,
`AuthorityImplementsReceipts`; of `Bindings`: `BindingsAreAuthority`, `NoLostUpdate`, `SpentAsDecided`.

- `IInv == TypeOK /\ ApprovalIsSpentOnIssue /\ NeverAhead /\ NamedGrantsCover /\ VerdictStands`. A decision never names a
  revision that is yet to come (`NeverAhead`), and as long as its policy is the current one, its verdict is what that policy
  says of the grants it names (`VerdictStands`). Facts only move on, and grants that ended do not start again: a decision that
  is void stays so, which is what the mapping onto `AuthorityReceipts` needs.
- `BindingInv == BindingTyped /\ BoundIsKnown /\ SeenIsKept /\ DecidedOnGeneration /\ RevisionsBuildOnEachOther`: what a
  caller read is still what the history says of that revision, a binding names a revision that exists, and a decision belongs
  to the configuration of its generation. An Actor bound away and back has a new generation, hence no receipt of the old binding
  can be spent.

**OperationHost_proofs**

- Of `OperationHost`: `TypeCorrect`, `EffectsAreTrue`, `DispatchedOnce`, `NothingUnjournaled`, `RecoveryIsComplete`,
  `SettledForGood`, `JournalImplementsTruth`. The invariant is `IInv == TypeOK /\ StackInv /\ CallInv /\ JournalInv /\
  RecoveryMissesNothing`. The property alone is not inductive: to see that `Dispatch` sends once one has to know that a call
  in progress past `ConsumeAuthority` is the only one with that receipt, although calls nest. `StackInv` says frames are well
  formed and that only the innermost is outside its callback; `CallInv` relates each frame to the record it works on;
  `JournalInv` relates records to receipts and to the world.
- Of `OperationAudit`: `AuditIsHost`, `HistoriesAreAuditable`. To `IInv` comes, for each Operation, that the audit accepts
  its history, that the types of its Events come in order, and that the last Event and the end tell what the record says
  (`HistoriesInv`). Each step appends an Event that is acceptable at its place, and what was accepted stays so, since
  acceptance looks back only. A history in order which the audit accepts is one the import accepts.
- Of `LocalOperators`: `ProductImplementsHost`, `ControlHistoryVerifies`, `ExecutionsAreLinked`, `OnlyTheRunnableDispatch`. The
  invariant is `LocalInv == LocalTyped /\ DecidedNow /\ CallHolds /\ ControlVerifies /\ LinkInv`, beside `IInv`, which holds
  because of the refinement. Every commit voids the decisions made before it, so those still unused are of this revision
  (`DecidedNow`); a command in progress keeps its Program ready and is the only user of the host (`CallHolds`); and the
  Operations executed but not referred to are at most as many as deaths and calls that raised (`LinkInv`).

**Completion_proofs**: `TypeCorrect`, `CompletionIsSettled`, `CertificatesAreCurrent`.

- `IInv == TypeOK /\ JournalInv /\ FreshnessInv /\ CompletedMeansSettled`. `FreshnessInv` is the argument
  for the boundary check: if no mutating Operation has an Event later than the moment a verifier was asked, or a
  Verification was recorded, then what it was shown of every mutating Operation is what the journal says now.

**Inference_proofs**

- `BestOfAll`: for any finite set of sources, budget and recall limits, the greedy choice is the lexicographically best that
  fits, provided the mandatory sources fit and there is room for the envelope when there is history (without which the code
  refuses). Sorting and the greedy pass are folds over sequences. The proof does not go by the library's induction: a fold is
  given its trace, a function from positions to partial results, and what holds of all positions is shown as a set of
  naturals that contains 0 and is closed under successor (`AllNaturals`, from the well-foundedness of the order on Nat). The
  same way sizes are summed over finite sets. That greedy is best is then short: the first candidate in which another choice
  that fits differs from it is one that it has and the other has not (`GreedyIsBest`).
- `TypeCorrect`, `AnswersKept`, `StandingKept`, `BestSelection`, `AcceptedFresh`, with `IInv == Typed /\ CallsNest /\
  AttemptsTyped /\ ReceiptsDescribe /\ AnswersAreKept`. Calls are nested with an attempt of their own each (`CallsNest`), so
  that recording the inner answer touches nothing of the outer call; a receipt says of a source what it was when compiled
  (`ReceiptsDescribe`), which is what freshness compares.

**ContextProjections_proofs**: `TypeCorrect`, `OriginalsOnly`, `NoControlDropped`, `RestartsHeal`.

- `IInv == TypeOK /\ EditedAreMarked /\ RowsAreOriginal /\ ControlsAreSelected /\ DeletedAreForgotten /\ compiledGuard
  \subseteq edited`. Triggers mark an Event in the transaction that edits it, and marks are never taken back, not by putting
  the old text back nor by a restart. So a projection row is the original or fails its digest, and a control that is neither
  guarded nor blind is found by its columns. A deleted Event marks nothing: what tells of a deleted control is the row it
  leaves, which the enumeration by columns then misses, or its entry in the guard (`DeletedAreForgotten`).

**EvidenceStore_proofs**

- Of `EvidenceStore`: `TypeCorrect`, `BytesAreKept`, `NothingIsTorn`. The invariant is `IInv == Typed /\ CallTyped /\
  OnlyNewestUnflushed /\ TreeInv /\ AdmittedAreSafe`. Admitted bytes exist because they are `Safe`: file and directories above
  it are durable, or the directory is an abandoned one (`Kept`), or else they are `orphaned` (`Settled`). That a call which
  reuses a file ends with safe bytes needs `OnlyNewestUnflushed`: no directory but the one being flushed and those abandoned
  may still be lost.
- Of `Workspace`: `FilesCoexist`, `ArchivesRead`, `BytesAreKeptBesides`, with `WInv == IInv /\ JobTyped /\ CaptureInv /\
  ArchiveInv`. From the moment the second listing found the paths of the first, either there was a moment that holds all that
  was read (`Witnessed`), or a file read has changed since and is still to be read again (`Spoiled`), which will refuse the
  capture. Edits during the second reading keep that disjunction. Contents that a row names are `Settled`, in Evidence and in
  archives alike.

**Claims_proofs**: `TypeCorrect`, `ClaimsStayReadable`, `SuccessionIsFinite`, `SupportStaysFixed`, `ClaimsImplementSupport`.

- `IInv == Typed /\ NothingBeforeCreate /\ SuccessorsExist /\ EveryClaimReads /\ SuccessionEnds`. That succession ends is
  stated without chains: every nonempty set of existing Claims has a member that is not superseded or whose successor is not
  in the set. A Claim is superseded by one that is not, which is therefore an end of every set it is in.

**Only model-checked** are the two liveness properties, `RequestsAnswered` and `RecoverySettlesAll`, since liveness under
fairness and `ENABLED` are out of the prover's reach, and the three disagreements, which are counterexamples.

## 5. What is not modelled

Canonical JSON, digests, schemas and identities (`serialization.py`, `schema_codec.py`, `structured_schema.py`,
`frozen_json.py`): values are opaque; a failed integrity check appears as a damaged row or text and nowhere else. Matching of
resource patterns: a grant covers a set of targets. Input and output of executors and providers: only what they report. The
table of product Capabilities and the command line have no state. The migrations of earlier schemas (`context.py` before its
current version, the metadata of Evidence, the index of Claims) are left out: they run once, on a database an earlier version
wrote. The metadata projection of Evidence is kept by a trigger and rebuilt from Events in the way `ContextProjections`
models for Context. Of bundles the codec, of the audit the joins over rows that are never rewritten (Evidence, Verifications)
are left out: a property of them would restate them.

What a control may still escape by, in `ContextProjections`, is one of two things, which the property excepts and names:

- *its projection row is gone while its Event is deleted or lacks its columns* (`blind`). Two direct writes do it, one to each
  row; or one `DELETE` of the Event and a restart, which rebuilds the projection from the Events that are left
  (`_rebuild_persisted_source_projection`). Neither cursor of `_current_host_control_refs` then yields the control, they agree,
  and a Context is compiled without it. Where only columns were cleared, the next start restores the control; a deleted one is
  gone. Nothing outside the tables counts the Events, so no refusal is to be expected of the code;
- *it has the sequence of a deleted control that the guard has an entry for* (`reused`). The guard holds one entry for a
  sequence (`INSERT OR IGNORE`), so a later edit of the new control leaves none of its own.

What a listing may leave out of a snapshot, and what an interrupted directory flush may cost, is in section 2 (`Workspace`) and
in disagreement 3; the properties except exactly these, by `unscanned` and `orphaned`.

What remains:

1. `Evidence` metadata at its current version, as a second instance of the argument of `ContextProjections`.
2. Abstract specifications of what Evidence and Context promise to those who use them, as `ClaimSupport` is of the Claims,
   so that `Completion` and `Inference` rest on them by name.
