------------------------------ MODULE Inference ------------------------------
(***************************************************************************)
(* A model is asked (kernel/inference.py, bounded_inference.py) about a    *)
(* Context that was compiled, receipted and stored before (context.py),    *)
(* for an Actor whose model may be replaced (actor_store.py).              *)
(*                                                                         *)
(* The provider runs in the host process and may call the host again, so   *)
(* that Program, Actor and Context sources move while it thinks, and calls *)
(* nest.  What it answers is accepted, or kept as stale, in the light of   *)
(* the facts of the transaction that records it.  Nothing durable is       *)
(* written before the answer: a process that dies loses the call, and a    *)
(* transaction that fails the answer.                                      *)
(*                                                                         *)
(* One Program and one Actor.  Addresses are numbers for the order of the  *)
(* random identities they stand for, 0 is the Program's.                   *)
(***************************************************************************)
EXTENDS ContextSelection

CONSTANTS
    Addresses,      \* of the Context sources that may be persisted
    Evidence,       \* addresses of admitted Evidence
    Size,           \* units of the entry of an address
    ProgramUnits,   \* units of the entry of the current Program
    Receipts,       \* identities of ContextReceipts
    Attempts,       \* identities of model attempts
    MaxRevision, MaxGeneration,   \* bounds on the Program and the Actor
    MaxDepth,       \* bound on nested provider calls
    MaxFaults       \* bound on process deaths and failed transactions

ASSUME AddressesAreDisjoint ==
    /\ Addresses \subseteq Nat \ {0} /\ Evidence \subseteq Nat \ {0}
    /\ Addresses \cap Evidence = {} /\ IsFiniteSet(Addresses \cup Evidence)
    /\ Size \in [Addresses \cup Evidence -> Nat \ {0}]

ASSUME BoundsAreNat ==
    /\ ProgramUnits \in Nat
    /\ {MaxRevision, MaxGeneration, MaxDepth, MaxFaults} \subseteq Nat

VARIABLES
    revision,    \* of the Program
    generation,  \* of the Actor: a new one whenever its model is replaced
    source,      \* source[s]: the persisted Context source at address s
    compiled,    \* compiled[k]: the ContextReceipt k, with its Context
    calls,       \* the provider calls in progress, innermost last
    attempt,     \* attempt[a]: the durable record of a
    answered,    \* history: attempts whose provider has come to an end
    lost,        \* history: attempts that a death or a failed transaction cut off
    faults

vars == <<revision, generation, source, compiled, calls, attempt, answered, lost, faults>>

NoSource  == [class |-> "none", revision |-> 0]
NoReceipt == [revision |-> 0, shown |-> <<>>, left |-> {}]
NoAttempt == [outcome |-> "none"]

(* _PERSISTABLE_PRIORITIES *)
PersistableClasses == {"host_control", "recent_interaction", "advisory_memory"}

Persisted == {s \in Addresses : source[s] # NoSource}

(* _current_host_control_refs *)
ControlsOf(rev) == {s \in Persisted : source[s] = [class |-> "host_control", revision |-> rev]}

-----------------------------------------------------------------------------
(* Compiling *)

Entry(s, class) == [ref |-> s, class |-> class, units |-> Size[s]]
ProgramEntry == [ref |-> 0, class |-> "current_program", units |-> ProgramUnits]

(* Controls of the current revision are shown whether asked for or not. *)
Effective(asked) == asked \cup ControlsOf(revision)

(* Mutant of Addressable: A control of another revision passes for a current one. *)
AddressableThoughStale(asked, evidence, recalled) ==
    Effective(asked) \cap recalled = {} /\ evidence \cap recalled = {}

(* What is asked for twice, or is a control of another revision, is refused. *)
Addressable(asked, evidence, recalled) ==
    /\ Effective(asked) \cap recalled = {} /\ evidence \cap recalled = {}
    /\ \A s \in Effective(asked) :
          source[s].class = "host_control" => source[s].revision = revision

Current(asked, evidence) ==
    {ProgramEntry} \cup {Entry(s, source[s].class) : s \in Effective(asked)}
                   \cup {Entry(e, "current_evidence") : e \in evidence}

History(recalled) == {Entry(s, "recalled_history") : s \in recalled}

Compilation(current, history, limits, budget) ==
    LET chosen == Chosen(current, history, limits, budget)
    IN  [revision |-> revision, shown |-> chosen.shown, left |-> chosen.left]

-----------------------------------------------------------------------------
(* Calling *)

Top == calls[Len(calls)]
Pop == SubSeq(calls, 1, Len(calls) - 1)

(* The host is idle, or a provider is running in it. *)
MayEnter == calls # <<>> => Top.at = "generating"

InProgress(a) == \E i \in DOMAIN calls : calls[i].attempt = a

Shown(k) == {c.ref : c \in ToSet(compiled[k].shown)}

(* _validate_host_control_freshness, of the receipt's revision *)
ControlsShown(k) == ControlsOf(compiled[k].revision) \subseteq Shown(k)

(* Mutant of Fresh: the hook of InferenceHost is not overridden. *)
FreshForBaseHost(call) ==
    revision = compiled[call.context].revision /\ generation = call.generation

(* validate_success_freshness, run inside the transaction *)
Fresh(call) ==
    /\ revision = compiled[call.context].revision
    /\ generation = call.generation
    /\ ControlsShown(call.context)

-----------------------------------------------------------------------------

TypeOK ==
    /\ revision \in 0 .. MaxRevision
    /\ generation \in 0 .. MaxGeneration
    /\ source \in [Addresses -> [class : PersistableClasses, revision : 0 .. MaxRevision] \cup {NoSource}]
    /\ \A k \in Receipts : compiled[k] # NoReceipt =>
          /\ compiled[k].revision \in 0 .. MaxRevision
          /\ ToSet(compiled[k].shown) \subseteq Candidates
          /\ compiled[k].left \subseteq Candidates
    /\ Len(calls) <= MaxDepth
    /\ \A i \in DOMAIN calls :
          calls[i] \in [attempt : Attempts, context : Receipts, generation : 0 .. MaxGeneration,
                        at : {"generating", "stale"}]
    /\ \A i, j \in DOMAIN calls : i < j =>
          calls[i].at = "generating" /\ calls[i].attempt # calls[j].attempt
    /\ \A a \in Attempts : attempt[a].outcome \in {"none", "failed", "stale", "succeeded"}
    /\ answered \subseteq Attempts /\ lost \subseteq Attempts
    /\ faults \in 0 .. MaxFaults

Init ==
    /\ revision = 0
    /\ generation = 0
    /\ source = [s \in Addresses |-> NoSource]
    /\ compiled = [k \in Receipts |-> NoReceipt]
    /\ calls = <<>>
    /\ attempt = [a \in Attempts |-> NoAttempt]
    /\ answered = {}
    /\ lost = {}
    /\ faults = 0

ReviseProgram ==
    /\ MayEnter /\ revision < MaxRevision
    /\ revision' = revision + 1
    /\ UNCHANGED <<generation, source, compiled, calls, attempt, answered, lost, faults>>

(* replace_binding *)
ReplaceBinding ==
    /\ MayEnter /\ generation < MaxGeneration
    /\ generation' = generation + 1
    /\ UNCHANGED <<revision, source, compiled, calls, attempt, answered, lost, faults>>

(* persist_source: one transaction, at the Program's revision. *)
PersistSource(s, class) ==
    /\ MayEnter
    /\ source[s] = NoSource
    /\ source' = [source EXCEPT ![s] = [class |-> class, revision |-> revision]]
    /\ UNCHANGED <<revision, generation, compiled, calls, attempt, answered, lost, faults>>

(* ContextCompiler.compile, in one go: nothing runs between the selection   *)
(* and the transaction that stores it and looks again at the revision and   *)
(* its controls.  Refused requests store nothing.                           *)
Compile(k) ==
    /\ MayEnter
    /\ compiled[k] = NoReceipt
    /\ \E asked \in SUBSET Persisted, evidence \in SUBSET Evidence :
       \E recalled \in SUBSET (Persisted \cup Evidence), budget \in Budgets, limits \in RecallLimits :
         LET current == Current(asked, evidence)
             history == History(recalled)
         IN  /\ Addressable(asked, evidence, recalled)
             /\ Units(Mandatory(current)) <= budget
             /\ history # {} => Envelope <= limits.units
             /\ compiled' = [compiled EXCEPT ![k] = Compilation(current, history, limits, budget)]
    /\ UNCHANGED <<revision, generation, source, calls, attempt, answered, lost, faults>>

(* What BoundedInferenceHost.infer asks of the receipt it is given. *)
Askable(k) == compiled[k] # NoReceipt /\ ControlsShown(k)

(* InferenceHost.infer, as far as provider.generate *)
AskProvider(a, k) ==
    /\ MayEnter /\ Len(calls) < MaxDepth
    /\ attempt[a] = NoAttempt /\ a \notin answered \cup lost /\ ~InProgress(a)
    /\ Askable(k) /\ compiled[k].revision = revision
    /\ calls' = Append(calls, [attempt |-> a, context |-> k, generation |-> generation,
                               at |-> "generating"])
    /\ UNCHANGED <<revision, generation, source, compiled, attempt, answered, lost, faults>>

(* record_attempt *)
Record(outcome) ==
    /\ attempt' = [attempt EXCEPT ![Top.attempt] =
          [outcome |-> outcome, context |-> Top.context, generation |-> Top.generation]]
    /\ calls' = Pop

(* It raised, or its answer is no ModelTurn of this attempt. *)
ProviderFails ==
    /\ calls # <<>> /\ Top.at = "generating"
    /\ answered' = answered \cup {Top.attempt}
    /\ Record("failed")
    /\ UNCHANGED <<revision, generation, source, compiled, lost, faults>>

(* A turn is accepted only by a transaction that finds everything fresh;    *)
(* otherwise that one is rolled back.                                       *)
ProviderAnswers ==
    /\ calls # <<>> /\ Top.at = "generating"
    /\ answered' = answered \cup {Top.attempt}
    /\ IF Fresh(Top)
       THEN Record("succeeded")
       ELSE /\ calls' = [calls EXCEPT ![Len(calls)].at = "stale"]
            /\ UNCHANGED attempt
    /\ UNCHANGED <<revision, generation, source, compiled, lost, faults>>

(* Mutant of RecordStale: the stale answer is reported, not recorded. *)
RecordStaleUnkept ==
    /\ calls # <<>> /\ Top.at = "stale"
    /\ calls' = Pop
    /\ UNCHANGED <<revision, generation, source, compiled, attempt, answered, lost, faults>>

(* A second transaction keeps the turn as stale. *)
RecordStale ==
    /\ calls # <<>> /\ Top.at = "stale"
    /\ Record("stale")
    /\ UNCHANGED <<revision, generation, source, compiled, answered, lost, faults>>

(* The process dies with every call that is in progress; another one opens  *)
(* the store.                                                               *)
Crash ==
    /\ calls # <<>> /\ faults < MaxFaults
    /\ faults' = faults + 1
    /\ calls' = <<>>
    /\ lost' = lost \cup {calls[i].attempt : i \in DOMAIN calls}
    /\ UNCHANGED <<revision, generation, source, compiled, attempt, answered>>

(* The transaction of record_attempt fails with the process alive: the call *)
(* raises and nothing of the answer is kept.                                *)
RecordFails ==
    /\ calls # <<>> /\ faults < MaxFaults
    /\ faults' = faults + 1
    /\ answered' = answered \cup {Top.attempt}
    /\ lost' = lost \cup {Top.attempt}
    /\ calls' = Pop
    /\ UNCHANGED <<revision, generation, source, compiled, attempt>>

Next ==
    \/ ReviseProgram \/ ReplaceBinding
    \/ \E s \in Addresses, class \in PersistableClasses : PersistSource(s, class)
    \/ \E k \in Receipts : Compile(k)
    \/ \E a \in Attempts, k \in Receipts : AskProvider(a, k)
    \/ ProviderFails \/ ProviderAnswers \/ RecordStale \/ RecordFails \/ Crash

Spec == Init /\ [][Next]_vars

-----------------------------------------------------------------------------
(* Safety *)

Compiled(k) == compiled[k] # NoReceipt

(* A turn is accepted only if nobody revised the Program or replaced the    *)
(* Actor's model since it was asked, and the model saw, as controls, all    *)
(* the host controls in force when the answer is recorded, those persisted  *)
(* during the call included; however deeply the calls are nested.           *)
AcceptedStep ==
    \A a \in Attempts : attempt[a] = NoAttempt /\ attempt'[a].outcome = "succeeded" =>
        LET answer == attempt'[a] IN
        /\ compiled[answer.context].revision = revision
        /\ generation = answer.generation
        /\ \A s \in ControlsOf(revision) :
              Entry(s, "host_control") \in ToSet(compiled[answer.context].shown)

AcceptedOnCurrentFacts == [][AcceptedStep]_vars

(* What a provider has answered is in the journal of attempts, accepted,    *)
(* failed or stale, unless the process died in the middle or the record     *)
(* itself could not be written.                                             *)
AnswersAreKept ==
    \A a \in answered : attempt[a] # NoAttempt \/ InProgress(a) \/ a \in lost

(* A Context never shows a control of another revision as one in force, nor *)
(* a control in force as mere history.                                      *)
ControlsKeepTheirStanding ==
    \A k \in Receipts : Compiled(k) =>
        \A c \in ToSet(compiled[k].shown) :
            /\ c.class = "host_control" => c.ref \in ControlsOf(compiled[k].revision)
            /\ c.class = "recalled_history" => c.ref \notin ControlsOf(compiled[k].revision)

(* The Context of a receipt is the best choice for every request among the  *)
(* samples, and leaves out nothing mandatory, nor anything that it shows.   *)
SelectionIsBest ==
    /\ ChoosesBest
    /\ \A k \in Receipts : Compiled(k) =>
          /\ Mandatory(compiled[k].left) = {}
          /\ ToSet(compiled[k].shown) \cap compiled[k].left = {}
=============================================================================
