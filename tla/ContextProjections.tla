-------------------------- MODULE ContextProjections --------------------------
(***************************************************************************)
(* The tables kernel/context.py keeps beside the Events: an index for      *)
(* recall, an index with the payload of every persisted source, Context    *)
(* receipts with an index of their own, and columns on the Events          *)
(* themselves.  They are written with the Event, kept by triggers of the   *)
(* database, and rebuilt at every start; an Event that was ever changed    *)
(* must not come back as Context, and a Host control must not be missed.   *)
(*                                                                         *)
(* Besides the repository, any row may be updated or deleted by a direct   *)
(* write to the database, open or closed: the fault the triggers are for.  *)
(* Such a write changes what a row authenticates, not the keys of a        *)
(* projection row; it may restore an earlier text of an Event, and it may  *)
(* delete the row of an Event, whose projections stay (no trigger is on    *)
(* DELETE) until they are rebuilt without it.                              *)
(*                                                                         *)
(* One Program.  What a compilation chooses under its budget, and what     *)
(* becomes of it, are in Inference; here it includes what it asks for.     *)
(***************************************************************************)
EXTENDS Naturals, FiniteSets

CONSTANTS
    Events,          \* identities of Events
    MaxRevision,     \* bound on the revision of the Program
    MaxFaults        \* bound on direct writes to the database

ASSUME ContextConstants == MaxRevision \in Nat /\ MaxFaults \in Nat

Sources == {"control", "advisory"}       \* context.source_persisted, by priority
Kinds   == Sources \cup {"compiled", "ordinary"}

(* The body of an Event: as appended, another one with its own digest, or   *)
(* one the digest column does not match.                                    *)
Texts    == {"original", "rewritten", "torn"}
Absent   == "absent"

VARIABLES
    event,           \* event[e]: the row of events, with its columns
    recallRow,       \* recallRow[e]: the digest in context_recall_event_index
    sourceRow,       \* sourceRow[e]: the text context_persisted_source_index holds
    receiptRow,      \* receiptRow[e]: the text context_receipts holds
    receiptIndex,    \* the Events in context_receipt_event_index
    controlGuard,    \* context_persisted_source_invalidations
    compiledGuard,   \* context_compiled_event_invalidations
    revision,        \* of the Program
    draft,           \* the compilation in progress
    open,            \* whether a ContextRepository was constructed
    deleted,         \* the Events whose row a direct write deleted
    reused,          \* the sources that may have the sequence of a deleted Event that is guarded
    edited,          \* the Events whose text or type a direct write ever changed
    blind,           \* the controls that lost both what selects them and their row
    faults           \* direct writes so far

projections == <<recallRow, sourceRow, receiptRow, receiptIndex>>
guards == <<controlGuard, compiledGuard>>
rows == <<event, deleted, reused>>
history == <<edited, blind>>
vars == <<rows, projections, guards, revision, draft, open, history, faults>>

NoDraft == [revision |-> 0, refs |-> {}, active |-> FALSE]

(* typed: the event_type column is that of the kind.  selector: the         *)
(* context_source columns, by their priority.  includes: the sources a      *)
(* compiled Event shows.                                                    *)
NoEvent == [kind |-> Absent, at |-> 0, text |-> "original", typed |-> TRUE,
            selector |-> Absent, invalid |-> FALSE, includes |-> {}]

(* The Events that have a row. event[e] still says of a deleted one what it *)
(* was.                                                                     *)
Appended == {e \in Events : event[e] # NoEvent} \ deleted

IsSource(e)   == e \in Appended /\ event[e].kind \in Sources /\ event[e].typed
IsCompiled(e) == e \in Appended /\ event[e].kind = "compiled" /\ event[e].typed

(* What the columns of an Event say of its text. *)
Digest(e) == IF event[e].text = "rewritten" THEN "rewritten" ELSE "original"

(* _decode_event_row *)
Authentic(e) == e \in Appended /\ event[e].text # "torn" /\ event[e].typed

TypeOK ==
    /\ event \in [Events -> [kind : Kinds \cup {Absent}, at : 0 .. MaxRevision, text : Texts,
                             typed : BOOLEAN, selector : Sources \cup {Absent},
                             invalid : BOOLEAN, includes : SUBSET Events]]
    /\ {recallRow, sourceRow, receiptRow} \subseteq [Events -> Texts \cup {Absent}]
    /\ receiptIndex \subseteq Events
    /\ controlGuard \subseteq Events /\ compiledGuard \subseteq Events
    /\ revision \in 0 .. MaxRevision
    /\ draft \in [revision : 0 .. MaxRevision, refs : SUBSET Events, active : BOOLEAN]
    /\ open \in BOOLEAN /\ deleted \subseteq Events /\ reused \subseteq Events
    /\ edited \subseteq Events /\ blind \subseteq Events
    /\ faults \in 0 .. MaxFaults

Init ==
    /\ event = [e \in Events |-> NoEvent]
    /\ recallRow = [e \in Events |-> Absent]
    /\ sourceRow = recallRow /\ receiptRow = recallRow
    /\ receiptIndex = {} /\ controlGuard = {} /\ compiledGuard = {}
    /\ revision = 0 /\ draft = NoDraft /\ open = TRUE
    /\ deleted = {} /\ reused = {} /\ edited = {} /\ blind = {} /\ faults = 0

-----------------------------------------------------------------------------
(* Reading *)

(* _persisted_source_preflight *)
SourceAccepted(e) ==
    /\ IsSource(e) /\ ~event[e].invalid
    /\ sourceRow[e] \notin {Absent, "torn"}
    /\ sourceRow[e] = Digest(e)

(* _validate_recall_address, for an Event *)
RecallAccepted(e) ==
    /\ e \in Appended /\ ~event[e].invalid
    /\ recallRow[e] = Digest(e)
    /\ IsSource(e) => SourceAccepted(e)

(* The texts that come back from persisted_source, from recall (where the   *)
(* payload is that of the index: _materialize_persisted_source) and from    *)
(* get, for a compiled Context.  An empty set is a refusal.                 *)
ReadSource(e) == IF SourceAccepted(e) /\ Authentic(e) THEN {event[e].text} ELSE {}

Recalled(e) ==
    IF ~RecallAccepted(e) THEN {}
    ELSE IF sourceRow[e] # Absent THEN {sourceRow[e]}
    ELSE IF Authentic(e) THEN {event[e].text}
    ELSE {}

ReadReceipt(e) ==
    IF /\ e \in receiptIndex /\ receiptRow[e] \notin {Absent, "torn"}
       /\ Authentic(e) /\ event[e].text = receiptRow[e]
    THEN {receiptRow[e]} ELSE {}

Readings(e) == ReadSource(e) \cup Recalled(e) \cup ReadReceipt(e)

SelectedControls ==
    {e \in Events : IsSource(e) /\ event[e].selector = "control" /\ event[e].at = revision}

ProjectedControls ==
    {e \in Events : sourceRow[e] # Absent /\ event[e].kind = "control" /\ event[e].at = revision}

(* _persisted_source_event_metadata_digest, over the columns of the Event *)
Sealed(e) == event[e].selector = event[e].kind /\ Digest(e) = "original"

(* _current_host_control_refs finds no reason to refuse *)
ControlsEnumerate ==
    /\ \A e \in controlGuard : event[e].at # revision
    /\ SelectedControls = ProjectedControls
    /\ \A e \in SelectedControls : Sealed(e)

-----------------------------------------------------------------------------
(* The repository *)

(* _append_event; context_recall_event_index_insert *)
Append(e, kind, includes) ==
    /\ event[e] = NoEvent
    /\ event' = [event EXCEPT ![e] =
          [NoEvent EXCEPT !.kind = kind, !.at = revision, !.includes = includes,
                          !.selector = IF kind \in Sources THEN kind ELSE Absent]]
    /\ recallRow' = [recallRow EXCEPT ![e] = "original"]
    /\ UNCHANGED deleted

(* _next_sequence takes the highest sequence there is and adds one: that of  *)
(* a deleted Event again, if it was the newest, as soon as no row of that    *)
(* sequence is left (which Event was the newest is not modelled).            *)
SequencesFree == {d \in deleted : recallRow[d] = Absent /\ sourceRow[d] = Absent}

PersistSource(e) ==
    /\ open
    /\ \E kind \in Sources : Append(e, kind, {})
    /\ reused' \in {reused} \cup {reused \cup {e} : d \in SequencesFree \cap controlGuard}
    /\ sourceRow' = [sourceRow EXCEPT ![e] = "original"]
    /\ UNCHANGED <<receiptRow, receiptIndex, guards, revision, draft, open, history, faults>>

(* The next Event of the Program itself *)
ReviseProgram(e) ==
    /\ open /\ revision < MaxRevision
    /\ Append(e, "ordinary", {})
    /\ revision' = revision + 1
    /\ UNCHANGED <<reused, sourceRow, receiptRow, receiptIndex, guards, draft, open, history, faults>>

(* compile, up to _store_compilation: the controls in force and the sources *)
(* the caller names, each read.                                             *)
Compile ==
    /\ open /\ ~draft.active
    /\ ControlsEnumerate
    /\ \E named \in SUBSET {e \in Appended : event[e].kind = "advisory"} :
          LET refs == SelectedControls \cup named
          IN  /\ \A e \in refs : SourceAccepted(e)
              /\ draft' = [revision |-> revision, refs |-> refs, active |-> TRUE]
    /\ UNCHANGED <<rows, projections, guards, revision, open, history, faults>>

StillCurrent ==
    /\ draft.revision = revision
    /\ ControlsEnumerate
    /\ SelectedControls \subseteq draft.refs

(* _store_compilation *)
StoreCompilation(e) ==
    /\ open /\ draft.active /\ StillCurrent
    /\ Append(e, "compiled", draft.refs)
    /\ receiptRow' = [receiptRow EXCEPT ![e] = "original"]
    /\ receiptIndex' = receiptIndex \cup {e}
    /\ draft' = NoDraft
    /\ UNCHANGED <<reused, sourceRow, guards, revision, open, history, faults>>

RefuseCompilation ==
    /\ open /\ draft.active /\ ~StillCurrent
    /\ draft' = NoDraft
    /\ UNCHANGED <<rows, projections, guards, revision, open, history, faults>>

Stop ==
    /\ open
    /\ open' = FALSE /\ draft' = NoDraft
    /\ UNCHANGED <<rows, projections, guards, revision, history, faults>>

-----------------------------------------------------------------------------
(* The start: _migrate at the current schema version, one transaction *)

SourceEvents   == {e \in Appended : IsSource(e)}
CompiledEvents == {e \in Appended : IsCompiled(e)}

(* _rebuild_persisted_source_projection *)
SourcesRebuild ==
    \A e \in SourceEvents :
        IF event[e].invalid THEN e \in controlGuard ELSE Authentic(e)

(* _rebuild_receipt_projection *)
ReceiptsRebuild ==
    /\ compiledGuard = {}
    /\ \A e \in receiptIndex \cap Appended : ~event[e].invalid
    /\ \A e \in CompiledEvents : ~event[e].invalid /\ Authentic(e)

(* The source trigger sees the columns rewritten, too. *)
Reselected(e) ==
    /\ event[e].selector = "control" /\ event[e].kind # "control"
    /\ e \in SourceEvents \ reused /\ ~event[e].invalid

(* Mutant of Restored: the columns of the Event are left as they are. *)
RestoredWithoutColumns(e) == event[e]

Restored(e) ==
    IF e \in SourceEvents /\ ~event[e].invalid
    THEN [event[e] EXCEPT !.selector = event[e].kind] ELSE event[e]

(* _rebuild_recall_event_index, at this version without authenticating      *)
RecallRebuilt == [e \in Events |-> IF e \in Appended THEN Digest(e) ELSE Absent]

SourceRebuilt ==
    [e \in Events |-> IF e \in SourceEvents /\ ~event[e].invalid THEN event[e].text ELSE Absent]

ReceiptRebuilt == [e \in Events |-> IF e \in CompiledEvents THEN event[e].text ELSE Absent]

(* A Host control that nothing tells of: neither its Event, deleted or       *)
(* without its columns, nor a row, nor an entry of the guard.                *)
Forgotten ==
    {c \in Events \ controlGuard :
        /\ event[c].kind = "control" /\ sourceRow[c] = Absent
        /\ c \in deleted \/ event[c].selector = Absent}

(* audit_integrity has nothing to object to after that.                      *)
Start ==
    /\ ~open /\ SourcesRebuild /\ ReceiptsRebuild
    /\ event' = [e \in Events |-> Restored(e)]
    /\ recallRow' = RecallRebuilt
    /\ sourceRow' = SourceRebuilt
    /\ receiptRow' = ReceiptRebuilt
    /\ receiptIndex' = CompiledEvents
    /\ controlGuard' = controlGuard \cup {e \in Events : Reselected(e)}
    /\ open' = TRUE
    /\ UNCHANGED <<deleted, reused, compiledGuard, revision, draft, edited, faults>>
    /\ blind' = {e \in blind : ~IsSource(e) \/ event[e].invalid} \cup Forgotten'

-----------------------------------------------------------------------------
(* Direct writes *)

Fault == faults < MaxFaults /\ faults' = faults + 1

(* Mutant of Invalid: an Event put back as it was is valid again. *)
InvalidWhileChanged(e, new) == new.text # "original" \/ ~new.typed

(* context_recall_event_integrity_invalidate, never to be cleared: *)
(* context_recall_invalidation_guard                               *)
Invalid(e, new) ==
    event[e].invalid \/ new.text # event[e].text \/ new.typed # event[e].typed

(* context_persisted_source_event_content_invalidate *)
OnlyCleared(e, new) ==
    /\ new.text = event[e].text /\ new.typed = event[e].typed
    /\ new.selector = Absent

ColumnsRestored(e, new) ==
    OnlyCleared(e, new) /\ IsSource(e) /\ sourceRow[e] # Absent

(* Mutant of GuardsControl: only a change of the text is recorded. *)
GuardsControlText(e, new) ==
    IsSource(e) /\ event[e].selector = "control" /\ new.text # event[e].text

(* The guard has one entry for a sequence: INSERT OR IGNORE. *)
GuardsControl(e, new) ==
    IsSource(e) /\ event[e].selector = "control" /\ ~OnlyCleared(e, new) /\ e \notin reused

DropsSource(e, new) ==
    /\ new.typed = event[e].typed /\ new.selector = event[e].selector
    /\ IsSource(e) /\ new.text # event[e].text

(* One UPDATE of events *)
UpdateEvent(e) ==
    /\ Fault /\ e \in Appended
    /\ \E text \in Texts, typed \in BOOLEAN,
          selector \in IF event[e].kind \in Sources THEN Sources \cup {Absent} ELSE {Absent} :
          LET new == [event[e] EXCEPT !.text = text, !.typed = typed, !.selector = selector]
              changed == text # event[e].text \/ typed # event[e].typed
          IN  /\ new # event[e]
              /\ event' = [event EXCEPT ![e] =
                    [new EXCEPT !.invalid = Invalid(e, new),
                                !.selector = IF ColumnsRestored(e, new) THEN event[e].kind
                                                                        ELSE selector]]
              /\ recallRow' = [recallRow EXCEPT ![e] = IF changed THEN Absent ELSE @]
              /\ sourceRow' = [sourceRow EXCEPT ![e] = IF DropsSource(e, new) THEN Absent ELSE @]
              /\ controlGuard' = controlGuard \cup (IF GuardsControl(e, new) THEN {e} ELSE {})
              /\ compiledGuard' = compiledGuard \cup (IF IsCompiled(e) /\ changed THEN {e} ELSE {})
              /\ edited' = edited \cup (IF changed THEN {e} ELSE {})
    /\ UNCHANGED <<deleted, reused, receiptRow, receiptIndex, revision, draft, open>>
    /\ blind' = blind \cup Forgotten'

(* One DELETE of a row of events, by a connection that does not enforce the *)
(* foreign keys of the projections.                                         *)
DeleteEvent(e) ==
    /\ Fault /\ e \in Appended
    /\ deleted' = deleted \cup {e}
    /\ UNCHANGED <<event, reused, projections, guards, revision, draft, open, edited>>
    /\ blind' = blind \cup Forgotten'

(* A projection row is deleted or damaged. A damaged receipt loses its      *)
(* index: context_receipt_projection_integrity_invalidate.                  *)
LoseProjection(e) ==
    /\ Fault
    /\ \/ /\ recallRow[e] # Absent
          /\ \E left \in {Absent, "torn"} : recallRow' = [recallRow EXCEPT ![e] = left]
          /\ UNCHANGED <<sourceRow, receiptRow, receiptIndex>>
       \/ /\ sourceRow[e] # Absent
          /\ \E left \in {Absent, "torn"} : sourceRow' = [sourceRow EXCEPT ![e] = left]
          /\ UNCHANGED <<recallRow, receiptRow, receiptIndex>>
       \/ /\ receiptRow[e] # Absent
          /\ receiptRow' = [receiptRow EXCEPT ![e] = Absent]
          /\ UNCHANGED <<recallRow, sourceRow, receiptIndex>>
       \/ /\ receiptRow[e] # Absent
          /\ receiptRow' = [receiptRow EXCEPT ![e] = "torn"]
          /\ receiptIndex' = receiptIndex \ {e}
          /\ UNCHANGED <<recallRow, sourceRow>>
       \/ /\ e \in receiptIndex
          /\ receiptIndex' = receiptIndex \ {e}
          /\ UNCHANGED <<recallRow, sourceRow, receiptRow>>
    /\ UNCHANGED <<rows, guards, revision, draft, open, edited>>
    /\ blind' = blind \cup Forgotten'

Next ==
    \/ \E e \in Events :
         \/ PersistSource(e) \/ ReviseProgram(e) \/ StoreCompilation(e)
         \/ UpdateEvent(e) \/ DeleteEvent(e) \/ LoseProjection(e)
    \/ Compile \/ RefuseCompilation \/ Stop \/ Start

Spec == Init /\ [][Next]_vars

-----------------------------------------------------------------------------
(* Safety *)

(* Whatever is written to Events and projections, and however often the     *)
(* process is started in between, what an address reads as is what was      *)
(* appended under it, or a refusal; and recall and persisted_source refuse  *)
(* an Event that was changed by a direct write even when it was put back as *)
(* it was (get reads a Context again whose Event was put back).             *)
OnlyOriginalsAreRead ==
    open => \A e \in Events :
        /\ Readings(e) \subseteq {"original"}
        /\ e \in edited => Recalled(e) \cup ReadSource(e) = {}

(* A compiled Context shows every Host control in force when it is stored,  *)
(* unedited, or is refused.  A control is only missed when its row was gone *)
(* while its Event was deleted or lacked its columns (a restart drops the   *)
(* row of a deleted Event), or when it took over the sequence of a deleted  *)
(* control that the guard has an entry for.                                 *)
ControlsAreNeverDropped ==
    [][\A e \in Events :
          event[e] = NoEvent /\ event'[e].kind = "compiled" =>
            \A c \in Events :
                event[c].kind = "control" /\ event[c].at = revision =>
                    \/ c \in event'[e].includes \ (edited \cup deleted)
                    \/ c \in blind \cup reused]_vars

(* As long as no Event was changed, lost and damaged projections cost       *)
(* nothing but a restart: it succeeds, the address of every Event that has  *)
(* a row reads again, and the Host controls enumerate, unless the columns   *)
(* of one were set otherwise.                                               *)
RestartHeals ==
    /\ [](edited = {} => SourcesRebuild /\ ReceiptsRebuild)
    /\ [][~open /\ open' /\ edited = {} =>
            (/\ controlGuard = {} => ControlsEnumerate
             /\ \A e \in Appended : Readings(e) # {} /\ RecallAccepted(e))']_vars

=============================================================================
