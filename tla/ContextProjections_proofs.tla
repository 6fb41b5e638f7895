--------------------- MODULE ContextProjections_proofs ---------------------
(***************************************************************************)
(* Proofs about ContextProjections, for any number of Events, restarts and *)
(* direct writes to the database, in any order.                            *)
(***************************************************************************)
EXTENDS ContextProjections, TLAPS

EventRecords == [kind : Kinds \cup {Absent}, at : 0 .. MaxRevision, text : Texts,
                 typed : BOOLEAN, selector : Sources \cup {Absent},
                 invalid : BOOLEAN, includes : SUBSET Events]

(* The mark of an Event tells whether a direct write ever changed it.       *)
EditedAreMarked ==
    \A e \in Events :
        /\ e \in edited <=> event[e].invalid
        /\ e \notin edited => event[e].text = "original" /\ event[e].typed

(* Projection rows hold what was appended or nothing that can be read, and  *)
(* only sources have a row among the sources.                               *)
RowsAreOriginal ==
    \A e \in Events :
        /\ sourceRow[e] \in {Absent, "original", "torn"}
        /\ receiptRow[e] \in {Absent, "original", "torn"}
        /\ sourceRow[e] # Absent => event[e].kind \in Sources

(* A Host control that the guard does not speak of, nor the loss of what    *)
(* tells of it, nor a sequence used again, is as it was appended, and       *)
(* selected as a control.                                                   *)
ControlsAreSelected ==
    \A c \in Events :
        event[c].kind = "control" /\ c \notin controlGuard /\ c \notin blind /\ c \notin reused =>
            c \notin edited /\ event[c].selector = "control"

(* Of a control whose Event was deleted the guard or the row still tells.   *)
DeletedAreForgotten ==
    \A c \in deleted :
        event[c].kind = "control" /\ c \notin controlGuard /\ sourceRow[c] = Absent => c \in blind

IInv ==
    /\ TypeOK /\ EditedAreMarked /\ RowsAreOriginal
    /\ ControlsAreSelected /\ DeletedAreForgotten
    /\ compiledGuard \subseteq edited

USE ContextConstants DEF Sources, Kinds, Texts, Absent

-----------------------------------------------------------------------------
(* Shapes *)

LEMMA EventShape ==
    ASSUME TypeOK, NEW e \in Events PROVE event[e] \in EventRecords
  BY DEF TypeOK, EventRecords

(* What Append writes. *)
LEMMA AppendWrites ==
    ASSUME TypeOK, NEW e \in Events, NEW kind \in Kinds, NEW includes \in SUBSET Events,
           Append(e, kind, includes)
    PROVE  /\ event[e] = NoEvent
           /\ event' \in [Events -> EventRecords]
           /\ recallRow' \in [Events -> Texts \cup {Absent}]
           /\ \A f \in Events \ {e} : event'[f] = event[f]
           /\ event'[e].kind = kind /\ event'[e].text = "original" /\ event'[e].typed
           /\ event'[e].at = revision /\ ~event'[e].invalid /\ event'[e].includes = includes
           /\ event'[e].selector = IF kind \in Sources THEN kind ELSE Absent
           /\ deleted' = deleted
<1> DEFINE new == [NoEvent EXCEPT !.kind = kind, !.at = revision, !.includes = includes,
                                  !.selector = IF kind \in Sources THEN kind ELSE Absent]
<1>1. /\ new \in EventRecords /\ new.kind = kind /\ new.text = "original" /\ new.typed
      /\ new.at = revision /\ ~new.invalid /\ new.includes = includes
      /\ new.selector = IF kind \in Sources THEN kind ELSE Absent
  BY DEF NoEvent, EventRecords, TypeOK
<1>2. /\ event' = [event EXCEPT ![e] = new] /\ event[e] = NoEvent
      /\ recallRow' = [recallRow EXCEPT ![e] = "original"] /\ deleted' = deleted
  BY DEF Append
<1> HIDE DEF new
<1>3. event \in [Events -> EventRecords] /\ recallRow \in [Events -> Texts \cup {Absent}]
  BY DEF TypeOK, EventRecords
<1> QED
  BY <1>1, <1>2, <1>3

(* The invariant over one more Event, whose row among the sources there is  *)
(* when it is a source.                                                     *)
LEMMA AppendInv ==
    ASSUME IInv, NEW e \in Events, NEW kind \in Kinds, NEW includes \in SUBSET Events,
           Append(e, kind, includes), TypeOK', UNCHANGED <<guards, history>>,
           reused \subseteq reused', kind = "control" => sourceRow'[e] = "original",
           \A f \in Events : sourceRow'[f] = sourceRow[f]
                              \/ (f = e /\ kind \in Sources /\ sourceRow'[f] = "original"),
           \A f \in Events : receiptRow'[f] \in {receiptRow[f], "original"}
    PROVE  IInv'
<1> USE DEF IInv, guards, history
<1>1. /\ event[e] = NoEvent
      /\ \A f \in Events \ {e} : event'[f] = event[f]
      /\ event'[e].kind = kind /\ event'[e].text = "original" /\ event'[e].typed
      /\ ~event'[e].invalid
      /\ event'[e].selector = IF kind \in Sources THEN kind ELSE Absent
      /\ deleted' = deleted
  BY AppendWrites
<1>2. e \notin edited /\ sourceRow[e] = Absent
  BY <1>1 DEF EditedAreMarked, RowsAreOriginal, NoEvent
<1>3. EditedAreMarked'
  BY <1>1, <1>2 DEF EditedAreMarked
<1>4. RowsAreOriginal'
  BY <1>1, <1>2 DEF RowsAreOriginal
<1>5. ControlsAreSelected'
  BY <1>1, <1>2 DEF ControlsAreSelected
<1>6. DeletedAreForgotten'
  BY <1>1 DEF DeletedAreForgotten, TypeOK
<1> QED
  BY <1>3, <1>4, <1>5, <1>6

-----------------------------------------------------------------------------
(* One lemma for each action. *)

LEMMA InitInv == Init => IInv
<1> SUFFICES ASSUME Init PROVE IInv
  OBVIOUS
<1>1. NoEvent \in EventRecords
  BY DEF NoEvent, EventRecords
<1>2. TypeOK
  BY <1>1 DEF Init, TypeOK, EventRecords, NoDraft
<1> QED
  BY <1>2 DEF Init, IInv, EditedAreMarked, RowsAreOriginal, ControlsAreSelected, DeletedAreForgotten, NoEvent

LEMMA PersistSourceInv ==
    ASSUME NEW e \in Events, IInv, PersistSource(e) PROVE IInv'
<1>1. PICK kind \in Sources : Append(e, kind, {})
  BY DEF PersistSource
<1>2. TypeOK'
  <2>1. reused' \subseteq Events
    BY DEF IInv, PersistSource, TypeOK
  <2> QED
    BY <1>1, <2>1, AppendWrites DEF IInv, PersistSource, TypeOK, EventRecords, guards, history
<1>3. /\ UNCHANGED <<guards, history>> /\ reused \subseteq reused'
      /\ sourceRow'[e] = "original"
      /\ \A f \in Events : sourceRow'[f] = sourceRow[f]
                             \/ (f = e /\ kind \in Sources /\ sourceRow'[f] = "original")
      /\ \A f \in Events : receiptRow'[f] \in {receiptRow[f], "original"}
  BY <1>1 DEF PersistSource, IInv, TypeOK
<1> QED
  BY <1>1, <1>2, <1>3, AppendInv DEF Kinds

LEMMA ReviseProgramInv ==
    ASSUME NEW e \in Events, IInv, ReviseProgram(e) PROVE IInv'
<1>1. Append(e, "ordinary", {})
  BY DEF ReviseProgram
<1>2. TypeOK'
  BY <1>1, AppendWrites DEF IInv, ReviseProgram, TypeOK, EventRecords, guards, history
<1>3. /\ UNCHANGED <<guards, history, reused>>
      /\ \A f \in Events : sourceRow'[f] = sourceRow[f]
      /\ \A f \in Events : receiptRow'[f] \in {receiptRow[f], "original"}
  BY DEF ReviseProgram, IInv, TypeOK
<1> QED
  BY <1>1, <1>2, <1>3, AppendInv

LEMMA StoreCompilationInv ==
    ASSUME NEW e \in Events, IInv, StoreCompilation(e) PROVE IInv'
<1>1. Append(e, "compiled", draft.refs) /\ draft.refs \in SUBSET Events
  BY DEF StoreCompilation, IInv, TypeOK
<1>2. TypeOK'
  BY <1>1, AppendWrites DEF IInv, StoreCompilation, TypeOK, EventRecords, guards, history, NoDraft
<1>3. /\ UNCHANGED <<guards, history, reused>>
      /\ \A f \in Events : sourceRow'[f] = sourceRow[f]
      /\ \A f \in Events : receiptRow'[f] \in {receiptRow[f], "original"}
  BY DEF StoreCompilation, IInv, TypeOK
<1> QED
  BY <1>1, <1>2, <1>3, AppendInv

(* Compiling, refusing and stopping touch neither Events nor tables. *)
LEMMA TablesKept ==
    ASSUME IInv, TypeOK', UNCHANGED <<rows, projections, guards, history>> PROVE IInv'
  BY DEF IInv, EditedAreMarked, RowsAreOriginal, ControlsAreSelected, DeletedAreForgotten,
         rows, projections, guards, history

LEMMA CompileInv == IInv /\ (Compile \/ RefuseCompilation \/ Stop) => IInv'
<1>1. ASSUME IInv, Compile PROVE TypeOK'
  BY <1>1 DEF IInv, TypeOK, Compile, rows, projections, guards, history, SelectedControls, Appended
<1>2. NoDraft \in [revision : 0 .. MaxRevision, refs : SUBSET Events, active : BOOLEAN]
  BY DEF NoDraft
<1>3. ASSUME IInv, RefuseCompilation PROVE TypeOK'
  BY <1>2, <1>3 DEF IInv, TypeOK, RefuseCompilation, rows, projections, guards, history
<1>4. ASSUME IInv, Stop PROVE TypeOK'
  BY <1>2, <1>4 DEF IInv, TypeOK, Stop, rows, projections, guards, history
<1> QED
  BY <1>1, <1>3, <1>4, TablesKept DEF Compile, RefuseCompilation, Stop

LEMMA StutterInv == IInv /\ UNCHANGED vars => IInv'
<1>1. ASSUME IInv, UNCHANGED vars PROVE TypeOK'
  BY <1>1 DEF IInv, TypeOK, vars, rows, projections, guards, history
<1> QED
  BY <1>1, TablesKept DEF vars

LEMMA LoseProjectionInv ==
    ASSUME NEW e \in Events, IInv, LoseProjection(e) PROVE IInv'
<1> USE DEF IInv
<1>1. /\ UNCHANGED <<event, deleted, reused, guards, revision, draft, open, edited>>
      /\ blind' = blind \cup Forgotten' /\ Forgotten' \subseteq Events
      /\ faults' \in 0 .. MaxFaults
  BY DEF LoseProjection, Fault, TypeOK, Forgotten, rows
<1>2. /\ {recallRow', sourceRow', receiptRow'} \subseteq [Events -> Texts \cup {Absent}]
      /\ receiptIndex' \subseteq Events
      /\ \A f \in Events : sourceRow'[f] \in {sourceRow[f], Absent, "torn"}
                           /\ (sourceRow[f] = Absent => sourceRow'[f] = Absent)
      /\ \A f \in Events : receiptRow'[f] \in {receiptRow[f], Absent, "torn"}
  BY DEF LoseProjection, TypeOK
<1>3. TypeOK'
  BY <1>1, <1>2 DEF TypeOK, guards
<1>4. RowsAreOriginal'
  BY <1>1, <1>2 DEF RowsAreOriginal
<1>5. DeletedAreForgotten'
  BY <1>1 DEF DeletedAreForgotten, Forgotten, TypeOK
<1> QED
  BY <1>1, <1>3, <1>4, <1>5 DEF EditedAreMarked, ControlsAreSelected, guards

LEMMA DeleteEventInv ==
    ASSUME NEW e \in Events, IInv, DeleteEvent(e) PROVE IInv'
<1> USE DEF IInv
<1>1. /\ UNCHANGED <<event, reused, projections, guards, revision, draft, open, edited>>
      /\ deleted' = deleted \cup {e}
      /\ blind' = blind \cup Forgotten' /\ Forgotten' \subseteq Events
      /\ faults' \in 0 .. MaxFaults
  BY DEF DeleteEvent, Fault, TypeOK, Forgotten
<1>2. TypeOK'
  BY <1>1 DEF TypeOK, projections, guards
<1>3. DeletedAreForgotten'
  BY <1>1, <1>2 DEF DeletedAreForgotten, Forgotten, TypeOK
<1> QED
  BY <1>1, <1>2, <1>3
  DEF EditedAreMarked, RowsAreOriginal, ControlsAreSelected, projections, guards

(* What one UPDATE of events writes, in the columns of the Event and beside *)
(* it.                                                                      *)
Updated(e, text, typed, selector) ==
    LET changed == text # event[e].text \/ typed # event[e].typed
        stored  == event'[e]
    IN  /\ event' \in [Events -> EventRecords]
        /\ \A f \in Events \ {e} : event'[f] = event[f] /\ sourceRow'[f] = sourceRow[f]
        /\ stored.text = text /\ stored.typed = typed
        /\ stored.kind = event[e].kind /\ stored.at = event[e].at
        /\ stored.includes = event[e].includes
        /\ stored.invalid <=> event[e].invalid \/ changed
        /\ stored.selector = IF ~changed /\ selector = Absent /\ IsSource(e) /\ sourceRow[e] # Absent
                             THEN event[e].kind ELSE selector
        /\ sourceRow'[e] = IF /\ typed = event[e].typed /\ selector = event[e].selector
                              /\ IsSource(e) /\ text # event[e].text
                           THEN Absent ELSE sourceRow[e]
        /\ sourceRow' \in [Events -> Texts \cup {Absent}]
        /\ recallRow' \in [Events -> Texts \cup {Absent}]
        /\ controlGuard \subseteq controlGuard' /\ controlGuard' \subseteq controlGuard \cup {e}
        /\ IsSource(e) /\ event[e].selector = "control" /\ (changed \/ selector # Absent)
              /\ e \notin reused => e \in controlGuard'
        /\ edited' = edited \cup (IF changed THEN {e} ELSE {})
        /\ compiledGuard' \subseteq compiledGuard \cup (IF changed THEN {e} ELSE {})
        /\ e \in Appended
        /\ UNCHANGED <<deleted, reused, receiptRow, receiptIndex, revision, draft, open>>
        /\ blind' = blind \cup Forgotten' /\ faults' \in 0 .. MaxFaults

LEMMA UpdateWrites ==
    ASSUME TypeOK, NEW e \in Events, UpdateEvent(e)
    PROVE  \E text \in Texts, typed \in BOOLEAN, selector \in Sources \cup {Absent} :
             Updated(e, text, typed, selector)
<1>1. PICK text \in Texts, typed \in BOOLEAN,
           selector \in IF event[e].kind \in Sources THEN Sources \cup {Absent} ELSE {Absent} :
        LET new == [event[e] EXCEPT !.text = text, !.typed = typed, !.selector = selector]
            changed == text # event[e].text \/ typed # event[e].typed
        IN  /\ new # event[e]
            /\ event' = [event EXCEPT ![e] =
                  [new EXCEPT !.invalid = Invalid(e, new),
                              !.selector = IF ColumnsRestored(e, new) THEN event[e].kind
                                                                      ELSE selector]]
            /\ recallRow' = [recallRow EXCEPT ![e] = IF changed THEN Absent ELSE @]
            /\ sourceRow' = [sourceRow EXCEPT ![e] = IF DropsSource(e, new) THEN Absent ELSE @]
            /\ controlGuard' = controlGuard \cup (IF GuardsControl(e, new) THEN {e} ELSE {})
            /\ compiledGuard' = compiledGuard \cup (IF IsCompiled(e) /\ changed THEN {e} ELSE {})
            /\ edited' = edited \cup (IF changed THEN {e} ELSE {})
  BY Zenon DEF UpdateEvent
<1> DEFINE changed == text # event[e].text \/ typed # event[e].typed
           new == [event[e] EXCEPT !.text = text, !.typed = typed, !.selector = selector]
           stored == [new EXCEPT !.invalid = Invalid(e, new),
                                 !.selector = IF ColumnsRestored(e, new) THEN event[e].kind
                                                                         ELSE selector]
<1>2. event[e] \in EventRecords /\ selector \in Sources \cup {Absent}
  BY EventShape
<1>3. /\ new \in EventRecords /\ new.text = text /\ new.typed = typed /\ new.selector = selector
      /\ new.kind = event[e].kind /\ new.at = event[e].at /\ new.includes = event[e].includes
  BY <1>2 DEF EventRecords
<1> HIDE DEF new
<1>4. /\ OnlyCleared(e, new) <=> ~changed /\ selector = Absent
      /\ Invalid(e, new) <=> event[e].invalid \/ changed
      /\ DropsSource(e, new) <=> /\ typed = event[e].typed /\ selector = event[e].selector
                                 /\ IsSource(e) /\ text # event[e].text
  BY <1>3 DEF OnlyCleared, Invalid, DropsSource
<1>5. ColumnsRestored(e, new) => event[e].kind \in Sources
  BY DEF ColumnsRestored, IsSource
<1>6. Invalid(e, new) \in BOOLEAN
  BY DEF Invalid
<1>7. /\ stored \in EventRecords /\ stored.text = text /\ stored.typed = typed
      /\ stored.kind = event[e].kind /\ stored.at = event[e].at
      /\ stored.includes = event[e].includes /\ stored.invalid = Invalid(e, new)
      /\ stored.selector = IF ColumnsRestored(e, new) THEN event[e].kind ELSE selector
  BY <1>2, <1>3, <1>5, <1>6 DEF EventRecords
<1>8. event' = [event EXCEPT ![e] = stored]
  BY <1>1 DEF new
<1> HIDE DEF stored
<1>9. /\ event \in [Events -> EventRecords] /\ sourceRow \in [Events -> Texts \cup {Absent}]
      /\ recallRow \in [Events -> Texts \cup {Absent}]
  BY DEF TypeOK, EventRecords
<1>10. /\ event' \in [Events -> EventRecords] /\ event'[e] = stored
       /\ \A f \in Events \ {e} : event'[f] = event[f]
  BY <1>7, <1>8, <1>9
<1>11. /\ sourceRow' \in [Events -> Texts \cup {Absent}]
       /\ recallRow' \in [Events -> Texts \cup {Absent}]
       /\ sourceRow'[e] = IF DropsSource(e, new) THEN Absent ELSE sourceRow[e]
       /\ \A f \in Events \ {e} : sourceRow'[f] = sourceRow[f]
  BY <1>1, <1>9 DEF new
<1>12. /\ controlGuard' = controlGuard \cup (IF GuardsControl(e, new) THEN {e} ELSE {})
       /\ edited' = edited \cup (IF changed THEN {e} ELSE {})
       /\ compiledGuard' = compiledGuard \cup (IF IsCompiled(e) /\ changed THEN {e} ELSE {})
  BY <1>1 DEF new
<1>13. /\ e \in Appended /\ UNCHANGED <<deleted, reused, receiptRow, receiptIndex, revision, draft, open>>
       /\ blind' = blind \cup Forgotten' /\ faults' \in 0 .. MaxFaults
  BY DEF UpdateEvent, Fault, TypeOK
<1>14. /\ (stored.invalid <=> event[e].invalid \/ changed)
       /\ stored.selector =
            IF ~changed /\ selector = Absent /\ IsSource(e) /\ sourceRow[e] # Absent
            THEN event[e].kind ELSE selector
  BY <1>2, <1>4, <1>6, <1>7 DEF ColumnsRestored, EventRecords
<1>15. IsSource(e) /\ event[e].selector = "control" /\ (changed \/ selector # Absent)
          /\ e \notin reused => GuardsControl(e, new)
  BY <1>4 DEF GuardsControl
<1> QED
  BY <1>2, <1>4, <1>7, <1>10, <1>11, <1>12, <1>13, <1>14, <1>15 DEF Updated

LEMMA UpdateEventInv ==
    ASSUME NEW e \in Events, IInv, UpdateEvent(e) PROVE IInv'
<1> USE DEF IInv, Updated
<1>1. PICK text \in Texts, typed \in BOOLEAN, selector \in Sources \cup {Absent} :
        Updated(e, text, typed, selector)
  BY UpdateWrites
<1>2. EditedAreMarked'
  BY <1>1 DEF EditedAreMarked
<1>3. RowsAreOriginal'
  BY <1>1 DEF RowsAreOriginal
<1>4. compiledGuard' \subseteq edited'
  BY <1>1
<1>5. TypeOK'
  <2>1. blind' \subseteq Events
    BY <1>1 DEF TypeOK, Forgotten
  <2>2. edited' \subseteq Events /\ controlGuard' \subseteq Events /\ compiledGuard' \subseteq Events
    BY <1>1 DEF TypeOK
  <2> QED
    BY <1>1, <2>1, <2>2 DEF TypeOK, EventRecords
<1>6. ControlsAreSelected'
  <2> SUFFICES ASSUME NEW c \in Events, event'[c].kind = "control",
                      c \notin controlGuard', c \notin blind', c \notin reused'
               PROVE  c \notin edited' /\ event'[c].selector = "control"
    BY DEF ControlsAreSelected
  <2>1. /\ c \notin controlGuard /\ c \notin blind /\ c \notin reused
        /\ event[c].kind = "control"
    BY <1>1
  <2>2. c \notin edited /\ event[c].selector = "control" /\ event[c].typed
    BY <2>1 DEF ControlsAreSelected, EditedAreMarked
  <2>3. CASE c # e
    BY <1>1, <2>2, <2>3
  <2>4. CASE c = e
    <3>1. IsSource(e)
      BY <1>1, <2>1, <2>2, <2>4 DEF IsSource
    <3>2. text = event[e].text /\ typed = event[e].typed /\ selector = Absent
      BY <1>1, <2>2, <2>4, <3>1
    <3>3. sourceRow[e] # Absent
      <4>1. SUFFICES ASSUME sourceRow[e] = Absent PROVE FALSE
        OBVIOUS
      <4>2. sourceRow'[e] = Absent /\ event'[e].selector = Absent
        BY <1>1, <3>2, <4>1
      <4>3. e \in Forgotten'
        BY <2>4, <4>2 DEF Forgotten
      <4> QED
        BY <1>1, <2>4, <4>3
    <3> QED
      BY <1>1, <2>1, <2>2, <2>4, <3>1, <3>2, <3>3
  <2> QED
    BY <2>3, <2>4
<1>7. DeletedAreForgotten'
  BY <1>1 DEF DeletedAreForgotten, Appended, TypeOK
<1> QED
  BY <1>2, <1>3, <1>4, <1>5, <1>6, <1>7

(* A start gives the columns of a valid source their kind back, and leaves  *)
(* the rest of the Event alone.                                             *)
LEMMA RestoredIs ==
    ASSUME TypeOK, NEW e \in Events
    PROVE  /\ Restored(e) \in EventRecords
           /\ Restored(e).kind = event[e].kind /\ Restored(e).at = event[e].at
           /\ Restored(e).text = event[e].text /\ Restored(e).typed = event[e].typed
           /\ (Restored(e).invalid <=> event[e].invalid)
           /\ Restored(e).selector = IF e \in SourceEvents /\ ~event[e].invalid
                                     THEN event[e].kind ELSE event[e].selector
<1>1. event[e] \in EventRecords
  BY EventShape
<1>2. e \in SourceEvents => event[e].kind \in Sources
  BY DEF SourceEvents, IsSource
<1> QED
  BY <1>1, <1>2 DEF Restored, EventRecords

LEMMA StartWrites ==
    ASSUME IInv, Start
    PROVE  /\ event' \in [Events -> EventRecords]
           /\ \A e \in Events :
                /\ event'[e].kind = event[e].kind /\ event'[e].at = event[e].at
                /\ event'[e].text = event[e].text /\ event'[e].typed = event[e].typed
                /\ event'[e].invalid <=> event[e].invalid
                /\ event'[e].selector = IF e \in SourceEvents /\ ~event[e].invalid
                                        THEN event[e].kind ELSE event[e].selector
                /\ recallRow'[e] = IF e \in Appended THEN Digest(e) ELSE Absent
                /\ sourceRow'[e] = IF e \in SourceEvents /\ ~event[e].invalid
                                   THEN "original" ELSE Absent
                /\ receiptRow'[e] = IF e \in CompiledEvents THEN "original" ELSE Absent
           /\ {recallRow', sourceRow', receiptRow'} \subseteq [Events -> Texts \cup {Absent}]
           /\ receiptIndex' = CompiledEvents
           /\ controlGuard' = controlGuard \cup {e \in Events : Reselected(e)}
           /\ blind' = {e \in blind : ~IsSource(e) \/ event[e].invalid} \cup Forgotten'
           /\ open' = TRUE /\ UNCHANGED <<deleted, reused, compiledGuard, revision, draft, edited, faults>>
<1>1. event' = [e \in Events |-> Restored(e)]
  BY DEF Start
<1>2. event' \in [Events -> EventRecords] /\ \A e \in Events : event'[e] = Restored(e)
  BY <1>1, RestoredIs DEF IInv
<1>3. \A e \in SourceEvents : ~event[e].invalid => event[e].text = "original"
  BY DEF SourceEvents, Appended, IInv, EditedAreMarked
<1>4. \A e \in CompiledEvents : event[e].text = "original"
  BY DEF Start, ReceiptsRebuild, CompiledEvents, Appended, IInv, EditedAreMarked
<1>5. \A e \in Events :
        /\ recallRow'[e] = IF e \in Appended THEN Digest(e) ELSE Absent
        /\ sourceRow'[e] = IF e \in SourceEvents /\ ~event[e].invalid THEN "original" ELSE Absent
        /\ receiptRow'[e] = IF e \in CompiledEvents THEN "original" ELSE Absent
  BY <1>3, <1>4 DEF Start, RecallRebuilt, SourceRebuilt, ReceiptRebuilt
<1>6. recallRow' \in [Events -> Texts \cup {Absent}]
  BY DEF Start, RecallRebuilt, Digest
<1>7. sourceRow' \in [Events -> Texts \cup {Absent}]
  BY <1>3 DEF Start, SourceRebuilt
<1>8. receiptRow' \in [Events -> Texts \cup {Absent}]
  BY <1>4 DEF Start, ReceiptRebuilt
<1>9. /\ receiptIndex' = CompiledEvents
      /\ controlGuard' = controlGuard \cup {e \in Events : Reselected(e)}
      /\ blind' = {e \in blind : ~IsSource(e) \/ event[e].invalid} \cup Forgotten'
      /\ open' = TRUE /\ UNCHANGED <<deleted, reused, compiledGuard, revision, draft, edited, faults>>
  BY DEF Start
<1>10. \A e \in Events :
        /\ event'[e].kind = event[e].kind /\ event'[e].at = event[e].at
        /\ event'[e].text = event[e].text /\ event'[e].typed = event[e].typed
        /\ event'[e].invalid <=> event[e].invalid
        /\ event'[e].selector = IF e \in SourceEvents /\ ~event[e].invalid
                                THEN event[e].kind ELSE event[e].selector
  BY <1>2, RestoredIs DEF IInv
<1> QED
  BY <1>2, <1>5, <1>6, <1>7, <1>8, <1>9, <1>10

LEMMA StartInv == IInv /\ Start => IInv'
<1> SUFFICES ASSUME IInv, Start PROVE IInv'
  OBVIOUS
<1> USE DEF IInv
<1>1. TypeOK'
  <2>1. blind' = {e \in blind : ~IsSource(e) \/ event[e].invalid} \cup Forgotten'
    BY DEF Start
  <2>2. Forgotten' \subseteq Events
    BY DEF Forgotten
  <2>3. blind' \subseteq Events
    BY <2>1, <2>2 DEF TypeOK
  <2>4. /\ event' \in [Events -> EventRecords] /\ receiptIndex' \subseteq Events
        /\ {recallRow', sourceRow', receiptRow'} \subseteq [Events -> Texts \cup {Absent}]
        /\ controlGuard' \subseteq Events /\ open' \in BOOLEAN
        /\ UNCHANGED <<deleted, reused, compiledGuard, revision, draft, edited, faults>>
    BY StartWrites DEF CompiledEvents, Appended, TypeOK
  <2> QED
    BY <2>3, <2>4 DEF TypeOK, EventRecords
<1>2. EditedAreMarked'
  BY StartWrites DEF EditedAreMarked
<1>3. RowsAreOriginal'
  <2>1. \A e \in SourceEvents : event[e].kind \in Sources
    BY DEF SourceEvents, IsSource
  <2> QED
    BY <2>1, StartWrites DEF RowsAreOriginal
<1>4. ControlsAreSelected'
  <2> SUFFICES ASSUME NEW c \in Events, event'[c].kind = "control",
                      c \notin controlGuard', c \notin blind', c \notin reused'
               PROVE  c \notin edited' /\ event'[c].selector = "control"
    BY DEF ControlsAreSelected
  <2>1. /\ event[c].kind = "control" /\ c \notin controlGuard /\ c \notin reused
        /\ edited' = edited
    BY StartWrites
  <2>2. CASE c \notin blind
    BY <2>1, <2>2, StartWrites DEF ControlsAreSelected
  <2>3. CASE c \in blind
    <3>1. IsSource(c) /\ ~event[c].invalid
      BY <2>3, StartWrites
    <3>2. c \in SourceEvents
      BY <3>1 DEF SourceEvents, IsSource
    <3> QED
      BY <2>1, <3>1, <3>2, StartWrites DEF EditedAreMarked
  <2> QED
    BY <2>2, <2>3
<1>5. DeletedAreForgotten'
  <2>1. Forgotten' \subseteq blind' /\ deleted' \subseteq Events
    BY DEF Start, TypeOK
  <2> QED
    BY <2>1 DEF DeletedAreForgotten, Forgotten
<1> QED
  BY <1>1, <1>2, <1>3, <1>4, <1>5, StartWrites

LEMMA NextInv == IInv /\ [Next]_vars => IInv'
<1> SUFFICES ASSUME IInv, [Next]_vars PROVE IInv'
  OBVIOUS
<1>1. CASE \E e \in Events : PersistSource(e) \/ ReviseProgram(e) \/ StoreCompilation(e)
  BY <1>1, PersistSourceInv, ReviseProgramInv, StoreCompilationInv
<1>2. CASE \E e \in Events : UpdateEvent(e) \/ DeleteEvent(e) \/ LoseProjection(e)
  BY <1>2, UpdateEventInv, DeleteEventInv, LoseProjectionInv
<1>3. CASE Compile \/ RefuseCompilation \/ Stop
  BY <1>3, CompileInv
<1>4. CASE Start
  BY <1>4, StartInv
<1>5. CASE UNCHANGED vars
  BY <1>5, StutterInv
<1> QED
  BY <1>1, <1>2, <1>3, <1>4, <1>5 DEF Next

-----------------------------------------------------------------------------
(* What holds of every behaviour. *)

THEOREM Invariance == Spec => []IInv
  BY InitInv, NextInv, PTL DEF Spec

(* Events, projections and the compilation in progress have the shape their *)
(* tables and classes give them.                                            *)
THEOREM TypeCorrect == Spec => []TypeOK
<1>1. IInv => TypeOK
  BY DEF IInv
<1> QED
  BY <1>1, Invariance, PTL

LEMMA ReadingsAreOriginal == IInv => OnlyOriginalsAreRead
<1> SUFFICES ASSUME IInv, NEW e \in Events
             PROVE  /\ Readings(e) \subseteq {"original"}
                    /\ e \in edited => Recalled(e) \cup ReadSource(e) = {}
  BY DEF OnlyOriginalsAreRead
<1> USE DEF IInv
<1>1. CASE event[e].invalid
  <2>1. ~RecallAccepted(e) /\ ~SourceAccepted(e)
    BY <1>1 DEF RecallAccepted, SourceAccepted
  <2>2. Recalled(e) = {} /\ ReadSource(e) = {}
    BY <2>1 DEF Recalled, ReadSource
  <2>3. ReadReceipt(e) \subseteq {"original"}
    BY DEF ReadReceipt, RowsAreOriginal
  <2> QED
    BY <2>2, <2>3 DEF Readings
<1>2. CASE ~event[e].invalid
  <2>1. e \notin edited /\ event[e].text = "original" /\ event[e].typed
    BY <1>2 DEF EditedAreMarked
  <2>2. ReadSource(e) \subseteq {"original"}
    BY <2>1 DEF ReadSource
  <2>3. ReadReceipt(e) \subseteq {"original"}
    BY DEF ReadReceipt, RowsAreOriginal
  <2>4. Recalled(e) \subseteq {"original"}
    <3>1. CASE ~RecallAccepted(e)
      BY <3>1 DEF Recalled
    <3>2. CASE RecallAccepted(e) /\ sourceRow[e] # Absent
      <4>1. IsSource(e)
        BY <2>1, <3>2 DEF RowsAreOriginal, IsSource, RecallAccepted
      <4>2. sourceRow[e] = "original"
        BY <3>2, <4>1 DEF RecallAccepted, SourceAccepted, RowsAreOriginal
      <4> QED
        BY <3>2, <4>2 DEF Recalled
    <3>3. CASE RecallAccepted(e) /\ sourceRow[e] = Absent
      BY <2>1, <3>3 DEF Recalled, Authentic, RecallAccepted
    <3> QED
      BY <3>1, <3>2, <3>3
  <2> QED
    BY <2>1, <2>2, <2>3, <2>4 DEF Readings
<1> QED
  BY <1>1, <1>2

(* An address reads as what was appended under it or is refused, and what   *)
(* a direct write ever changed is refused for good.                         *)
THEOREM OriginalsOnly == Spec => []OnlyOriginalsAreRead
  BY ReadingsAreOriginal, Invariance, PTL

(* Only _store_compilation adds a compiled Event. *)
LEMMA CompiledByStore ==
    ASSUME IInv, [Next]_vars, NEW e \in Events, event[e] = NoEvent, event'[e].kind = "compiled"
    PROVE  StoreCompilation(e)
<1>1. event[e].kind = Absent
  BY DEF NoEvent
<1>2. CASE \E f \in Events : PersistSource(f)
  <2>1. PICK f \in Events, kind \in Sources : Append(f, kind, {})
    BY <1>2 DEF PersistSource
  <2>2. event'[f].kind = kind /\ \A g \in Events \ {f} : event'[g] = event[g]
    BY <2>1, AppendWrites DEF IInv
  <2> QED
    BY <1>1, <2>2
<1>3. CASE \E f \in Events : ReviseProgram(f)
  <2>1. PICK f \in Events : Append(f, "ordinary", {})
    BY <1>3 DEF ReviseProgram
  <2>2. event'[f].kind = "ordinary" /\ \A g \in Events \ {f} : event'[g] = event[g]
    BY <2>1, AppendWrites DEF IInv
  <2> QED
    BY <1>1, <2>2
<1>4. CASE \E f \in Events : StoreCompilation(f)
  <2>1. PICK f \in Events : StoreCompilation(f)
    BY <1>4
  <2>2. Append(f, "compiled", draft.refs) /\ draft.refs \in SUBSET Events
    BY <2>1 DEF StoreCompilation, IInv, TypeOK
  <2>3. \A g \in Events \ {f} : event'[g] = event[g]
    BY <2>2, AppendWrites DEF IInv
  <2> QED
    BY <1>1, <2>1, <2>3
<1>5. CASE \E f \in Events : UpdateEvent(f)
  <2>1. PICK f \in Events, text \in Texts, typed \in BOOLEAN, selector \in Sources \cup {Absent} :
          Updated(f, text, typed, selector)
    BY <1>5, UpdateWrites DEF IInv
  <2>2. event'[e].kind = event[e].kind
    BY <2>1 DEF Updated
  <2> QED
    BY <1>1, <2>2
<1>6. CASE Start
  BY <1>1, <1>6, StartWrites
<1>7. CASE UNCHANGED event
  BY <1>1, <1>7
<1> QED
  BY <1>2, <1>3, <1>4, <1>5, <1>6, <1>7
  DEF Next, vars, Compile, RefuseCompilation, Stop, DeleteEvent, LoseProjection, rows

(* What a compilation still current shows of a control in force: a deleted  *)
(* one that has its row makes the two enumerations differ.                  *)
LEMMA ControlIsShown ==
    ASSUME IInv, StillCurrent, NEW c \in Events, event[c].kind = "control", event[c].at = revision,
           c \notin blind \cup reused
    PROVE  c \in draft.refs \ (edited \cup deleted)
<1>1. c \notin controlGuard /\ SelectedControls = ProjectedControls
  BY DEF StillCurrent, ControlsEnumerate
<1>2. c \notin edited /\ event[c].selector = "control"
  BY <1>1 DEF IInv, ControlsAreSelected
<1>3. c \notin deleted
  <2>1. SUFFICES ASSUME c \in deleted PROVE FALSE
    OBVIOUS
  <2>2. sourceRow[c] # Absent
    BY <1>1, <2>1 DEF IInv, DeletedAreForgotten
  <2>3. c \in ProjectedControls
    BY <2>2 DEF ProjectedControls
  <2>4. c \notin SelectedControls
    BY <2>1 DEF SelectedControls, IsSource, Appended
  <2> QED
    BY <1>1, <2>3, <2>4
<1>4. IsSource(c)
  BY <1>2, <1>3 DEF IsSource, Appended, NoEvent, IInv, EditedAreMarked
<1>5. c \in SelectedControls
  BY <1>2, <1>4 DEF SelectedControls
<1> QED
  BY <1>2, <1>3, <1>5 DEF StillCurrent

(* A stored Context shows every Host control in force, unedited and not     *)
(* deleted, unless the row of one was gone while its Event was deleted or   *)
(* lacked its columns, or one took over the sequence of a deleted control.  *)
THEOREM NoControlDropped == Spec => ControlsAreNeverDropped
<1>1. ASSUME IInv, [Next]_vars, NEW e \in Events, event[e] = NoEvent, event'[e].kind = "compiled",
             NEW c \in Events, event[c].kind = "control", event[c].at = revision
      PROVE  \/ c \in event'[e].includes \ (edited \cup deleted)
             \/ c \in blind \cup reused
  <2>1. StoreCompilation(e)
    BY <1>1, CompiledByStore
  <2>2. Append(e, "compiled", draft.refs) /\ draft.refs \in SUBSET Events /\ StillCurrent
    BY <1>1, <2>1 DEF StoreCompilation, IInv, TypeOK
  <2>3. event'[e].includes = draft.refs
    BY <1>1, <2>2, AppendWrites DEF IInv
  <2> QED
    BY <1>1, <2>2, <2>3, ControlIsShown
<1>2. IInv /\ [Next]_vars =>
        [\A e \in Events :
            event[e] = NoEvent /\ event'[e].kind = "compiled" =>
              \A c \in Events :
                  event[c].kind = "control" /\ event[c].at = revision =>
                      \/ c \in event'[e].includes \ (edited \cup deleted)
                      \/ c \in blind \cup reused]_vars
  BY <1>1
<1> QED
  BY <1>2, Invariance, PTL DEF Spec, ControlsAreNeverDropped

-----------------------------------------------------------------------------
(* Restarts *)

(* Without a changed Event every Event is as it was appended. *)
LEMMA UneditedStart ==
    ASSUME IInv, edited = {}
    PROVE  /\ SourcesRebuild /\ ReceiptsRebuild
           /\ \A e \in Events : ~event[e].invalid /\ event[e].text = "original" /\ event[e].typed
<1>1. \A e \in Events : ~event[e].invalid /\ event[e].text = "original" /\ event[e].typed
  BY DEF IInv, EditedAreMarked
<1>2. \A e \in Appended : Authentic(e)
  BY <1>1 DEF Authentic, Appended
<1>3. SourcesRebuild
  BY <1>1, <1>2 DEF SourcesRebuild, SourceEvents, Appended
<1>4. ReceiptsRebuild
  BY <1>1, <1>2 DEF ReceiptsRebuild, CompiledEvents, Appended, IInv, TypeOK
<1> QED
  BY <1>1, <1>3, <1>4

(* What such a start leaves: projections of the sources only, columns and   *)
(* rows that agree with the Events.                                         *)
LEMMA HealedRows ==
    ASSUME IInv, Start, edited = {}
    PROVE  \A e \in Events :
             /\ ~event'[e].invalid /\ event'[e].text = "original" /\ event'[e].typed
             /\ event'[e].kind = event[e].kind
             /\ e \in Appended => recallRow'[e] = "original"
             /\ IsSource(e) =>
                    sourceRow'[e] = "original" /\ event'[e].selector = event[e].kind
             /\ ~IsSource(e) =>
                    sourceRow'[e] = Absent /\ event'[e].selector = event[e].selector
<1> SUFFICES ASSUME NEW e \in Events
             PROVE  /\ ~event'[e].invalid /\ event'[e].text = "original" /\ event'[e].typed
                    /\ event'[e].kind = event[e].kind
                    /\ e \in Appended => recallRow'[e] = "original"
                    /\ IsSource(e) =>
                          sourceRow'[e] = "original" /\ event'[e].selector = event[e].kind
                    /\ ~IsSource(e) =>
                          sourceRow'[e] = Absent /\ event'[e].selector = event[e].selector
  OBVIOUS
<1>1. ~event[e].invalid /\ event[e].text = "original" /\ event[e].typed
  BY UneditedStart
<1>2. e \in SourceEvents <=> IsSource(e)
  BY DEF SourceEvents, IsSource
<1>3. Digest(e) = "original"
  BY <1>1 DEF Digest
<1>4. /\ event'[e].kind = event[e].kind
      /\ event'[e].text = event[e].text /\ event'[e].typed = event[e].typed
      /\ event'[e].invalid <=> event[e].invalid
      /\ event'[e].selector = IF e \in SourceEvents /\ ~event[e].invalid
                              THEN event[e].kind ELSE event[e].selector
      /\ recallRow'[e] = IF e \in Appended THEN Digest(e) ELSE Absent
      /\ sourceRow'[e] = IF e \in SourceEvents /\ ~event[e].invalid THEN "original" ELSE Absent
  BY StartWrites
<1> QED
  BY <1>1, <1>2, <1>3, <1>4

(* A start neither adds nor removes a row of events. *)
LEMMA EventKept ==
    ASSUME IInv, Start PROVE Appended' = Appended
<1>1. event' = [e \in Events |-> Restored(e)] /\ deleted' = deleted
  BY DEF Start
<1>2. ASSUME NEW e \in Events PROVE Restored(e) = NoEvent <=> event[e] = NoEvent
  <2>1. CASE e \in SourceEvents
    <3>1. event[e].kind \in Sources /\ Restored(e).kind = event[e].kind
      BY <2>1, RestoredIs DEF SourceEvents, IsSource, IInv
    <3> QED
      BY <3>1 DEF NoEvent
  <2>2. CASE e \notin SourceEvents
    BY <2>2 DEF Restored
  <2> QED
    BY <2>1, <2>2
<1> QED
  BY <1>1, <1>2 DEF Appended

(* Every Event that has a row reads again, and the controls enumerate. *)
LEMMA StartHeals ==
    ASSUME IInv, Start, edited = {}
    PROVE  (/\ controlGuard = {} => ControlsEnumerate
            /\ \A e \in Appended : Readings(e) # {} /\ RecallAccepted(e))'
<1>1. ASSUME NEW e \in Events, e \in Appended' PROVE (Readings(e) # {} /\ RecallAccepted(e))'
  <2>2. e \in Appended
    BY <1>1, EventKept
  <2>3. (RecallAccepted(e))'
    <3>1. (IsSource(e))' => IsSource(e)
      BY <2>2, HealedRows, UneditedStart DEF IsSource
    <3>2. (Digest(e) = "original" /\ ~event[e].invalid /\ recallRow[e] = "original")'
      BY <2>2, HealedRows DEF Digest
    <3>3. (IsSource(e) => SourceAccepted(e))'
      BY <3>1, <3>2, HealedRows DEF SourceAccepted
    <3> QED
      BY <1>1, <3>2, <3>3 DEF RecallAccepted
  <2>4. Authentic(e)'
    BY <1>1, HealedRows DEF Authentic
  <2>5. Recalled(e)' # {}
    BY <2>3, <2>4 DEF Recalled
  <2> QED
    BY <2>3, <2>5 DEF Readings
<1>2. ASSUME controlGuard' = {} PROVE ControlsEnumerate'
  <2>1. \A e \in Events : (IsSource(e))' <=> IsSource(e)
    BY HealedRows, UneditedStart, EventKept DEF IsSource, Start
  <2>2. \A e \in Events : IsSource(e) /\ event'[e].selector = "control" <=>
                           sourceRow'[e] # Absent /\ event[e].kind = "control"
    BY HealedRows DEF IsSource
  <2>3. (SelectedControls = ProjectedControls)'
    BY <2>1, <2>2, HealedRows DEF SelectedControls, ProjectedControls
  <2>4. (\A e \in SelectedControls : Sealed(e))'
    BY <2>1, HealedRows DEF SelectedControls, Sealed, Digest
  <2> QED
    BY <1>2, <2>3, <2>4 DEF ControlsEnumerate
<1> QED
  BY <1>1, <1>2 DEF Appended

(* While no Event was changed a restart succeeds and leaves every address   *)
(* readable and the Host controls enumerable, whatever projections it finds *)
(* missing or damaged.                                                      *)
THEOREM RestartsHeal == Spec => RestartHeals
<1>1. IInv => (edited = {} => SourcesRebuild /\ ReceiptsRebuild)
  BY UneditedStart
<1>2. ASSUME IInv, [Next]_vars, ~open, open', edited = {}
      PROVE  (/\ controlGuard = {} => ControlsEnumerate
              /\ \A e \in Appended : Readings(e) # {} /\ RecallAccepted(e))'
  <2>1. Start
    BY <1>2 DEF Next, vars, PersistSource, ReviseProgram, StoreCompilation, UpdateEvent,
                DeleteEvent, LoseProjection, Compile, RefuseCompilation, Stop
  <2> QED
    BY <1>2, <2>1, StartHeals
<1>3. IInv /\ [Next]_vars =>
        [~open /\ open' /\ edited = {} =>
           (/\ controlGuard = {} => ControlsEnumerate
            /\ \A e \in Appended : Readings(e) # {} /\ RecallAccepted(e))']_vars
  BY <1>2
<1> QED
  BY <1>1, <1>3, Invariance, PTL DEF Spec, RestartHeals

=============================================================================
