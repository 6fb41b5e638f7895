------------------------- MODULE OperationHost_proofs -------------------------
(***************************************************************************)
(* Proofs about OperationHost, the history OperationAudit lays over it and *)
(* the product that drives it (LocalOperators), for any sets of Operations *)
(* and Decisions, any nesting depth, any number of process deaths and      *)
(* histories of any length.                                                *)
(***************************************************************************)
EXTENDS OperationAudit, LocalOperators, SequenceTheorems, FiniteSetTheorems, TLAPS

(* A frame recovery makes no callback; every other call is about one        *)
(* Operation.                                                               *)
GoodFrame(f) ==
    /\ f \in Frames
    /\ f.kind = "recover" <=> f.at = "sweeping"
    /\ f.kind # "recover" => f.op \in Operations

(* Only the innermost call is between two journal writes, all others wait   *)
(* in a callback.                                                           *)
StackInv ==
    /\ stack \in Seq(Frames)
    /\ \A i \in 1 .. Len(stack) :
         /\ GoodFrame(stack[i])
         /\ i < Len(stack) => stack[i].at = "calling"

(* o may be dispatched: its authority is spent, and by nobody else. *)
HoldsAuthority(o) ==
    /\ journal[o].receipt \in Decisions
    /\ receipt[journal[o].receipt] = "spent"
    /\ \A p \in Operations : sent[p] > 0 => journal[p].receipt # journal[o].receipt

(* What the innermost call knows of its Operation between two writes. *)
CallInv ==
    /\ AtTop("execute", "intent") =>
         /\ journal[Top.op].outcome = "not_started" /\ ~journal[Top.op].admitted
         /\ sent[Top.op] = 0
    /\ AtTop("execute", "consumed") =>
         /\ journal[Top.op].outcome = "not_started" /\ ~journal[Top.op].admitted
         /\ sent[Top.op] = 0 /\ HoldsAuthority(Top.op)
    /\ AtTop("execute", "admitted") =>
         /\ journal[Top.op].outcome = "not_started" /\ journal[Top.op].admitted
         /\ sent[Top.op] = 0 /\ HoldsAuthority(Top.op)
    /\ AtTop("execute", "running") =>
         /\ journal[Top.op].outcome = "running" /\ journal[Top.op].admitted
         /\ sent[Top.op] = 0 /\ HoldsAuthority(Top.op)

(* What the journal, the receipts and the world have to do with each other. *)
RecordInv ==
    \A o \in Operations :
        /\ journal[o] # NoOperation =>
             /\ journal[o].outcome # "none" /\ journal[o].receipt \in Decisions
             /\ ValidRecord(journal[o])
        /\ sent[o] = 0 => world[o] = "unsent"
        /\ sent[o] > 0 => journal[o] # NoOperation
        /\ Observes(o) => world[o] \in {"unsent", "no_effect"}

JournalInv ==
    RecordInv /\ RecordedEffectIsTrue /\ OneDispatchPerAuthority /\ JournaledBeforeDispatch

IInv == TypeOK /\ StackInv /\ CallInv /\ JournalInv /\ RecoveryMissesNothing

-----------------------------------------------------------------------------
(* The call stack *)

LEMMA TopOfStack ==
    ASSUME StackInv, stack # <<>>
    PROVE  Len(stack) \in Nat \ {0} /\ GoodFrame(Top)
<1>1. Len(stack) \in Nat \ {0}
  BY EmptySeq DEF StackInv
<1> QED
  BY <1>1 DEF StackInv, Top

LEMMA Entering ==
    ASSUME StackInv, MayEnter, NEW f, GoodFrame(f), stack' = Push(f)
    PROVE  StackInv' /\ stack' # <<>> /\ Top' = f
<1>1. Len(stack) \in Nat
  BY LenProperties DEF StackInv
<1>2. /\ stack' \in Seq(Frames) /\ Len(stack') = Len(stack) + 1
      /\ stack'[Len(stack) + 1] = f
      /\ \A i \in 1 .. Len(stack) : stack'[i] = stack[i]
  BY <1>1 DEF StackInv, GoodFrame, Push
<1>3. stack' # <<>> /\ Top' = f
  BY <1>1, <1>2 DEF Top
<1>4. \A i \in 1 .. Len(stack) : stack[i].at = "calling"
  <2> SUFFICES ASSUME NEW i \in 1 .. Len(stack) PROVE stack[i].at = "calling"
    OBVIOUS
  <2>1. CASE i < Len(stack)
    BY <2>1 DEF StackInv
  <2>2. CASE i = Len(stack)
    <3>1. stack # <<>>
      BY <1>1, <2>2, EmptySeq
    <3> QED
      BY <3>1, <2>2 DEF MayEnter, Top
  <2> QED
    BY <1>1, <2>1, <2>2
<1> QED
  BY <1>1, <1>2, <1>3, <1>4 DEF StackInv, GoodFrame

LEMMA Leaving ==
    ASSUME StackInv, stack # <<>>, stack' = Pop
    PROVE  StackInv' /\ (stack' # <<>> => Top'.at = "calling")
<1>1. Len(stack) \in Nat \ {0}
  BY TopOfStack
<1>2. /\ stack' \in Seq(Frames) /\ Len(stack') = Len(stack) - 1
      /\ \A i \in 1 .. Len(stack) - 1 : stack'[i] = stack[i]
  <2> DEFINE m == Len(stack) - 1
  <2>1. m \in Nat /\ \A i \in 1 .. m : stack[i] \in Frames
    BY <1>1, ElementOfSeq DEF StackInv
  <2>2. /\ SubSeq(stack, 1, m) \in Seq(Frames)
        /\ Len(SubSeq(stack, 1, m)) = IF 1 <= m THEN m - 1 + 1 ELSE 0
        /\ \A i \in 1 .. m - 1 + 1 : SubSeq(stack, 1, m)[i] = stack[1 + i - 1]
    <3> HIDE DEF m
    <3> QED
      BY <2>1, SubSeqProperties
  <2>3. m - 1 + 1 = m /\ \A i \in 1 .. m : stack[1 + i - 1] = stack[i]
    BY <2>1
  <2> QED
    BY <1>1, <2>1, <2>2, <2>3 DEF Pop
<1>3. stack' # <<>> => Len(stack') \in 1 .. Len(stack) - 1
  BY <1>1, <1>2, EmptySeq
<1> QED
  BY <1>1, <1>2, <1>3 DEF StackInv, Top, GoodFrame

LEMMA ReplacedTop ==
    ASSUME StackInv, stack # <<>>, NEW f, GoodFrame(f),
           stack' \in Seq(Frames), Len(stack') = Len(stack), stack'[Len(stack)] = f,
           \A i \in 1 .. Len(stack) - 1 : stack'[i] = stack[i]
    PROVE  StackInv' /\ stack' # <<>> /\ Top' = f
<1>1. Len(stack) \in Nat \ {0}
  BY TopOfStack
<1>2. stack' # <<>> /\ Top' = f
  BY <1>1, EmptySeq DEF Top
<1> QED
  BY <1>1, <1>2 DEF StackInv, GoodFrame

(* The innermost frame is replaced: Advance, and recovery's next turn. *)
LEMMA Replacing ==
    ASSUME StackInv, stack # <<>>, NEW f, GoodFrame(f),
           stack' = [stack EXCEPT ![Len(stack)] = f]
    PROVE  StackInv' /\ stack' # <<>> /\ Top' = f
<1>1. Len(stack) \in Nat \ {0}
  BY TopOfStack
<1>2. /\ stack' \in Seq(Frames) /\ Len(stack') = Len(stack)
      /\ stack'[Len(stack)] = f
      /\ \A i \in 1 .. Len(stack) - 1 : stack'[i] = stack[i]
  BY <1>1, ExceptSeq DEF StackInv, GoodFrame
<1> QED
  BY <1>2, ReplacedTop

LEMMA Advancing ==
    ASSUME StackInv, stack # <<>>, Top.kind = "execute",
           NEW at \in {"consumed", "admitted", "running", "calling"}, stack' = Advance(at)
    PROVE  StackInv' /\ stack' # <<>> /\ Top' = [Top EXCEPT !.at = at]
<1> DEFINE f == [Top EXCEPT !.at = at]
<1>1. GoodFrame(f)
  BY TopOfStack DEF GoodFrame, Frames
<1>2. stack' = [stack EXCEPT ![Len(stack)] = f]
  BY DEF Advance, Top
<1> QED
  BY <1>1, <1>2, Replacing

-----------------------------------------------------------------------------
(* Records *)

LEMMA FinishedRecord ==
    ASSUME NEW rec \in Records, NEW outcome \in Outcomes, NEW effect \in EffectStatuses
    PROVE  /\ Finished(rec, outcome, effect) \in Records
           /\ Finished(rec, outcome, effect).outcome = outcome
           /\ Finished(rec, outcome, effect).effect = effect
           /\ Finished(rec, outcome, effect).receipt = rec.receipt
           /\ Finished(rec, outcome, effect).admitted = rec.admitted
           /\ Finished(rec, outcome, effect).reconciliation = Reconciliation(effect)
BY DEF Finished, Records, Reconciliation, Outcomes, Running, EffectStatuses

LEMMA ReconciledRecord ==
    ASSUME NEW rec \in Records, NEW effect \in EffectStatuses
    PROVE  /\ Reconciled(rec, effect) \in Records
           /\ Reconciled(rec, effect).outcome = rec.outcome
           /\ Reconciled(rec, effect).effect = effect
           /\ Reconciled(rec, effect).receipt = rec.receipt
           /\ Reconciled(rec, effect).admitted = rec.admitted
BY DEF Reconciled, Records

(* The record a journal write may put in place of that of o: whatever wrote *)
(* it, the journal stays consistent with the receipts and the world.        *)
LEMMA Recording ==
    ASSUME TypeOK, JournalInv,
           NEW o \in Operations, journal[o] # NoOperation,
           NEW rec \in Records,
           rec.receipt = journal[o].receipt, rec.outcome # "none", ValidRecord(rec),
           journal[o].admitted => rec.admitted,
           sent[o] > 0 => rec.outcome \in Outcomes \cup {"running"},
           rec.effect = "confirmed" => world[o] = "landed",
           rec.effect = "absent" => world[o] \in {"unsent", "no_effect"},
           rec.effect = "not_applicable" => rec.receipt \in Observing,
           journal' = [journal EXCEPT ![o] = rec],
           UNCHANGED <<receipt, world, sent, up, crashes, raised>>
    PROVE  /\ JournalInv'
           /\ stack' \in Seq(Frames) => TypeOK'
           /\ \A p \in Operations : journal'[p] = IF p = o THEN rec ELSE journal[p]
<1>1. \A p \in Operations : journal'[p] = IF p = o THEN rec ELSE journal[p]
  BY DEF TypeOK
<1>2. \A p \in Operations : journal'[p].receipt = journal[p].receipt
  BY <1>1
<1>3. rec # NoOperation
  BY DEF NoOperation
<1>4. RecordInv'
  BY <1>1, <1>3 DEF JournalInv, RecordInv, Observes
<1>5. RecordedEffectIsTrue'
  BY <1>1 DEF JournalInv, RecordedEffectIsTrue, Observes
<1>6. OneDispatchPerAuthority'
  BY <1>2 DEF JournalInv, OneDispatchPerAuthority
<1>7. JournaledBeforeDispatch'
  BY <1>1 DEF JournalInv, JournaledBeforeDispatch
<1>8. stack' \in Seq(Frames) => TypeOK'
  BY <1>1 DEF TypeOK, ReceiptTypeOK
<1> QED
  BY <1>1, <1>4, <1>5, <1>6, <1>7, <1>8 DEF JournalInv

-----------------------------------------------------------------------------
(* The invariant holds initially and every step preserves it. *)

LEMMA InitHolds == Init => IInv
<1> SUFFICES ASSUME Init PROVE IInv
  OBVIOUS
<1>1. TypeOK
  BY HostConstants DEF Init, TypeOK, ReceiptInit, ReceiptTypeOK, ReceiptStates, NoOperation, Records,
                       Running, Outcomes, EffectStatuses
<1>2. Len(stack) = 0
  BY DEF Init
<1> QED
  BY <1>1, <1>2 DEF Init, IInv, StackInv, CallInv, AtTop, JournalInv, RecordInv, RecordedEffectIsTrue,
                    OneDispatchPerAuthority, JournaledBeforeDispatch, RecoveryMissesNothing, Sweeping,
                    NoOperation

(* Back in a callback, or with no call at all, there is nothing to know. *)
LEMMA InCallback ==
    ASSUME StackInv', stack' # <<>> => Top'.at = "calling"
    PROVE  CallInv' /\ RecoveryMissesNothing'
<1>1. stack' # <<>> => Top'.kind # "recover"
  <2> SUFFICES ASSUME stack' # <<>> PROVE Top'.kind # "recover"
    OBVIOUS
  <2>1. Len(stack)' \in Nat \ {0}
    BY EmptySeq DEF StackInv
  <2> QED
    BY <2>1 DEF StackInv, GoodFrame, Top
<1> QED
  BY <1>1 DEF CallInv, AtTop, RecoveryMissesNothing, Sweeping

(* Authority moves beside the host: receipts change, spent ones do not. *)
LEMMA ReceiptsMove ==
    ASSUME IInv, ReceiptTypeOK', UNCHANGED <<journal, world, sent, stack, crashes, raised>>, up' \in BOOLEAN,
           \A d \in Decisions : receipt[d] = "spent" => receipt'[d] = "spent"
    PROVE  IInv'
<1>1. TypeOK' /\ StackInv' /\ RecordInv' /\ RecordedEffectIsTrue' /\ OneDispatchPerAuthority'
      /\ RecoveryMissesNothing'
  BY DEF IInv, TypeOK, StackInv, JournalInv, RecordInv, RecordedEffectIsTrue, Observes,
         OneDispatchPerAuthority, RecoveryMissesNothing, Sweeping, Top
<1>2. JournaledBeforeDispatch'
  BY DEF IInv, JournalInv, RecordInv, JournaledBeforeDispatch
<1>3. CallInv'
  BY DEF IInv, CallInv, HoldsAuthority, AtTop, Top
<1> QED
  BY <1>1, <1>2, <1>3 DEF IInv, JournalInv

(* A new intent. *)
LEMMA CreateIntentStep ==
    ASSUME IInv, NEW o \in Operations, NEW d \in Decisions, CreateIntent(o, d)
    PROVE  IInv'
<1> DEFINE f == Frame("execute", o, "intent")
<1>1. GoodFrame(f)
  BY DEF GoodFrame, Frame, Frames
<1>2. StackInv' /\ stack' # <<>> /\ Top' = f
  BY <1>1, Entering DEF CreateIntent, IInv
<1>3. Intent(d) \in Records /\ ValidRecord(Intent(d)) /\ Intent(d).receipt = d
      /\ Intent(d).outcome = "not_started" /\ ~Intent(d).admitted /\ Intent(d).effect = "unknown"
  BY DEF Intent, NoOperation, Records, Running, Outcomes, EffectStatuses, ValidRecord
<1>4. /\ journal' \in [Operations -> Records]
      /\ \A p \in Operations : journal'[p] = IF p = o THEN Intent(d) ELSE journal[p]
  BY <1>3 DEF CreateIntent, IInv, TypeOK
<1>5. sent[o] = 0
  BY DEF CreateIntent, IInv, TypeOK, JournalInv, RecordInv
<1>6. TypeOK'
  BY <1>2, <1>3, <1>4 DEF CreateIntent, IInv, TypeOK, ReceiptTypeOK, StackInv
<1>7. RecordInv' /\ RecordedEffectIsTrue'
  BY <1>3, <1>4, <1>5 DEF CreateIntent, IInv, JournalInv, RecordInv, RecordedEffectIsTrue, Observes
<1>8. OneDispatchPerAuthority' /\ JournaledBeforeDispatch'
  BY <1>4, <1>5 DEF CreateIntent, IInv, JournalInv, OneDispatchPerAuthority, JournaledBeforeDispatch
<1>9. CallInv' /\ RecoveryMissesNothing'
  <2>1. Top'.kind = "execute" /\ Top'.op = o /\ Top'.at = "intent"
    BY <1>2 DEF Frame
  <2> QED
    BY <2>1, <1>2, <1>3, <1>4, <1>5 DEF CreateIntent, CallInv, AtTop, RecoveryMissesNothing, Sweeping
<1> QED
  BY <1>2, <1>6, <1>7, <1>8, <1>9 DEF IInv, JournalInv

(* Steps of execute_authorized that stay in the call. *)
LEMMA ConsumeAuthorityStep ==
    ASSUME IInv, ConsumeAuthority
    PROVE  IInv'
<1> DEFINE o == Top.op
           d == journal[o].receipt
<1>1. /\ o \in Operations /\ journal[o].outcome = "not_started" /\ ~journal[o].admitted /\ sent[o] = 0
      /\ d \in Decisions /\ receipt[d] = "issued"
  BY TopOfStack DEF ConsumeAuthority, AtTop, IInv, CallInv, GoodFrame, SpendReceipt, JournalInv, RecordInv,
                    NoOperation
<1>2. StackInv' /\ stack' # <<>> /\ Top' = [Top EXCEPT !.at = "consumed"]
  BY Advancing DEF ConsumeAuthority, AtTop, IInv
<1>3. /\ receipt' \in [Decisions -> ReceiptStates]
      /\ \A e \in Decisions : receipt'[e] = IF e = d THEN "spent" ELSE receipt[e]
  BY <1>1 DEF ConsumeAuthority, SpendReceipt, IInv, TypeOK, ReceiptTypeOK, ReceiptStates
<1>4. \A p \in Operations : sent[p] > 0 => journal[p].receipt # d
  BY <1>1 DEF IInv, JournalInv, JournaledBeforeDispatch
<1>5. TypeOK'
  BY <1>2, <1>3 DEF ConsumeAuthority, IInv, TypeOK, ReceiptTypeOK, StackInv
<1>6. RecordInv' /\ RecordedEffectIsTrue' /\ OneDispatchPerAuthority'
  BY DEF ConsumeAuthority, IInv, JournalInv, RecordInv, RecordedEffectIsTrue, Observes,
         OneDispatchPerAuthority
<1>7. JournaledBeforeDispatch'
  BY <1>3 DEF ConsumeAuthority, IInv, JournalInv, RecordInv, JournaledBeforeDispatch
<1>8. CallInv' /\ RecoveryMissesNothing'
  <2>1. Top'.kind = "execute" /\ Top'.op = o /\ Top'.at = "consumed"
    BY <1>2, TopOfStack DEF ConsumeAuthority, AtTop, IInv, GoodFrame, Frames
  <2> QED
    BY <2>1, <1>1, <1>2, <1>3, <1>4 DEF ConsumeAuthority, CallInv, HoldsAuthority, AtTop,
                                        RecoveryMissesNothing, Sweeping
<1> QED
  BY <1>2, <1>5, <1>6, <1>7, <1>8 DEF IInv, JournalInv

LEMMA MarkAdmittedStep ==
    ASSUME IInv, MarkAdmitted
    PROVE  IInv'
<1>1. PICK o \in Operations : Top.op = o
  BY TopOfStack DEF MarkAdmitted, AtTop, IInv, GoodFrame
<1> DEFINE rec == [journal[o] EXCEPT !.admitted = TRUE]
<1>2. /\ journal[o] # NoOperation /\ journal[o] \in Records
      /\ journal[o].outcome = "not_started" /\ sent[o] = 0 /\ ValidRecord(journal[o])
      /\ HoldsAuthority(o)
  BY <1>1 DEF MarkAdmitted, AtTop, IInv, TypeOK, CallInv, JournalInv, RecordInv, NoOperation
<1>3. StackInv' /\ stack' # <<>> /\ Top'.kind = "execute" /\ Top'.op = o /\ Top'.at = "admitted"
  BY <1>1, Advancing, TopOfStack DEF MarkAdmitted, AtTop, IInv, GoodFrame, Frames
<1>4. /\ rec \in Records /\ ValidRecord(rec) /\ rec.receipt = journal[o].receipt
      /\ rec.outcome = "not_started" /\ rec.admitted /\ rec.effect = "unknown"
  BY <1>1, <1>2 DEF MarkAdmitted, Records, ValidRecord, Running
<1>5. journal' = [journal EXCEPT ![o] = rec] /\ UNCHANGED <<receipt, world, sent, up, crashes, raised>>
  BY <1>1 DEF MarkAdmitted
<1> HIDE DEF rec
<1>6. /\ JournalInv' /\ TypeOK'
      /\ \A p \in Operations : journal'[p] = IF p = o THEN rec ELSE journal[p]
  <2>1. /\ sent[o] > 0 => rec.outcome \in Outcomes \cup {"running"}
        /\ rec.effect = "confirmed" => world[o] = "landed"
        /\ rec.effect = "absent" => world[o] \in {"unsent", "no_effect"}
        /\ rec.effect = "not_applicable" => rec.receipt \in Observing
        /\ rec.outcome # "none" /\ (journal[o].admitted => rec.admitted)
    BY <1>2, <1>4
  <2> QED
    BY <1>2, <1>3, <1>4, <1>5, <2>1, Recording DEF IInv, StackInv
<1>7. HoldsAuthority(o)'
  <2>1. \A p \in Operations : journal'[p].receipt = journal[p].receipt
    BY <1>4, <1>6
  <2> QED
    BY <1>2, <1>5, <2>1 DEF HoldsAuthority
<1>8. CallInv' /\ RecoveryMissesNothing'
  BY <1>2, <1>3, <1>4, <1>5, <1>6, <1>7 DEF CallInv, AtTop, RecoveryMissesNothing, Sweeping
<1> QED
  BY <1>3, <1>6, <1>8 DEF IInv

LEMMA MarkRunningStep ==
    ASSUME IInv, MarkRunning
    PROVE  IInv'
<1>1. PICK o \in Operations : Top.op = o
  BY TopOfStack DEF MarkRunning, AtTop, IInv, GoodFrame
<1> DEFINE rec == [journal[o] EXCEPT !.outcome = "running"]
<1>2. /\ journal[o] # NoOperation /\ journal[o] \in Records
      /\ journal[o].outcome = "not_started" /\ sent[o] = 0 /\ ValidRecord(journal[o])
      /\ HoldsAuthority(o)
  BY <1>1 DEF MarkRunning, AtTop, IInv, TypeOK, CallInv, JournalInv, RecordInv, NoOperation
<1>3. StackInv' /\ stack' # <<>> /\ Top'.kind = "execute" /\ Top'.op = o /\ Top'.at = "running"
  BY <1>1, Advancing, TopOfStack DEF MarkRunning, AtTop, IInv, GoodFrame, Frames
<1>4. /\ rec \in Records /\ ValidRecord(rec) /\ rec.receipt = journal[o].receipt
      /\ rec.outcome = "running" /\ rec.admitted /\ rec.effect = "unknown"
  BY <1>1, <1>2 DEF MarkRunning, Records, ValidRecord, Running
<1>5. journal' = [journal EXCEPT ![o] = rec] /\ UNCHANGED <<receipt, world, sent, up, crashes, raised>>
  BY <1>1 DEF MarkRunning
<1> HIDE DEF rec
<1>6. /\ JournalInv' /\ TypeOK'
      /\ \A p \in Operations : journal'[p] = IF p = o THEN rec ELSE journal[p]
  <2>1. /\ sent[o] > 0 => rec.outcome \in Outcomes \cup {"running"}
        /\ rec.effect = "confirmed" => world[o] = "landed"
        /\ rec.effect = "absent" => world[o] \in {"unsent", "no_effect"}
        /\ rec.effect = "not_applicable" => rec.receipt \in Observing
        /\ rec.outcome # "none" /\ (journal[o].admitted => rec.admitted)
    BY <1>2, <1>4
  <2> QED
    BY <1>2, <1>3, <1>4, <1>5, <2>1, Recording DEF IInv, StackInv
<1>7. HoldsAuthority(o)'
  <2>1. \A p \in Operations : journal'[p].receipt = journal[p].receipt
    BY <1>4, <1>6
  <2> QED
    BY <1>2, <1>5, <2>1 DEF HoldsAuthority
<1>8. CallInv' /\ RecoveryMissesNothing'
  BY <1>2, <1>3, <1>4, <1>5, <1>6, <1>7 DEF CallInv, AtTop, RecoveryMissesNothing, Sweeping
<1> QED
  BY <1>3, <1>6, <1>8 DEF IInv

(* The backend is called: the first and only time under this authority. *)
LEMMA DispatchKeeps ==
    ASSUME IInv, Dispatch
    PROVE  IInv'
<1>1. PICK o \in Operations : Top.op = o
  BY TopOfStack DEF Dispatch, AtTop, IInv, GoodFrame
<1>2. /\ journal[o] # NoOperation /\ journal[o].outcome = "running" /\ journal[o].admitted
      /\ sent[o] = 0 /\ ValidRecord(journal[o]) /\ HoldsAuthority(o)
  BY <1>1 DEF Dispatch, AtTop, IInv, CallInv, JournalInv, RecordInv, NoOperation
<1>3. StackInv' /\ stack' # <<>> /\ Top'.at = "calling"
  BY Advancing, TopOfStack DEF Dispatch, AtTop, IInv, GoodFrame, Frames
<1>4. /\ UNCHANGED <<receipt, journal, up, crashes, raised>>
      /\ \A p \in Operations : sent'[p] = IF p = o THEN 1 ELSE sent[p]
      /\ \A p \in Operations : p # o => world'[p] = world[p]
      /\ world'[o] \in {"in_flight", "no_effect"} /\ (Observes(o) => world'[o] = "no_effect")
      /\ sent' \in [Operations -> Nat]
      /\ world' \in [Operations -> {"unsent", "in_flight", "landed", "no_effect"}]
  BY <1>1, <1>2 DEF Dispatch, IInv, TypeOK
<1>5. TypeOK'
  BY <1>3, <1>4 DEF IInv, TypeOK, ReceiptTypeOK, StackInv
<1>6. journal[o].effect = "unknown"
  BY <1>2 DEF ValidRecord, Running
<1>7. RecordInv' /\ RecordedEffectIsTrue'
  BY <1>2, <1>4, <1>6 DEF IInv, JournalInv, RecordInv, RecordedEffectIsTrue, Observes
<1>8. OneDispatchPerAuthority' /\ JournaledBeforeDispatch'
  BY <1>2, <1>4 DEF IInv, JournalInv, OneDispatchPerAuthority, JournaledBeforeDispatch, HoldsAuthority
<1> QED
  BY <1>3, <1>5, <1>7, <1>8, InCallback DEF IInv, JournalInv

(* The effect of o becomes what it becomes. *)
LEMMA BackendSettlesStep ==
    ASSUME IInv, NEW o \in Operations, BackendSettles(o)
    PROVE  IInv'
<1>1. PICK t \in {"landed", "no_effect"} : world' = [world EXCEPT ![o] = t]
  BY DEF BackendSettles
<1>2. /\ world' \in [Operations -> {"unsent", "in_flight", "landed", "no_effect"}]
      /\ \A p \in Operations : world'[p] = IF p = o THEN t ELSE world[p]
  BY <1>1 DEF IInv, TypeOK
<1>3. UNCHANGED <<receipt, journal, sent, stack, up, crashes, raised>> /\ world[o] = "in_flight"
  BY DEF BackendSettles, hostVars
<1>4. TypeOK' /\ StackInv' /\ OneDispatchPerAuthority' /\ JournaledBeforeDispatch'
      /\ RecoveryMissesNothing'
  BY <1>2, <1>3 DEF IInv, TypeOK, ReceiptTypeOK, StackInv, JournalInv, OneDispatchPerAuthority,
                    JournaledBeforeDispatch, RecoveryMissesNothing, Sweeping, Top
<1>5. CallInv'
  BY <1>3 DEF IInv, CallInv, HoldsAuthority, AtTop, Top
<1>6. RecordInv' /\ RecordedEffectIsTrue'
  BY <1>2, <1>3 DEF IInv, JournalInv, RecordInv, RecordedEffectIsTrue, Observes
<1> QED
  BY <1>4, <1>5, <1>6 DEF IInv, JournalInv

(* An Operation gets its terminal outcome, by finish, fail_before_dispatch  *)
(* or recovery.                                                             *)
LEMMA Closing ==
    ASSUME IInv, NEW o \in Operations, journal[o] # NoOperation,
           NEW outcome \in Outcomes, NEW effect \in EffectStatuses,
           ValidRecord(Finished(journal[o], outcome, effect)),
           effect = "confirmed" => world[o] = "landed",
           effect = "absent" => world[o] \in {"unsent", "no_effect"},
           effect = "not_applicable" => Observes(o),
           journal' = [journal EXCEPT ![o] = Finished(journal[o], outcome, effect)],
           UNCHANGED <<receipt, world, sent, up, crashes, raised>>
    PROVE  /\ JournalInv'
           /\ stack' \in Seq(Frames) => TypeOK'
           /\ journal'[o].outcome = outcome
           /\ \A p \in Operations : p # o => journal'[p] = journal[p]
<1> DEFINE rec == Finished(journal[o], outcome, effect)
<1>1. journal[o] \in Records
  BY DEF IInv, TypeOK
<1>2. /\ rec \in Records /\ rec.outcome = outcome /\ rec.effect = effect
      /\ rec.receipt = journal[o].receipt /\ rec.admitted = journal[o].admitted
  BY <1>1, FinishedRecord
<1>3. outcome # "none" /\ (effect = "not_applicable" => journal[o].receipt \in Observing)
  BY DEF Outcomes, Observes
<1> HIDE DEF rec
<1>4. /\ JournalInv' /\ (stack' \in Seq(Frames) => TypeOK')
      /\ \A p \in Operations : journal'[p] = IF p = o THEN rec ELSE journal[p]
  <2>1. ValidRecord(rec) /\ journal' = [journal EXCEPT ![o] = rec]
    BY DEF rec
  <2> QED
    BY <1>2, <1>3, <2>1, Recording DEF IInv
<1> QED
  BY <1>2, <1>4

(* fail_before_dispatch tells the truth: what was not started was not sent. *)
LEMMA NotDispatchedIsTrue ==
    ASSUME IInv, NEW o \in Operations, journal[o].outcome = "not_started",
           journal' = [journal EXCEPT ![o] = NotDispatched(o)],
           UNCHANGED <<receipt, world, sent, up, crashes, raised>>
    PROVE  /\ JournalInv'
           /\ stack' \in Seq(Frames) => TypeOK'
           /\ journal'[o].outcome = "failed"
           /\ \A p \in Operations : p # o => journal'[p] = journal[p]
<1> DEFINE effect == IF Observes(o) THEN "not_applicable" ELSE "absent"
<1>1. journal[o] # NoOperation /\ journal[o] \in Records
  BY DEF NoOperation, IInv, TypeOK
<1>2. world[o] = "unsent"
  <2>1. sent[o] \in Nat /\ ~(sent[o] > 0)
    BY DEF IInv, TypeOK, JournalInv, JournaledBeforeDispatch, Outcomes
  <2> QED
    BY <2>1 DEF IInv, JournalInv, RecordInv
<1>3. effect \in EffectStatuses /\ "failed" \in Outcomes
      /\ journal' = [journal EXCEPT ![o] = Finished(journal[o], "failed", effect)]
  BY DEF EffectStatuses, Outcomes, NotDispatched
<1>4. /\ effect = "absent" => world[o] \in {"unsent", "no_effect"}
      /\ effect = "not_applicable" => Observes(o)
      /\ effect # "confirmed" /\ effect \notin {"indeterminate", "unknown"}
  BY <1>2
<1> HIDE DEF effect
<1>5. ValidRecord(Finished(journal[o], "failed", effect))
  BY <1>1, <1>3, <1>4, FinishedRecord DEF ValidRecord, Reconciliation, Running
<1> QED
  BY <1>1, <1>3, <1>4, <1>5, Closing

(* What recovery says of an Operation that was running is true as well. *)
LEMMA InterruptedIsTrue ==
    ASSUME IInv, NEW o \in Operations, journal[o].outcome = "running",
           journal' = [journal EXCEPT ![o] = Interrupted(o)],
           UNCHANGED <<receipt, world, sent, up, crashes, raised>>
    PROVE  /\ JournalInv'
           /\ stack' \in Seq(Frames) => TypeOK'
           /\ journal'[o].outcome = "failed"
           /\ \A p \in Operations : p # o => journal'[p] = journal[p]
<1> DEFINE effect == IF Observes(o) THEN "not_applicable" ELSE "indeterminate"
<1>1. journal[o] # NoOperation /\ journal[o] \in Records
  BY DEF NoOperation, IInv, TypeOK
<1>2. effect \in EffectStatuses /\ "failed" \in Outcomes
      /\ journal' = [journal EXCEPT ![o] = Finished(journal[o], "failed", effect)]
  BY DEF EffectStatuses, Outcomes, Interrupted
<1>3. /\ effect # "confirmed" /\ effect # "absent" /\ effect # "unknown"
      /\ effect = "not_applicable" => Observes(o)
  OBVIOUS
<1> HIDE DEF effect
<1>4. ValidRecord(Finished(journal[o], "failed", effect))
  BY <1>1, <1>2, <1>3, FinishedRecord DEF ValidRecord, Reconciliation, Running
<1> QED
  BY <1>1, <1>2, <1>3, <1>4, Closing

LEMMA RefuseAdmissionStep ==
    ASSUME IInv, RefuseAdmission
    PROVE  IInv'
<1>1. PICK o \in Operations : Top.op = o
  BY TopOfStack DEF RefuseAdmission, AtTop, IInv, GoodFrame
<1>2. journal[o].outcome = "not_started"
  BY <1>1 DEF RefuseAdmission, AtTop, IInv, CallInv
<1>3. StackInv' /\ (stack' # <<>> => Top'.at = "calling")
  BY Leaving DEF RefuseAdmission, AtTop, IInv
<1>4. JournalInv' /\ (stack' \in Seq(Frames) => TypeOK')
  BY <1>1, <1>2, NotDispatchedIsTrue DEF RefuseAdmission
<1> QED
  BY <1>3, <1>4, InCallback DEF IInv, StackInv

(* finish records what a truthful backend reports, or nothing. *)
LEMMA FinishStep ==
    ASSUME IInv, Finish
    PROVE  IInv'
<1>1. PICK o \in Operations : Top.op = o
  BY TopOfStack DEF Finish, AtTop, IInv, GoodFrame
<1>2. StackInv' /\ (stack' # <<>> => Top'.at = "calling")
  BY Leaving DEF Finish, AtTop, IInv
<1>3. UNCHANGED <<receipt, world, sent, up, crashes, raised>>
  BY DEF Finish
<1>4. PICK outcome \in Outcomes, effect \in Reportable(o) :
        IF Recordable(o, outcome, effect)
        THEN journal' = [journal EXCEPT ![o] = Finished(@, outcome, effect)]
        ELSE UNCHANGED journal
  BY <1>1 DEF Finish
<1>5. JournalInv' /\ TypeOK'
  <2>1. CASE Recordable(o, outcome, effect)
    <3>1. /\ journal[o] # NoOperation /\ ValidRecord(Finished(journal[o], outcome, effect))
          /\ journal' = [journal EXCEPT ![o] = Finished(journal[o], outcome, effect)]
      BY <1>4, <2>1 DEF Recordable, NoOperation
    <3>2. /\ effect \in EffectStatuses
          /\ effect = "confirmed" => world[o] = "landed"
          /\ effect = "absent" => world[o] \in {"unsent", "no_effect"}
          /\ effect = "not_applicable" => Observes(o)
      BY <2>1 DEF Reportable, EffectStatuses, Recordable, ValidDimension
    <3> QED
      BY <1>2, <1>3, <3>1, <3>2, Closing DEF StackInv
  <2>2. CASE ~Recordable(o, outcome, effect)
    BY <1>2, <1>3, <1>4, <2>2 DEF IInv, JournalInv, RecordInv, RecordedEffectIsTrue, Observes, StackInv,
          OneDispatchPerAuthority, JournaledBeforeDispatch, TypeOK, ReceiptTypeOK
  <2> QED
    BY <2>1, <2>2
<1> QED
  BY <1>2, <1>5, InCallback DEF IInv

LEMMA ApplyReconciliationStep ==
    ASSUME IInv, ApplyReconciliation
    PROVE  IInv'
<1>1. PICK o \in Operations : Top.op = o
  BY TopOfStack DEF ApplyReconciliation, AtTop, IInv, GoodFrame
<1>2. StackInv' /\ (stack' # <<>> => Top'.at = "calling")
  BY Leaving DEF ApplyReconciliation, AtTop, IInv
<1>3. UNCHANGED <<receipt, world, sent, up, crashes, raised>>
  BY DEF ApplyReconciliation
<1>4. PICK effect \in Reportable(o) \ {"not_applicable", "unknown"} :
        IF Applicable(o, effect)
        THEN journal' = [journal EXCEPT ![o] = Reconciled(@, effect)]
        ELSE UNCHANGED journal
  BY <1>1 DEF ApplyReconciliation
<1>5. JournalInv' /\ TypeOK'
  <2>1. CASE Applicable(o, effect)
    <3> DEFINE rec == Reconciled(journal[o], effect)
    <3>1. /\ journal[o] # NoOperation /\ journal[o] \in Records /\ journal[o].outcome # "none"
          /\ effect \in EffectStatuses
          /\ effect = "confirmed" => world[o] = "landed"
          /\ effect = "absent" => world[o] \in {"unsent", "no_effect"}
      BY <2>1 DEF Applicable, NoOperation, IInv, TypeOK, JournalInv, RecordInv, Reportable, EffectStatuses
    <3>2. /\ rec \in Records /\ rec.outcome = journal[o].outcome /\ rec.effect = effect
          /\ rec.receipt = journal[o].receipt /\ rec.admitted = journal[o].admitted
      BY <3>1, ReconciledRecord
    <3>3. journal' = [journal EXCEPT ![o] = rec] /\ ValidRecord(rec)
      BY <1>4, <2>1 DEF Applicable
    <3>4. sent[o] > 0 => journal[o].outcome \in Outcomes \cup {"running"}
      BY DEF IInv, JournalInv, JournaledBeforeDispatch
    <3> HIDE DEF rec
    <3> QED
      BY <1>2, <1>3, <1>4, <3>1, <3>2, <3>3, <3>4, Recording DEF IInv, StackInv
  <2>2. CASE ~Applicable(o, effect)
    BY <1>2, <1>3, <1>4, <2>2 DEF IInv, JournalInv, RecordInv, RecordedEffectIsTrue, Observes, StackInv,
          OneDispatchPerAuthority, JournaledBeforeDispatch, TypeOK, ReceiptTypeOK
  <2> QED
    BY <2>1, <2>2
<1> QED
  BY <1>2, <1>5, InCallback DEF IInv

(* Steps that write nothing. *)
LEMMA NothingWritten ==
    ASSUME IInv, StackInv', UNCHANGED <<receipt, journal, world, sent>>,
           up' \in BOOLEAN, crashes' \in 0 .. MaxCrashes, raised' \in 0 .. MaxRaises
    PROVE  TypeOK' /\ JournalInv'
BY DEF IInv, TypeOK, ReceiptTypeOK, StackInv, JournalInv, RecordInv, RecordedEffectIsTrue, Observes,
       OneDispatchPerAuthority, JournaledBeforeDispatch

LEMMA BeginReconcileStep ==
    ASSUME IInv, NEW o \in Operations, BeginReconcile(o)
    PROVE  IInv'
<1> DEFINE f == Frame("reconcile", o, "calling")
<1>1. GoodFrame(f) /\ f.at = "calling"
  BY DEF GoodFrame, Frame, Frames
<1>2. StackInv' /\ Top' = f
  BY <1>1, Entering DEF BeginReconcile, IInv
<1>3. up' \in BOOLEAN /\ crashes' \in 0 .. MaxCrashes /\ raised' \in 0 .. MaxRaises
  BY DEF BeginReconcile, IInv, TypeOK
<1>4. Top'.at = "calling"
  BY <1>1, <1>2
<1> QED
  BY <1>2, <1>3, <1>4, NothingWritten, InCallback DEF BeginReconcile, IInv

(* The sweep starts with every Operation there is. *)
LEMMA BeginRecoveryStep ==
    ASSUME IInv, BeginRecovery
    PROVE  IInv'
<1> DEFINE all == {o \in Operations : journal[o] # NoOperation}
           f == [kind |-> "recover", op |-> "none", at |-> "sweeping", todo |-> all]
<1>1. GoodFrame(f)
  BY DEF GoodFrame, Frames
<1>2. StackInv' /\ Top' = f
  BY <1>1, Entering DEF BeginRecovery, IInv
<1>3. up' \in BOOLEAN /\ crashes' \in 0 .. MaxCrashes /\ raised' \in 0 .. MaxRaises
  BY DEF BeginRecovery, IInv, TypeOK
<1>4. TypeOK' /\ JournalInv'
  BY <1>2, <1>3, NothingWritten DEF BeginRecovery
<1>5. CallInv' /\ RecoveryMissesNothing'
  <2>1. Top'.kind = "recover" /\ Top'.todo = all /\ journal' = journal
    BY <1>2 DEF BeginRecovery
  <2>2. \A o \in Operations : journal[o].outcome \in Running => o \in all
    BY DEF Running, NoOperation
  <2> QED
    BY <2>1, <2>2 DEF CallInv, AtTop, RecoveryMissesNothing
<1> QED
  BY <1>2, <1>4, <1>5 DEF IInv

(* One Operation is recovered; the sweep goes on with the others. *)
LEMMA RecoverOneStep ==
    ASSUME IInv, NEW o \in Operations, RecoverOne(o)
    PROVE  IInv'
<1> DEFINE f == [Top EXCEPT !.todo = @ \ {o}]
<1>1. stack # <<>> /\ Top.kind = "recover" /\ o \in Top.todo /\ GoodFrame(Top)
  BY TopOfStack DEF RecoverOne, AtTop, IInv
<1>2. GoodFrame(f) /\ f.kind = "recover" /\ f.todo = Top.todo \ {o}
  BY <1>1 DEF GoodFrame, Frames
<1>3. StackInv' /\ Top' = f
  <2>1. stack' = [stack EXCEPT ![Len(stack)] = f]
    BY DEF RecoverOne, Top
  <2> HIDE DEF f
  <2> QED
    BY <1>1, <1>2, <2>1, Replacing DEF IInv
<1>4. UNCHANGED <<receipt, world, sent, up, crashes, raised>>
  BY DEF RecoverOne
<1>5. /\ JournalInv' /\ TypeOK' /\ journal'[o].outcome \notin Running
      /\ \A p \in Operations : p # o => journal'[p] = journal[p]
  <2>1. journal' = [journal EXCEPT ![o] = Recovered(o)] /\ stack' \in Seq(Frames)
    BY <1>3 DEF RecoverOne, StackInv
  <2>2. CASE journal[o].outcome = "not_started"
    <3>1. Recovered(o) = NotDispatched(o)
      BY <2>2 DEF Recovered
    <3> QED
      BY <1>4, <2>1, <2>2, <3>1, NotDispatchedIsTrue DEF Running
  <2>3. CASE journal[o].outcome = "running"
    <3>1. Recovered(o) = Interrupted(o)
      BY <2>3 DEF Recovered
    <3> QED
      BY <1>4, <2>1, <2>3, <3>1, InterruptedIsTrue DEF Running
  <2>4. CASE journal[o].outcome \notin Running
    <3>1. Recovered(o) = journal[o]
      BY <2>4 DEF Recovered, Running
    <3>2. journal' = journal
      BY <2>1, <3>1 DEF IInv, TypeOK
    <3> QED
      BY <1>3, <1>4, <2>4, <3>2, NothingWritten DEF IInv, TypeOK
  <2> QED
    BY <2>2, <2>3, <2>4 DEF Running
<1>6. CallInv' /\ RecoveryMissesNothing'
  <2>1. Top'.kind = "recover" /\ Top'.todo = Top.todo \ {o}
    BY <1>2, <1>3
  <2> QED
    BY <1>1, <1>5, <2>1 DEF IInv, CallInv, AtTop, RecoveryMissesNothing, Sweeping
<1> QED
  BY <1>3, <1>5, <1>6 DEF IInv

LEMMA EndRecoveryStep ==
    ASSUME IInv, EndRecovery
    PROVE  IInv'
<1>1. StackInv' /\ (stack' # <<>> => Top'.at = "calling")
  BY Leaving DEF EndRecovery, AtTop, IInv
<1>2. up' \in BOOLEAN /\ crashes' \in 0 .. MaxCrashes /\ raised' \in 0 .. MaxRaises
  BY DEF EndRecovery, IInv, TypeOK
<1> QED
  BY <1>1, <1>2, NothingWritten, InCallback DEF EndRecovery, IInv

LEMMA CrashStep ==
    ASSUME IInv, Crash
    PROVE  IInv'
<1>1. StackInv' /\ stack' = <<>>
  BY EmptySeq DEF Crash, StackInv
<1>2. up' \in BOOLEAN
  BY DEF Crash
<1>3. crashes' \in 0 .. MaxCrashes /\ raised' \in 0 .. MaxRaises
  BY HostConstants DEF Crash, IInv, TypeOK
<1> QED
  BY <1>1, <1>2, <1>3, NothingWritten, InCallback DEF Crash, IInv

(* A call that raises leaves its caller, if there is one, in its callback.  *)
LEMMA RaiseStep ==
    ASSUME IInv, Raise
    PROVE  IInv'
<1>1. StackInv' /\ (stack' # <<>> => Top'.at = "calling")
  <2>1. CASE stack = <<>>
    BY <2>1, EmptySeq DEF Raise, IInv, StackInv
  <2>2. CASE stack # <<>>
    BY <2>2, Leaving DEF Raise, IInv
  <2> QED
    BY <2>1, <2>2
<1>2. up' \in BOOLEAN /\ crashes' \in 0 .. MaxCrashes /\ raised' \in 0 .. MaxRaises
  BY HostConstants DEF Raise, IInv, TypeOK
<1> QED
  BY <1>1, <1>2, NothingWritten, InCallback DEF Raise, IInv

LEMMA RestartStep ==
    ASSUME IInv, Restart
    PROVE  IInv'
<1>1. up' \in BOOLEAN /\ UNCHANGED <<receipt, journal, world, sent, stack, crashes, raised>>
  BY DEF Restart
<1> QED
  BY <1>1, ReceiptsMove DEF IInv, TypeOK, ReceiptTypeOK

LEMMA IssueAuthorityStep ==
    ASSUME IInv, NEW d \in Decisions, IssueAuthority(d)
    PROVE  IInv'
<1>1. /\ receipt' \in [Decisions -> ReceiptStates]
      /\ \A e \in Decisions : receipt[e] = "spent" => receipt'[e] = "spent"
  BY DEF IssueAuthority, IssueReceipt, IInv, TypeOK, ReceiptTypeOK, ReceiptStates
<1>2. up' \in BOOLEAN /\ UNCHANGED <<journal, world, sent, stack, crashes, raised>>
  BY DEF IssueAuthority, hostVars, IInv, TypeOK
<1> QED
  BY <1>1, <1>2, ReceiptsMove DEF ReceiptTypeOK

LEMMA FactsChangeStep ==
    ASSUME IInv, FactsChange
    PROVE  IInv'
<1>1. PICK D \in SUBSET Decisions : VoidReceipts(D)
  BY DEF FactsChange
<1>2. /\ receipt' \in [Decisions -> ReceiptStates]
      /\ \A e \in Decisions : receipt[e] = "spent" => receipt'[e] = "spent"
  BY <1>1 DEF VoidReceipts, IInv, TypeOK, ReceiptTypeOK, ReceiptStates
<1>3. up' \in BOOLEAN /\ UNCHANGED <<journal, world, sent, stack, crashes, raised>>
  BY DEF FactsChange, hostVars, IInv, TypeOK
<1> QED
  BY <1>2, <1>3, ReceiptsMove DEF ReceiptTypeOK

LEMMA NextHolds ==
    ASSUME IInv, [Next]_vars
    PROVE  IInv'
<1>1. ASSUME NEW d \in Decisions, IssueAuthority(d) PROVE IInv'
  BY <1>1, IssueAuthorityStep
<1>2. CASE FactsChange
  BY <1>2, FactsChangeStep
<1>3. ASSUME NEW o \in Operations, NEW d \in Decisions, CreateIntent(o, d) PROVE IInv'
  BY <1>3, CreateIntentStep
<1>4. ASSUME NEW o \in Operations, BeginReconcile(o) \/ BackendSettles(o) PROVE IInv'
  BY <1>4, BeginReconcileStep, BackendSettlesStep
<1>5. CASE BeginRecovery \/ Crash \/ Raise \/ Restart
  BY <1>5, BeginRecoveryStep, CrashStep, RaiseStep, RestartStep
<1>6. CASE ConsumeAuthority \/ RefuseAdmission \/ MarkAdmitted \/ MarkRunning \/ Dispatch
  BY <1>6, ConsumeAuthorityStep, RefuseAdmissionStep, MarkAdmittedStep, MarkRunningStep, DispatchKeeps
<1>7. CASE Finish \/ ApplyReconciliation \/ EndRecovery
  BY <1>7, FinishStep, ApplyReconciliationStep, EndRecoveryStep
<1>8. ASSUME NEW o \in Operations, RecoverOne(o) PROVE IInv'
  BY <1>8, RecoverOneStep
<1>9. CASE UNCHANGED vars
  <2>1. UNCHANGED <<receipt, journal, world, sent, stack, up, crashes, raised>>
    BY <1>9 DEF vars, hostVars
  <2> QED
    BY <2>1, ReceiptsMove DEF IInv, TypeOK, ReceiptTypeOK
<1> QED
  BY <1>1, <1>2, <1>3, <1>4, <1>5, <1>6, <1>7, <1>8, <1>9 DEF Next, Step

THEOREM Invariance == Spec => []IInv
<1>1. Init => IInv
  BY InitHolds
<1>2. IInv /\ [Next]_vars => IInv'
  BY NextHolds
<1> QED
  BY <1>1, <1>2, PTL DEF Spec

(* The journal is well typed and every record a legal combination of        *)
(* outcome, effect and reconciliation, whatever interrupted its writer.     *)
THEOREM TypeCorrect == Spec => []TypeOK
<1>1. IInv => TypeOK
  BY DEF IInv
<1> QED
  BY <1>1, Invariance, PTL

(* The journal never claims of an effect what is not so.                    *)
THEOREM EffectsAreTrue == Spec => []RecordedEffectIsTrue
<1>1. IInv => RecordedEffectIsTrue
  BY DEF IInv, JournalInv
<1> QED
  BY <1>1, Invariance, PTL

(* One authority reaches the backend at most once. *)
THEOREM DispatchedOnce == Spec => []OneDispatchPerAuthority
<1>1. IInv => OneDispatchPerAuthority
  BY DEF IInv, JournalInv
<1> QED
  BY <1>1, Invariance, PTL

(* Whatever reached the backend is in the journal, admitted on a spent      *)
(* authority, and stays there.                                              *)
THEOREM NothingUnjournaled == Spec => []JournaledBeforeDispatch
<1>1. IInv => JournaledBeforeDispatch
  BY DEF IInv, JournalInv
<1> QED
  BY <1>1, Invariance, PTL

(* A recovery that ends has settled every Operation. *)
THEOREM RecoveryIsComplete == Spec => []RecoveryMissesNothing
<1>1. IInv => RecoveryMissesNothing
  BY DEF IInv
<1> QED
  BY <1>1, Invariance, PTL

-----------------------------------------------------------------------------
(* What a step may never do. *)

LEMMA SettledSteps ==
    ASSUME IInv, Next
    PROVE  SettledStep
<1> SUFFICES ASSUME NEW o \in Operations, journal[o].outcome \in Outcomes, journal'[o] # journal[o]
             PROVE  /\ journal[o].effect = "indeterminate"
                    /\ journal'[o].outcome = journal[o].outcome
  BY DEF SettledStep
<1>1. journal[o].outcome \notin Running \cup {"none"} /\ journal \in [Operations -> Records]
  BY DEF Outcomes, Running, IInv, TypeOK
<1>2. ASSUME NEW p \in Operations, NEW d \in Decisions, CreateIntent(p, d) PROVE FALSE
  BY <1>1, <1>2 DEF CreateIntent, NoOperation
<1>3. CASE RefuseAdmission \/ MarkAdmitted \/ MarkRunning
  <2>1. journal[Top.op].outcome = "not_started"
    BY <1>3 DEF RefuseAdmission, MarkAdmitted, MarkRunning, IInv, CallInv
  <2>2. o # Top.op
    BY <1>1, <2>1 DEF Running
  <2> QED
    BY <1>1, <1>3, <2>2 DEF RefuseAdmission, MarkAdmitted, MarkRunning
<1>4. CASE Finish
  BY <1>1, <1>4 DEF Finish, Recordable, Running
<1>5. CASE ApplyReconciliation
  <2>1. PICK effect \in EffectStatuses :
          /\ Applicable(Top.op, effect)
          /\ journal' = [journal EXCEPT ![Top.op] = Reconciled(@, effect)]
    BY <1>5 DEF ApplyReconciliation, Reportable, EffectStatuses
  <2>2. o = Top.op /\ journal'[o] = Reconciled(journal[o], effect)
    BY <1>1, <2>1
  <2> QED
    BY <1>1, <2>1, <2>2, ReconciledRecord DEF Applicable
<1>6. ASSUME NEW p \in Operations, RecoverOne(p) PROVE FALSE
  <2>1. journal[p].outcome \notin Running => Recovered(p) = journal[p]
    BY DEF Recovered, Running
  <2> QED
    BY <1>1, <1>6, <2>1 DEF RecoverOne
<1>7. CASE UNCHANGED journal
  BY <1>7
<1> QED
  BY <1>2, <1>3, <1>4, <1>5, <1>6, <1>7
  DEF Next, Step, IssueAuthority, FactsChange, BeginReconcile, BackendSettles, BeginRecovery, Crash, Raise, Restart,
      ConsumeAuthority, Dispatch, EndRecovery

(* Terminal outcomes and determinate effects are never rewritten. *)
THEOREM SettledForGood == Spec => SettledStaysSettled
<1>1. IInv /\ [Next]_vars => [SettledStep]_vars
  BY SettledSteps
<1> QED
  BY <1>1, Invariance, PTL DEF Spec, SettledStaysSettled

-----------------------------------------------------------------------------
(* The journal implements EffectTruth. *)

Claimed == [o \in Operations |-> ClaimOf(o)]
Under  == [o \in Operations |-> journal[o].receipt]
Used   == {journal[o].receipt : o \in {p \in Operations : sent[p] > 0}}

LEMMA InitRefines == Init => Truth!Init
<1> SUFFICES ASSUME Init PROVE Truth!Init
  OBVIOUS
<1>1. \A o \in Operations : ClaimOf(o) = "none" /\ journal[o].receipt = "none" /\ ~(sent[o] > 0)
  <2> SUFFICES ASSUME NEW o \in Operations
               PROVE  ClaimOf(o) = "none" /\ journal[o].receipt = "none" /\ ~(sent[o] > 0)
    OBVIOUS
  <2>1. journal[o] = NoOperation /\ sent[o] = 0
    BY DEF Init
  <2>2. journal[o].receipt = "none"
    BY <2>1 DEF NoOperation
  <2>3. ClaimOf(o) = "none"
    BY <2>1 DEF ClaimOf
  <2> QED
    BY <2>1, <2>2, <2>3
<1> QED
  BY <1>1 DEF Init, Truth!Init

(* Steps that neither reach the backend nor change what the journal claims. *)
LEMMA NoClaimMade ==
    ASSUME UNCHANGED <<world, sent>>,
           \A p \in Operations : ClaimOf(p)' = ClaimOf(p) /\ journal'[p].receipt = journal[p].receipt
    PROVE  UNCHANGED Truth!vars
<1>1. Claimed' = Claimed /\ Under' = Under /\ Used' = Used
  BY DEF Claimed, Under, Used
<1> QED
  BY <1>1 DEF Truth!vars, Claimed, Under, Used

(* The record of one Operation is closed or reconciled. *)
LEMMA ClaimMade ==
    ASSUME NEW o \in Operations, UNCHANGED <<world, sent>>,
           ClaimOf(o) \in {"open", "uncertain"}, ClaimOf(o)' \in Truth!Sound(o),
           journal'[o].receipt = journal[o].receipt,
           \A p \in Operations : p # o => journal'[p] = journal[p]
    PROVE  Truth!Claim(o)
<1>1. \A p \in Operations : p # o => ClaimOf(p)' = ClaimOf(p)
  BY DEF ClaimOf
<1>2. Claimed' = [Claimed EXCEPT ![o] = ClaimOf(o)'] /\ Under' = Under /\ Used' = Used
  BY <1>1 DEF Claimed, Under, Used
<1>3. Claimed[o] \in {"open", "uncertain"}
  BY DEF Claimed
<1> QED
  BY <1>2, <1>3 DEF Truth!Claim, Claimed, Under, Used

LEMMA RequestRefines ==
    ASSUME IInv, NEW o \in Operations, NEW d \in Decisions, CreateIntent(o, d)
    PROVE  Truth!Request(o, d)
<1>1. sent[o] = 0
  BY DEF CreateIntent, IInv, TypeOK, JournalInv, RecordInv
<1>2. \A p \in Operations : journal'[p] = IF p = o THEN Intent(d) ELSE journal[p]
  BY DEF CreateIntent, IInv, TypeOK
<1>3. ClaimOf(o) = "none"
  BY DEF CreateIntent, ClaimOf
<1>4. journal'[o].receipt = d /\ journal'[o].outcome = "not_started" /\ journal'[o] # NoOperation
  <2>1. Intent(d).receipt = d /\ Intent(d).outcome = "not_started" /\ NoOperation.outcome = "none"
    BY DEF Intent, NoOperation
  <2>2. journal'[o] = Intent(d)
    BY <1>2
  <2> QED
    BY <2>1, <2>2
<1>5. ClaimOf(o)' = "open"
  BY <1>4 DEF ClaimOf, Running
<1>6. \A p \in Operations : p # o => ClaimOf(p)' = ClaimOf(p)
  BY <1>2 DEF ClaimOf
<1>7. Claimed' = [Claimed EXCEPT ![o] = "open"] /\ Under' = [Under EXCEPT ![o] = d]
  BY <1>2, <1>4, <1>5, <1>6 DEF Claimed, Under
<1>8. Used' = Used
  BY <1>1, <1>2 DEF CreateIntent, Used
<1> QED
  BY <1>3, <1>7, <1>8 DEF CreateIntent, Truth!Request, Claimed, Under, Used

LEMMA SendRefines ==
    ASSUME IInv, Dispatch
    PROVE  \E o \in Operations : Truth!Send(o)
<1>1. PICK o \in Operations : Top.op = o
  BY TopOfStack DEF Dispatch, AtTop, IInv, GoodFrame
<1>2. journal[o].outcome = "running" /\ sent[o] = 0 /\ HoldsAuthority(o)
  BY <1>1 DEF Dispatch, AtTop, IInv, CallInv
<1>3. world[o] = "unsent" /\ ClaimOf(o) = "open"
  BY <1>2 DEF IInv, JournalInv, RecordInv, ClaimOf, Running, NoOperation
<1>4. /\ journal' = journal
      /\ \A p \in Operations : sent'[p] = IF p = o THEN 1 ELSE sent[p]
  BY <1>1, <1>2 DEF Dispatch, IInv, TypeOK
<1>0. \E t \in {"in_flight", "no_effect"} : world' = [world EXCEPT ![o] = t]
  BY <1>1 DEF Dispatch
<1>5. journal[o].receipt \notin Used
  BY <1>2 DEF HoldsAuthority, Used
<1>6. Claimed' = Claimed /\ Under' = Under
  BY <1>4 DEF Claimed, Under, ClaimOf
<1>7. Used' = Used \cup {journal[o].receipt}
  BY <1>2, <1>4 DEF Used
<1>8. Claimed[o] = "open" /\ Under[o] = journal[o].receipt
  BY <1>3 DEF Claimed, Under
<1>9. Truth!Send(o)
  BY <1>0, <1>3, <1>5, <1>6, <1>7, <1>8 DEF Truth!Send, Claimed, Under, Used
<1> QED
  BY <1>9

(* fail_before_dispatch and recovery: a claim is made of an open Operation. *)
LEMMA ClosingRefines ==
    ASSUME IInv, NEW o \in Operations, NEW outcome \in Outcomes, NEW effect \in EffectStatuses,
           journal[o].outcome \in Running,
           effect \in {"indeterminate", "confirmed", "absent", "not_applicable"},
           effect = "confirmed" => world[o] = "landed",
           effect = "absent" => world[o] \in {"unsent", "no_effect"},
           effect = "not_applicable" => Observes(o),
           journal' = [journal EXCEPT ![o] = Finished(journal[o], outcome, effect)],
           UNCHANGED <<world, sent>>
    PROVE  Truth!Claim(o)
<1>1. journal[o] \in Records /\ journal \in [Operations -> Records]
  BY DEF IInv, TypeOK
<1>2. /\ journal'[o].receipt = journal[o].receipt /\ journal'[o].outcome = outcome
      /\ journal'[o].effect = effect
      /\ \A p \in Operations : p # o => journal'[p] = journal[p]
  BY <1>1, FinishedRecord
<1>3. ClaimOf(o) = "open"
  BY DEF ClaimOf, Running, NoOperation
<1>4. ClaimOf(o)' = IF effect = "indeterminate" THEN "uncertain" ELSE effect
  BY <1>2 DEF ClaimOf, Running, Outcomes, NoOperation
<1>5. Observes(o) => world[o] \in {"unsent", "no_effect"}
  BY DEF IInv, JournalInv, RecordInv
<1>6. ClaimOf(o)' \in Truth!Sound(o)
  BY <1>4, <1>5 DEF Truth!Sound
<1> QED
  BY <1>2, <1>3, <1>6, ClaimMade

LEMMA ReconcilingRefines ==
    ASSUME IInv, ApplyReconciliation
    PROVE  \/ UNCHANGED Truth!vars
           \/ \E o \in Operations : Truth!Claim(o)
<1>1. PICK o \in Operations : Top.op = o
  BY TopOfStack DEF ApplyReconciliation, AtTop, IInv, GoodFrame
<1>2. PICK effect \in Reportable(o) \ {"not_applicable", "unknown"} :
        IF Applicable(o, effect)
        THEN journal' = [journal EXCEPT ![o] = Reconciled(@, effect)]
        ELSE UNCHANGED journal
  BY <1>1 DEF ApplyReconciliation
<1>3. UNCHANGED <<world, sent>>
  BY DEF ApplyReconciliation
<1>4. CASE Applicable(o, effect)
  <2>1. /\ journal[o] \in Records /\ journal \in [Operations -> Records]
        /\ journal[o] # NoOperation /\ journal[o].effect = "indeterminate"
        /\ effect \in EffectStatuses
        /\ effect \in {"indeterminate", "confirmed", "absent"}
        /\ effect = "confirmed" => world[o] = "landed"
        /\ effect = "absent" => world[o] \in {"unsent", "no_effect"}
    BY <1>4 DEF Applicable, IInv, TypeOK, NoOperation, Reportable, EffectStatuses
  <2>2. journal[o].outcome \notin Running
    BY <2>1 DEF IInv, JournalInv, RecordInv, ValidRecord
  <2>3. /\ journal'[o].receipt = journal[o].receipt /\ journal'[o].effect = effect
        /\ journal'[o].outcome = journal[o].outcome /\ journal'[o].outcome # "none"
        /\ \A p \in Operations : p # o => journal'[p] = journal[p]
    BY <1>2, <1>4, <2>1, ReconciledRecord DEF IInv, JournalInv, RecordInv
  <2>4. ClaimOf(o) = "uncertain"
    BY <2>1, <2>2 DEF ClaimOf
  <2>5. ClaimOf(o)' = IF effect = "indeterminate" THEN "uncertain" ELSE effect
    BY <2>2, <2>3 DEF ClaimOf, NoOperation
  <2>6. ClaimOf(o)' \in Truth!Sound(o)
    BY <2>1, <2>5 DEF Truth!Sound
  <2> QED
    BY <1>3, <2>3, <2>4, <2>6, ClaimMade
<1>5. CASE ~Applicable(o, effect)
  BY <1>2, <1>3, <1>5, NoClaimMade DEF ClaimOf
<1> QED
  BY <1>4, <1>5

LEMMA FinishingRefines ==
    ASSUME IInv, Finish
    PROVE  \/ UNCHANGED Truth!vars
           \/ \E o \in Operations : Truth!Claim(o)
<1>1. PICK o \in Operations : Top.op = o
  BY TopOfStack DEF Finish, AtTop, IInv, GoodFrame
<1>2. PICK outcome \in Outcomes, effect \in Reportable(o) :
        IF Recordable(o, outcome, effect)
        THEN journal' = [journal EXCEPT ![o] = Finished(@, outcome, effect)]
        ELSE UNCHANGED journal
  BY <1>1 DEF Finish
<1>3. UNCHANGED <<world, sent>>
  BY DEF Finish
<1>4. CASE Recordable(o, outcome, effect)
  <2>1. /\ journal[o].outcome \in Running /\ journal[o] \in Records
        /\ journal' = [journal EXCEPT ![o] = Finished(journal[o], outcome, effect)]
        /\ effect \in EffectStatuses
        /\ effect = "confirmed" => world[o] = "landed"
        /\ effect = "absent" => world[o] \in {"unsent", "no_effect"}
        /\ effect = "not_applicable" => Observes(o)
    BY <1>2, <1>4 DEF Recordable, Running, Reportable, EffectStatuses, ValidDimension, IInv, TypeOK
  <2>2. effect # "unknown"
    <3> DEFINE rec == Finished(journal[o], outcome, effect)
    <3>1. rec.outcome = outcome /\ rec.effect = effect
      BY <2>1, FinishedRecord
    <3>2. ValidRecord(rec) /\ outcome \notin Running
      BY <1>4 DEF Recordable, Running, Outcomes
    <3> HIDE DEF rec
    <3> QED
      BY <3>1, <3>2 DEF ValidRecord
  <2>3. effect \in {"indeterminate", "confirmed", "absent", "not_applicable"}
    BY <2>1, <2>2 DEF EffectStatuses
  <2> QED
    BY <1>3, <2>1, <2>3, ClosingRefines
<1>5. CASE ~Recordable(o, outcome, effect)
  BY <1>2, <1>3, <1>5, NoClaimMade DEF ClaimOf
<1> QED
  BY <1>4, <1>5

(* fail_before_dispatch, called for a refusal or by recovery. *)
LEMMA NotDispatchedRefines ==
    ASSUME IInv, NEW o \in Operations, journal[o].outcome = "not_started",
           journal' = [journal EXCEPT ![o] = NotDispatched(o)], UNCHANGED <<world, sent>>
    PROVE  Truth!Claim(o)
<1> DEFINE effect == IF Observes(o) THEN "not_applicable" ELSE "absent"
<1>1. sent[o] \in Nat /\ ~(sent[o] > 0)
  BY DEF IInv, TypeOK, JournalInv, JournaledBeforeDispatch, Outcomes
<1>2. world[o] = "unsent"
  BY <1>1 DEF IInv, JournalInv, RecordInv
<1>3. /\ effect \in EffectStatuses /\ "failed" \in Outcomes /\ journal[o].outcome \in Running
      /\ effect \in {"indeterminate", "confirmed", "absent", "not_applicable"}
      /\ effect # "confirmed"
      /\ effect = "not_applicable" => Observes(o)
      /\ journal' = [journal EXCEPT ![o] = Finished(journal[o], "failed", effect)]
  BY DEF EffectStatuses, Outcomes, Running, NotDispatched
<1> HIDE DEF effect
<1> QED
  BY <1>2, <1>3, ClosingRefines

LEMMA RecoveringRefines ==
    ASSUME IInv, NEW o \in Operations, RecoverOne(o)
    PROVE  UNCHANGED Truth!vars \/ Truth!Claim(o)
<1>1. journal' = [journal EXCEPT ![o] = Recovered(o)] /\ UNCHANGED <<world, sent>>
  BY DEF RecoverOne
<1>2. CASE journal[o].outcome = "not_started"
  BY <1>1, <1>2, NotDispatchedRefines DEF Recovered
<1>3. CASE journal[o].outcome = "running"
  <2> DEFINE effect == IF Observes(o) THEN "not_applicable" ELSE "indeterminate"
  <2>1. /\ effect \in EffectStatuses /\ "failed" \in Outcomes /\ journal[o].outcome \in Running
        /\ effect \in {"indeterminate", "confirmed", "absent", "not_applicable"}
        /\ effect # "confirmed" /\ effect # "absent"
        /\ effect = "not_applicable" => Observes(o)
        /\ journal' = [journal EXCEPT ![o] = Finished(journal[o], "failed", effect)]
    BY <1>1, <1>3 DEF EffectStatuses, Outcomes, Running, Recovered, Interrupted
  <2> HIDE DEF effect
  <2> QED
    BY <1>1, <2>1, ClosingRefines
<1>4. CASE journal[o].outcome \notin Running
  <2>1. Recovered(o) = journal[o]
    BY <1>4 DEF Recovered, Running
  <2>2. journal' = journal
    BY <1>1, <2>1 DEF IInv, TypeOK
  <2> QED
    BY <1>1, <2>2, NoClaimMade DEF ClaimOf
<1> QED
  BY <1>2, <1>3, <1>4 DEF Running

LEMMA NextRefines ==
    ASSUME IInv, [Next]_vars
    PROVE  [Truth!Next]_(Truth!vars)
<1>1. CASE \E o \in Operations, d \in Decisions : CreateIntent(o, d)
  BY <1>1, RequestRefines DEF Truth!Next
<1>2. CASE Dispatch
  BY <1>2, SendRefines DEF Truth!Next
<1>3. CASE Finish
  BY <1>3, FinishingRefines DEF Truth!Next
<1>4. CASE ApplyReconciliation
  BY <1>4, ReconcilingRefines DEF Truth!Next
<1>5. CASE \E o \in Operations : RecoverOne(o)
  BY <1>5, RecoveringRefines DEF Truth!Next
<1>6. CASE RefuseAdmission
  <2>1. PICK o \in Operations : Top.op = o
    BY <1>6, TopOfStack DEF RefuseAdmission, AtTop, IInv, GoodFrame
  <2>2. journal[o].outcome = "not_started"
    BY <1>6, <2>1 DEF RefuseAdmission, IInv, CallInv
  <2>3. Truth!Claim(o)
    BY <1>6, <2>1, <2>2, NotDispatchedRefines DEF RefuseAdmission
  <2> QED
    BY <2>3 DEF Truth!Next
<1>7. CASE MarkAdmitted \/ MarkRunning
  <2>1. PICK o \in Operations : Top.op = o
    BY <1>7, TopOfStack DEF MarkAdmitted, MarkRunning, AtTop, IInv, GoodFrame
  <2>2. /\ journal[o].outcome = "not_started" /\ journal[o] \in Records
        /\ \A p \in Operations : p # o => journal'[p] = journal[p]
        /\ journal'[o].outcome \in Running /\ journal'[o].receipt = journal[o].receipt
        /\ UNCHANGED <<world, sent>>
    BY <1>7, <2>1 DEF MarkAdmitted, MarkRunning, IInv, TypeOK, Records, Running
  <2>3. ClaimOf(o) = "open" /\ ClaimOf(o)' = "open"
    BY <2>2 DEF ClaimOf, NoOperation, Running
  <2> QED
    BY <2>2, <2>3, NoClaimMade DEF ClaimOf
<1>8. CASE \E o \in Operations : BackendSettles(o)
  <2>1. PICK o \in Operations : BackendSettles(o)
    BY <1>8
  <2>2. Claimed' = Claimed /\ Under' = Under /\ Used' = Used
    BY <2>1 DEF BackendSettles, Claimed, Under, Used, ClaimOf
  <2>3. Truth!Settle(o)
    BY <2>1, <2>2 DEF BackendSettles, Truth!Settle, Claimed, Under, Used
  <2> QED
    BY <2>3 DEF Truth!Next
<1>9. CASE UNCHANGED <<journal, world, sent>>
  BY <1>9, NoClaimMade DEF ClaimOf
<1> QED
  BY <1>1, <1>2, <1>3, <1>4, <1>5, <1>6, <1>7, <1>8, <1>9
  DEF Next, Step, IssueAuthority, FactsChange, BeginReconcile, BeginRecovery, Crash, Raise, Restart,
      ConsumeAuthority, EndRecovery, vars

(* Through crashes, recovery and nested calls the journal implements        *)
(* EffectTruth: at most one dispatch per authority, only true claims, and   *)
(* no claim taken back.                                                     *)
THEOREM JournalImplementsTruth == Spec => ImplementsEffectTruth
<1>1. Init => Truth!Init
  BY InitRefines
<1>2. IInv /\ [Next]_vars => [Truth!Next]_(Truth!vars)
  BY NextRefines
<1> QED
  BY <1>1, <1>2, Invariance, PTL DEF Spec, ImplementsEffectTruth, Truth!Spec

-----------------------------------------------------------------------------
(* The history of every Operation (OperationAudit): no Event is ever        *)
(* written in a place where the audit would not know it.                    *)

Ends == {"finished", "interrupted"}
EventTypes == {"requested", "admitted", "started", "reconciled"} \cup Ends

ReceiptRecords == [kind    : {"none", "execution", "reconciliation"},
                   outcome : Running \cup Outcomes \cup {"none"},
                   effect  : EffectStatuses]

Events == [type : EventTypes, snapshot : Records, receipt : ReceiptRecords]

MayFollow(s, t) ==
    \/ t = "admitted" /\ s = "requested"
    \/ t = "started" /\ s \in {"requested", "admitted"}
    \/ t \in Ends /\ s \in {"requested", "admitted", "started"}
    \/ t = "reconciled"

Last(o) == events[o][Len(events[o])]

InOrder(o) ==
    \A i, j \in DOMAIN events[o] : i < j => MayFollow(events[o][i].type, events[o][j].type)

(* The last Event tells where the Operation is, and its receipt what the    *)
(* record says of the effect.                                               *)
LastTold(o) ==
    /\ journal[o].outcome = "not_started" => Last(o).type \in {"requested", "admitted"}
    /\ journal[o].outcome = "running" => Last(o).type = "started"
    /\ journal[o].outcome \in Outcomes =>
         /\ Last(o).receipt.effect = journal[o].effect
         /\ \E e \in DOMAIN events[o] :
              /\ events[o][e].type \in Ends
              /\ events[o][e].receipt.kind = "execution"
              /\ events[o][e].receipt.outcome = journal[o].outcome

HistoryInv(o) ==
    /\ journal[o] = NoOperation => events[o] = <<>>
    /\ journal[o] # NoOperation => AuditAccepts(o) /\ InOrder(o) /\ LastTold(o)

HistoriesInv ==
    /\ events \in [Operations -> Seq(Events)]
    /\ \A o \in Operations : HistoryInv(o)

LEMMA SameRecord ==
    ASSUME NEW r \in Records, NEW s \in Records,
           r.receipt = s.receipt, r.outcome = s.outcome, r.effect = s.effect,
           r.reconciliation = s.reconciliation, r.admitted = s.admitted
    PROVE  r = s
BY DEF Records

LEMMA SnapshotRecords ==
    ASSUME NEW rec \in Records
    PROVE  /\ Snapshot(rec) \in Records
           /\ Snapshot(rec).receipt = rec.receipt /\ Snapshot(rec).outcome = rec.outcome
           /\ Snapshot(rec).effect = rec.effect /\ Snapshot(rec).reconciliation = rec.reconciliation
           /\ ~Snapshot(rec).admitted
           /\ ValidRecord(Snapshot(rec)) <=> ValidRecord(rec)
BY DEF Snapshot, Records, ValidRecord

LEMMA Histories ==
    ASSUME HistoriesInv, NEW o \in Operations, journal[o] # NoOperation
    PROVE  /\ Len(events[o]) \in Nat \ {0} /\ DOMAIN events[o] = 1 .. Len(events[o])
           /\ \A i \in DOMAIN events[o] : events[o][i] \in Events
           /\ Len(events[o]) \in DOMAIN events[o]
           /\ Last(o) \in Events /\ Last(o).snapshot = Snapshot(journal[o])
<1>1. events[o] \in Seq(Events) /\ events[o] # <<>>
  BY DEF HistoriesInv, HistoryInv, AuditAccepts
<1>2. Len(events[o]) \in Nat \ {0} /\ DOMAIN events[o] = 1 .. Len(events[o])
  BY <1>1, EmptySeq, LenProperties
<1> QED
  BY <1>1, <1>2, ElementOfSeq DEF HistoriesInv, HistoryInv, AuditAccepts, Last

(* What an open Operation's history may hold. *)
LEMMA OpenHistories ==
    ASSUME HistoriesInv, NEW o \in Operations, journal[o] # NoOperation,
           NEW i \in DOMAIN events[o]
    PROVE  /\ journal[o].outcome = "not_started" => events[o][i].type \in {"requested", "admitted"}
           /\ journal[o].outcome = "not_started" /\ ~journal[o].admitted => events[o][i].type = "requested"
           /\ journal[o].outcome = "running" => events[o][i].type \in {"requested", "admitted", "started"}
<1>1. /\ Len(events[o]) \in Nat \ {0} /\ i \in 1 .. Len(events[o]) /\ Len(events[o]) \in DOMAIN events[o]
  BY Histories
<1>2. InOrder(o) /\ LastTold(o)
  BY DEF HistoriesInv, HistoryInv
<1>3. i = Len(events[o]) \/ MayFollow(events[o][i].type, Last(o).type)
  BY <1>1, <1>2 DEF InOrder, Last
<1>4. ~journal[o].admitted => events[o][i].type # "admitted"
  BY DEF HistoriesInv, HistoryInv, AuditAccepts, Types
<1> QED
  BY <1>2, <1>3, <1>4 DEF LastTold, MayFollow, Ends, Last

(* An Event is appended. *)
LEMMA Logging ==
    ASSUME events \in [Operations -> Seq(Events)], NEW o \in Operations,
           NEW t \in EventTypes, NEW r \in ReceiptRecords, journal'[o] \in Records, Logs(o, t, r)
    PROVE  LET n == Len(events[o])
               e == [type |-> t, snapshot |-> Snapshot(journal'[o]), receipt |-> r]
           IN  /\ e \in Events /\ events' \in [Operations -> Seq(Events)]
               /\ n \in Nat /\ DOMAIN events[o] = 1 .. n
               /\ events'[o] # <<>> /\ Len(events'[o]) = n + 1 /\ DOMAIN events'[o] = 1 .. n + 1
               /\ events'[o][n + 1] = e
               /\ \A i \in 1 .. n : events'[o][i] = events[o][i]
               /\ \A p \in Operations : p # o => events'[p] = events[p]
<1> DEFINE n == Len(events[o])
           e == [type |-> t, snapshot |-> Snapshot(journal'[o]), receipt |-> r]
<1>1. e \in Events
  BY SnapshotRecords DEF Events
<1>2. n \in Nat /\ DOMAIN events[o] = 1 .. n
  BY LenProperties
<1>3. events' = [events EXCEPT ![o] = Append(events[o], e)]
  BY DEF Logs
<1> HIDE DEF e
<1>4. /\ Append(events[o], e) \in Seq(Events) /\ Append(events[o], e) # <<>>
      /\ Len(Append(events[o], e)) = n + 1 /\ Append(events[o], e)[n + 1] = e
      /\ \A i \in 1 .. n : Append(events[o], e)[i] = events[o][i]
  BY <1>1, AppendProperties
<1>5. DOMAIN Append(events[o], e) = 1 .. n + 1
  BY <1>4, LenProperties
<1>6. events'[o] = Append(events[o], e) /\ events' \in [Operations -> Seq(Events)]
      /\ \A p \in Operations : p # o => events'[p] = events[p]
  BY <1>3, <1>4
<1>7. /\ events'[o] # <<>> /\ Len(events'[o]) = n + 1 /\ DOMAIN events'[o] = 1 .. n + 1
      /\ events'[o][n + 1] = e
      /\ \A i \in 1 .. n : events'[o][i] = events[o][i]
  BY <1>4, <1>5, <1>6
<1>8. e = [type |-> t, snapshot |-> Snapshot(journal'[o]), receipt |-> r]
  BY DEF e
<1> HIDE DEF n
<1>9. QED
  BY <1>1, <1>2, <1>6, <1>7, <1>8 DEF n, e

(* What was accepted stays so when the history grows. *)
LEMMA AcceptedStays ==
    ASSUME NEW o \in Operations, NEW n \in Nat, NEW i \in 1 .. n, EventAccepted(o, i),
           \A j \in 1 .. n : events'[o][j] = events[o][j],
           journal'[o].receipt = journal[o].receipt
    PROVE  EventAccepted(o, i)'
<1>1. events'[o][i] = events[o][i] /\ (i > 1 => events'[o][i - 1] = events[o][i - 1])
  OBVIOUS
<1>2. Types(o, Before(i))' = Types(o, Before(i))
  BY DEF Types, Before
<1>3. /\ IsRequest(o, i) => IsRequest(o, i)'
      /\ IsAdmission(o, i) => IsAdmission(o, i)'
      /\ IsStart(o, i) => IsStart(o, i)'
      /\ IsReconciliation(o, i) => IsReconciliation(o, i)'
      /\ IsEnd(o, i) => IsEnd(o, i)'
  BY <1>1, <1>2 DEF IsRequest, IsAdmission, IsStart, IsReconciliation, IsEnd
<1> QED
  BY <1>1, <1>3 DEF EventAccepted

LEMMA SameHistory ==
    ASSUME NEW o \in Operations, HistoryInv(o), journal'[o] = journal[o], events'[o] = events[o]
    PROVE  HistoryInv(o)'
<1>1. InOrder(o) => InOrder(o)'
  BY DEF InOrder
<1>2. LastTold(o) => LastTold(o)'
  BY DEF LastTold, Last
<1>3. ASSUME NEW i \in DOMAIN events[o], EventAccepted(o, i) PROVE EventAccepted(o, i)'
  <2>1. Types(o, Before(i))' = Types(o, Before(i))
    BY DEF Types, Before
  <2> QED
    BY <1>3, <2>1 DEF EventAccepted, IsRequest, IsAdmission, IsStart, IsReconciliation, IsEnd
<1>4. Types(o, DOMAIN events[o])' = Types(o, DOMAIN events[o])
  BY DEF Types
<1>5. AuditAccepts(o) => AuditAccepts(o)'
  BY <1>3, <1>4 DEF AuditAccepts
<1> QED
  BY <1>1, <1>2, <1>5 DEF HistoryInv

(* An Operation is moved and its Event appended: what its action has to     *)
(* show for the history to stay acceptable.                                 *)
LEMMA Growing ==
    ASSUME HistoriesInv, NEW o \in Operations, journal[o] # NoOperation,
           NEW t \in EventTypes, NEW r \in ReceiptRecords, journal'[o] \in Records, Logs(o, t, r),
           journal' = [journal EXCEPT ![o] = journal'[o]],
           journal \in [Operations -> Records],
           journal'[o] # NoOperation, journal'[o].receipt = journal[o].receipt,
           journal'[o].admitted <=> journal[o].admitted \/ t = "admitted",
           \A i \in DOMAIN events[o] : MayFollow(events[o][i].type, t),
           NEW m \in Nat, m = Len(events[o]) + 1, EventAccepted(o, m)', LastTold(o)'
    PROVE  HistoriesInv'
<1> DEFINE n == Len(events[o])
           e == [type |-> t, snapshot |-> Snapshot(journal'[o]), receipt |-> r]
<1>1. /\ e \in Events /\ events' \in [Operations -> Seq(Events)]
      /\ n \in Nat /\ DOMAIN events[o] = 1 .. n
      /\ events'[o] # <<>> /\ Len(events'[o]) = n + 1 /\ DOMAIN events'[o] = 1 .. n + 1
      /\ events'[o][n + 1] = e
      /\ \A i \in 1 .. n : events'[o][i] = events[o][i]
      /\ \A p \in Operations : p # o => events'[p] = events[p]
      /\ e.type = t
  BY Logging DEF HistoriesInv
<1>2. ASSUME NEW p \in Operations, p # o PROVE HistoryInv(p)'
  <2>1. journal'[p] = journal[p] /\ events'[p] = events[p] /\ HistoryInv(p)
    BY <1>1, <1>2 DEF HistoriesInv
  <2> QED
    BY <2>1, SameHistory
<1>3. AuditAccepts(o) /\ InOrder(o)
  BY DEF HistoriesInv, HistoryInv
<1>4. \A i \in DOMAIN events'[o] : EventAccepted(o, i)'
  <2> SUFFICES ASSUME NEW i \in 1 .. n + 1 PROVE EventAccepted(o, i)'
    BY <1>1
  <2>1. CASE i = n + 1
    BY <2>1
  <2>2. CASE i \in 1 .. n
    <3>1. EventAccepted(o, i)
      BY <1>1, <1>3, <2>2 DEF AuditAccepts
    <3> HIDE DEF n
    <3> QED
      BY <1>1, <2>2, <3>1, AcceptedStays
  <2> QED
    BY <1>1, <2>1, <2>2
<1>5. journal'[o].admitted <=> "admitted" \in Types(o, DOMAIN events[o])'
  <2>1. Types(o, DOMAIN events[o])' = Types(o, DOMAIN events[o]) \cup {t}
    <3>1. DOMAIN events'[o] = DOMAIN events[o] \cup {n + 1}
      BY <1>1
    <3>2. \A i \in DOMAIN events[o] : events'[o][i].type = events[o][i].type
      BY <1>1
    <3>3. events'[o][n + 1].type = t
      BY <1>1
    <3> HIDE DEF n, e
    <3> QED
      BY <3>1, <3>2, <3>3 DEF Types
  <2> QED
    BY <1>3, <2>1 DEF AuditAccepts
<1>6. InOrder(o)'
  <2> SUFFICES ASSUME NEW i \in 1 .. n + 1, NEW j \in 1 .. n + 1, i < j
               PROVE  MayFollow(events'[o][i].type, events'[o][j].type)
    BY <1>1 DEF InOrder
  <2>0. i \in 1 .. n /\ events'[o][i] = events[o][i]
    BY <1>1
  <2>1. CASE j = n + 1
    <3>1. events'[o][j].type = t
      BY <1>1, <2>1
    <3> QED
      BY <1>1, <2>0, <3>1
  <2>2. CASE j \in 1 .. n
    <3>1. events'[o][j] = events[o][j]
      BY <1>1, <2>2
    <3> HIDE DEF n
    <3> QED
      BY <1>1, <1>3, <2>0, <2>2, <3>1 DEF InOrder
  <2> QED
    BY <1>1, <2>1, <2>2
<1>7. AuditAccepts(o)'
  BY <1>1, <1>4, <1>5 DEF AuditAccepts
<1> QED
  BY <1>1, <1>2, <1>6, <1>7 DEF HistoriesInv, HistoryInv

LEMMA AtMostOne ==
    ASSUME NEW S, \A x, y \in S : x = y
    PROVE  Cardinality(S) <= 1
<1>1. CASE S = {}
  BY <1>1, FS_EmptySet
<1>2. CASE S # {}
  <2>1. PICK x : S = {x}
    BY <1>2
  <2> QED
    BY <2>1, FS_Singleton
<1> QED
  BY <1>1, <1>2

LEMMA BoundsOfInterval ==
    ASSUME NEW a \in Nat, NEW b \in Nat, a <= b
    PROVE  Max(a .. b) = b /\ Min(a .. b) = a
BY DEF Max, Min

LEMMA Appended ==
    ASSUME HistoriesInv, NEW o \in Operations, journal[o] # NoOperation, journal \in [Operations -> Records],
           NEW t \in EventTypes, NEW r \in ReceiptRecords, journal'[o] \in Records, Logs(o, t, r),
           NEW m, m = Len(events[o]) + 1
    PROVE  /\ m \in Nat /\ m > 1
           /\ events'[o][m].type = t /\ events'[o][m].receipt = r
           /\ events'[o][m].snapshot = Snapshot(journal'[o])
           /\ events'[o][m - 1].snapshot = Snapshot(journal[o])
           /\ "admitted" \in Types(o, Before(m))' <=> journal[o].admitted
           /\ Last(o)' = events'[o][m] /\ m \in DOMAIN events'[o]
           /\ \A i \in DOMAIN events[o] : i \in DOMAIN events'[o] /\ events'[o][i] = events[o][i]
<1> DEFINE n == Len(events[o])
           e == [type |-> t, snapshot |-> Snapshot(journal'[o]), receipt |-> r]
<1>1. /\ n \in Nat \ {0} /\ DOMAIN events[o] = 1 .. n
      /\ Len(events'[o]) = n + 1 /\ DOMAIN events'[o] = 1 .. n + 1
      /\ events'[o][n + 1] = e
      /\ \A i \in 1 .. n : events'[o][i] = events[o][i]
  BY Logging, Histories DEF HistoriesInv
<1>2. events'[o][n].snapshot = Snapshot(journal[o])
  BY <1>1, Histories DEF Last
<1>3. Types(o, Before(m))' = Types(o, DOMAIN events[o])
  <2>1. Before(m) = 1 .. n
    BY <1>1 DEF Before
  <2>2. \A i \in 1 .. n : events'[o][i].type = events[o][i].type
    BY <1>1
  <2> HIDE DEF n, e
  <2> QED
    BY <1>1, <2>1, <2>2 DEF Types
<1>4. journal[o].admitted <=> "admitted" \in Types(o, DOMAIN events[o])
  BY DEF HistoriesInv, HistoryInv, AuditAccepts
<1>5. e.type = t /\ e.snapshot = Snapshot(journal'[o]) /\ e.receipt = r
  OBVIOUS
<1> HIDE DEF n, e
<1>6. m = n + 1 /\ m - 1 = n
  BY <1>1 DEF n
<1> QED
  BY <1>1, <1>2, <1>3, <1>4, <1>5, <1>6 DEF Last

(* The record that a write puts in place, and where the history stands. *)
LEMMA LogIntentStep ==
    ASSUME IInv, IInv', HistoriesInv, NEW o \in Operations, NEW d \in Decisions, LogIntent(o, d)
    PROVE  HistoriesInv'
<1> DEFINE r == NoReceipt
<1>1. /\ journal[o] = NoOperation /\ events[o] = <<>>
      /\ events \in [Operations -> Seq(Events)]
      /\ Logs(o, "requested", r) /\ "requested" \in EventTypes
  BY DEF LogIntent, CreateIntent, HistoriesInv, HistoryInv, EventTypes
<1>2. /\ journal'[o] = Intent(d) /\ journal'[o] \in Records
      /\ \A p \in Operations : p # o => journal'[p] = journal[p]
      /\ Intent(d).receipt = d /\ Intent(d).outcome = "not_started" /\ ~Intent(d).admitted
      /\ ValidRecord(Intent(d)) /\ Intent(d) # NoOperation
  BY DEF LogIntent, CreateIntent, IInv, TypeOK, Intent, NoOperation, ValidRecord, Running
<1>3. r \in ReceiptRecords
  BY DEF NoReceipt, ReceiptRecords, EffectStatuses
<1>4. Len(events[o]) = 0
  BY <1>1, EmptySeq
<1> DEFINE e == [type |-> "requested", snapshot |-> Snapshot(journal'[o]), receipt |-> r]
<1>5. /\ events' \in [Operations -> Seq(Events)]
      /\ events'[o] # <<>> /\ Len(events'[o]) = 1 /\ DOMAIN events'[o] = {1} /\ events'[o][1] = e
      /\ \A p \in Operations : p # o => events'[p] = events[p]
  <2> HIDE DEF r
  <2>1. /\ events' \in [Operations -> Seq(Events)]
        /\ events'[o] # <<>> /\ Len(events'[o]) = 0 + 1 /\ DOMAIN events'[o] = 1 .. 0 + 1
        /\ events'[o][0 + 1] = e
        /\ \A p \in Operations : p # o => events'[p] = events[p]
    BY <1>1, <1>2, <1>3, <1>4, Logging
  <2> QED
    BY <2>1
<1>6. e.type = "requested" /\ e.receipt = NoReceipt /\ e.snapshot = Snapshot(Intent(d))
  BY <1>2
<1>7. Snapshot(Intent(d)) = Intent(d)
  <2>1. /\ Intent(d) \in Records /\ Snapshot(Intent(d)) \in Records
        /\ Snapshot(Intent(d)).admitted = FALSE /\ Intent(d).admitted = FALSE
    BY <1>2 DEF Records, Snapshot
  <2> QED
    BY <2>1, <1>2, SnapshotRecords, SameRecord
<1> HIDE DEF e
<1>8. EventAccepted(o, 1)'
  BY <1>2, <1>5, <1>6, <1>7 DEF EventAccepted, IsRequest
<1>9. AuditAccepts(o)'
  <2>1. "admitted" \notin Types(o, DOMAIN events[o])'
    BY <1>5, <1>6 DEF Types
  <2> QED
    BY <1>2, <1>5, <1>6, <1>7, <1>8, <2>1 DEF AuditAccepts
<1>10. InOrder(o)'
  BY <1>5 DEF InOrder
<1>11. LastTold(o)'
  BY <1>2, <1>5, <1>6 DEF LastTold, Last, Outcomes
<1>12. \A p \in Operations : p # o => HistoryInv(p)'
  BY <1>2, <1>5, SameHistory DEF HistoriesInv
<1> QED
  BY <1>2, <1>5, <1>9, <1>10, <1>11, <1>12 DEF HistoriesInv, HistoryInv

LEMMA LogAdmissionStep ==
    ASSUME IInv, IInv', HistoriesInv, LogAdmission
    PROVE  HistoriesInv'
<1>1. PICK o \in Operations : Top.op = o
  BY TopOfStack DEF LogAdmission, MarkAdmitted, AtTop, IInv, GoodFrame
<1>2. /\ journal[o].outcome = "not_started" /\ ~journal[o].admitted /\ journal[o] # NoOperation
      /\ journal \in [Operations -> Records] /\ journal[o] \in Records
      /\ Logs(o, "admitted", NoReceipt) /\ "admitted" \in EventTypes
  BY <1>1 DEF LogAdmission, MarkAdmitted, NoOperation, EventTypes, IInv, TypeOK
<1> DEFINE rec == [journal[o] EXCEPT !.admitted = TRUE]
<1>3. /\ journal' = [journal EXCEPT ![o] = rec] /\ journal'[o] = rec /\ journal'[o] \in Records
  BY <1>1, <1>2 DEF LogAdmission, MarkAdmitted, IInv, TypeOK
<1>4. /\ rec.receipt = journal[o].receipt /\ rec.outcome = "not_started" /\ rec.admitted
      /\ rec # NoOperation /\ Snapshot(rec) = Snapshot(journal[o])
  BY <1>2 DEF Records, Snapshot, NoOperation
<1>5. ValidRecord(Snapshot(rec)) /\ Snapshot(rec).receipt = rec.receipt
      /\ Snapshot(rec).outcome = "not_started"
  BY <1>2, <1>4, SnapshotRecords DEF IInv, JournalInv, RecordInv
<1>6. NoReceipt \in ReceiptRecords
  BY DEF NoReceipt, ReceiptRecords, EffectStatuses
<1> HIDE DEF rec
<1>7. PICK m : m = Len(events[o]) + 1
  OBVIOUS
<1>8. /\ m \in Nat /\ m > 1
      /\ events'[o][m].type = "admitted" /\ events'[o][m].receipt = NoReceipt
      /\ events'[o][m].snapshot = Snapshot(rec)
      /\ events'[o][m - 1].snapshot = Snapshot(journal[o])
      /\ "admitted" \in Types(o, Before(m))' <=> journal[o].admitted
      /\ Last(o)' = events'[o][m]
  <2> HIDE DEF Last
  <2> QED
    BY <1>2, <1>3, <1>6, <1>7, Appended
<1>9. EventAccepted(o, m)'
  BY <1>2, <1>3, <1>4, <1>5, <1>8 DEF EventAccepted, IsAdmission
<1>10. \A i \in DOMAIN events[o] : MayFollow(events[o][i].type, "admitted")
  BY <1>2, OpenHistories DEF MayFollow
<1>11. LastTold(o)'
  BY <1>3, <1>4, <1>8 DEF LastTold, Outcomes
<1>12. journal' = [journal EXCEPT ![o] = journal'[o]]
  BY <1>3
<1> QED
  BY <1>2, <1>3, <1>4, <1>6, <1>7, <1>8, <1>9, <1>10, <1>11, <1>12, Growing

LEMMA LogStartStep ==
    ASSUME IInv, IInv', HistoriesInv, LogStart
    PROVE  HistoriesInv'
<1>1. PICK o \in Operations : Top.op = o
  BY TopOfStack DEF LogStart, MarkRunning, AtTop, IInv, GoodFrame
<1>2. /\ journal[o].outcome = "not_started" /\ journal[o].admitted /\ journal[o] # NoOperation
      /\ journal \in [Operations -> Records] /\ journal[o] \in Records
      /\ Logs(o, "started", NoReceipt) /\ "started" \in EventTypes
  BY <1>1 DEF LogStart, MarkRunning, NoOperation, EventTypes, IInv, TypeOK
<1> DEFINE rec == [journal[o] EXCEPT !.outcome = "running"]
<1>3. /\ journal' = [journal EXCEPT ![o] = rec] /\ journal'[o] = rec /\ journal'[o] \in Records
  BY <1>1, <1>2 DEF LogStart, MarkRunning, IInv, TypeOK
<1>4. /\ rec.receipt = journal[o].receipt /\ rec.outcome = "running" /\ rec.admitted = journal[o].admitted
      /\ rec # NoOperation /\ Snapshot(journal[o]).outcome = "not_started"
  BY <1>2, SnapshotRecords DEF Records, NoOperation
<1>5. ValidRecord(Snapshot(rec)) /\ Snapshot(rec).receipt = rec.receipt /\ Snapshot(rec).outcome = "running"
  BY <1>3, <1>4, SnapshotRecords DEF IInv, JournalInv, RecordInv
<1>6. NoReceipt \in ReceiptRecords
  BY DEF NoReceipt, ReceiptRecords, EffectStatuses
<1> HIDE DEF rec
<1>7. PICK m : m = Len(events[o]) + 1
  OBVIOUS
<1>8. /\ m \in Nat /\ m > 1
      /\ events'[o][m].type = "started" /\ events'[o][m].receipt = NoReceipt
      /\ events'[o][m].snapshot = Snapshot(rec)
      /\ events'[o][m - 1].snapshot = Snapshot(journal[o])
      /\ "admitted" \in Types(o, Before(m))' <=> journal[o].admitted
      /\ Last(o)' = events'[o][m]
  <2> HIDE DEF Last
  <2> QED
    BY <1>2, <1>3, <1>6, <1>7, Appended
<1>9. EventAccepted(o, m)'
  BY <1>2, <1>3, <1>4, <1>5, <1>8 DEF EventAccepted, IsStart
<1>10. \A i \in DOMAIN events[o] : MayFollow(events[o][i].type, "started")
  BY <1>2, OpenHistories DEF MayFollow
<1>11. LastTold(o)'
  BY <1>3, <1>4, <1>8 DEF LastTold, Outcomes
<1>12. journal' = [journal EXCEPT ![o] = journal'[o]]
  BY <1>3
<1>13. journal'[o].admitted <=> (journal[o].admitted \/ "started" = "admitted")
  BY <1>3, <1>4
<1> QED
  BY <1>2, <1>3, <1>4, <1>6, <1>7, <1>8, <1>9, <1>10, <1>11, <1>12, <1>13, Growing

(* An open Operation gets its outcome. *)
LEMMA LogEnding ==
    ASSUME IInv, IInv', HistoriesInv, NEW o \in Operations, journal[o].outcome \in Running,
           NEW t \in Ends, NEW outcome \in Outcomes, NEW effect \in EffectStatuses,
           journal' = [journal EXCEPT ![o] = Finished(journal[o], outcome, effect)],
           journal[o].outcome = "not_started" => outcome = "failed",
           t = "interrupted" => journal[o].outcome = "running" /\ outcome = "failed",
           Logs(o, t, ReceiptOf("execution", o))
    PROVE  HistoriesInv'
<1> DEFINE rec == Finished(journal[o], outcome, effect)
           r == ReceiptOf("execution", o)
<1>1. /\ journal \in [Operations -> Records] /\ journal[o] \in Records /\ journal[o] # NoOperation
      /\ t \in EventTypes
  BY DEF IInv, TypeOK, NoOperation, Running, EventTypes
<1>2. /\ rec \in Records /\ rec.outcome = outcome /\ rec.effect = effect
      /\ rec.receipt = journal[o].receipt /\ rec.admitted = journal[o].admitted
      /\ rec.reconciliation = Reconciliation(effect)
  BY <1>1, FinishedRecord
<1>3. journal'[o] = rec /\ rec # NoOperation
  BY <1>1, <1>2 DEF NoOperation, Outcomes
<1>4. /\ ValidRecord(Snapshot(rec)) /\ Snapshot(rec).receipt = rec.receipt
      /\ Snapshot(rec).outcome = outcome /\ Snapshot(rec).effect = effect
      /\ Snapshot(rec).reconciliation = Reconciliation(effect)
      /\ Snapshot(journal[o]).outcome = journal[o].outcome
  BY <1>1, <1>2, <1>3, SnapshotRecords DEF IInv, JournalInv, RecordInv
<1>5. r \in ReceiptRecords /\ r.kind = "execution" /\ r.outcome = outcome /\ r.effect = effect
  BY <1>2, <1>3 DEF ReceiptOf, ReceiptRecords, Running, Outcomes
<1> HIDE DEF rec, r
<1>6. PICK m : m = Len(events[o]) + 1
  OBVIOUS
<1>7. /\ m \in Nat /\ m > 1
      /\ events'[o][m].type = t /\ events'[o][m].receipt = r
      /\ events'[o][m].snapshot = Snapshot(rec)
      /\ events'[o][m - 1].snapshot = Snapshot(journal[o])
      /\ Last(o)' = events'[o][m] /\ m \in DOMAIN events'[o]
  <2>1. Logs(o, t, r)
    BY DEF r
  <2> HIDE DEF Last
  <2> QED
    BY <1>1, <1>2, <1>3, <1>5, <1>6, <2>1, Appended
<1>8. IsEnd(o, m)'
  BY <1>4, <1>5, <1>7 DEF IsEnd, Reconciliation, Running
<1>9. EventAccepted(o, m)'
  BY <1>2, <1>3, <1>4, <1>7, <1>8 DEF EventAccepted, Ends
<1>10. \A i \in DOMAIN events[o] : MayFollow(events[o][i].type, t)
  BY <1>1, OpenHistories DEF MayFollow, Running
<1>11. LastTold(o)'
  BY <1>2, <1>3, <1>5, <1>7 DEF LastTold, Outcomes
<1>12. journal' = [journal EXCEPT ![o] = journal'[o]]
  BY <1>3 DEF rec
<1>13. journal'[o].admitted <=> (journal[o].admitted \/ t = "admitted")
  BY <1>2, <1>3 DEF Ends
<1>14. Logs(o, t, r)
  BY DEF r
<1> QED
  BY <1>1, <1>2, <1>3, <1>5, <1>6, <1>7, <1>9, <1>10, <1>11, <1>12, <1>13, <1>14, Growing

LEMMA LogReconciliationStep ==
    ASSUME IInv, IInv', HistoriesInv, LogReconciliation
    PROVE  HistoriesInv'
<1>1. PICK o \in Operations : Top.op = o
  BY TopOfStack DEF LogReconciliation, ApplyReconciliation, AtTop, IInv, GoodFrame
<1>2. PICK effect \in Reportable(o) \ {"not_applicable", "unknown"} :
        IF Applicable(o, effect)
        THEN /\ journal'[o] = Reconciled(journal[o], effect)
             /\ Logs(o, "reconciled", ReceiptOf("reconciliation", o))
        ELSE UNCHANGED <<journal, events>>
  BY <1>1 DEF LogReconciliation
<1>3. CASE ~Applicable(o, effect)
  BY <1>2, <1>3, SameHistory DEF HistoriesInv
<1>4. CASE Applicable(o, effect)
  <2> DEFINE rec == Reconciled(journal[o], effect)
             r == ReceiptOf("reconciliation", o)
  <2>1. /\ journal \in [Operations -> Records] /\ journal[o] \in Records
        /\ journal[o].effect = "indeterminate" /\ journal[o] # NoOperation
        /\ journal[o].reconciliation \in {"pending", "unresolved"} /\ effect \in EffectStatuses
    BY <1>4 DEF IInv, TypeOK, Applicable, NoOperation, Reportable, EffectStatuses
  <2>2. journal[o].outcome \in Outcomes
    BY <2>1 DEF IInv, JournalInv, RecordInv, ValidRecord, Records, Running
  <2>3. /\ rec \in Records /\ rec.outcome = journal[o].outcome /\ rec.effect = effect
        /\ rec.receipt = journal[o].receipt /\ rec.admitted = journal[o].admitted
    BY <2>1, ReconciledRecord
  <2>4. rec.reconciliation = IF effect = "indeterminate" THEN "unresolved" ELSE "resolved"
    BY <2>1 DEF Reconciled, Records
  <2>5. journal'[o] = rec /\ rec # NoOperation /\ journal' = [journal EXCEPT ![o] = journal'[o]]
    <3>1. journal'[o] = rec
      BY <1>2, <1>4
    <3>2. rec # NoOperation
      BY <2>2, <2>3 DEF NoOperation, Outcomes
    <3>3. PICK eff : \/ journal' = [journal EXCEPT ![o] = Reconciled(@, eff)]
                     \/ UNCHANGED journal
      BY <1>1 DEF LogReconciliation, ApplyReconciliation
    <3> QED
      BY <2>1, <3>1, <3>2, <3>3
  <2>6. /\ ValidRecord(Snapshot(rec)) /\ Snapshot(rec).receipt = rec.receipt
        /\ Snapshot(rec).outcome = rec.outcome /\ Snapshot(rec).effect = effect
        /\ Snapshot(rec).reconciliation = rec.reconciliation
        /\ Snapshot(journal[o]).outcome = journal[o].outcome
        /\ Snapshot(journal[o]).effect = journal[o].effect
        /\ Snapshot(journal[o]).reconciliation = journal[o].reconciliation
    BY <2>1, <2>3, <2>5, SnapshotRecords DEF IInv, JournalInv, RecordInv
  <2>7. r \in ReceiptRecords /\ r.kind = "reconciliation" /\ r.effect = effect
    BY <2>1, <2>2, <2>3, <2>5 DEF ReceiptOf, ReceiptRecords
  <2>8. Logs(o, "reconciled", r) /\ "reconciled" \in EventTypes
    BY <1>2, <1>4 DEF EventTypes
  <2> HIDE DEF rec, r
  <2>9. PICK m : m = Len(events[o]) + 1
    OBVIOUS
  <2>10. /\ m \in Nat /\ m > 1
         /\ events'[o][m].type = "reconciled" /\ events'[o][m].receipt = r
         /\ events'[o][m].snapshot = Snapshot(rec)
         /\ events'[o][m - 1].snapshot = Snapshot(journal[o])
         /\ Last(o)' = events'[o][m] /\ m \in DOMAIN events'[o]
         /\ \A i \in DOMAIN events[o] : i \in DOMAIN events'[o] /\ events'[o][i] = events[o][i]
    <3> HIDE DEF Last
    <3> QED
      BY <2>1, <2>3, <2>5, <2>7, <2>8, <2>9, Appended
  <2>11. IsReconciliation(o, m)'
    BY <2>1, <2>2, <2>3, <2>4, <2>6, <2>7, <2>10 DEF IsReconciliation, Running, Outcomes
  <2>12. EventAccepted(o, m)'
    BY <2>3, <2>5, <2>6, <2>10, <2>11 DEF EventAccepted
  <2>13. \A i \in DOMAIN events[o] : MayFollow(events[o][i].type, "reconciled")
    BY DEF MayFollow
  <2>14. LastTold(o)'
    <3>1. PICK e \in DOMAIN events[o] : /\ events[o][e].type \in Ends
                                        /\ events[o][e].receipt.kind = "execution"
                                        /\ events[o][e].receipt.outcome = journal[o].outcome
      BY <2>1, <2>2 DEF HistoriesInv, HistoryInv, LastTold
    <3> QED
      BY <2>2, <2>3, <2>5, <2>7, <2>10, <3>1 DEF LastTold, Outcomes
  <2>15. journal'[o].admitted <=> (journal[o].admitted \/ "reconciled" = "admitted")
    BY <2>3, <2>5
  <2> QED
    BY <2>1, <2>3, <2>5, <2>7, <2>8, <2>9, <2>10, <2>12, <2>13, <2>14, <2>15, Growing
<1> QED
  BY <1>3, <1>4

LEMMA LogRefusalStep ==
    ASSUME IInv, IInv', HistoriesInv, LogRefusal
    PROVE  HistoriesInv'
<1>1. PICK o \in Operations : Top.op = o
  BY TopOfStack DEF LogRefusal, RefuseAdmission, AtTop, IInv, GoodFrame
<1>2. /\ journal[o].outcome = "not_started"
      /\ Logs(o, "finished", ReceiptOf("execution", o))
  BY <1>1 DEF LogRefusal, RefuseAdmission, IInv, CallInv
<1>3. PICK effect \in EffectStatuses : NotDispatched(o) = Finished(journal[o], "failed", effect)
  BY DEF NotDispatched, EffectStatuses
<1>4. journal' = [journal EXCEPT ![o] = Finished(journal[o], "failed", effect)]
  BY <1>1, <1>3 DEF LogRefusal, RefuseAdmission
<1> QED
  BY <1>2, <1>4, LogEnding DEF Running, Outcomes, Ends

LEMMA LogFinishStep ==
    ASSUME IInv, IInv', HistoriesInv, LogFinish
    PROVE  HistoriesInv'
<1>1. PICK o \in Operations : Top.op = o
  BY TopOfStack DEF LogFinish, Finish, AtTop, IInv, GoodFrame
<1>2. CASE journal' = journal
  BY <1>2, SameHistory DEF LogFinish, HistoriesInv
<1>3. CASE journal' # journal
  <2>1. PICK outcome \in Outcomes, effect \in Reportable(o) :
          /\ Recordable(o, outcome, effect)
          /\ journal' = [journal EXCEPT ![o] = Finished(journal[o], outcome, effect)]
    BY <1>1, <1>3 DEF LogFinish, Finish
  <2>2. /\ journal[o].outcome = "running" /\ effect \in EffectStatuses
        /\ Logs(o, "finished", ReceiptOf("execution", o))
    BY <1>1, <1>3, <2>1 DEF LogFinish, Recordable, Reportable, EffectStatuses
  <2> QED
    BY <2>1, <2>2, LogEnding DEF Running, Ends
<1> QED
  BY <1>2, <1>3

LEMMA LogRecoveryStep ==
    ASSUME IInv, IInv', HistoriesInv, NEW o \in Operations, LogRecovery(o)
    PROVE  HistoriesInv'
<1>0. journal' = [journal EXCEPT ![o] = Recovered(o)] /\ journal \in [Operations -> Records]
  BY DEF LogRecovery, RecoverOne, IInv, TypeOK
<1>1. CASE journal[o].outcome = "not_started"
  <2>1. PICK effect \in EffectStatuses : NotDispatched(o) = Finished(journal[o], "failed", effect)
    BY DEF NotDispatched, EffectStatuses
  <2>2. /\ journal' = [journal EXCEPT ![o] = Finished(journal[o], "failed", effect)]
        /\ Logs(o, "finished", ReceiptOf("execution", o))
    BY <1>0, <1>1, <2>1 DEF LogRecovery, Recovered
  <2> QED
    BY <1>1, <2>2, LogEnding DEF Running, Outcomes, Ends
<1>2. CASE journal[o].outcome = "running"
  <2>1. PICK effect \in EffectStatuses : Interrupted(o) = Finished(journal[o], "failed", effect)
    BY DEF Interrupted, EffectStatuses
  <2>2. /\ journal' = [journal EXCEPT ![o] = Finished(journal[o], "failed", effect)]
        /\ Logs(o, "interrupted", ReceiptOf("execution", o))
    BY <1>0, <1>2, <2>1 DEF LogRecovery, Recovered
  <2> QED
    BY <1>2, <2>2, LogEnding DEF Running, Outcomes, Ends
<1>3. CASE journal[o].outcome \notin Running
  <2>1. journal' = [journal EXCEPT ![o] = journal[o]] /\ UNCHANGED events
    BY <1>0, <1>3 DEF LogRecovery, Recovered, Running
  <2>2. \A p \in Operations : journal'[p] = journal[p]
    BY <1>0, <2>1
  <2> QED
    BY <2>1, <2>2, SameHistory DEF HistoriesInv
<1> QED
  BY <1>1, <1>2, <1>3 DEF Running

(* An audited step is a step of the host. *)
LEMMA AuditedSteps == AuditNext => Next
<1> SUFFICES ASSUME AuditNext PROVE Next
  OBVIOUS
<1>1. ASSUME NEW o \in Operations, NEW d \in Decisions, LogIntent(o, d) PROVE Next
  BY <1>1 DEF LogIntent, Next
<1>2. CASE LogNothing
  BY <1>2 DEF LogNothing, Next
<1>3. CASE AuditStep
  BY <1>3 DEF AuditStep, LogRefusal, LogAdmission, LogStart, LogFinish, LogReconciliation, LogRecovery,
              SilentStep, Next, Step
<1> QED
  BY <1>1, <1>2, <1>3 DEF AuditNext

LEMMA HistoriesNext ==
    ASSUME IInv, HistoriesInv, [AuditNext]_auditVars
    PROVE  HistoriesInv'
<1>1. IInv'
  BY AuditedSteps, NextHolds DEF auditVars
<1>2. ASSUME NEW o \in Operations, NEW d \in Decisions, LogIntent(o, d) PROVE HistoriesInv'
  BY <1>1, <1>2, LogIntentStep
<1>3. ASSUME NEW o \in Operations, LogRecovery(o) PROVE HistoriesInv'
  BY <1>1, <1>3, LogRecoveryStep
<1>4. CASE LogRefusal \/ LogAdmission \/ LogStart \/ LogFinish \/ LogReconciliation
  BY <1>1, <1>4, LogRefusalStep, LogAdmissionStep, LogStartStep, LogFinishStep, LogReconciliationStep
<1>5. CASE UNCHANGED <<journal, events>>
  BY <1>5, SameHistory DEF HistoriesInv
<1>6. (LogNothing \/ SilentStep) => UNCHANGED journal
  BY DEF LogNothing, SilentStep, IssueAuthority, FactsChange, BackendSettles, BeginReconcile, BeginRecovery,
         Crash, Raise, Restart, ConsumeAuthority, Dispatch, EndRecovery
<1>7. UNCHANGED auditVars => UNCHANGED <<journal, events>>
  BY DEF auditVars, vars
<1> QED
  BY <1>2, <1>3, <1>4, <1>5, <1>6, <1>7 DEF AuditNext, AuditStep

(* A history in order, which the audit accepts, is one the import accepts:  *)
(* its one end, if it is there, comes after everything but reconciliations. *)
LEMMA ImportFollows ==
    ASSUME IInv, HistoriesInv, NEW o \in Operations, journal[o] # NoOperation
    PROVE  ImportAccepts(o)
<1> DEFINE n == Len(events[o])
           ends == {i \in DOMAIN events[o] : events[o][i].type \in Ends}
           answers == Receipts(o, "reconciliation")
<1>1. /\ n \in Nat \ {0} /\ DOMAIN events[o] = 1 .. n
      /\ \A i \in 1 .. n : events[o][i] \in Events
  BY Histories
<1>2. AuditAccepts(o) /\ InOrder(o) /\ LastTold(o)
  BY DEF HistoriesInv, HistoryInv
<1>3. \A i \in 1 .. n : EventAccepted(o, i)
  BY <1>1, <1>2 DEF AuditAccepts
<1>4. \A i \in 1 .. n : /\ events[o][i].type \in EventTypes
                        /\ events[o][i].receipt.kind = "reconciliation" <=> events[o][i].type = "reconciled"
                        /\ events[o][i].receipt.kind = "execution" <=> events[o][i].type \in Ends
  <2> SUFFICES ASSUME NEW i \in 1 .. n
               PROVE  /\ events[o][i].type \in EventTypes
                      /\ events[o][i].receipt.kind = "reconciliation" <=> events[o][i].type = "reconciled"
                      /\ events[o][i].receipt.kind = "execution" <=> events[o][i].type \in Ends
    OBVIOUS
  <2>1. events[o][i].type \in EventTypes
    BY <1>1 DEF Events
  <2>2. EventAccepted(o, i)
    BY <1>3
  <2>3. CASE events[o][i].type \in {"requested", "admitted", "started"}
    <3>1. events[o][i].receipt = NoReceipt
      BY <2>2, <2>3 DEF EventAccepted, IsRequest, IsAdmission, IsStart
    <3> QED
      BY <2>1, <2>3, <3>1 DEF NoReceipt, Ends
  <2>4. CASE events[o][i].type = "reconciled"
    BY <2>1, <2>2, <2>4 DEF EventAccepted, IsReconciliation, Ends
  <2>5. CASE events[o][i].type \in Ends
    BY <2>1, <2>2, <2>5 DEF EventAccepted, IsEnd, Ends
  <2> QED
    BY <2>1, <2>3, <2>4, <2>5 DEF EventTypes
<1>5. \A i \in 1 .. n, j \in 1 .. n : i < j => MayFollow(events[o][i].type, events[o][j].type)
  BY <1>1, <1>2 DEF InOrder
<1>6. events[o][1].type = "requested"
  <2>1. 1 \in 1 .. n /\ EventAccepted(o, 1)
    BY <1>1, <1>3
  <2> QED
    BY <2>1, <1>4 DEF EventAccepted, IsAdmission, IsStart, IsEnd, IsReconciliation, EventTypes, Ends
<1>7. IsFiniteSet(1 .. n)
  BY <1>1, FS_Interval
<1>8. \A type \in {"requested", "admitted", "started"} : Count(o, {type}) <= 1
  <2> SUFFICES ASSUME NEW type \in {"requested", "admitted", "started"} PROVE Count(o, {type}) <= 1
    OBVIOUS
  <2> DEFINE S == {i \in 1 .. n : events[o][i].type = type}
  <2>1. \A i, j \in S : i = j
    BY <1>1, <1>5 DEF MayFollow, Ends
  <2>2. Cardinality(S) <= 1
    <3> HIDE DEF S
    <3> QED
      BY <2>1, AtMostOne
  <2> QED
    BY <1>1, <2>2 DEF Count
<1>9. \A i, j \in ends : i = j
  BY <1>1, <1>5 DEF MayFollow, Ends
<1>10. ends = Receipts(o, "execution")
  BY <1>1, <1>4 DEF Receipts
<1>11. answers = {i \in 1 .. n : events[o][i].type = "reconciled"}
  BY <1>1, <1>4 DEF Receipts
<1>12. Count(o, {"reconciled"}) = Cardinality(answers)
  BY <1>1, <1>11 DEF Count
<1>13. /\ ends \in SUBSET (1 .. n) /\ answers \in SUBSET (1 .. n)
  BY <1>1, <1>11
<1>14. Cardinality(ends) <= 1 /\ Cardinality(Receipts(o, "execution")) <= 1
  <2> HIDE DEF ends
  <2> QED
    BY <1>9, <1>10, AtMostOne
<1>15. \A i \in DOMAIN events[o] : events[o][i].type = "started" => "admitted" \in Types(o, Before(i))
  BY <1>1, <1>3 DEF EventAccepted, IsStart
<1>16. CASE journal[o].outcome = "not_started"
  <2>1. \A i \in 1 .. n : events[o][i].type \in {"requested", "admitted"}
    BY <1>1, <1>16, OpenHistories
  <2>2. Types(o, DOMAIN events[o]) \subseteq {"requested", "admitted"} /\ answers = {}
    BY <1>1, <1>11, <2>1 DEF Types
  <2> QED
    BY <1>6, <1>8, <1>12, <1>14, <1>15, <1>16, <2>2 DEF ImportAccepts, Ends
<1>17. CASE journal[o].outcome = "running"
  <2>1. \A i \in 1 .. n : events[o][i].type \in {"requested", "admitted", "started"}
    BY <1>1, <1>17, OpenHistories
  <2>2. ends = {} /\ answers = {} /\ events[o][n].type = "started"
    BY <1>1, <1>2, <1>11, <1>17, <2>1 DEF LastTold, Last, Ends
  <2> QED
    BY <1>6, <1>8, <1>12, <1>14, <1>15, <1>17, <2>2 DEF ImportAccepts, Ends
<1>18. CASE journal[o].outcome \notin Running
  <2>1. journal[o].outcome \in Outcomes
    BY <1>18 DEF IInv, TypeOK, JournalInv, RecordInv, Records
  <2>2. PICK e \in 1 .. n : /\ events[o][e].type \in Ends
                            /\ events[o][e].receipt.outcome = journal[o].outcome
    BY <1>1, <1>2, <2>1 DEF LastTold
  <2>3. ends = {e}
    BY <1>1, <1>9, <2>2
  <2>4. \A i \in 1 .. n : events[o][i].type = "reconciled" <=> i > e
    BY <1>4, <1>5, <2>2 DEF MayFollow, Ends, EventTypes
  <2>5. answers = (e + 1) .. n
    <3>1. \A i : i \in answers <=> i \in 1 .. n /\ i > e
      BY <1>11, <2>4
    <3>2. \A i : i \in 1 .. n /\ i > e <=> i \in (e + 1) .. n
      BY <1>1, <2>2
    <3> HIDE DEF answers
    <3> QED
      BY <3>1, <3>2
  <2>6. Max(ends) = e /\ Min(ends) = e
    BY <2>2, <2>3 DEF Max, Min
  <2>7. answers # {} => Max(answers) = n /\ Min(answers) = e + 1
    <3> SUFFICES ASSUME e + 1 \in 1 .. n PROVE Max(answers) = n /\ Min(answers) = e + 1
      <4>1. \A i \in (e + 1) .. n : e + 1 <= n
        BY <1>1, <2>2
      <4> QED
        BY <1>1, <2>2, <2>5, <4>1
    <3>1. e + 1 \in Nat /\ n \in Nat /\ e + 1 <= n
      BY <1>1, <2>2
    <3> HIDE DEF n, answers
    <3> QED
      BY <2>5, <3>1, BoundsOfInterval
  <2>8. answers = {} => e = n
    <3>1. e < n => n \in (e + 1) .. n
      BY <1>1, <2>2
    <3> HIDE DEF answers
    <3> QED
      BY <1>1, <2>2, <2>5, <3>1
  <2>9. events[o][n].receipt.effect = journal[o].effect
    BY <1>2, <2>1 DEF LastTold, Last
  <2> DEFINE settled == IF answers # {} THEN Max(answers) ELSE IF ends # {} THEN Max(ends) ELSE 0
  <2>10. settled = n
    BY <2>3, <2>6, <2>7, <2>8
  <2>11. answers # {} => ends # {} /\ Min(ends) < Min(answers)
    BY <2>2, <2>3, <2>6, <2>7
  <2>12. journal[o].outcome # "not_started" /\ journal[o].outcome # "running"
    BY <1>18 DEF Running
  <2>13. /\ Receipts(o, "execution") # {}
         /\ journal[o].outcome = events[o][Max(ends)].receipt.outcome
         /\ journal[o].effect = events[o][settled].receipt.effect
    BY <1>10, <2>2, <2>3, <2>6, <2>9, <2>10
  <2>14. journal[o].reconciliation =
           IF journal[o].effect = "indeterminate"
           THEN IF answers # {} THEN "unresolved" ELSE "pending"
           ELSE IF answers # {} THEN "resolved" ELSE "not_required"
    <3>1. n \in 1 .. n /\ EventAccepted(o, n)
      BY <1>1, <1>3
    <3>2. events[o][n].snapshot.reconciliation = journal[o].reconciliation
      BY <1>2, SnapshotRecords DEF AuditAccepts, IInv, TypeOK
    <3>3. CASE answers = {}
      <4>1. events[o][n].type \in Ends
        BY <2>2, <2>8, <3>3
      <4>2. IsEnd(o, n)
        BY <3>1, <4>1 DEF EventAccepted, Ends
      <4> HIDE DEF answers
      <4> QED
        BY <2>9, <3>2, <3>3, <4>2 DEF IsEnd
    <3>4. CASE answers # {}
      <4>1. events[o][n].type = "reconciled"
        BY <1>1, <2>2, <2>4, <2>5, <3>4
      <4>2. IsReconciliation(o, n)
        BY <3>1, <4>1 DEF EventAccepted
      <4> HIDE DEF answers
      <4> QED
        BY <2>9, <3>2, <3>4, <4>2 DEF IsReconciliation
    <3> QED
      BY <3>3, <3>4
  <2> QED
    BY <1>6, <1>8, <1>12, <1>14, <1>15, <2>11, <2>12, <2>13, <2>14 DEF ImportAccepts, Ends
<1> QED
  BY <1>16, <1>17, <1>18 DEF Running

LEMMA AuditInvariance == AuditSpec => [](IInv /\ HistoriesInv)
<1>1. AuditInit => IInv /\ HistoriesInv
  <2> SUFFICES ASSUME AuditInit PROVE HistoriesInv
    BY InitHolds DEF AuditInit
  <2>1. events \in [Operations -> Seq(Events)]
    BY EmptySeq DEF AuditInit
  <2> QED
    BY <2>1 DEF AuditInit, Init, HistoriesInv, HistoryInv
<1>2. IInv /\ HistoriesInv /\ [AuditNext]_auditVars => IInv' /\ HistoriesInv'
  BY AuditedSteps, NextHolds, HistoriesNext DEF auditVars
<1> QED
  BY <1>1, <1>2, PTL DEF AuditSpec

(* Every audited behaviour is one of the host, so what is proved of Spec    *)
(* holds beside the history too.                                            *)
THEOREM AuditIsHost == AuditSpec => Spec
<1>1. AuditInit => Init
  BY DEF AuditInit
<1>2. [AuditNext]_auditVars => [Next]_vars
  BY AuditedSteps DEF auditVars
<1> QED
  BY <1>1, <1>2, PTL DEF AuditSpec, Spec

(* The audit of the Program and the import of its bundle accept the history *)
(* of every Operation, whatever it went through.                            *)
THEOREM HistoriesAreAuditable == AuditSpec => []HistoriesAudit
<1>1. IInv /\ HistoriesInv => HistoriesAudit
  BY ImportFollows DEF HistoriesAudit, HistoriesInv, HistoryInv
<1> QED
  BY <1>1, AuditInvariance, PTL

-----------------------------------------------------------------------------
(* The local product: its inductive invariant beside that of the host *)

LocalTyped ==
    /\ ledger \in Seq(Statuses) /\ ledger # <<>>
    /\ linked \subseteq Operations
    /\ control \in Seq([paused : BOOLEAN, revision : Nat])
    /\ decision \in [Decisions -> {NoDecision} \cup
          [kind : {"deny", "ask", "allow"}, request : Requests, revision : Nat]]
    /\ approval \in [Decisions -> {"none", "given", "consumed"}]
    /\ call \in {NoCall} \cup [step : {"decided", "issued"}, decision : Decisions]
                         \cup [step : {"hosted", "executed"}, operation : Operations]

(* What is decided and not used up was decided at this Program revision.    *)
DecidedNow ==
    /\ \A d \in Decisions : receipt[d] # "none" \/ approval[d] # "none" => decision[d] # NoDecision
    /\ \A d \in Unused : decision[d].revision = Revision

(* d may be used by the call in progress. *)
Permits(d) ==
    /\ d \in Decisions /\ decision[d] # NoDecision /\ decision[d].revision = Revision
    /\ decision[d].kind = "ask" => approval[d] = "consumed"

(* A call keeps the Program as it found it, and is the only user of the     *)
(* host: what it decided on is still so when the host dispatches.           *)
CallHolds ==
    /\ call # NoCall => Ready
    /\ call.step # "hosted" => stack = <<>>
    /\ call.step \in {"decided", "issued"} => Permits(call.decision)
    /\ call.step = "hosted" =>
         /\ Len(stack) = 1 /\ Top.kind = "execute" /\ Top.op = call.operation
         /\ Permits(journal[call.operation].receipt)
         /\ Top.at = "calling" => sent[call.operation] > 0
         /\ call.operation \notin linked
    /\ call.step = "executed" => call.operation \in Executed \ linked

(* How often a call may have ended before its reference was written. *)
Losses == crashes + raised

LinkInv == IsFiniteSet(Executed \ linked) /\ ExecutedIsLinked

LocalInv == LocalTyped /\ DecidedNow /\ CallHolds /\ ControlVerifies /\ LinkInv

LEMMA LocalInitHolds ==
    LocalInit => LocalInv
<1> SUFFICES ASSUME LocalInit PROVE LocalInv
  OBVIOUS
<1>1. /\ ledger \in Seq(Statuses) /\ Len(ledger) = 1 /\ control = <<>> /\ linked = {} /\ call = NoCall
      /\ stack = <<>> /\ Executed = {} /\ crashes = 0 /\ raised = 0
      /\ \A d \in Decisions : receipt[d] = "none" /\ decision[d] = NoDecision
  BY DEF LocalInit, Init, ReceiptInit, Statuses, Executed
<1>2. LocalTyped
  BY <1>1 DEF LocalTyped, LocalInit
<1>3. DecidedNow
  BY <1>1 DEF DecidedNow, Unused, LocalInit
<1>4. CallHolds
  BY <1>1 DEF CallHolds, NoCall
<1>5. ControlVerifies
  BY <1>1 DEF ControlVerifies
<1>6. LinkInv
  <2>1. Executed \ linked = {} /\ IsFiniteSet({}) /\ Cardinality({}) = 0
    BY <1>1, FS_EmptySet
  <2> QED
    BY <1>1, <2>1 DEF LinkInv, ExecutedIsLinked, NoCall
<1> QED
  BY <1>2, <1>3, <1>4, <1>5, <1>6 DEF LocalInv

(* The kinds of calls. *)
LEMMA CallKinds ==
    ASSUME LocalTyped
    PROVE  \/ call = NoCall /\ call.step = "none"
           \/ call.step \in {"decided", "issued"} /\ call.decision \in Decisions
           \/ call.step \in {"hosted", "executed"} /\ call.operation \in Operations
BY DEF LocalTyped, NoCall

LEMMA LedgerIs ==
    ASSUME LocalTyped
    PROVE  Len(ledger) \in Nat \ {0} /\ Revision \in Nat /\ Status \in Statuses
BY EmptySeq DEF LocalTyped, Revision, Status

(* Nothing changed that the Program's control rests on. *)
LEMMA SameProgram ==
    ASSUME LocalInv, UNCHANGED <<ledger, control>>
    PROVE  ControlVerifies' /\ Revision' = Revision /\ Ready' = Ready
<1>1. Revision' = Revision /\ Status' = Status /\ Paused' = Paused
  BY DEF Revision, Status, Paused
<1> QED
  BY <1>1 DEF LocalInv, ControlVerifies, Ready

(* Nothing changed that the references rest on. *)
LEMMA SameLinks ==
    ASSUME LocalInv, Executed' = Executed, UNCHANGED <<linked, crashes, raised>>,
           call.step = "executed" <=> call'.step = "executed"
    PROVE  LinkInv'
BY DEF LocalInv, LinkInv, ExecutedIsLinked

(* Nothing changed that the decisions rest on. *)
LEMMA SameDecisions ==
    ASSUME LocalInv, UNCHANGED <<ledger, decision>>,
           \A d \in Decisions : receipt'[d] \in {"none", "issued"} => receipt[d] \in {"none", "issued"},
           \A d \in Decisions : receipt'[d] # "none" => receipt[d] # "none" \/ decision[d] # NoDecision,
           \A d \in Decisions : approval'[d] # "none" => approval[d] # "none" \/ decision[d] # NoDecision
    PROVE  DecidedNow'
<1>1. Revision' = Revision
  BY DEF Revision
<1>2. Unused' \subseteq Unused
  BY DEF Unused
<1> QED
  BY <1>1, <1>2 DEF LocalInv, DecidedNow, Unused

LEMMA SamePermission ==
    ASSUME NEW d, Permits(d), UNCHANGED <<ledger, decision>>, approval'[d] = approval[d]
    PROVE  Permits(d)'
BY DEF Permits, Revision

-----------------------------------------------------------------------------
(* Steps of the product that leave the host alone *)

LEMMA HostStays ==
    ASSUME LocalInv, UNCHANGED vars
    PROVE  /\ UNCHANGED <<receipt, journal, world, sent, stack, up, crashes, raised>>
           /\ Executed' = Executed
BY DEF vars, hostVars, Executed

LEMMA SetPausedKeeps ==
    ASSUME IInv, LocalInv, NEW b \in BOOLEAN, SetPaused(b)
    PROVE  LocalInv'
<1> DEFINE c == [paused |-> b, revision |-> Revision]
           n == Len(control)
<1>1. /\ Idle /\ Status = "active" /\ Paused # b /\ control' = Append(control, c)
      /\ UNCHANGED <<vars, ledger, linked, decision, approval, call>>
  BY DEF SetPaused, Controllable
<1>2. control \in Seq([paused : BOOLEAN, revision : Nat]) /\ n \in Nat /\ Revision \in Nat /\ LocalTyped
      /\ Revision + 1 = Len(ledger)
  BY LedgerIs DEF LocalInv, LocalTyped, Revision
<1>3. c \in [paused : BOOLEAN, revision : Nat] /\ c.paused = b /\ c.revision = Revision
  BY <1>2
<1> HIDE DEF c
<1>4. /\ control' \in Seq([paused : BOOLEAN, revision : Nat]) /\ Len(control') = n + 1
      /\ control'[n + 1] = c /\ \A i \in 1 .. n : control'[i] = control[i]
  BY <1>1, <1>2, <1>3
<1>5. LocalTyped'
  BY <1>1, <1>4 DEF LocalInv, LocalTyped
<1>6. DecidedNow' /\ LinkInv'
  BY <1>1, HostStays, SameDecisions, SameLinks
<1>7. CallHolds'
  <2>1. call' = NoCall /\ stack' = <<>>
    BY <1>1, HostStays DEF Idle
  <2> QED
    BY <2>1 DEF CallHolds, NoCall
<1>8. ControlVerifies'
  <2>1. Revision' = Revision /\ ledger' = ledger
    BY <1>1 DEF Revision
  <2>2. \A i \in 1 .. n : i > 1 => i - 1 \in 1 .. n
    BY <1>2
  <2>3. Paused = (n # 0 /\ control[n].paused)
    BY <1>2, EmptySeq DEF Paused
  <2>4. ASSUME NEW i \in 1 .. n
        PROVE  /\ control'[i].paused <=> i % 2 = 1
               /\ control'[i].revision <= Revision
               /\ ledger[control'[i].revision + 1] = "active"
               /\ i > 1 => control'[i - 1].revision <= control'[i].revision
    BY <1>4, <2>2 DEF LocalInv, ControlVerifies
  <2>5. (n + 1) % 2 = 1 <=> ~(n # 0 /\ n % 2 = 1)
    BY <1>2
  <2>6. n # 0 => n \in 1 .. n /\ (control[n].paused <=> n % 2 = 1) /\ control[n].revision <= Revision
    BY <1>2 DEF LocalInv, ControlVerifies
  <2>7. control'[n + 1].paused <=> (n + 1) % 2 = 1
    <3>1. control[n].paused \in BOOLEAN \/ n = 0
      <4>1. \A i \in 1 .. n : control[i] \in [paused : BOOLEAN, revision : Nat]
        BY <1>2, ElementOfSeq
      <4> QED
        BY <2>6, <4>1
    <3>2. b = ~Paused
      BY <1>1, <2>3, <3>1
    <3> QED
      BY <1>3, <1>4, <2>3, <2>5, <2>6, <3>2
  <2>8. /\ control'[n + 1].revision <= Revision
        /\ ledger[control'[n + 1].revision + 1] = "active"
    BY <1>1, <1>2, <1>3, <1>4 DEF Status
  <2>9. n + 1 > 1 => control'[n].revision <= control'[n + 1].revision
    <3>1. CASE n = 0
      BY <3>1
    <3>2. CASE n # 0
      <4>1. control'[n] = control[n]
        BY <1>2, <1>4, <3>2
      <4>2. control'[n + 1].revision = Revision
        BY <1>3, <1>4
      <4> QED
        BY <2>6, <3>2, <4>1, <4>2
    <3> QED
      BY <3>1, <3>2
  <2> QED
    <3> SUFFICES ASSUME NEW i \in 1 .. n + 1
                 PROVE  /\ control'[i].paused <=> i % 2 = 1
                        /\ control'[i].revision <= Revision
                        /\ ledger[control'[i].revision + 1] = "active"
                        /\ i > 1 => control'[i - 1].revision <= control'[i].revision
      BY <1>4, <2>1 DEF ControlVerifies
    <3>1. CASE i \in 1 .. n
      BY <2>4, <3>1
    <3>2. CASE i = n + 1
      BY <1>2, <2>7, <2>8, <2>9, <3>2
    <3> QED
      BY <1>2, <3>1, <3>2
<1> QED
  BY <1>5, <1>6, <1>7, <1>8 DEF LocalInv

LEMMA ApproveKeeps ==
    ASSUME IInv, LocalInv, NEW d \in Decisions, Approve(d)
    PROVE  LocalInv'
<1>1. /\ Idle /\ approval' = [approval EXCEPT ![d] = "given"]
      /\ UNCHANGED <<vars, programState, decision, call>>
  BY DEF Approve
<1>2. UNCHANGED <<ledger, linked, control>>
  BY <1>1 DEF programState
<1>3. LocalTyped'
  BY <1>1, <1>2 DEF LocalInv, LocalTyped
<1>4. LinkInv' /\ ControlVerifies'
  BY <1>1, <1>2, HostStays, SameLinks, SameProgram
<1>6. DecidedNow'
  <2>1. decision[d] # NoDecision
    BY DEF Approve, NoDecision
  <2>2. \A e \in Decisions : approval'[e] # "none" => approval[e] # "none" \/ decision[e] # NoDecision
    BY <1>1, <2>1 DEF LocalInv, LocalTyped
  <2> QED
    BY <1>1, <1>2, <2>2, HostStays, SameDecisions
<1>5. CallHolds'
  <2>1. call' = NoCall /\ stack' = <<>>
    BY <1>1, HostStays DEF Idle
  <2> QED
    BY <2>1 DEF CallHolds, NoCall
<1> QED
  BY <1>3, <1>4, <1>5, <1>6 DEF LocalInv

LEMMA InvokeKeeps ==
    ASSUME IInv, LocalInv, NEW d \in Decisions, NEW r \in Requests, Invoke(d, r)
    PROVE  LocalInv'
<1> USE DEF Invoke
<1>1. PICK kind \in {"deny", "ask", "allow"} :
        /\ decision' = [decision EXCEPT ![d] = [kind |-> kind, request |-> r, revision |-> Revision]]
        /\ call' = IF kind = "allow" THEN [step |-> "decided", decision |-> d] ELSE NoCall
  OBVIOUS
<1> DEFINE D == [kind |-> kind, request |-> r, revision |-> Revision]
<1>2. /\ Idle /\ Ready /\ decision[d] = NoDecision
      /\ UNCHANGED <<ledger, linked, control, approval>>
      /\ UNCHANGED <<receipt, journal, world, sent, stack, up, crashes, raised>> /\ Executed' = Executed
  BY HostStays DEF programState
<1>3. Revision \in Nat
  BY LedgerIs DEF LocalInv
<1>4. /\ D \in [kind : {"deny", "ask", "allow"}, request : Requests, revision : Nat]
      /\ D # NoDecision /\ D.revision = Revision /\ D.kind = kind
  BY <1>3 DEF NoDecision
<1> HIDE DEF D
<1>5. /\ decision' \in [Decisions -> {NoDecision} \cup
              [kind : {"deny", "ask", "allow"}, request : Requests, revision : Nat]]
      /\ \A e \in Decisions : decision'[e] = IF e = d THEN D ELSE decision[e]
  BY <1>1, <1>4 DEF LocalInv, LocalTyped, D
<1>6. LocalTyped'
  <2>1. call' \in {NoCall} \cup [step : {"decided", "issued"}, decision : Decisions]
    BY <1>1
  <2> QED
    BY <1>2, <1>5, <2>1 DEF LocalInv, LocalTyped
<1>7. ControlVerifies' /\ Revision' = Revision /\ Ready'
  BY <1>2, SameProgram
<1>8. LinkInv'
  <2>1. call.step # "executed" /\ call'.step # "executed"
    BY <1>1, <1>2 DEF Idle, NoCall
  <2> QED
    BY <1>2, <2>1, SameLinks
<1>9. DecidedNow'
  <2>1. \A e \in Unused' : e \in Unused \/ e = d
    BY <1>2, <1>5 DEF Unused
  <2> QED
    BY <1>2, <1>4, <1>5, <1>7, <2>1 DEF LocalInv, DecidedNow, Unused
<1>10. CallHolds'
  <2>1. stack' = <<>>
    BY <1>2 DEF Idle
  <2>2. CASE kind # "allow"
    BY <1>1, <2>1, <2>2 DEF CallHolds, NoCall
  <2>3. CASE kind = "allow"
    <3>1. call'.step = "decided" /\ call'.decision = d
      BY <1>1, <2>3
    <3>2. Permits(d)'
      BY <1>4, <1>5, <1>7, <2>3 DEF Permits
    <3> QED
      BY <1>7, <2>1, <3>1, <3>2 DEF CallHolds
  <2> QED
    BY <2>2, <2>3
<1> QED
  BY <1>6, <1>7, <1>8, <1>9, <1>10 DEF LocalInv

LEMMA RefuseAllowedKeeps ==
    ASSUME IInv, LocalInv, RefuseAllowed
    PROVE  LocalInv'
<1>1. /\ call.step = "decided" /\ call' = NoCall
      /\ UNCHANGED <<vars, programState, decision, approval>>
  BY DEF RefuseAllowed
<1>2. UNCHANGED <<ledger, linked, control>>
  BY <1>1 DEF programState
<1>3. LocalTyped'
  BY <1>1, <1>2 DEF LocalInv, LocalTyped
<1>4. DecidedNow' /\ LinkInv' /\ ControlVerifies'
  BY <1>1, <1>2, HostStays, SameDecisions, SameLinks, SameProgram DEF NoCall
<1>5. CallHolds'
  <2>1. call' = NoCall /\ stack' = <<>>
    BY <1>1, HostStays DEF LocalInv, CallHolds
  <2> QED
    BY <2>1 DEF CallHolds, NoCall
<1> QED
  BY <1>3, <1>4, <1>5 DEF LocalInv

-----------------------------------------------------------------------------
(* Steps that move receipts *)

LEMMA Voiding ==
    ASSUME IInv, LocalInv, NEW D \in SUBSET Unused, VoidReceipts(D), UNCHANGED decision
    PROVE  /\ \A d \in Decisions : receipt'[d] # "none" => receipt[d] # "none" \/ decision[d] # NoDecision
           /\ \A d \in Decisions : receipt'[d] \in {"none", "issued"} =>
                 d \notin D /\ receipt'[d] = receipt[d]
BY DEF VoidReceipts, Unused

(* A change of the Program voids every decision that is not used up. *)
LEMMA CommitsVoid ==
    ASSUME IInv, LocalInv, NEW status \in Statuses, Commit(status), UNCHANGED <<decision, approval>>
    PROVE  /\ ledger' \in Seq(Statuses) /\ ledger' # <<>> /\ Revision' = Revision + 1
           /\ \A i \in 1 .. Len(ledger) : ledger'[i] = ledger[i]
           /\ DecidedNow'
<1>1. ledger' = Append(ledger, status) /\ VoidReceipts(Unused)
  BY DEF Commit
<1>2. ledger \in Seq(Statuses) /\ Len(ledger) \in Nat
  BY LedgerIs DEF LocalInv, LocalTyped
<1>3. /\ ledger' \in Seq(Statuses) /\ Len(ledger') = Len(ledger) + 1
      /\ \A i \in 1 .. Len(ledger) : ledger'[i] = ledger[i]
  BY <1>1, <1>2
<1>4. ledger' # <<>> /\ Revision' = Revision + 1
  BY <1>2, <1>3 DEF Revision
<1>5. DecidedNow'
  <2>1. /\ \A d \in Decisions : receipt'[d] # "none" => receipt[d] # "none" \/ decision[d] # NoDecision
        /\ \A d \in Decisions : receipt'[d] \in {"none", "issued"} =>
              d \notin Unused /\ receipt'[d] = receipt[d]
    BY <1>1, Voiding
  <2>2. Unused' = {}
    BY <2>1 DEF Unused
  <2> QED
    BY <2>1, <2>2 DEF LocalInv, DecidedNow
<1> QED
  BY <1>3, <1>4, <1>5

(* What was verified of the control history stays verified when the Program *)
(* moves on.                                                                *)
LEMMA ControlStays ==
    ASSUME LocalInv, UNCHANGED control, Revision' = Revision + 1,
           \A i \in 1 .. Len(ledger) : ledger'[i] = ledger[i]
    PROVE  ControlVerifies'
<1>1. Len(ledger) \in Nat /\ Revision \in Nat /\ Revision + 1 = Len(ledger)
  BY LedgerIs DEF LocalInv, Revision
<1>2. \A i \in 1 .. Len(control) : control[i].revision \in Nat
  <2>1. \A i \in 1 .. Len(control) : control[i] \in [paused : BOOLEAN, revision : Nat]
    BY ElementOfSeq DEF LocalInv, LocalTyped
  <2> QED
    BY <2>1
<1> SUFFICES ASSUME NEW i \in 1 .. Len(control)
             PROVE  /\ control[i].paused <=> i % 2 = 1
                    /\ control[i].revision <= Revision + 1
                    /\ ledger'[control[i].revision + 1] = "active"
                    /\ i > 1 => control[i - 1].revision <= control[i].revision
  BY DEF ControlVerifies
<1>3. /\ control[i].paused <=> i % 2 = 1
      /\ control[i].revision <= Revision
      /\ ledger[control[i].revision + 1] = "active"
      /\ i > 1 => control[i - 1].revision <= control[i].revision
  BY DEF LocalInv, ControlVerifies
<1>4. control[i].revision + 1 \in 1 .. Len(ledger)
  BY <1>1, <1>2, <1>3
<1> QED
  BY <1>1, <1>2, <1>3, <1>4

LEMMA TransitionKeeps ==
    ASSUME IInv, LocalInv, Transition
    PROVE  LocalInv'
<1>1. PICK target \in Allowed[Status] : Commit(target)
  BY DEF Transition
<1>2. /\ Idle
      /\ UNCHANGED <<journal, world, sent, stack, up, crashes, raised, linked, control, decision, approval, call>>
  BY DEF Transition
<1>3. target \in Statuses
  <2>1. Status \in Statuses
    BY LedgerIs DEF LocalInv
  <2> QED
    BY <1>1, <2>1 DEF Allowed, Statuses, Terminal
<1>4. /\ ledger' \in Seq(Statuses) /\ ledger' # <<>> /\ DecidedNow' /\ ControlVerifies'
  BY <1>1, <1>2, <1>3, CommitsVoid, ControlStays
<1>5. LocalTyped'
  BY <1>2, <1>4 DEF LocalInv, LocalTyped
<1>6. LinkInv'
  <2>1. Executed' = Executed
    BY <1>2 DEF Executed
  <2> QED
    BY <1>2, <2>1, SameLinks
<1>7. CallHolds'
  BY <1>2 DEF CallHolds, Idle, NoCall
<1> QED
  BY <1>4, <1>5, <1>6, <1>7 DEF LocalInv

LEMMA LinkOperationKeeps ==
    ASSUME IInv, LocalInv, LinkOperation
    PROVE  LocalInv'
<1>1. /\ call.step = "executed" /\ linked' = linked \cup {call.operation} /\ Commit(Status) /\ call' = NoCall
      /\ UNCHANGED <<journal, world, sent, stack, up, crashes, raised, control, decision, approval>>
  BY DEF LinkOperation
<1>2. /\ call.operation \in Operations /\ Status \in Statuses /\ stack = <<>>
      /\ call.operation \in Executed \ linked
  BY <1>1, CallKinds, LedgerIs DEF LocalInv, CallHolds
<1>3. /\ ledger' \in Seq(Statuses) /\ ledger' # <<>> /\ DecidedNow' /\ ControlVerifies'
  BY <1>1, <1>2, CommitsVoid, ControlStays
<1>4. LocalTyped'
  BY <1>1, <1>2, <1>3 DEF LocalInv, LocalTyped
<1>5. CallHolds'
  BY <1>1, <1>2 DEF CallHolds, NoCall
<1>6. LinkInv'
  <2> DEFINE S == Executed \ linked
  <2>1. Executed' = Executed /\ Executed' \ linked' = S \ {call.operation}
    BY <1>1 DEF Executed
  <2>2. IsFiniteSet(S) /\ linked \subseteq Executed /\ Cardinality(S) <= Losses + 1 /\ Losses \in Nat
    BY <1>1 DEF LocalInv, LinkInv, ExecutedIsLinked, IInv, TypeOK, Losses
  <2>3. /\ IsFiniteSet(S \ {call.operation}) /\ Cardinality(S \ {call.operation}) = Cardinality(S) - 1
        /\ Cardinality(S) \in Nat
    BY <1>2, <2>2, FS_RemoveElement, FS_CardinalityType
  <2>4. linked' \subseteq Executed'
    BY <1>1, <1>2, <2>1, <2>2
  <2>5. IsFiniteSet(Executed' \ linked') /\ Cardinality(Executed' \ linked') <= Losses
    <3> DEFINE T == S \ {call.operation}
               N == Executed' \ linked'
    <3>4. N = T
      BY <2>1
    <3>1. IsFiniteSet(T) /\ Cardinality(T) = Cardinality(S) - 1
      BY <1>2, <2>3
    <3>2. Cardinality(S) \in Nat /\ Cardinality(S) <= Losses + 1 /\ Losses \in Nat
      BY <2>2, <2>3
    <3> HIDE DEF S, T, N
    <3>3. IsFiniteSet(N) /\ Cardinality(N) <= Losses
      BY <3>4, <3>1, <3>2
    <3> QED
      BY <3>3 DEF N
  <2>6. crashes' = crashes /\ raised' = raised /\ call'.step # "executed"
    BY <1>1 DEF NoCall
  <2> QED
    BY <2>2, <2>4, <2>5, <2>6 DEF LinkInv, ExecutedIsLinked, Losses
<1> QED
  BY <1>3, <1>4, <1>5, <1>6 DEF LocalInv

LEMMA GrantsChangeKeeps ==
    ASSUME IInv, LocalInv, GrantsChange
    PROVE  LocalInv'
<1>1. PICK D \in SUBSET Unused : VoidReceipts(D)
  BY DEF GrantsChange
<1>2. /\ UNCHANGED <<journal, world, sent, stack, up, crashes, raised>>
      /\ UNCHANGED <<ledger, linked, control, decision, approval, call>>
  BY DEF GrantsChange, programState
<1>3. LocalTyped'
  BY <1>2 DEF LocalInv, LocalTyped
<1>4. DecidedNow'
  BY <1>1, <1>2, Voiding, SameDecisions
<1>5. ControlVerifies' /\ Revision' = Revision /\ Ready' = Ready
  BY <1>2, SameProgram
<1>6. Executed' = Executed /\ Top' = Top
  BY <1>2 DEF Executed, Top
<1>7. LinkInv'
  BY <1>2, <1>6, SameLinks
<1>8. CallHolds'
  <2>1. \A d : Permits(d) => Permits(d)'
    BY <1>2, <1>5 DEF Permits
  <2> QED
    BY <1>2, <1>5, <1>6, <2>1 DEF LocalInv, CallHolds
<1> QED
  BY <1>3, <1>4, <1>5, <1>7, <1>8 DEF LocalInv

(* The authority of an unused decision is issued to the call. *)
LEMMA Issuing ==
    ASSUME IInv, LocalInv, NEW d \in Decisions, IssueAuthority(d), decision[d] # NoDecision, Ready, stack = <<>>,
           decision[d].kind = "ask" => approval'[d] = "consumed",
           \A e \in Decisions : approval'[e] # "none" => approval[e] # "none" \/ decision[e] # NoDecision,
           call'.step = "issued", call'.decision = d, call.step # "executed",
           UNCHANGED <<ledger, linked, control, decision>>
    PROVE  /\ DecidedNow' /\ CallHolds' /\ ControlVerifies' /\ LinkInv'
<1>1. /\ receipt[d] = "none" /\ receipt' = [receipt EXCEPT ![d] = "issued"]
      /\ UNCHANGED <<journal, world, sent, stack, up, crashes, raised>>
  BY DEF IssueAuthority, IssueReceipt, hostVars
<1>2. \A e \in Decisions : receipt'[e] = IF e = d THEN "issued" ELSE receipt[e]
  BY <1>1 DEF IInv, TypeOK, ReceiptTypeOK
<1>3. DecidedNow'
  BY <1>1, <1>2, SameDecisions
<1>4. ControlVerifies' /\ Revision' = Revision /\ Ready'
  BY SameProgram
<1>5. LinkInv'
  <2>1. Executed' = Executed
    BY <1>1 DEF Executed
  <2> QED
    BY <1>1, <2>1, SameLinks
<1>6. d \in Unused
  BY <1>1 DEF Unused
<1>7. Permits(d)'
  BY <1>4, <1>6 DEF LocalInv, DecidedNow, Permits
<1>8. CallHolds'
  BY <1>1, <1>4, <1>7 DEF CallHolds
<1> QED
  BY <1>3, <1>4, <1>5, <1>8

LEMMA IssueAllowedKeeps ==
    ASSUME IInv, LocalInv, IssueAllowed
    PROVE  LocalInv'
<1> DEFINE d == call.decision
<1>1. /\ call.step = "decided" /\ IssueAuthority(d) /\ call' = [call EXCEPT !.step = "issued"]
      /\ UNCHANGED <<ledger, linked, control, decision, approval>>
  BY DEF IssueAllowed, programState
<1>2. /\ call \in [step : {"decided", "issued"}, decision : Decisions]
      /\ d \in Decisions /\ Permits(d) /\ Ready /\ stack = <<>>
  BY <1>1 DEF LocalInv, LocalTyped, CallHolds, NoCall
<1>3. call' \in [step : {"decided", "issued"}, decision : Decisions] /\ call'.step = "issued" /\ call'.decision = d
  BY <1>1, <1>2
<1>4. LocalTyped'
  BY <1>1, <1>3 DEF LocalInv, LocalTyped
<1>5. /\ decision[d] # NoDecision
      /\ decision[d].kind = "ask" => approval'[d] = "consumed"
  BY <1>1, <1>2 DEF Permits
<1> HIDE DEF d
<1>6. DecidedNow' /\ CallHolds' /\ ControlVerifies' /\ LinkInv'
  BY <1>1, <1>2, <1>3, <1>5, Issuing
<1> QED
  BY <1>4, <1>6 DEF LocalInv

LEMMA ExecuteApprovedKeeps ==
    ASSUME IInv, LocalInv, NEW d \in Decisions, ExecuteApproved(d)
    PROVE  LocalInv'
<1>1. /\ Idle /\ Ready /\ approval[d] = "given" /\ IssueAuthority(d)
      /\ approval' = [approval EXCEPT ![d] = "consumed"]
      /\ call' = [step |-> "issued", decision |-> d]
      /\ UNCHANGED <<ledger, linked, control, decision>>
  BY DEF ExecuteApproved, programState
<1>2. /\ approval' \in [Decisions -> {"none", "given", "consumed"}] /\ approval'[d] = "consumed"
  BY <1>1 DEF LocalInv, LocalTyped
<1>3. LocalTyped'
  BY <1>1, <1>2 DEF LocalInv, LocalTyped
<1>4. decision[d] # NoDecision
  BY <1>1 DEF LocalInv, DecidedNow
<1>5. \A e \in Decisions : approval'[e] # "none" => approval[e] # "none" \/ decision[e] # NoDecision
  BY <1>1, <1>4 DEF LocalInv, LocalTyped
<1>6. call.step # "executed" /\ call'.step = "issued" /\ call'.decision = d /\ stack = <<>>
  BY <1>1 DEF Idle, NoCall
<1>7. DecidedNow' /\ CallHolds' /\ ControlVerifies' /\ LinkInv'
  BY <1>1, <1>2, <1>4, <1>5, <1>6, Issuing
<1> QED
  BY <1>3, <1>7 DEF LocalInv

-----------------------------------------------------------------------------
(* Steps of the host the product drives *)

(* A step of the host in the call that owns it: the Program stays.          *)
LEMMA Hosting ==
    ASSUME IInv, LocalInv, Top.kind = "execute", stack # <<>>
    PROVE  /\ call.step = "hosted" /\ Len(stack) = 1 /\ Top.op = call.operation
           /\ call.operation \in Operations /\ call \in [step : {"hosted", "executed"}, operation : Operations]
           /\ Ready /\ call.operation \notin linked
           /\ Permits(journal[call.operation].receipt)
BY DEF LocalInv, LocalTyped, CallHolds, NoCall

LEMMA PoppedAlone ==
    ASSUME IInv, Len(stack) = 1, stack' = Pop
    PROVE  stack' = <<>>
<1>1. stack \in Seq(Frames) /\ Pop = SubSeq(stack, 1, 0)
  BY DEF IInv, StackInv, Pop
<1>2. SubSeq(stack, 1, 0) = <<>>
  BY <1>1, SubSeqProperties, EmptySeq
<1> QED
  BY <1>1, <1>2

(* Whatever is not touched by a step of the host. *)
LEMMA ProductStays ==
    ASSUME IInv, LocalInv, UNCHANGED <<ledger, linked, control, decision, approval>>,
           \A d \in Decisions : receipt'[d] \in {"none", "issued"} => receipt[d] \in {"none", "issued"},
           \A d \in Decisions : receipt'[d] # "none" => receipt[d] # "none"
    PROVE  /\ DecidedNow' /\ ControlVerifies' /\ Revision' = Revision /\ Ready' = Ready
           /\ \A d : Permits(d) => Permits(d)'
<1>1. DecidedNow'
  BY SameDecisions
<1>2. ControlVerifies' /\ Revision' = Revision /\ Ready' = Ready
  BY SameProgram
<1> QED
  BY <1>1, <1>2 DEF Permits

LEMMA BeginExecutionKeeps ==
    ASSUME IInv, LocalInv, NEW o \in Operations, BeginExecution(o)
    PROVE  LocalInv'
<1>a. PICK d : d = call.decision
  OBVIOUS
<1>1. /\ call.step = "issued" /\ CreateIntent(o, d) /\ call' = [step |-> "hosted", operation |-> o]
      /\ UNCHANGED <<ledger, linked, control, decision, approval>>
  BY <1>a DEF BeginExecution, programState
<1>2. d \in Decisions /\ Permits(d) /\ Ready /\ stack = <<>>
  BY <1>a, <1>1, CallKinds DEF LocalInv, CallHolds, NoCall
<1>3. /\ journal[o] = NoOperation /\ journal' = [journal EXCEPT ![o] = Intent(d)]
      /\ stack' = Append(stack, Frame("execute", o, "intent"))
      /\ UNCHANGED <<receipt, world, sent, up, crashes, raised>>
  BY <1>1 DEF CreateIntent, Push
<1>4. /\ DecidedNow' /\ ControlVerifies' /\ Revision' = Revision /\ Ready' = Ready /\ Permits(d)'
  BY <1>1, <1>2, <1>3, ProductStays
<1>5. LocalTyped'
  BY <1>1 DEF LocalInv, LocalTyped
<1>6. /\ Len(stack') = 1 /\ stack'[1] = Frame("execute", o, "intent")
  <2>1. Frame("execute", o, "intent") \in Frames
    BY DEF Frame, Frames
  <2> QED
    BY <1>2, <1>3, <2>1
<1>7. Top' = Frame("execute", o, "intent")
  BY <1>6 DEF Top
<1>8. /\ journal'[o].receipt = d /\ \A p \in Operations : p # o => journal'[p] = journal[p]
      /\ journal'[o].outcome \notin Outcomes /\ journal[o].outcome \notin Outcomes
  BY <1>3 DEF IInv, TypeOK, Intent, NoOperation, Outcomes
<1>9. Executed' = Executed /\ o \notin Executed
  BY <1>3, <1>8 DEF Executed
<1>10. LinkInv' /\ o \notin linked
  BY <1>1, <1>3, <1>9, SameLinks DEF LocalInv, LinkInv, ExecutedIsLinked
<1>11. CallHolds'
  <2>1. call'.step = "hosted" /\ call'.operation = o
    BY <1>1
  <2>2. Top'.kind = "execute" /\ Top'.op = o /\ Top'.at # "calling"
    BY <1>7 DEF Frame
  <2>3. Permits(journal[o].receipt)'
    BY <1>4, <1>8 DEF Permits
  <2> QED
    BY <1>1, <1>2, <1>4, <1>6, <1>10, <2>1, <2>2, <2>3 DEF CallHolds
<1> QED
  BY <1>4, <1>5, <1>10, <1>11 DEF LocalInv

(* The host goes one step on towards the backend. *)
LEMMA GoingOn ==
    ASSUME IInv, LocalInv, Top.kind = "execute", stack # <<>>,
           NEW at \in {"consumed", "admitted", "running", "calling"}, stack' = Advance(at),
           at = "calling" => sent'[Top.op] > 0,
           journal'[Top.op].receipt = journal[Top.op].receipt,
           Executed' = Executed,
           \A d \in Decisions : receipt'[d] \in {"none", "issued"} => receipt[d] \in {"none", "issued"},
           \A d \in Decisions : receipt'[d] # "none" => receipt[d] # "none",
           UNCHANGED <<ledger, linked, control, decision, approval, call, crashes, raised>>
    PROVE  LocalInv'
<1>1. /\ call.step = "hosted" /\ Len(stack) = 1 /\ Top.op = call.operation
      /\ Ready /\ call.operation \notin linked /\ Permits(journal[call.operation].receipt)
  BY Hosting
<1>2. /\ DecidedNow' /\ ControlVerifies' /\ Revision' = Revision /\ Ready'
      /\ Permits(journal[call.operation].receipt)'
  BY <1>1, ProductStays DEF Permits
<1>3. LocalTyped'
  BY DEF LocalInv, LocalTyped
<1>4. LinkInv'
  BY SameLinks
<1>5. Top' = [Top EXCEPT !.at = at] /\ GoodFrame(Top)
  BY Advancing, TopOfStack DEF IInv
<1>6. Top'.kind = "execute" /\ Top'.op = Top.op /\ Top'.at = at
  BY <1>5 DEF GoodFrame, Frames
<1>7. Len(stack') = 1
  BY <1>1 DEF Advance, IInv, StackInv
<1>8. CallHolds'
  BY <1>1, <1>2, <1>6, <1>7 DEF CallHolds, NoCall
<1> QED
  BY <1>2, <1>3, <1>4, <1>8 DEF LocalInv

LEMMA HostStepKeeps ==
    ASSUME IInv, LocalInv, HostStep
    PROVE  LocalInv'
<1>1. UNCHANGED <<ledger, linked, control, decision, approval, call>>
  BY DEF HostStep, programState
<1> DEFINE o == Top.op
<1>2. CASE ConsumeAuthority
  <2>1. /\ stack # <<>> /\ Top.kind = "execute" /\ stack' = Advance("consumed")
        /\ receipt[journal[o].receipt] = "issued"
        /\ receipt' = [receipt EXCEPT ![journal[o].receipt] = "spent"]
        /\ UNCHANGED <<journal, world, sent, crashes, raised>>
    BY <1>2 DEF ConsumeAuthority, AtTop, SpendReceipt
  <2>2. Executed' = Executed
    BY <2>1 DEF Executed
  <2>3. /\ \A d \in Decisions : receipt'[d] \in {"none", "issued"} => receipt[d] \in {"none", "issued"}
        /\ \A d \in Decisions : receipt'[d] # "none" => receipt[d] # "none"
    BY <2>1 DEF IInv, TypeOK, ReceiptTypeOK
  <2>4. journal'[Top.op].receipt = journal[Top.op].receipt
    BY <2>1
  <2> QED
    BY <1>1, <2>1, <2>2, <2>3, <2>4, GoingOn
<1>3. CASE MarkAdmitted \/ MarkRunning
  <2>1. PICK at \in {"admitted", "running"} :
          /\ stack # <<>> /\ Top.kind = "execute" /\ stack' = Advance(at)
          /\ \/ journal' = [journal EXCEPT ![o].admitted = TRUE]
             \/ journal' = [journal EXCEPT ![o].outcome = "running"]
          /\ journal[o].outcome = "not_started"
          /\ UNCHANGED <<receipt, world, sent, crashes, raised>>
    BY <1>3 DEF MarkAdmitted, MarkRunning, AtTop
  <2>2. o \in Operations
    BY <2>1, Hosting
  <2> HIDE DEF o
  <2>3. /\ \A p \in Operations : p # o => journal'[p] = journal[p]
        /\ journal'[o].receipt = journal[o].receipt
        /\ journal'[o].outcome \in {"not_started", "running"}
    BY <2>1, <2>2 DEF IInv, TypeOK, Records
  <2>4. Executed' = Executed
    BY <2>1, <2>2, <2>3 DEF Executed, Outcomes
  <2> QED
    BY <1>1, <2>1, <2>3, <2>4, GoingOn DEF o
<1>4. CASE Dispatch
  <2>1. /\ stack # <<>> /\ Top.kind = "execute" /\ Top.at = "running" /\ stack' = Advance("calling")
        /\ sent' = [sent EXCEPT ![o] = @ + 1]
        /\ UNCHANGED <<receipt, journal, crashes, raised>>
    BY <1>4 DEF Dispatch, AtTop
  <2>2. o \in Operations /\ journal[o].outcome = "running" /\ sent[o] = 0
    BY <2>1, Hosting DEF IInv, CallInv, AtTop
  <2>3. sent'[o] = 1 /\ \A p \in Operations : p # o => sent'[p] = sent[p]
    BY <2>1, <2>2 DEF IInv, TypeOK
  <2>4. Executed' = Executed
    BY <2>1, <2>2, <2>3 DEF Executed, Outcomes
  <2>5. /\ sent'[Top.op] > 0 /\ journal'[Top.op].receipt = journal[Top.op].receipt
        /\ \A d \in Decisions : receipt'[d] = receipt[d]
    BY <2>1, <2>3
  <2> QED
    BY <1>1, <2>1, <2>4, <2>5, GoingOn
<1> QED
  BY <1>2, <1>3, <1>4 DEF HostStep

(* A refused admission leaves nothing executed. *)
LEMMA HostRefusesKeeps ==
    ASSUME IInv, LocalInv, HostRefuses
    PROVE  LocalInv'
<1>1. /\ UNCHANGED <<ledger, linked, control, decision, approval>> /\ call' = NoCall
      /\ stack # <<>> /\ Top.kind = "execute" /\ Top.at = "intent" /\ stack' = Pop
      /\ journal' = [journal EXCEPT ![Top.op] = NotDispatched(Top.op)]
      /\ UNCHANGED <<receipt, world, sent, up, crashes, raised>>
  BY DEF HostRefuses, programState, RefuseAdmission, AtTop
<1>2. /\ call.step = "hosted" /\ Len(stack) = 1 /\ Top.op \in Operations
      /\ sent[Top.op] = 0
  BY <1>1, Hosting DEF IInv, CallInv, AtTop
<1>3. stack' = <<>>
  BY <1>1, <1>2, PoppedAlone
<1>4. Executed' = Executed
  <2>1. \A p \in Operations : p # Top.op => journal'[p] = journal[p]
    BY <1>1 DEF IInv, TypeOK
  <2> QED
    BY <1>1, <1>2, <2>1 DEF Executed
<1>5. DecidedNow' /\ ControlVerifies'
  BY <1>1, ProductStays
<1>6. LinkInv'
  BY <1>1, <1>2, <1>4, SameLinks DEF NoCall
<1>7. LocalTyped'
  BY <1>1 DEF LocalInv, LocalTyped
<1>8. CallHolds'
  BY <1>1, <1>3 DEF CallHolds, NoCall
<1> QED
  BY <1>5, <1>6, <1>7, <1>8 DEF LocalInv

(* Where the host returns, one more Operation was executed. *)
LEMMA HostReturnsKeeps ==
    ASSUME IInv, LocalInv, HostReturns
    PROVE  LocalInv'
<1> DEFINE o == call.operation
<1>1. /\ call.step = "hosted" /\ Finish /\ call' = [call EXCEPT !.step = "executed"]
      /\ UNCHANGED <<ledger, linked, control, decision, approval>>
      /\ <<journal'[o].outcome, journal'[o].effect>> \in ProductReports(o)
  BY DEF HostReturns, programState
<1>2. /\ stack # <<>> /\ Top.kind = "execute" /\ Top.at = "calling" /\ stack' = Pop
      /\ UNCHANGED <<receipt, world, sent, up, crashes, raised>>
  BY <1>1 DEF Finish, AtTop
<1>3. /\ Len(stack) = 1 /\ Top.op = o /\ o \in Operations /\ Ready /\ o \notin linked
      /\ call \in [step : {"hosted", "executed"}, operation : Operations]
  BY <1>2, Hosting
<1>4. sent[o] > 0
  BY <1>1, <1>2 DEF LocalInv, CallHolds
<1>5. call' \in [step : {"hosted", "executed"}, operation : Operations] /\ call'.step = "executed" /\ call'.operation = o
  BY <1>1, <1>3
<1> HIDE DEF o
<1>6. journal'[o].outcome \in Outcomes
  BY <1>1 DEF ProductReports, Outcomes
<1>7. \A p \in Operations : p # o => journal'[p] = journal[p]
  BY <1>1, <1>3 DEF Finish, IInv, TypeOK
<1>8. stack' = <<>>
  BY <1>2, <1>3, PoppedAlone
<1>9. DecidedNow' /\ ControlVerifies' /\ Ready'
  BY <1>1, <1>2, <1>3, ProductStays
<1>10. LocalTyped'
  BY <1>1, <1>5 DEF LocalInv, LocalTyped
<1>11. Executed' = Executed \cup {o}
  BY <1>2, <1>3, <1>4, <1>6, <1>7 DEF Executed
<1>12. CallHolds'
  BY <1>1, <1>3, <1>5, <1>8, <1>9, <1>11 DEF CallHolds
<1>13. LinkInv'
  <2> DEFINE S == Executed \ linked
             N == Executed' \ linked'
  <2>1. N = S \cup {o}
    BY <1>1, <1>3, <1>11
  <2>2. IsFiniteSet(S) /\ linked \subseteq Executed /\ Cardinality(S) <= Losses /\ Losses \in Nat
    BY <1>1 DEF LocalInv, LinkInv, ExecutedIsLinked, IInv, TypeOK, Losses
  <2>3. linked' \subseteq Executed'
    BY <1>1, <1>11, <2>2
  <2> HIDE DEF S, N
  <2>4. /\ IsFiniteSet(S \cup {o}) /\ Cardinality(S) \in Nat
        /\ Cardinality(S \cup {o}) = IF o \in S THEN Cardinality(S) ELSE Cardinality(S) + 1
    BY <2>2, FS_AddElement, FS_CardinalityType
  <2> DEFINE T == S \cup {o}
  <2>5. N = T /\ IsFiniteSet(T) /\ Cardinality(T) <= Cardinality(S) + 1
    BY <2>1, <2>4
  <2> HIDE DEF T
  <2>6. IsFiniteSet(N) /\ Cardinality(N) <= Losses + 1
    <3>1. Cardinality(T) \in Nat
      BY <2>5, FS_CardinalityType
    <3> QED
      BY <2>2, <2>4, <2>5, <3>1
  <2> QED
    BY <1>2, <1>5, <2>3, <2>6 DEF LinkInv, ExecutedIsLinked, N, Losses
<1> QED
  BY <1>9, <1>10, <1>12, <1>13 DEF LocalInv

(* A death, or a failure, may cost the reference to the Operation just      *)
(* executed.                                                                *)
LEMMA CallEnds ==
    ASSUME IInv, LocalInv, ProcessDies \/ CallRaises
    PROVE  LocalInv'
<1>1. /\ UNCHANGED <<ledger, linked, control, decision, approval>> /\ call' = NoCall
      /\ UNCHANGED <<receipt, journal, world, sent>>
  BY DEF ProcessDies, CallRaises, programState, Crash, Raise
<1>0. stack' = <<>>
  <2>1. CASE ProcessDies
    BY <2>1 DEF ProcessDies, Crash
  <2>2. CASE CallRaises /\ stack = <<>>
    BY <2>2 DEF CallRaises, Raise
  <2>3. CASE CallRaises /\ stack # <<>>
    <3>1. stack' = Pop
      BY <2>3 DEF CallRaises, Raise
    <3>2. Len(stack) = 1
      BY <2>3 DEF LocalInv, CallHolds
    <3> QED
      BY <3>1, <3>2, PoppedAlone
  <2> QED
    BY <2>1, <2>2, <2>3
<1>6. Losses' = Losses + 1
  BY DEF ProcessDies, CallRaises, Crash, Raise, Losses, IInv, TypeOK
<1>2. DecidedNow' /\ ControlVerifies'
  BY <1>1, ProductStays
<1>3. LocalTyped'
  BY <1>1 DEF LocalInv, LocalTyped
<1>4. CallHolds'
  BY <1>0, <1>1 DEF CallHolds, NoCall
<1>5. LinkInv'
  <2> DEFINE S == Executed \ linked
  <2>1. /\ IsFiniteSet(S) /\ linked \subseteq Executed /\ Losses \in Nat
        /\ Cardinality(S) <= Losses + (IF call.step = "executed" THEN 1 ELSE 0)
    BY DEF LocalInv, LinkInv, ExecutedIsLinked, IInv, TypeOK, Losses
  <2>2. Executed' = Executed /\ S' = S
    BY <1>1 DEF Executed
  <2> HIDE DEF S
  <2>3. Cardinality(S) \in Nat
    BY <2>1, FS_CardinalityType
  <2>4. Cardinality(S) <= Losses + 1
    BY <2>1, <2>3
  <2>5. call'.step # "executed"
    BY <1>1 DEF NoCall
  <2>6. Cardinality(S) <= crashes' + raised'
    BY <1>6, <2>4 DEF Losses
  <2>7. linked' \subseteq Executed'
    BY <1>1, <2>1, <2>2
  <2>8. IsFiniteSet(S') /\ Cardinality(S') <= crashes' + raised' + 0
    <3>1. crashes' \in Nat /\ raised' \in Nat
      BY DEF ProcessDies, CallRaises, Crash, Raise, IInv, TypeOK
    <3> QED
      BY <2>1, <2>2, <2>6, <3>1
  <2> QED
    BY <2>5, <2>7, <2>8 DEF LinkInv, ExecutedIsLinked, S
<1> QED
  BY <1>2, <1>3, <1>4, <1>5 DEF LocalInv

(* The next command, and the backend, touch nothing of the product. *)
LEMMA OthersKeep ==
    ASSUME IInv, LocalInv, NextCommand \/ \E o \in Operations : BackendActs(o)
    PROVE  LocalInv'
<1>1. /\ UNCHANGED <<ledger, linked, control, decision, approval, call>>
      /\ UNCHANGED <<receipt, journal, sent, stack, crashes, raised>>
  BY DEF NextCommand, BackendActs, programState, Restart, BackendSettles, hostVars
<1>2. /\ DecidedNow' /\ ControlVerifies' /\ Ready' = Ready /\ \A d : Permits(d) => Permits(d)'
  BY <1>1, ProductStays
<1>3. LocalTyped'
  BY <1>1 DEF LocalInv, LocalTyped
<1>4. Executed' = Executed /\ Top' = Top
  BY <1>1 DEF Executed, Top
<1>5. LinkInv'
  BY <1>1, <1>4, SameLinks
<1>6. CallHolds'
  BY <1>1, <1>2, <1>4 DEF LocalInv, CallHolds
<1> QED
  BY <1>2, <1>3, <1>5, <1>6 DEF LocalInv

-----------------------------------------------------------------------------
(* Every step of the product is one of the host, or leaves the host alone. *)

LEMMA VoidingIsHosts ==
    ASSUME IInv, NEW D \in SUBSET Decisions, VoidReceipts(D), UNCHANGED <<journal, world, sent, stack, up, crashes, raised>>
    PROVE  [Next]_vars
<1>1. CASE D = {}
  <2>1. receipt' = [d \in Decisions |-> receipt[d]]
    BY <1>1 DEF VoidReceipts
  <2>2. receipt' = receipt
    BY <2>1 DEF IInv, TypeOK, ReceiptTypeOK
  <2> QED
    BY <2>2 DEF vars, hostVars
<1>2. CASE D # {}
  <2>1. FactsChange
    <3>1. D \in (SUBSET Decisions) \ {{}}
      BY <1>2
    <3> QED
      BY <3>1 DEF FactsChange, hostVars
  <2> QED
    BY <2>1 DEF Next
<1> QED
  BY <1>1, <1>2

LEMMA LocalSteps ==
    ASSUME IInv, LocalInv, LocalNext
    PROVE  [Next]_vars
<1>1. CASE Transition \/ LinkOperation \/ GrantsChange
  <2>1. PICK D \in SUBSET Unused : VoidReceipts(D)
    BY <1>1 DEF Transition, LinkOperation, GrantsChange, Commit
  <2>2. D \in SUBSET Decisions
    BY DEF Unused
  <2> QED
    BY <1>1, <2>1, <2>2, VoidingIsHosts DEF Transition, LinkOperation, GrantsChange
<1>2. ASSUME NEW b \in BOOLEAN, SetPaused(b) PROVE [Next]_vars
  BY <1>2 DEF SetPaused
<1>3. ASSUME NEW d \in Decisions, Approve(d) \/ ExecuteApproved(d) PROVE [Next]_vars
  BY <1>3 DEF Approve, ExecuteApproved, Next
<1>4. ASSUME NEW d \in Decisions, NEW r \in Requests, Invoke(d, r) PROVE [Next]_vars
  BY <1>4 DEF Invoke
<1>5. CASE IssueAllowed
  <2>1. call.decision \in Decisions
    BY <1>5, CallKinds DEF IssueAllowed, LocalInv
  <2> QED
    BY <1>5, <2>1 DEF IssueAllowed, Next
<1>6. CASE RefuseAllowed
  BY <1>6 DEF RefuseAllowed
<1>7. CASE HostStep \/ HostRefuses \/ HostReturns
  BY <1>7 DEF HostStep, HostRefuses, HostReturns, Next, Step
<1>8. ASSUME NEW o \in Operations, BeginExecution(o) \/ BackendActs(o) PROVE [Next]_vars
  <2>1. BeginExecution(o) => call.decision \in Decisions
    BY CallKinds DEF BeginExecution, LocalInv
  <2> QED
    BY <1>8, <2>1 DEF BeginExecution, BackendActs, Next
<1>9. CASE ProcessDies \/ CallRaises \/ NextCommand
  BY <1>9 DEF ProcessDies, CallRaises, NextCommand, Next
<1> QED
  BY <1>1, <1>2, <1>3, <1>4, <1>5, <1>6, <1>7, <1>8, <1>9 DEF LocalNext

LEMMA LocalNextHolds ==
    ASSUME IInv, LocalInv, [LocalNext]_localVars
    PROVE  IInv' /\ LocalInv'
<1>1. CASE LocalNext
  <2>1. IInv'
    BY <1>1, LocalSteps, NextHolds
  <2>2. ASSUME NEW b \in BOOLEAN, SetPaused(b) PROVE LocalInv'
    BY <2>1, <2>2, SetPausedKeeps
  <2>3. ASSUME NEW d \in Decisions, Approve(d) \/ ExecuteApproved(d) PROVE LocalInv'
    BY <2>1, <2>3, ApproveKeeps, ExecuteApprovedKeeps
  <2>4. ASSUME NEW d \in Decisions, NEW r \in Requests, Invoke(d, r) PROVE LocalInv'
    BY <2>1, <2>4, InvokeKeeps
  <2>5. CASE Transition \/ LinkOperation \/ GrantsChange
    BY <2>1, <2>5, TransitionKeeps, LinkOperationKeeps, GrantsChangeKeeps
  <2>6. CASE IssueAllowed \/ RefuseAllowed
    BY <2>1, <2>6, IssueAllowedKeeps, RefuseAllowedKeeps
  <2>7. CASE HostStep \/ HostRefuses \/ HostReturns
    BY <2>1, <2>7, HostStepKeeps, HostRefusesKeeps, HostReturnsKeeps
  <2>8. ASSUME NEW o \in Operations, BeginExecution(o) \/ BackendActs(o) PROVE LocalInv'
    BY <2>1, <2>8, BeginExecutionKeeps, OthersKeep
  <2>9. CASE ProcessDies \/ CallRaises \/ NextCommand
    BY <2>1, <2>9, CallEnds, OthersKeep
  <2> QED
    BY <1>1, <2>1, <2>2, <2>3, <2>4, <2>5, <2>6, <2>7, <2>8, <2>9 DEF LocalNext
<1>2. CASE UNCHANGED localVars
  <2>1. UNCHANGED vars /\ UNCHANGED <<ledger, linked, control, decision, approval, call>>
    BY <1>2 DEF localVars, programState
  <2>2. IInv'
    BY <2>1, NextHolds
  <2>3. UNCHANGED <<receipt, journal, world, sent, stack, up, crashes, raised>> /\ Executed' = Executed /\ Top' = Top
    BY <2>1, HostStays DEF Top
  <2>4. /\ DecidedNow' /\ ControlVerifies' /\ Ready' = Ready /\ \A d : Permits(d) => Permits(d)'
    BY <2>1, <2>3, ProductStays
  <2>5. LocalTyped' /\ LinkInv'
    BY <2>1, <2>3, SameLinks DEF LocalInv, LocalTyped
  <2>6. CallHolds'
    BY <2>1, <2>3, <2>4 DEF LocalInv, CallHolds
  <2> QED
    BY <2>2, <2>4, <2>5, <2>6 DEF LocalInv
<1> QED
  BY <1>1, <1>2

LEMMA LocalInvariance == LocalSpec => [](IInv /\ LocalInv)
<1>1. LocalInit => IInv /\ LocalInv
  BY InitHolds, LocalInitHolds DEF LocalInit
<1>2. IInv /\ LocalInv /\ [LocalNext]_localVars => IInv' /\ LocalInv'
  BY LocalNextHolds
<1> QED
  BY <1>1, <1>2, PTL DEF LocalSpec

(* The product drives the kernel only as OperationHost allows: whatever the *)
(* theorems above say of the journal holds below every command.             *)
THEOREM ProductImplementsHost == LocalSpec => ImplementsOperationHost
<1>1. LocalInit => Init
  BY DEF LocalInit
<1>2. IInv /\ LocalInv /\ [LocalNext]_localVars => [Next]_vars
  BY LocalSteps DEF localVars
<1> QED
  BY <1>1, <1>2, LocalInvariance, PTL DEF LocalSpec, Spec, ImplementsOperationHost

(* The control history verifies: pauses and resumes alternate, each at a    *)
(* revision at which the Program was active.                                *)
THEOREM ControlHistoryVerifies == LocalSpec => []ControlVerifies
<1>1. LocalInv => ControlVerifies
  BY DEF LocalInv
<1> QED
  BY <1>1, LocalInvariance, PTL

(* What was executed is linked, but for one Operation per death or failure. *)
THEOREM ExecutionsAreLinked == LocalSpec => []ExecutedIsLinked
<1>1. LocalInv => ExecutedIsLinked
  BY DEF LocalInv, LinkInv
<1> QED
  BY <1>1, LocalInvariance, PTL

(* Nothing reaches a backend while the Program is paused, not active, or at *)
(* another revision than the one it was decided on.                         *)
THEOREM OnlyTheRunnableDispatch == LocalSpec => DispatchOnlyWhenRunnable
<1>1. ASSUME IInv, LocalInv, LocalNext
      PROVE  DispatchStep
  <2> SUFFICES ASSUME NEW o \in Operations, sent'[o] > sent[o]
               PROVE  Ready /\ Permits(journal[o].receipt)
    BY DEF DispatchStep, Ready, Permits
  <2>1. sent' # sent
    <3>1. sent[o] \in Nat
      BY <1>1 DEF IInv, TypeOK
    <3> QED
      BY <3>1
  <2>2. Dispatch
    BY <1>1, <2>1
    DEF LocalNext, Transition, SetPaused, Approve, ExecuteApproved, Invoke, IssueAllowed, RefuseAllowed, HostStep,
        HostRefuses, HostReturns, LinkOperation, BeginExecution, BackendActs, GrantsChange, ProcessDies, NextCommand,
        vars, hostVars, IssueAuthority, CreateIntent, ConsumeAuthority, MarkAdmitted, MarkRunning, RefuseAdmission,
        Finish, Crash, Raise, CallRaises, Restart, BackendSettles
  <2>3. o = Top.op /\ stack # <<>> /\ Top.kind = "execute"
    BY <1>1, <2>2 DEF Dispatch, AtTop, IInv, TypeOK
  <2> QED
    BY <1>1, <2>3, Hosting
<1>2. IInv /\ LocalInv /\ [LocalNext]_localVars => [DispatchStep]_localVars
  BY <1>1
<1> QED
  BY <1>2, LocalInvariance, PTL DEF LocalSpec, DispatchOnlyWhenRunnable

===============================================================================
