-------------------------- MODULE Completion_proofs --------------------------
(***************************************************************************)
(* Proofs about Completion: a completed Program is settled, and what       *)
(* certified it was current.                                               *)
(***************************************************************************)
EXTENDS Completion, SequenceTheorems, TLAPS

(* What the journal says is true (EffectTruth keeps it so). *)
JournalInv ==
    \A o \in Operations :
        /\ claim[o] = "none" => truth[o] = "unsent"
        /\ claim[o] # "none" => under[o] \in Decisions
        /\ claim[o] \in {"absent", "not_applicable"} => truth[o] \in {"unsent", "no_effect"}
        /\ claim[o] = "confirmed" => truth[o] = "landed"

Claimed == [o \in Operations |-> IF Mutating(o) THEN claim[o] ELSE "none"]

(* A verifier call or a Verification that no mutating Operation's Event is  *)
(* newer than saw what the journal still says.                              *)
CallInv ==
    \A i \in 1 .. Len(asked) :
        /\ asked[i].boundary <= sequence
        /\ changed <= asked[i].boundary => asked[i].saw.claims = Claimed

VerificationInv ==
    \A c \in Contracts : verification[c] # NoVerification =>
        /\ verification[c].sequence <= sequence
        /\ changed <= verification[c].sequence => verification[c].saw.claims = Claimed

FreshnessInv == changed <= sequence /\ CallInv /\ VerificationInv

IInv == TypeOK /\ JournalInv /\ FreshnessInv /\ CompletedMeansSettled

-----------------------------------------------------------------------------

LEMMA InitInv == Init => IInv
<1> SUFFICES ASSUME Init PROVE IInv
  OBVIOUS
<1> USE DEF Init, Journal!Init, ClaimStore!Init, ClaimStore!Standings
<1>1. NewProgram \in Snapshots
  BY DEF NewProgram, Snapshots, Statuses
<1>2. TypeOK
  <2>1. asked \in Seq(Frames) /\ Len(asked) = 0
    OBVIOUS
  <2> QED
    BY <1>1, <2>1 DEF TypeOK, Journal!Truths, Journal!ClaimStates, NoAuthority
<1>3. JournalInv
  BY DEF JournalInv
<1>4. FreshnessInv
  BY DEF FreshnessInv, CallInv, VerificationInv
<1>5. CompletedMeansSettled
  BY DEF CompletedMeansSettled, NewProgram
<1> QED
  BY <1>2, <1>3, <1>4, <1>5 DEF IInv

(* Steps that write no Event and leave the Operations and calls alone keep  *)
(* what was seen fresh.                                                     *)
LEMMA FreshnessKept ==
    ASSUME FreshnessInv, UNCHANGED <<claim, under, verifying, sequence, changed>>
    PROVE  FreshnessInv'
<1>1. Claimed' = Claimed
  BY DEF Claimed, Mutating
<1> QED
  BY <1>1 DEF FreshnessInv, CallInv, VerificationInv, verifying

(* An Event of a mutating Operation outdates everything; one of an          *)
(* observing Operation changes nothing that was seen.                       *)
LEMMA EventFreshness ==
    ASSUME TypeOK, FreshnessInv,
           NEW o \in Operations, NEW d \in Decisions,
           OperationEvent(d),
           claim[o] = "none" \/ under[o] = d, under'[o] = d,
           \A p \in Operations \ {o} : claim'[p] = claim[p] /\ under'[p] = under[p]
    PROVE  FreshnessInv'
<1>1. sequence \in Nat /\ changed \in Nat /\ changed <= sequence
  BY DEF TypeOK, FreshnessInv
<1>2. sequence' = sequence + 1 /\ UNCHANGED <<asked, verification>>
  BY DEF OperationEvent, verifying
<1>3. \A i \in 1 .. Len(asked) : asked[i].boundary \in Nat /\ asked[i].boundary <= sequence
  <2>1. \A i \in 1 .. Len(asked) : asked[i] \in Frames
    BY ElementOfSeq DEF TypeOK
  <2> QED
    BY <2>1 DEF Frames, FreshnessInv, CallInv
<1>4. \A c \in Contracts : verification[c] # NoVerification =>
         verification[c].sequence \in Nat /\ verification[c].sequence <= sequence
  BY DEF TypeOK, Verifications, FreshnessInv, VerificationInv
<1>5. CASE d \in Observing
  <2>1. changed' = changed
    BY <1>5 DEF OperationEvent
  <2>2. \A p \in Operations : (IF Mutating(p) THEN claim[p] ELSE "none")' = IF Mutating(p) THEN claim[p] ELSE "none"
    BY <1>5 DEF Mutating
  <2>3. Claimed' = Claimed
    BY <2>2 DEF Claimed
  <2> QED
    BY <1>1, <1>2, <1>3, <1>4, <2>1, <2>3 DEF FreshnessInv, CallInv, VerificationInv
<1>6. CASE d \notin Observing
  <2>1. changed' = sequence + 1
    BY <1>6 DEF OperationEvent
  <2> QED
    BY <1>1, <1>2, <1>3, <1>4, <2>1 DEF FreshnessInv, CallInv, VerificationInv
<1> QED
  BY <1>5, <1>6

-----------------------------------------------------------------------------
(* The Program and its Operations *)

LEMMA ProgramTypes ==
    ASSUME TypeOK
    PROVE  /\ program.revision \in Nat /\ program.status \in Statuses
           /\ program.work \in [WorkItems -> {"none", "open", "satisfied"}]
           /\ \A s \in Statuses : WithStatus(program, s) \in Snapshots
           /\ \A w \in WorkItems, st \in {"open", "satisfied"} : WithWork(program, w, st) \in Snapshots
           /\ Revised(program) \in Snapshots
<1>1. program \in [revision : Nat, status : Statuses, work : [WorkItems -> {"none", "open", "satisfied"}]]
  BY DEF TypeOK, Snapshots
<1>2. program.revision + 1 \in Nat
  BY <1>1
<1>3. \A s \in Statuses : WithStatus(program, s) \in Snapshots
  BY <1>1, <1>2 DEF WithStatus, Snapshots
<1>4. ASSUME NEW w \in WorkItems, NEW st \in {"open", "satisfied"} PROVE WithWork(program, w, st) \in Snapshots
  <2>1. [program.work EXCEPT ![w] = st] \in [WorkItems -> {"none", "open", "satisfied"}]
    BY <1>1
  <2> QED
    BY <1>1, <1>2, <2>1 DEF WithWork, Snapshots
<1> QED
  BY <1>1, <1>3, <1>4 DEF Revised

LEMMA ChangeProgramInv == IInv /\ ChangeProgram => IInv'
<1> SUFFICES ASSUME IInv, ChangeProgram PROVE IInv'
  OBVIOUS
<1> USE DEF IInv
<1>1. /\ program' \in Snapshots
      /\ program'.status = "completed" =>
            program.status = "completed" /\ program'.work = program.work
            /\ program'.revision = program.revision + 1
  <2>1. CASE \E target \in Allowed[program.status] \ {"completed"} : program' = WithStatus(program, target)
    <3>1. PICK target \in Allowed[program.status] \ {"completed"} : program' = WithStatus(program, target)
      BY <2>1
    <3>2. target \in Statuses
      BY ProgramTypes DEF Allowed, Statuses, Terminal
    <3>3. program'.status = target
      BY ProgramTypes, <3>1 DEF WithStatus, TypeOK, Snapshots
    <3> QED
      BY ProgramTypes, <3>1, <3>2, <3>3
  <2>2. CASE /\ program.status \in WorkMutable
             /\ \E w \in WorkItems, st \in {"open", "satisfied"} : program' = WithWork(program, w, st)
    <3>1. PICK w \in WorkItems, st \in {"open", "satisfied"} : program' = WithWork(program, w, st)
      BY <2>2
    <3>2. program'.status = program.status
      BY <3>1 DEF WithWork, TypeOK, Snapshots
    <3> QED
      BY ProgramTypes, <2>2, <3>1, <3>2 DEF WorkMutable
  <2>3. CASE program' = Revised(program)
    <3>1. /\ program'.status = program.status /\ program'.work = program.work
          /\ program'.revision = program.revision + 1
      BY <2>3 DEF Revised, WithStatus, TypeOK, Snapshots
    <3> QED
      BY ProgramTypes, <2>3, <3>1
  <2> QED
    BY <2>1, <2>2, <2>3 DEF ChangeProgram
<1>2. UNCHANGED <<operations, authority, support, contract, blocker, verifying, receipts, sequence, changed>>
  BY DEF ChangeProgram
<1>3. TypeOK'
  BY <1>1, <1>2 DEF TypeOK, operations, verifying
<1>4. JournalInv'
  BY <1>2 DEF JournalInv, operations
<1>5. FreshnessInv'
  BY <1>2, FreshnessKept DEF operations
<1>6. CompletedMeansSettled'
  <2> SUFFICES ASSUME program'.status = "completed" PROVE CompletedMeansSettled'
    BY DEF CompletedMeansSettled
  <2>1. \E r \in receipts' : r.result = "certified" /\ r.revision < program'.revision
    <3>1. PICK r \in receipts : r.result = "certified" /\ r.revision < program.revision
      BY <1>1 DEF CompletedMeansSettled
    <3>2. r.revision \in Nat /\ program.revision \in Nat
      BY ProgramTypes, <3>1 DEF TypeOK
    <3>3. r.revision < program'.revision
      BY <1>1, <3>1, <3>2
    <3> QED
      BY <1>2, <3>1, <3>3
  <2> QED
    BY <1>1, <1>2, <2>1 DEF CompletedMeansSettled, operations, Mutating, CertaintyRequired, Mandatory
<1> QED
  BY <1>3, <1>4, <1>5, <1>6

(* Steps that leave the Program, the journal and the receipts alone, and    *)
(* open no blocker, keep a completed Program settled.                       *)
LEMMA SettledKept ==
    ASSUME CompletedMeansSettled, UNCHANGED <<program, operations, receipts>>,
           program.status = "completed" =>
              contract' = contract /\ \A b \in Blockers : blocker'[b] = "open" => blocker[b] = "open"
    PROVE  CompletedMeansSettled'
BY DEF CompletedMeansSettled, operations, Mutating, CertaintyRequired, Mandatory

LEMMA IssueAuthorityInv == ASSUME NEW d \in Decisions PROVE IInv /\ IssueAuthority(d) => IInv'
<1> SUFFICES ASSUME IInv, IssueAuthority(d) PROVE IInv'
  OBVIOUS
<1> USE DEF IInv, IssueAuthority
<1>1. TypeOK'
  BY ProgramTypes DEF TypeOK, operations, verifying
<1>2. JournalInv'
  BY DEF JournalInv, operations
<1>3. FreshnessInv'
  BY FreshnessKept DEF operations
<1>4. CompletedMeansSettled'
  BY SettledKept
<1> QED
  BY <1>1, <1>2, <1>3, <1>4

LEMMA EventTypes ==
    ASSUME TypeOK, NEW d \in Decisions, OperationEvent(d),
           truth' \in [Operations -> Journal!Truths], claim' \in [Operations -> Journal!ClaimStates],
           under' \in [Operations -> Decisions \cup {"none"}], used' \subseteq Decisions
    PROVE  TypeOK'
<1>1. sequence' \in Nat /\ changed' \in Nat
  BY DEF OperationEvent, TypeOK
<1> QED
  BY <1>1 DEF OperationEvent, TypeOK, verifying

LEMMA RequestInv ==
    ASSUME NEW o \in Operations, NEW d \in Decisions PROVE IInv /\ RequestOperation(o, d) => IInv'
<1> SUFFICES ASSUME IInv, RequestOperation(o, d) PROVE IInv'
  OBVIOUS
<1> USE DEF IInv, RequestOperation, Journal!Request
<1>1. /\ truth' = truth /\ claim[o] = "none" /\ used' = used
      /\ claim' = [claim EXCEPT ![o] = "open"]
      /\ under' = [under EXCEPT ![o] = d]
      /\ claim \in [Operations -> Journal!ClaimStates] /\ under \in [Operations -> Decisions \cup {"none"}]
  BY DEF TypeOK
<1>2. /\ claim'[o] = "open" /\ under'[o] = d /\ truth[o] = "unsent"
      /\ \A p \in Operations \ {o} : claim'[p] = claim[p] /\ under'[p] = under[p]
  BY <1>1 DEF JournalInv
<1>3. TypeOK'
  <2>1. "open" \in Journal!ClaimStates
    BY DEF Journal!ClaimStates
  <2>2. claim' \in [Operations -> Journal!ClaimStates] /\ under' \in [Operations -> Decisions \cup {"none"}]
    BY <1>1, <2>1
  <2>3. truth' \in [Operations -> Journal!Truths] /\ used' \subseteq Decisions
    BY <1>1 DEF TypeOK
  <2> QED
    BY <2>2, <2>3, EventTypes
<1>4. JournalInv'
  BY <1>1, <1>2 DEF JournalInv
<1>5. FreshnessInv'
  BY <1>1, <1>2, EventFreshness
<1>6. CompletedMeansSettled'
  <2>1. UNCHANGED <<program, receipts, contract, blocker>>
    BY DEF OperationEvent
  <2> QED
    BY <1>1, <1>2, <2>1 DEF CompletedMeansSettled, Mutating, CertaintyRequired, Mandatory
<1> QED
  BY <1>3, <1>4, <1>5, <1>6

LEMMA DispatchInv == ASSUME NEW o \in Operations PROVE IInv /\ Dispatch(o) => IInv'
<1> SUFFICES ASSUME IInv, Dispatch(o), NEW d, d = under[o] PROVE IInv'
  OBVIOUS
<1> USE DEF IInv
<1>1. /\ claim[o] = "open" /\ truth[o] = "unsent" /\ program.status = "active"
      /\ OperationEvent(d)
      /\ claim' = claim /\ under' = under
      /\ \A p \in Operations \ {o} : truth'[p] = truth[p]
  BY DEF Dispatch, Journal!Send, TypeOK, operations
<1>2. d \in Decisions
  BY <1>1 DEF TypeOK, JournalInv
<1>3. TypeOK'
  <2>1. truth \in [Operations -> Journal!Truths] /\ used \subseteq Decisions
    BY DEF TypeOK
  <2>2. CASE Journal!Send(o)
    <3>1. PICK t \in {"in_flight", "no_effect"} : truth' = [truth EXCEPT ![o] = t]
      BY <2>2 DEF Journal!Send
    <3>2. truth' \in [Operations -> Journal!Truths]
      BY <2>1, <3>1 DEF Journal!Truths
    <3>3. used' \subseteq Decisions
      BY <1>2, <2>1, <2>2 DEF Journal!Send
    <3> QED
      BY <1>1, <1>2, <3>2, <3>3, EventTypes DEF TypeOK
  <2>3. CASE UNCHANGED operations
    BY <1>1, <1>2, <2>1, <2>3, EventTypes DEF TypeOK, operations
  <2> QED
    BY <2>2, <2>3 DEF Dispatch
<1>4. JournalInv'
  BY <1>1 DEF JournalInv
<1>5. FreshnessInv'
  BY <1>1, <1>2, EventFreshness
<1>6. CompletedMeansSettled'
  BY <1>1 DEF CompletedMeansSettled, OperationEvent
<1> QED
  BY <1>3, <1>4, <1>5, <1>6

LEMMA AccountInv == ASSUME NEW o \in Operations PROVE IInv /\ Account(o) => IInv'
<1> SUFFICES ASSUME IInv, Account(o), NEW d, d = under[o] PROVE IInv'
  OBVIOUS
<1> USE DEF IInv
<1>1. /\ claim[o] \in {"open", "uncertain"} /\ OperationEvent(d)
      /\ truth' = truth /\ under' = under /\ used' = used
  BY DEF Account, Journal!Claim
<1>2. PICK said \in Journal!Sound(o) : claim' = [claim EXCEPT ![o] = said]
  BY DEF Account, Journal!Claim
<1>3. /\ claim'[o] = said /\ said \in Journal!ClaimStates /\ said \notin {"none", "open"}
      /\ \A p \in Operations \ {o} : claim'[p] = claim[p]
  BY <1>2 DEF TypeOK, Journal!Sound, Journal!ClaimStates
<1>4. d \in Decisions
  BY <1>1 DEF JournalInv
<1>5. TypeOK'
  <2>1. claim' \in [Operations -> Journal!ClaimStates]
    BY <1>2, <1>3 DEF TypeOK
  <2> QED
    BY <1>1, <1>4, <2>1, EventTypes DEF TypeOK
<1>6. JournalInv'
  <2>1. /\ said \in {"absent", "not_applicable"} => truth[o] \in {"unsent", "no_effect"}
        /\ said = "confirmed" => truth[o] = "landed"
    BY DEF Journal!Sound
  <2> QED
    BY <1>1, <1>3, <1>4, <2>1 DEF JournalInv
<1>7. FreshnessInv'
  BY <1>1, <1>3, <1>4, EventFreshness
<1>8. CompletedMeansSettled'
  <2>1. UNCHANGED <<program, receipts, contract, blocker>>
    BY <1>1 DEF OperationEvent
  <2> QED
    BY <1>1, <1>3, <2>1 DEF CompletedMeansSettled, Mutating, CertaintyRequired, Mandatory
<1> QED
  BY <1>5, <1>6, <1>7, <1>8

LEMMA SettleInv == ASSUME NEW o \in Operations PROVE IInv /\ BackendSettles(o) => IInv'
<1> SUFFICES ASSUME IInv, BackendSettles(o) PROVE IInv'
  OBVIOUS
<1> USE DEF IInv, BackendSettles
<1>1. PICK t \in {"landed", "no_effect"} : truth' = [truth EXCEPT ![o] = t]
  BY DEF Journal!Settle
<1>2. /\ truth[o] = "in_flight" /\ UNCHANGED <<claim, under, used>>
      /\ truth'[o] = t /\ \A p \in Operations \ {o} : truth'[p] = truth[p]
  BY <1>1 DEF Journal!Settle, TypeOK
<1>3. TypeOK'
  <2>1. truth' \in [Operations -> Journal!Truths]
    BY <1>1 DEF TypeOK, Journal!Truths
  <2> QED
    BY <1>2, <2>1 DEF TypeOK, verifying
<1>4. JournalInv'
  BY <1>2 DEF JournalInv
<1>5. FreshnessInv'
  BY <1>2, FreshnessKept
<1>6. CompletedMeansSettled'
  BY <1>2 DEF CompletedMeansSettled, Mutating, CertaintyRequired, Mandatory
<1> QED
  BY <1>3, <1>4, <1>5, <1>6

-----------------------------------------------------------------------------
(* Claims, contracts and blockers *)

LEMMA ChangeClaimInv == ASSUME NEW k \in Claims PROVE IInv /\ ChangeClaim(k) => IInv'
<1> SUFFICES ASSUME IInv, ChangeClaim(k) PROVE IInv'
  OBVIOUS
<1> USE DEF IInv, ChangeClaim, ClaimStore!Support, ClaimStore!Retract
<1>1. TypeOK'
  BY DEF TypeOK, operations, verifying, ClaimStore!Standings
<1>2. JournalInv'
  BY DEF JournalInv, operations
<1>3. FreshnessInv'
  BY FreshnessKept DEF operations
<1>4. CompletedMeansSettled'
  BY SettledKept
<1> QED
  BY <1>1, <1>2, <1>3, <1>4

LEMMA RegisterContractInv == ASSUME NEW c \in Contracts PROVE IInv /\ RegisterContract(c) => IInv'
<1> SUFFICES ASSUME IInv, RegisterContract(c) PROVE IInv'
  OBVIOUS
<1> USE DEF IInv, RegisterContract
<1>1. TypeOK'
  <2>1. PICK terms \in Terms : contract' = [contract EXCEPT ![c] = terms]
    OBVIOUS
  <2>2. contract' \in [Contracts -> Terms \cup {NoContract}]
    BY <2>1 DEF TypeOK
  <2>3. ASSUME NEW i \in 1 .. Len(asked) PROVE contract'[asked[i].contract] # NoContract
    <3>1. contract[asked[i].contract] # NoContract
      BY DEF TypeOK
    <3>2. asked[i] \in Frames
      BY ElementOfSeq DEF TypeOK
    <3>3. asked[i].contract \in Contracts
      BY <3>2 DEF Frames
    <3> QED
      BY <2>1, <3>1, <3>3 DEF TypeOK
  <2> QED
    BY <2>2, <2>3 DEF TypeOK, operations, verifying
<1>2. JournalInv'
  BY DEF JournalInv, operations
<1>3. FreshnessInv'
  BY FreshnessKept DEF operations
<1>4. CompletedMeansSettled'
  BY SettledKept DEF Terminal
<1> QED
  BY <1>1, <1>2, <1>3, <1>4

LEMMA BlockerInv ==
    ASSUME NEW b \in Blockers PROVE IInv /\ (OpenBlocker(b) \/ ResolveBlocker(b)) => IInv'
<1> SUFFICES ASSUME IInv, OpenBlocker(b) \/ ResolveBlocker(b) PROVE IInv'
  OBVIOUS
<1> USE DEF IInv, OpenBlocker, ResolveBlocker
<1>1. TypeOK'
  BY DEF TypeOK, operations, verifying
<1>2. JournalInv'
  BY DEF JournalInv, operations
<1>3. FreshnessInv'
  BY FreshnessKept DEF operations
<1>4. CompletedMeansSettled'
  <2>1. program.status = "completed" => \A a \in Blockers : blocker'[a] = "open" => blocker[a] = "open"
    BY DEF Terminal, TypeOK
  <2> QED
    BY <2>1, SettledKept
<1> QED
  BY <1>1, <1>2, <1>3, <1>4

-----------------------------------------------------------------------------
(* Verifier calls *)

LEMMA AskVerifierInv == ASSUME NEW c \in Contracts PROVE IInv /\ AskVerifier(c) => IInv'
<1> SUFFICES ASSUME IInv, AskVerifier(c) PROVE IInv'
  OBVIOUS
<1> USE DEF IInv
<1> DEFINE call == [contract |-> c, boundary |-> sequence, saw |-> Facts]
<1>1. /\ asked' = Append(asked, call) /\ contract[c] # NoContract
      /\ UNCHANGED <<operations, program, authority, support, contract, blocker, verification,
                     receipts, sequence, changed>>
  BY DEF AskVerifier
<1>2. call.contract = c /\ call.boundary = sequence /\ call.saw.claims = Claimed
  BY DEF Facts, Claimed
<1>3. call \in Frames
  <2>1. Claimed \in [Operations -> Journal!ClaimStates]
    BY DEF Claimed, TypeOK, Journal!ClaimStates
  <2> QED
    BY <2>1 DEF Frames, FactSets, Facts, Claimed, TypeOK
<1> HIDE DEF call
<1>4. /\ asked \in Seq(Frames) /\ asked' \in Seq(Frames) /\ Len(asked') = Len(asked) + 1
      /\ Len(asked) \in Nat
      /\ asked'[Len(asked) + 1] = call
      /\ \A i \in 1 .. Len(asked) : asked'[i] = asked[i]
  BY <1>1, <1>3, AppendProperties, LenProperties DEF TypeOK
<1>5. TypeOK'
  <2>1. contract' = contract /\ contract[c] # NoContract
    BY <1>1 DEF AskVerifier
  <2>2. \A i \in 1 .. Len(asked) : contract[asked[i].contract] # NoContract
    BY DEF TypeOK
  <2>3. \A i \in 1 .. Len(asked') : contract'[asked'[i].contract] # NoContract
    BY <1>2, <1>4, <2>1, <2>2
  <2> QED
    BY <1>1, <1>4, <2>3 DEF TypeOK, operations
<1>6. JournalInv'
  BY <1>1 DEF JournalInv, operations
<1>7. FreshnessInv'
  <2>1. Claimed' = Claimed /\ sequence \in Nat
    BY <1>1 DEF Claimed, Mutating, operations, TypeOK
  <2>2. CallInv'
    BY <1>1, <1>2, <1>4, <2>1 DEF FreshnessInv, CallInv
  <2> QED
    BY <1>1, <2>1, <2>2 DEF FreshnessInv, VerificationInv
<1>8. CompletedMeansSettled'
  BY <1>1, SettledKept
<1> QED
  BY <1>5, <1>6, <1>7, <1>8

LEMMA CrashInv == IInv /\ Crash => IInv'
<1> SUFFICES ASSUME IInv, Crash PROVE IInv'
  OBVIOUS
<1> USE DEF IInv, Crash
<1>1. asked' \in Seq(Frames) /\ Len(asked') = 0
  OBVIOUS
<1>2. TypeOK'
  BY <1>1 DEF TypeOK, operations
<1>3. JournalInv'
  BY DEF JournalInv, operations
<1>4. FreshnessInv'
  <2>1. Claimed' = Claimed
    BY DEF Claimed, Mutating, operations
  <2> QED
    BY <1>1, <2>1 DEF FreshnessInv, CallInv, VerificationInv
<1>5. CompletedMeansSettled'
  BY SettledKept
<1> QED
  BY <1>2, <1>3, <1>4, <1>5

LEMMA VerifierAnswersInv == IInv /\ VerifierAnswers => IInv'
<1> SUFFICES ASSUME IInv, VerifierAnswers, NEW call, call = asked[Len(asked)] PROVE IInv'
  OBVIOUS
<1> USE DEF IInv
<1>1. /\ asked # <<>> /\ asked \in Seq(Frames) /\ Len(asked) \in Nat \ {0}
      /\ asked' = SubSeq(asked, 1, Len(asked) - 1)
      /\ UNCHANGED <<operations, program, authority, support, contract, blocker, receipts, changed>>
  BY EmptySeq, LenProperties DEF VerifierAnswers, TypeOK
<1>2. /\ asked' \in Seq(Frames) /\ Len(asked') = Len(asked) - 1
      /\ \A i \in 1 .. Len(asked) - 1 : asked'[i] = asked[i]
  <2>1. \A i \in 1 .. Len(asked) - 1 : asked[i] \in Frames
    BY <1>1, ElementOfSeq
  <2> DEFINE n == Len(asked) - 1
  <2>2. n \in Nat
    BY <1>1
  <2> HIDE DEF n
  <2>3. /\ SubSeq(asked, 1, n) \in Seq(Frames)
        /\ Len(SubSeq(asked, 1, n)) = IF 1 <= n THEN n - 1 + 1 ELSE 0
        /\ \A i \in 1 .. n - 1 + 1 : SubSeq(asked, 1, n)[i] = asked[1 + i - 1]
    BY <2>1, <2>2, SubSeqProperties DEF n
  <2>4. Len(SubSeq(asked, 1, n)) = n /\ \A i \in 1 .. n : SubSeq(asked, 1, n)[i] = asked[i]
    BY <2>2, <2>3
  <2> QED
    BY <1>1, <2>3, <2>4 DEF n
<1>3. call \in Frames /\ Len(asked) \in 1 .. Len(asked)
  BY <1>1, ElementOfSeq
<1>4. sequence \in Nat /\ changed \in Nat /\ Claimed' = Claimed
  BY <1>1 DEF TypeOK, Claimed, Mutating, operations
<1>5. \/ UNCHANGED <<verification, sequence>>
      \/ /\ Admissible(call) /\ sequence' = sequence + 1
         /\ \E result \in Results : verification' = [verification EXCEPT ![call.contract] =
                [result |-> result, sequence |-> sequence + 1, saw |-> call.saw]]
  BY DEF VerifierAnswers, Observations
<1>6. sequence' \in Nat /\ sequence <= sequence'
  BY <1>4, <1>5
<1>7. CallInv'
  <2>1. \A i \in 1 .. Len(asked) : asked[i] \in Frames
    BY <1>1, ElementOfSeq
  <2>2. \A i \in 1 .. Len(asked) : asked[i].boundary \in Nat
    BY <2>1 DEF Frames
  <2>3. ASSUME NEW i \in 1 .. Len(asked')
        PROVE  /\ asked'[i].boundary <= sequence'
               /\ changed' <= asked'[i].boundary => asked'[i].saw.claims = Claimed'
    <3>1. i \in 1 .. Len(asked) /\ asked'[i] = asked[i]
      BY <1>1, <1>2
    <3>2. /\ asked[i].boundary <= sequence
          /\ changed <= asked[i].boundary => asked[i].saw.claims = Claimed
      BY <3>1 DEF CallInv, FreshnessInv
    <3>3. asked[i].boundary \in Nat
      BY <2>2, <3>1
    <3>4. asked[i].boundary <= sequence'
      BY <1>4, <1>6, <3>2, <3>3
    <3> QED
      BY <1>1, <1>4, <3>1, <3>2, <3>4
  <2> QED
    BY <2>3 DEF CallInv
<1>8. /\ verification' \in [Contracts -> Verifications \cup {NoVerification}]
      /\ VerificationInv'
  <2>1. \A c \in Contracts : verification[c] # NoVerification => verification[c].sequence \in Nat
    BY DEF TypeOK, Verifications
  <2>2. CASE UNCHANGED <<verification, sequence>>
    BY <1>1, <1>4, <2>2 DEF TypeOK, VerificationInv, FreshnessInv
  <2>3. CASE /\ Admissible(call) /\ sequence' = sequence + 1
             /\ \E result \in Results : verification' = [verification EXCEPT ![call.contract] =
                   [result |-> result, sequence |-> sequence + 1, saw |-> call.saw]]
    <3>1. PICK result \in Results : verification' = [verification EXCEPT ![call.contract] =
             [result |-> result, sequence |-> sequence + 1, saw |-> call.saw]]
      BY <2>3
    <3> DEFINE new == [result |-> result, sequence |-> sequence + 1, saw |-> call.saw]
    <3>2. call.contract \in Contracts /\ new \in Verifications
      BY <1>3, <1>4 DEF Frames, Verifications
    <3>3. call.saw.claims = Claimed
      BY <1>3, <2>3 DEF Admissible, FreshnessInv, CallInv
    <3>4. /\ verification' \in [Contracts -> Verifications \cup {NoVerification}]
          /\ verification'[call.contract] = new
          /\ \A c \in Contracts \ {call.contract} : verification'[c] = verification[c]
      BY <3>1, <3>2 DEF TypeOK
    <3>5. ASSUME NEW c \in Contracts, verification'[c] # NoVerification
          PROVE  /\ verification'[c].sequence <= sequence'
                 /\ changed' <= verification'[c].sequence => verification'[c].saw.claims = Claimed'
      <4>1. CASE c = call.contract
        BY <1>4, <2>3, <3>3, <3>4, <4>1
      <4>2. CASE c # call.contract
        BY <1>1, <1>4, <2>1, <2>3, <3>4, <3>5, <4>2 DEF VerificationInv, FreshnessInv
      <4> QED
        BY <4>1, <4>2
    <3> QED
      BY <3>4, <3>5 DEF VerificationInv
  <2> QED
    BY <1>5, <2>2, <2>3
<1>9. TypeOK'
  BY <1>1, <1>2, <1>6, <1>8 DEF TypeOK, operations
<1>10. JournalInv'
  BY <1>1 DEF JournalInv, operations
<1>11. FreshnessInv'
  BY <1>1, <1>4, <1>6, <1>7, <1>8 DEF FreshnessInv
<1>12. CompletedMeansSettled'
  BY <1>1, SettledKept
<1> QED
  BY <1>9, <1>10, <1>11, <1>12

-----------------------------------------------------------------------------
(* The decision *)

LEMMA DecideInv == IInv /\ Decide => IInv'
<1> SUFFICES ASSUME IInv, Decide PROVE IInv'
  OBVIOUS
<1> USE DEF IInv
<1> DEFINE target == IF Certifiable THEN "completed" ELSE "active"
           receipt == [revision |-> program.revision,
                       result |-> IF Certifiable THEN "certified" ELSE "rejected"]
<1>1. /\ program' = WithStatus(program, target) /\ receipts' = receipts \cup {receipt}
      /\ program.revision \in Nat
      /\ UNCHANGED <<operations, authority, support, contract, blocker, verifying, sequence, changed>>
  BY ProgramTypes DEF Decide
<1>2. /\ program'.status = target /\ program'.revision = program.revision + 1
      /\ program'.work = program.work
  BY <1>1 DEF WithStatus
<1>3. TypeOK'
  <2>1. target \in Statuses
    BY DEF Statuses
  <2>2. program' \in Snapshots
    BY <1>1, <2>1, ProgramTypes
  <2>3. receipt \in [revision : Nat, result : {"certified", "rejected"}]
    BY <1>1
  <2> QED
    BY <1>1, <2>2, <2>3 DEF TypeOK, operations, verifying
<1>4. JournalInv'
  BY <1>1 DEF JournalInv, operations
<1>5. FreshnessInv'
  BY <1>1, FreshnessKept DEF operations
<1>6. CompletedMeansSettled'
  <2> SUFFICES ASSUME Certifiable PROVE CompletedMeansSettled'
    BY <1>2 DEF CompletedMeansSettled
  <2>1. receipt.result = "certified" /\ receipt.revision < program'.revision /\ receipt \in receipts'
    BY <1>1, <1>2
  <2>2. /\ \A w \in WorkItems : program.work[w] # "open"
        /\ \A b \in Blockers : blocker[b] # "open"
        /\ OperationsSettled
    BY DEF Certifiable
  <2>3. ASSUME NEW o \in Operations, Mutating(o)
        PROVE  claim[o] # "open" /\ (CertaintyRequired => truth[o] # "in_flight")
    <3>1. claim[o] \in Journal!ClaimStates \ {"none", "open"} /\ (CertaintyRequired => claim[o] # "uncertain")
      BY <2>2, <2>3 DEF OperationsSettled, Mutating, TypeOK
    <3> QED
      BY <3>1 DEF JournalInv, Journal!ClaimStates
  <2>4. UNCHANGED <<truth, claim, under, contract, blocker>>
    BY <1>1 DEF operations
  <2> HIDE DEF receipt
  <2> QED
    BY <1>2, <2>1, <2>2, <2>3, <2>4 DEF CompletedMeansSettled, Mutating, CertaintyRequired, Mandatory
<1> QED
  BY <1>3, <1>4, <1>5, <1>6

-----------------------------------------------------------------------------

LEMMA StutterInv == IInv /\ UNCHANGED vars => IInv'
<1> SUFFICES ASSUME IInv, UNCHANGED vars PROVE IInv'
  OBVIOUS
<1> USE DEF IInv, vars
<1>1. TypeOK'
  BY DEF TypeOK, operations, verifying
<1>2. JournalInv'
  BY DEF JournalInv, operations
<1>3. FreshnessInv'
  BY FreshnessKept DEF operations
<1>4. CompletedMeansSettled'
  BY SettledKept
<1> QED
  BY <1>1, <1>2, <1>3, <1>4

LEMMA Invariance == Spec => []IInv
<1>1. IInv /\ [Next]_vars => IInv'
  BY ChangeProgramInv, VerifierAnswersInv, CrashInv, DecideInv, IssueAuthorityInv, DispatchInv,
     AccountInv, SettleInv, RequestInv, ChangeClaimInv, RegisterContractInv, AskVerifierInv,
     BlockerInv, StutterInv DEF Next
<1> QED
  BY InitInv, <1>1, PTL DEF Spec

(* Every variable keeps its type, and no verifier is asked about a contract *)
(* that is not registered.                                                  *)
THEOREM TypeCorrect == Spec => []TypeOK
<1>1. IInv => TypeOK
  BY DEF IInv
<1> QED
  BY Invariance, <1>1, PTL

(* CompletionOracle.decide: a completed Program was certified and is        *)
(* settled for good, whatever happens after the certificate.                *)
THEOREM CompletionIsSettled == Spec => []CompletedMeansSettled
<1>1. IInv => CompletedMeansSettled
  BY DEF IInv
<1> QED
  BY Invariance, <1>1, PTL

(* CompletionOracle.decide with VerificationRepository.run and current: the *)
(* certificate rests on Verifications of the facts as they are, although    *)
(* the verifier was called outside any transaction and could re-enter.      *)
THEOREM CertificatesAreCurrent == Spec => CertifiedOnCurrentFacts
<1>1. IInv /\ [Next]_vars => CertifiedStep
  <2> SUFFICES ASSUME IInv, [Next]_vars, program.status # "completed", program'.status = "completed",
                      NEW c \in Mandatory
               PROVE  /\ verification[c].result = "pass"
                      /\ verification[c].saw = Facts
                      /\ Supported(c)
    BY DEF CertifiedStep
  <2>1. Decide
    <3>1. ASSUME ChangeProgram PROVE program'.status # "completed"
      <4>1. \A target : WithStatus(program, target).status = target
        BY DEF WithStatus
      <4>2. \A w, st : WithWork(program, w, st).status = program.status
        BY DEF WithWork
      <4> QED
        BY <3>1, <4>1, <4>2 DEF ChangeProgram, Revised
    <3>2. program' # program
      OBVIOUS
    <3> QED
      BY <3>1, <3>2 DEF Next, vars, VerifierAnswers, Crash, IssueAuthority, Dispatch, Account,
         BackendSettles, RequestOperation, OperationEvent, ChangeClaim, ClaimStore!Support, ClaimStore!Retract, RegisterContract,
         AskVerifier, OpenBlocker, ResolveBlocker
  <2>2. Certifiable
    BY <2>1 DEF Decide, WithStatus
  <2>3. c \in Contracts /\ Passing(c)
    BY <2>2 DEF Certifiable, Mandatory
  <2>4. verification[c] \in Verifications
    BY <2>3 DEF Passing, IInv, TypeOK
  <2>5. verification[c].saw.program = program /\ verification[c].saw.claims = Claimed
    BY <2>3 DEF Passing, Current, IInv, FreshnessInv, VerificationInv
  <2>6. verification[c].saw = Facts
    BY <2>4, <2>5 DEF Verifications, FactSets, Facts, Claimed
  <2> QED
    BY <2>3, <2>6 DEF Passing, Current
<1> QED
  BY Invariance, <1>1, PTL DEF Spec, CertifiedOnCurrentFacts
===============================================================================
