------------------------ MODULE EvidenceStore_proofs ------------------------
(***************************************************************************)
(* Proofs about EvidenceStore and, in the second part, Workspace: for any  *)
(* number of admissions, captures, imports, deaths, failures and losses of *)
(* power, at every step and in any order.                                  *)
(***************************************************************************)
EXTENDS Workspace, WellFoundedInduction, TLAPS

(* Past _mkdir_durable, a call has to do with directories that are durable  *)
(* or that an earlier call abandoned.                                       *)
Kept(d) == dir[d] = "durable" \/ (dir[d] = "named" /\ d \in abandoned)

(* What can only be lost with an abandoned directory. *)
Safe(c) ==
    /\ file[c] = [name |-> "durable", bytes |-> "flushed"]
    /\ Kept(ShardOf[c]) /\ Kept(Root)

Settled(c) == Safe(c) \/ c \in orphaned

Typed ==
    /\ dir \in [Directories -> {"none", "named", "durable"}]
    /\ file \in [Contents -> [name : {"named", "durable"}, bytes : {"flushed"}] \cup {NoFile}]
    /\ record \in [EvidenceIds -> Contents \cup {"none"}]
    /\ abandoned \subseteq {d \in Directories : dir[d] = "named"} /\ orphaned \subseteq Contents
    /\ faults \in 0 .. MaxFaults /\ losses \in 0 .. MaxLosses

CallTyped ==
    call \in {Closed, Idle, Call("mkdir", "none", "none"), Call("entry", "none", "none")}
       \cup [at : {"mkdir", "entry", "made", "written", "naming", "stored"},
             evidence : EvidenceIds, content : Contents]

(* Only the directory a call is about to flush and those whose flush never  *)
(* was may still be lost.                                                   *)
OnlyNewestUnflushed ==
    \A d \in Directories : dir[d] = "named" => (At("entry") /\ d = Path) \/ d \in abandoned

(* Nothing is below what is missing, and a call has what it went past.     *)
TreeInv ==
    /\ \A c \in Contents : file[c] # NoFile => dir[ShardOf[c]] # "none"
    /\ \A d \in Shards : dir[d] # "none" => dir[Root] # "none"
    /\ ~At("closed") /\ ~(Opening /\ At("mkdir")) => dir[Root] # "none"
    /\ At("entry") \/ At("made") \/ At("written") \/ At("naming") \/ At("stored")
          => dir[Path] # "none"
    /\ At("entry") => dir[Path] = "named"
    /\ At("written") => file[call.content] = NoFile
    /\ At("naming") => file[call.content] # NoFile

AdmittedAreSafe ==
    /\ At("stored") => Safe(call.content)
    /\ \A e \in EvidenceIds : record[e] # "none" => Settled(record[e])

IInv == Typed /\ CallTyped /\ OnlyNewestUnflushed /\ TreeInv /\ AdmittedAreSafe

USE StoreConstants DEF Root, Directories, history

-----------------------------------------------------------------------------

LEMMA InitInv == Init => IInv
  BY DEF Init, IInv, Typed, CallTyped, OnlyNewestUnflushed, TreeInv, AdmittedAreSafe,
         Closed, Idle, Call, NoFile, At, Opening, Path

(* What the calls in progress look like. *)
LEMMA CallShape ==
    ASSUME CallTyped
    PROVE  /\ Opening => call.at \in {"closed", "idle", "mkdir", "entry"} /\ Path = "root"
           /\ ~Opening => /\ call.evidence \in EvidenceIds /\ call.content \in Contents
                          /\ Path = ShardOf[call.content] /\ Path \in Shards
                          /\ call = [at |-> call.at, evidence |-> call.evidence,
                                     content |-> call.content]
                          /\ call.at \in {"mkdir", "entry", "made", "written", "naming", "stored"}
  BY DEF CallTyped, Closed, Idle, Call, Opening, Path

(* Going from one step of an admission to the next. *)
LEMMA NextStep ==
    ASSUME CallTyped, ~Opening,
           NEW stage \in {"mkdir", "entry", "made", "written", "naming", "stored"}, GoTo(stage)
    PROVE  /\ CallTyped' /\ Opening' = Opening /\ Path' = Path
           /\ call'.content = call.content /\ call'.at = stage
<1>1. call' = [at |-> stage, evidence |-> call.evidence, content |-> call.content]
  BY CallShape DEF GoTo
<1> QED
  BY <1>1, CallShape DEF CallTyped, Opening, Path

-----------------------------------------------------------------------------
(* One lemma for each action. *)

LEMMA OpenInv == IInv /\ Open => IInv'
  BY DEF IInv, Open, Typed, CallTyped, OnlyNewestUnflushed, TreeInv, AdmittedAreSafe, Settled, Safe, Kept,
         Closed, Idle, Call, At, Opening, Path

LEMMA AdmitInv ==
    ASSUME NEW e \in EvidenceIds, NEW c \in Contents PROVE IInv /\ Admit(e, c) => IInv'
<1> SUFFICES ASSUME IInv, Admit(e, c) PROVE IInv'
  OBVIOUS
<1>1. call' = [at |-> "mkdir", evidence |-> e, content |-> c] /\ At("idle")
      /\ UNCHANGED <<dir, file, record, history, faults, losses>>
  BY DEF Admit, Call
<1> QED
  BY <1>1 DEF IInv, Typed, CallTyped, OnlyNewestUnflushed, TreeInv, AdmittedAreSafe, Settled, Safe, Kept,
              At, Opening, Path

LEMMA MakeDirectoryInv == IInv /\ MakeDirectory => IInv'
<1> SUFFICES ASSUME IInv, MakeDirectory PROVE IInv'
  OBVIOUS
<1> USE DEF IInv, MakeDirectory, Typed, OnlyNewestUnflushed, TreeInv, AdmittedAreSafe, Settled, Safe, Kept, At
<1>1. CASE Opening
  <2>1. call = Call("mkdir", "none", "none") /\ Path = "root"
    BY <1>1, CallShape DEF CallTyped, Closed, Idle, Call, Opening
  <2>2. call' = Call("entry", "none", "none") \/ call' = Idle
    BY <1>1, <2>1 DEF Made, GoTo, Call
  <2> QED
    BY <1>1, <2>1, <2>2 DEF CallTyped, Made, GoTo, Opening, Path, Call, Idle
<1>2. CASE ~Opening
  <2>1. Path \in Shards /\ dir[Root] # "none"
    BY <1>2, CallShape
  <2>2. CallTyped' /\ Path' = Path /\ Opening' = Opening /\ call'.content = call.content
    BY <1>2, NextStep DEF Made
  <2> QED
    BY <1>2, <2>1, <2>2, CallShape DEF Made, GoTo
<1> QED
  BY <1>1, <1>2

LEMMA FlushEntryInv == IInv /\ FlushEntry => IInv'
<1> SUFFICES ASSUME IInv, FlushEntry PROVE IInv'
  OBVIOUS
<1> USE DEF IInv, FlushEntry, Typed, OnlyNewestUnflushed, TreeInv, AdmittedAreSafe, Settled, Safe, Kept, At
<1>1. /\ dir' \in [Directories -> {"none", "named", "durable"}]
      /\ \A d \in Directories : dir'[d] = "none" <=> dir[d] = "none"
      /\ \A d \in Directories : dir'[d] = "named" => d \in abandoned'
      /\ \A d \in Directories : Kept(d) => Kept(d)'
      /\ abandoned' \subseteq {d \in Directories : dir'[d] = "named"}
  <2>1. Path \in Directories
    BY CallShape
  <2>2. dir' = [d \in Directories |->
                 IF dir[d] = "named" /\ (d \in Shards <=> Path \in Shards)
                 THEN "durable" ELSE dir[d]]
        /\ abandoned' = {d \in abandoned : dir'[d] = "named"}
    OBVIOUS
  <2> QED
    BY <2>1, <2>2
<1>2. CASE Opening
  <2>1. call' = Idle
    BY <1>2 DEF Made
  <2> QED
    BY <1>1, <1>2, <2>1 DEF CallTyped, Opening, Path, Call, Idle
<1>3. CASE ~Opening
  <2>1. CallTyped' /\ Path' = Path /\ Opening' = Opening /\ call'.content = call.content
        /\ call'.at = "made"
    BY <1>3, NextStep DEF Made
  <2> QED
    BY <1>1, <1>3, <2>1, CallShape
<1> QED
  BY <1>2, <1>3

(* At these stages an admission is in progress. *)
LEMMA Admitting ==
    ASSUME CallTyped, call.at \in {"made", "written", "naming", "stored"}
    PROVE  ~Opening /\ call.content \in Contents /\ call.evidence \in EvidenceIds
           /\ Path = ShardOf[call.content] /\ Path \in Shards
  BY CallShape

LEMMA ReuseArtifactInv == IInv /\ ReuseArtifact => IInv'
<1> SUFFICES ASSUME IInv, ReuseArtifact PROVE IInv'
  OBVIOUS
<1> USE DEF IInv, ReuseArtifact, Typed, OnlyNewestUnflushed, TreeInv, AdmittedAreSafe, Settled, Safe, Kept, At
<1>1. ~Opening /\ call.content \in Contents
  BY Admitting
<1>2. GoTo("naming")
  BY <1>1 DEF Found
<1> QED
  BY <1>1, <1>2, NextStep

LEMMA WriteTemporaryInv == IInv /\ WriteTemporary => IInv'
<1> SUFFICES ASSUME IInv, WriteTemporary PROVE IInv'
  OBVIOUS
<1> USE DEF IInv, WriteTemporary, Typed, OnlyNewestUnflushed, TreeInv, AdmittedAreSafe, Settled, Safe, Kept, At
<1>1. ~Opening /\ call.content \in Contents
  BY Admitting
<1> QED
  BY <1>1, NextStep

LEMMA NameArtifactInv == IInv /\ NameArtifact => IInv'
<1> SUFFICES ASSUME IInv, NameArtifact PROVE IInv'
  OBVIOUS
<1> USE DEF IInv, NameArtifact, Typed, OnlyNewestUnflushed, TreeInv, AdmittedAreSafe, Settled, Safe, Kept, At
<1>1. ~Opening /\ call.content \in Contents /\ Path = ShardOf[call.content]
  BY Admitting
<1>2. CallTyped' /\ Path' = Path /\ Opening' = Opening /\ call'.content = call.content
      /\ call'.at = "naming"
  BY <1>1, NextStep
<1>3. \A c \in Contents : Settled(c) => Settled(c)'
  BY <1>1 DEF NoFile
<1>4. /\ file' \in [Contents -> [name : {"named", "durable"}, bytes : {"flushed"}] \cup {NoFile}]
      /\ \A c \in Contents : c # call.content => file'[c] = file[c]
      /\ file'[call.content] # NoFile
  BY <1>1 DEF NoFile
<1> QED
  BY <1>1, <1>2, <1>3, <1>4

(* At the end of an admission the directories of its file are kept.         *)
LEMMA PathKept ==
    ASSUME IInv, call.at \in {"made", "written", "naming", "stored"} PROVE Kept(Path) /\ Kept(Root)
<1>1. ~Opening /\ Path \in Shards
  BY Admitting DEF IInv
<1> QED
  BY <1>1 DEF IInv, Typed, OnlyNewestUnflushed, TreeInv, Kept, At

(* The flush of a name settles what was orphaned and is there again.        *)
LEMMA FlushNameSettles ==
    ASSUME IInv, FlushName, NEW c \in Contents, Settled(c) PROVE Settled(c)'
<1> USE DEF IInv, FlushName, Typed, Settled, Safe, Kept, At
<1>1. CASE Safe(c)
  BY <1>1 DEF NoFile
<1>2. CASE c \in orphaned /\ ShardOf[c] = Path /\ file[c] # NoFile
  <2>1. Kept(ShardOf[c]) /\ Kept(Root)
    BY <1>2, PathKept
  <2>2. file'[c] = [name |-> "durable", bytes |-> "flushed"]
    BY <1>2 DEF NoFile
  <2> QED
    BY <2>1, <2>2
<1> QED
  BY <1>1, <1>2

LEMMA FlushNameInv == IInv /\ FlushName => IInv'
<1> SUFFICES ASSUME IInv, FlushName PROVE IInv'
  OBVIOUS
<1> USE DEF IInv, FlushName, Typed, OnlyNewestUnflushed, TreeInv, AdmittedAreSafe, Settled, Safe, Kept, At
<1>1. ~Opening /\ call.content \in Contents /\ Path = ShardOf[call.content] /\ Path \in Shards
  BY Admitting
<1>2. CallTyped' /\ Path' = Path /\ Opening' = Opening /\ call'.content = call.content
      /\ call'.at = "stored"
  BY <1>1, NextStep
<1>3. /\ file' \in [Contents -> [name : {"named", "durable"}, bytes : {"flushed"}] \cup {NoFile}]
      /\ \A c \in Contents : file'[c] = NoFile <=> file[c] = NoFile
      /\ \A c \in Contents : file[c] = [name |-> "durable", bytes |-> "flushed"] => file'[c] = file[c]
      /\ file'[call.content] = [name |-> "durable", bytes |-> "flushed"]
  BY <1>1 DEF NoFile
<1>4. Kept(Path) /\ Kept(Root)
  BY PathKept
<1>5. \A c \in Contents : Settled(c) => Settled(c)'
  BY FlushNameSettles
<1>6. AdmittedAreSafe'
  <2>1. Safe(call.content)'
    BY <1>1, <1>2, <1>3, <1>4
  <2> HIDE DEF Settled
  <2> QED
    BY <1>2, <1>5, <2>1
<1>7. orphaned' \subseteq Contents /\ UNCHANGED <<dir, record, abandoned, faults, losses>>
  OBVIOUS
<1>8. Typed'
  BY <1>3, <1>7
<1>9. TreeInv' /\ OnlyNewestUnflushed'
  BY <1>1, <1>2, <1>3, <1>7
<1> QED
  BY <1>2, <1>6, <1>8, <1>9

LEMMA CommitInv == IInv /\ CommitAdmission => IInv'
<1> SUFFICES ASSUME IInv, CommitAdmission PROVE IInv'
  OBVIOUS
<1> USE DEF IInv, CommitAdmission, Typed, OnlyNewestUnflushed, TreeInv, AdmittedAreSafe, Settled, Safe, Kept, At
<1>1. ~Opening /\ call.content \in Contents /\ call.evidence \in EvidenceIds
  BY Admitting
<1> QED
  BY <1>1 DEF CallTyped, Idle, Call, Opening, Path

(* The call ends with an exception, or with its process. *)
LEMMA InterruptedInv ==
    IInv /\ (Fail \/ Die) => IInv'
<1> SUFFICES ASSUME IInv, Fail \/ Die PROVE IInv'
  OBVIOUS
<1>1. /\ ~At("closed")
      /\ UNCHANGED <<dir, file, record, orphaned, losses>>
      /\ faults' = faults + 1 /\ faults < MaxFaults
      /\ abandoned' = abandoned \cup (IF At("entry") THEN {Path} ELSE {})
      /\ call' = Closed \/ (call' = Idle /\ ~Opening)
  BY DEF Fail, Die, Interrupted
<1>2. call' = Idle => dir[Root] # "none"
  BY <1>1 DEF IInv, TreeInv, Closed, Idle, Call
<1>3. At("entry") => Path \in Directories /\ dir[Path] = "named"
  BY CallShape DEF IInv, TreeInv
<1>4. abandoned' \subseteq {d \in Directories : dir[d] = "named"}
  BY <1>1, <1>3 DEF IInv, Typed
<1>5. OnlyNewestUnflushed'
  BY <1>1 DEF IInv, OnlyNewestUnflushed
<1>6. \A c : Safe(c) => Safe(c)'
  BY <1>1 DEF Safe, Kept
<1>7. AdmittedAreSafe'
  BY <1>1, <1>6 DEF IInv, AdmittedAreSafe, Settled, At, Closed, Idle, Call
<1>8. TreeInv'
  BY <1>1, <1>2 DEF IInv, TreeInv, Closed, Idle, Call, At, Opening, Path
<1>9. Typed' /\ CallTyped'
  BY <1>1, <1>4 DEF IInv, Typed, CallTyped
<1> QED
  BY <1>5, <1>7, <1>8, <1>9 DEF IInv

(* What a loss of power leaves, and what it takes: nothing is torn.         *)
LEMMA LossLeaves ==
    ASSUME Typed, PowerLoss
    PROVE  \E gone \in SUBSET {d \in Directories : dir[d] = "named"},
              unnamed \in SUBSET {c \in Contents : file[c].name = "named"} :
             LET lost == IF Root \in gone THEN Directories ELSE gone
             IN  /\ dir' = [d \in Directories |->
                              IF d \in lost \/ dir[d] = "none" THEN "none" ELSE "durable"]
                 /\ file' = [c \in Contents |->
                              IF ShardOf[c] \in lost \/ c \in unnamed \/ file[c] = NoFile THEN NoFile
                              ELSE [name |-> "durable", bytes |-> "flushed"]]
                 /\ orphaned' = orphaned \cup
                       {c \in Contents : /\ file[c].name = "durable"
                                         /\ {Root, ShardOf[c]} \cap gone \cap abandoned # {}}
<1>1. PICK gone \in SUBSET {d \in Directories : dir[d] = "named"},
           unnamed \in SUBSET {c \in Contents : file[c].name = "named"},
           torn \in SUBSET {c \in Contents : file[c].bytes = "cached"} :
        LET lost == IF Root \in gone THEN Directories ELSE gone
        IN  /\ dir' = [d \in Directories |->
                         IF d \in lost \/ dir[d] = "none" THEN "none" ELSE "durable"]
            /\ file' = [c \in Contents |->
                         IF ShardOf[c] \in lost \/ c \in unnamed \/ file[c] = NoFile THEN NoFile
                         ELSE [name |-> "durable",
                               bytes |-> IF c \in torn THEN "torn" ELSE "flushed"]]
            /\ orphaned' = orphaned \cup
                  {c \in Contents : /\ file[c].name = "durable"
                                    /\ {Root, ShardOf[c]} \cap gone \cap abandoned # {}}
  BY DEF PowerLoss
<1>2. torn = {}
  BY DEF NoFile, Typed
<1>3. LET lost == IF Root \in gone THEN Directories ELSE gone
      IN  /\ dir' = [d \in Directories |->
                       IF d \in lost \/ dir[d] = "none" THEN "none" ELSE "durable"]
          /\ file' = [c \in Contents |->
                       IF ShardOf[c] \in lost \/ c \in unnamed \/ file[c] = NoFile THEN NoFile
                       ELSE [name |-> "durable", bytes |-> "flushed"]]
          /\ orphaned' = orphaned \cup
                {c \in Contents : /\ file[c].name = "durable"
                                  /\ {Root, ShardOf[c]} \cap gone \cap abandoned # {}}
  BY <1>1, <1>2
<1> WITNESS gone \in SUBSET {d \in Directories : dir[d] = "named"},
            unnamed \in SUBSET {c \in Contents : file[c].name = "named"}
<1> QED
  BY <1>3

(* What is settled survives, or is orphaned. *)
LEMMA LossSettles ==
    ASSUME Typed, PowerLoss, NEW c \in Contents, Settled(c) PROVE Settled(c)'
<1> USE DEF Typed, Settled, Safe, Kept
<1>1. PICK gone \in SUBSET {d \in Directories : dir[d] = "named"},
           unnamed \in SUBSET {d \in Contents : file[d].name = "named"} :
        LET lost == IF Root \in gone THEN Directories ELSE gone
        IN  /\ dir' = [d \in Directories |->
                         IF d \in lost \/ dir[d] = "none" THEN "none" ELSE "durable"]
            /\ file' = [d \in Contents |->
                         IF ShardOf[d] \in lost \/ d \in unnamed \/ file[d] = NoFile THEN NoFile
                         ELSE [name |-> "durable", bytes |-> "flushed"]]
            /\ orphaned' = orphaned \cup
                  {d \in Contents : /\ file[d].name = "durable"
                                    /\ {Root, ShardOf[d]} \cap gone \cap abandoned # {}}
  BY LossLeaves
<1>2. CASE Safe(c) /\ Root \notin gone /\ ShardOf[c] \notin gone
  BY <1>1, <1>2 DEF NoFile
<1>3. CASE Safe(c) /\ (Root \in gone \/ ShardOf[c] \in gone)
  <2>1. {Root, ShardOf[c]} \cap gone \cap abandoned # {}
    BY <1>3
  <2> QED
    BY <1>1, <1>3, <2>1
<1>4. CASE c \in orphaned
  BY <1>1, <1>4
<1> QED
  BY <1>2, <1>3, <1>4

LEMMA PowerLossInv == IInv /\ PowerLoss => IInv'
<1> SUFFICES ASSUME IInv, PowerLoss PROVE IInv'
  OBVIOUS
<1> USE DEF IInv, Typed, TreeInv
<1>1. PICK gone \in SUBSET {d \in Directories : dir[d] = "named"},
           unnamed \in SUBSET {c \in Contents : file[c].name = "named"} :
        LET lost == IF Root \in gone THEN Directories ELSE gone
        IN  /\ dir' = [d \in Directories |->
                         IF d \in lost \/ dir[d] = "none" THEN "none" ELSE "durable"]
            /\ file' = [c \in Contents |->
                         IF ShardOf[c] \in lost \/ c \in unnamed \/ file[c] = NoFile THEN NoFile
                         ELSE [name |-> "durable", bytes |-> "flushed"]]
            /\ orphaned' = orphaned \cup
                  {c \in Contents : /\ file[c].name = "durable"
                                    /\ {Root, ShardOf[c]} \cap gone \cap abandoned # {}}
  BY LossLeaves
<1>2. /\ call' = Closed /\ abandoned' = {} /\ UNCHANGED <<record, faults>>
      /\ losses' = losses + 1 /\ losses < MaxLosses
  BY DEF PowerLoss
<1>3. Typed' /\ CallTyped'
  BY <1>1, <1>2 DEF CallTyped
<1>4. OnlyNewestUnflushed'
  BY <1>1 DEF OnlyNewestUnflushed
<1>5. TreeInv'
  BY <1>1, <1>2 DEF Closed, Call, At, Opening, Path
<1>6. AdmittedAreSafe'
  BY <1>2, LossSettles DEF AdmittedAreSafe, At, Closed, Call
<1> QED
  BY <1>3, <1>4, <1>5, <1>6

-----------------------------------------------------------------------------

THEOREM Invariance == Spec => []IInv
<1>1. IInv /\ [Next]_vars => IInv'
  <2>1. IInv /\ UNCHANGED vars => IInv'
    BY DEF vars, IInv, Typed, CallTyped, OnlyNewestUnflushed, TreeInv, AdmittedAreSafe, Settled, Safe, Kept,
           At, Opening, Path
  <2> QED
    BY <2>1, OpenInv, AdmitInv, MakeDirectoryInv, FlushEntryInv, ReuseArtifactInv,
       WriteTemporaryInv, NameArtifactInv, FlushNameInv, CommitInv, InterruptedInv,
       PowerLossInv DEF Next
<1> QED
  BY InitInv, <1>1, PTL DEF Spec

(* The bytes of admitted Evidence are never lost, by a death, a failing     *)
(* call or a loss of power, except with a directory whose first flush was   *)
(* interrupted and that was not flushed before the power failed.            *)
THEOREM BytesAreKept == Spec => []AdmittedBytesExist
<1>1. IInv => AdmittedBytesExist
  BY DEF IInv, Typed, AdmittedAreSafe, Settled, Safe, Kept, AdmittedBytesExist, Found, NoFile
<1> QED
  BY <1>1, Invariance, PTL

(* No name of a digest is left with other bytes. *)
THEOREM NothingIsTorn == Spec => []NoTornArtifact
<1>1. IInv => NoTornArtifact
  BY DEF IInv, Typed, NoTornArtifact, NoFile
<1> QED
  BY <1>1, Invariance, PTL

(* Files and directories are well formed, and a call has what it made.      *)
THEOREM TypeCorrect == Spec => []TypeOK
<1>1. IInv => TypeOK
  BY DEF IInv, Typed, CallTyped, TreeInv, AdmittedAreSafe, Settled, Safe, Kept, TypeOK, NoFile
<1> QED
  BY <1>1, Invariance, PTL

-----------------------------------------------------------------------------
(* Workspace.  What the store keeps safe stays safe, and its other callers  *)
(* do it no harm.                                                           *)

LEMMA SettledStays ==
    ASSUME IInv, Next, NEW c \in Contents, Settled(c) PROVE Settled(c)'
<1> USE DEF IInv, Typed, Settled, Safe, Kept
<1>1. CASE MakeDirectory
  BY <1>1, CallShape DEF MakeDirectory
<1>2. CASE FlushEntry
  BY <1>2, CallShape DEF FlushEntry
<1>3. CASE NameArtifact
  BY <1>3 DEF NameArtifact, TreeInv, NoFile
<1>4. CASE FlushName
  BY <1>4, FlushNameSettles
<1>5. CASE PowerLoss
  BY <1>5, LossSettles
<1>6. CASE Fail \/ Die
  BY <1>6 DEF Fail, Die, Interrupted
<1> QED
  BY <1>1, <1>2, <1>3, <1>4, <1>5, <1>6
  DEF Next, Open, Admit, ReuseArtifact, WriteTemporary, CommitAdmission

LEMMA NextKeepsStore ==
    ASSUME IInv, Next PROVE IInv'
  BY OpenInv, AdmitInv, MakeDirectoryInv, FlushEntryInv, ReuseArtifactInv, WriteTemporaryInv,
     NameArtifactInv, FlushNameInv, CommitInv, InterruptedInv, PowerLossInv DEF Next

(* Only the call moves: another one is begun, or one is over.               *)
LEMMA OtherCallInv ==
    ASSUME IInv, UNCHANGED <<dir, file, record, history, losses>>, faults' \in 0 .. MaxFaults,
           \/ call' = call
           \/ At("idle") /\ \E e \in EvidenceIds, c \in Contents : call' = Call("mkdir", e, c)
           \/ At("stored") /\ call' = Idle
    PROVE  IInv'
<1> USE DEF IInv, Typed, OnlyNewestUnflushed, TreeInv, AdmittedAreSafe, Settled, Safe, Kept, At
<1>1. CASE call' = call
  BY <1>1 DEF CallTyped, Opening, Path
<1>2. ASSUME NEW e \in EvidenceIds, NEW c \in Contents, At("idle"), call' = Call("mkdir", e, c)
      PROVE  IInv'
  <2>1. call' = [at |-> "mkdir", evidence |-> e, content |-> c]
    BY <1>2 DEF Call
  <2> QED
    BY <1>2, <2>1 DEF CallTyped, Opening, Path
<1>3. CASE At("stored") /\ call' = Idle
  <2>1. ~Opening
    BY <1>3, Admitting
  <2> QED
    BY <1>3, <2>1 DEF CallTyped, Idle, Call, Opening, Path
<1> QED
  BY <1>1, <1>2, <1>3

Manifests == SUBSET ((DOMAIN Life) \X Contents)

JobRecords ==
    [kind : Archives \cup {Capturing, "none"},
     at : {"none", "listing", "reading", "relisting", "rereading", "storing"}, revision : Nat,
     todo : SUBSET (DOMAIN Life \cup Contents), found : SUBSET DOMAIN Life,
     unscanned : SUBSET DOMAIN Life, read : Manifests, past : SUBSET Manifests]

JobTyped ==
    /\ age \in [DOMAIN Life -> Nat] /\ revision \in Nat
    /\ job \in JobRecords
    /\ Reading => job.todo \subseteq DOMAIN Life /\ job.kind = Capturing
    /\ Doing("storing") => job.todo \subseteq Contents /\ job.kind # "none"

(* The path of an entry had its content, now or before. *)
Behind(entry) ==
    \E i \in DOMAIN Life[entry[1]] : entry[2] = Life[entry[1]][i] /\ i <= age[entry[1]]

(* Path p was absent while all that was read was there, or the second       *)
(* listing could not scan its directory.                                    *)
LeftOut(p) ==
    \/ p \in job.unscanned
    \/ \E moment \in job.past : job.read \subseteq moment /\ p \notin Named(moment)

Witnessed ==
    /\ \E moment \in job.past : job.read \subseteq moment
    /\ \A p \in DOMAIN Life \ Named(job.read) : LeftOut(p)

(* An entry still to be read again is not there any more, nor will it be.   *)
Spoiled == \E entry \in job.read : entry[1] \in job.todo /\ entry \notin Now

(* One entry for each path, each once true.  While all of them still are,   *)
(* each path the second listing has passed over was unseen, or absent at a  *)
(* moment they were there; afterwards that is certain, or the second reading will find out.   *)
CaptureInv ==
    /\ Reading => Now \in job.past
    /\ Doing("listing") => job.read = {}
    /\ Doing("reading") => job.todo \cap Named(job.read) = {}
    /\ Reading => \A entry \in job.read : Behind(entry)
    /\ Reading => \A d, e \in job.read : d[1] = e[1] => d = e
    /\ Doing("relisting") /\ job.read \subseteq Now =>
          \A p \in DOMAIN Life \ (job.todo \cup job.found) : LeftOut(p)
    /\ Doing("rereading") => Witnessed \/ Spoiled

(* Whatever has a row is settled.  Archives have their rows; the one in        *)
(* progress has its rows or, for a snapshot, its files but for those still  *)
(* to be stored.                                                            *)
ArchiveInv ==
    /\ rows \subseteq Contents /\ \A c \in rows : Settled(c)
    /\ \A s \in snapshots : Bytes(s.manifest) \subseteq rows
    /\ imports \subseteq Archives /\ \A b \in imports : Holds[b] \subseteq rows
    /\ Doing("storing") /\ job.kind = Capturing => \A c \in Bytes(job.read) \ job.todo : Settled(c)
    /\ Doing("storing") /\ job.kind # Capturing => Holds[job.kind] \ job.todo \subseteq rows

WInv == IInv /\ JobTyped /\ CaptureInv /\ ArchiveInv

USE WorkspaceConstants

(* Every step of the workspace leaves the store well, and settled what is.  *)
LEMMA WorkspaceKeepsStore ==
    ASSUME IInv, JobTyped, WorkspaceNext
    PROVE  IInv' /\ \A c \in Contents : Settled(c) => Settled(c)'
<1>1. CASE Next
  BY <1>1, NextKeepsStore, SettledStays
<1>2. CASE UNCHANGED vars
  <2>1. UNCHANGED <<dir, file, record, history, losses>> /\ faults' \in 0 .. MaxFaults
        /\ call' = call
    BY <1>2 DEF vars, IInv, Typed
  <2> QED
    BY <2>1, OtherCallInv DEF Settled, Safe, Kept
<1>3. CASE StoreFile
  <2>1. job.kind \in EvidenceIds /\ job.todo \subseteq Contents
    BY <1>3 DEF JobTyped, JobRecords, StoreFile
  <2> QED
    BY <1>3, <2>1, OtherCallInv DEF StoreFile, Settled, Safe, Kept, IInv, Typed
<1>4. CASE EndStoring
  BY <1>4, OtherCallInv DEF EndStoring, Settled, Safe, Kept, IInv, Typed
<1>5. CASE AbandonJob
  BY <1>5, OtherCallInv DEF AbandonJob, Settled, Safe, Kept, IInv, Typed
<1> QED
  BY <1>1, <1>2, <1>3, <1>4, <1>5
  DEF WorkspaceNext, Edit, ReviseProgram, BeginCapture, List, EndListing, Read, GiveUp, EndReading,
      EndRelisting, Reread, EndRereading, BeginImport, CommitSnapshot, CommitImport,
      FileStep, Next, Evidence

-----------------------------------------------------------------------------
(* Reading the workspace *)

(* The next path to read is one of those to read. *)
LEMMA NextPathIsTodo ==
    ASSUME NEW todo \in SUBSET DOMAIN Life, todo # {} PROVE NextPath(todo) \in todo
<1> DEFINE S == {i \in DOMAIN Paths : Paths[i] \in todo}
           R == OpToRel(<, Nat)
<1>1. S \in SUBSET Nat /\ S # {}
  BY DEF ToSet
<1>2. IsWellFoundedOn(R, Nat)
  BY NatLessThanWellFounded
<1>3. \A m, n \in Nat : <<m, n>> \in R <=> m < n
  BY DEF OpToRel
<1> HIDE DEF R
<1>4. PICK m \in S : \A n \in S : <<n, m>> \notin R
  <2> HIDE DEF S
  <2> QED
    BY <1>1, <1>2, WFMin
<1>5. \A n \in S : m <= n
  <2> SUFFICES ASSUME NEW n \in S PROVE m <= n
    OBVIOUS
  <2>1. m \in Nat /\ n \in Nat /\ <<n, m>> \notin R
    BY <1>1, <1>4
  <2> QED
    BY <1>3, <2>1
<1>6. Min(S) \in S
  BY <1>4, <1>5 DEF Min
<1> QED
  BY <1>6 DEF NextPath

LEMMA NowIs ==
    ASSUME JobTyped
    PROVE  /\ Now \in Manifests
           /\ \A p \in Named(Now) : p \in DOMAIN Life /\ Present(p)
           /\ \A p \in DOMAIN Life : Present(p) => <<p, Content(p)>> \in Now
           /\ \A e \in Now : e[1] \in DOMAIN Life /\ Present(e[1]) /\ e = <<e[1], Content(e[1])>>
<1>1. \A p \in DOMAIN Life : Present(p) => Content(p) \in Contents
  BY DEF JobTyped, Present, Content
<1>2. \A e : e \in Now <=> \E p \in DOMAIN Life : Present(p) /\ e = <<p, Content(p)>>
  BY DEF Now
<1>3. Now \in Manifests
  BY <1>1, <1>2 DEF Manifests
<1>4. \A e \in Now : e[1] \in DOMAIN Life /\ Present(e[1]) /\ e = <<e[1], Content(e[1])>>
  BY <1>2
<1> QED
  BY <1>2, <1>3, <1>4 DEF Named

(* What is read of a present path was true at least now. *)
LEMMA ReadNow ==
    ASSUME JobTyped, NEW p \in DOMAIN Life, Present(p)
    PROVE  Behind(<<p, Content(p)>>) /\ <<p, Content(p)>> \in Now
  BY NowIs DEF JobTyped, Behind, Present, Content

(* While the workspace is edited what was true stays so and what is gone    *)
(* stays away: no path comes back to a content.                             *)
LEMMA EditMovesOn ==
    ASSUME JobTyped, NEW q \in DOMAIN Life, Edit(q),
           NEW p \in DOMAIN Life, NEW c \in Contents, Behind(<<p, c>>)
    PROVE  Behind(<<p, c>>)' /\ (<<p, c>> \notin Now => <<p, c>> \notin Now')
<1>1. age[p] \in Nat /\ age'[p] \in Nat /\ age[p] <= age'[p]
  BY DEF Edit, JobTyped
<1>2. PICK i \in DOMAIN Life[p] : c = Life[p][i] /\ i <= age[p]
  BY DEF Behind
<1>3. DOMAIN Life[p] \subseteq Nat
  OBVIOUS
<1>4. Behind(<<p, c>>)'
  BY <1>1, <1>2, <1>3 DEF Behind
<1>5. ASSUME <<p, c>> \in Now' PROVE <<p, c>> \in Now
  <2>1. age'[p] \in DOMAIN Life[p] /\ c = Life[p][age'[p]]
    BY <1>5 DEF Now, Present, Content
  <2>2. age'[p] = i
    BY <1>1, <1>2, <2>1 DEF IsInjective
  <2>3. age[p] = i
    BY <1>1, <1>2, <1>3, <2>2
  <2> QED
    BY <1>2, <2>3 DEF Now, Present, Content
<1> QED
  BY <1>4, <1>5

(* What the steps write to the job, where they do not give it up.           *)
LEMMA EmptyJob ==
    /\ NoJob \in JobRecords
    /\ NoJob.at = "none" /\ NoJob.kind = "none" /\ NoJob.todo = {} /\ NoJob.found = {}
    /\ NoJob.unscanned = {} /\ NoJob.read = {} /\ NoJob.past = {}
  BY DEF NoJob, JobRecords, Manifests

LEMMA JobTypedStep == WInv /\ [WorkspaceNext]_workspaceVars => JobTyped'
<1> SUFFICES ASSUME WInv, [WorkspaceNext]_workspaceVars PROVE JobTyped'
  OBVIOUS
<1> USE DEF WInv, JobTyped, Reading, Doing
<1>1. CASE UNCHANGED <<age, revision, job>>
  BY <1>1
<1>2. CASE UNCHANGED <<age, revision>> /\ job' = NoJob
  BY <1>2, EmptyJob
<1>3. CASE \E p \in DOMAIN Life : Edit(p)
  <2>1. PICK p \in DOMAIN Life : Edit(p)
    BY <1>3
  <2>2. age' \in [DOMAIN Life -> Nat] /\ revision' \in Nat
    BY <2>1 DEF Edit, archive
  <2>3. Now' \in Manifests
    <3>1. \A q \in DOMAIN Life : age'[q] \in DOMAIN Life[q] => Life[q][age'[q]] \in Contents
      BY <2>2
    <3> QED
      BY <3>1 DEF Now, Present, Content, Manifests
  <2>4. /\ job' \in JobRecords /\ job'.at = job.at /\ job'.todo = job.todo /\ job'.kind = job.kind
    BY <2>1, <2>3 DEF Edit, JobRecords
  <2> QED
    BY <2>2, <2>4
<1>4. CASE ReviseProgram
  BY <1>4 DEF ReviseProgram
<1>5. CASE BeginCapture
  <2>1. Now \in Manifests
    BY NowIs
  <2>2. /\ job' \in JobRecords /\ job'.at = "listing" /\ job'.todo = DOMAIN Life
        /\ job'.kind = Capturing
    BY <1>5, <2>1, EmptyJob DEF BeginCapture, JobRecords
  <2> QED
    BY <1>5, <2>2 DEF BeginCapture
<1>6. CASE List
  <2>1. NextPath(job.todo) \in job.todo /\ job.todo \subseteq DOMAIN Life
    BY <1>6, NextPathIsTodo DEF List
  <2> DEFINE p == NextPath(job.todo)
  <2>2. \/ job' = [job EXCEPT !.todo = @ \ {p}, !.found = IF Present(p) THEN @ \cup {p} ELSE @]
        \/ job' = [job EXCEPT !.todo = @ \ {p},
                              !.unscanned = IF Doing("relisting") THEN @ \cup {p} ELSE @]
    BY <1>6 DEF List
  <2>3. p \in DOMAIN Life
    BY <2>1
  <2> HIDE DEF p
  <2>4. job' \in JobRecords /\ job'.at = job.at /\ job'.todo = job.todo \ {p}
        /\ job'.kind = job.kind
    <3>1. CASE job' = [job EXCEPT !.todo = @ \ {p},
                                 !.found = IF Present(p) THEN @ \cup {p} ELSE @]
      BY <2>3, <3>1 DEF JobRecords
    <3>2. CASE job' = [job EXCEPT !.todo = @ \ {p},
                                 !.unscanned = IF Doing("relisting") THEN @ \cup {p} ELSE @]
      BY <2>3, <3>2 DEF JobRecords
    <3> QED
      BY <2>2, <3>1, <3>2
  <2> QED
    BY <1>6, <2>1, <2>4 DEF List
<1>7. CASE EndListing
  <2>1. job' \in JobRecords /\ job'.at = "reading" /\ job'.todo = job.found
        /\ job'.kind = job.kind
    BY <1>7 DEF EndListing, JobRecords
  <2> QED
    BY <1>7, <2>1 DEF EndListing, JobRecords
<1>8. CASE Read /\ ~GiveUp
  <2>1. NextPath(job.todo) \in job.todo /\ job.todo \subseteq DOMAIN Life
    BY <1>8, NextPathIsTodo DEF Read
  <2> DEFINE p == NextPath(job.todo)
  <2>2. Present(p) /\ job' = [job EXCEPT !.todo = @ \ {p}, !.read = @ \cup {<<p, Content(p)>>}]
    BY <1>8 DEF Read
  <2> HIDE DEF p
  <2>3. <<p, Content(p)>> \in (DOMAIN Life) \X Contents
    BY <2>1, <2>2, ReadNow, NowIs DEF p, Manifests
  <2>4. job' \in JobRecords /\ job'.at = job.at /\ job'.todo = job.todo \ {p}
        /\ job'.kind = job.kind
    BY <2>2, <2>3 DEF JobRecords, Manifests
  <2> QED
    BY <1>8, <2>1, <2>4 DEF Read, GiveUp
<1>9. CASE EndReading
  <2>1. job' \in JobRecords /\ job'.at = "relisting" /\ job'.todo = DOMAIN Life
        /\ job'.kind = job.kind
    BY <1>9 DEF EndReading, JobRecords
  <2> QED
    BY <1>9, <2>1 DEF EndReading
<1>10. CASE EndRelisting /\ ~GiveUp
  <2>1. job' \in JobRecords /\ job'.at = "rereading" /\ job'.todo = job.found
        /\ job'.kind = job.kind
    BY <1>10 DEF EndRelisting, JobRecords
  <2> QED
    BY <1>10, <2>1 DEF EndRelisting, JobRecords
<1>11. CASE Reread /\ ~GiveUp
  <2> DEFINE p == NextPath(job.todo)
  <2>1. job' = [job EXCEPT !.todo = @ \ {p}]
    BY <1>11 DEF Reread
  <2> HIDE DEF p
  <2>2. job' \in JobRecords /\ job'.at = job.at /\ job'.todo = job.todo \ {p}
        /\ job'.kind = job.kind
    BY <2>1 DEF JobRecords
  <2> QED
    BY <1>11, <2>2 DEF Reread, GiveUp
<1>12. CASE EndRereading /\ ~GiveUp
  <2>1. job' = [job EXCEPT !.at = "storing", !.todo = Bytes(job.read),
                             !.past = {}, !.unscanned = {}]
    BY <1>12 DEF EndRereading
  <2>2. Bytes(job.read) \subseteq Contents
    BY DEF Bytes, JobRecords, Manifests
  <2>3. job' \in JobRecords /\ job'.at = "storing" /\ job'.todo = Bytes(job.read)
        /\ job'.kind = job.kind
    BY <2>1, <2>2 DEF JobRecords
  <2> QED
    BY <1>12, <2>2, <2>3 DEF EndRereading
<1>13. CASE \E b \in Archives : BeginImport(b)
  <2>1. PICK b \in Archives : BeginImport(b)
    BY <1>13
  <2>2. job' \in JobRecords /\ job'.at = "storing" /\ job'.todo = Holds[b] /\ job'.kind = b
    BY <2>1, EmptyJob DEF BeginImport, JobRecords
  <2> QED
    BY <2>1, <2>2 DEF BeginImport
<1>14. CASE EndStoring
  <2>1. job' \in JobRecords /\ job'.at = "storing" /\ job'.todo = job.todo \ {call.content}
        /\ job'.kind = job.kind
    BY <1>14 DEF EndStoring, JobRecords
  <2> QED
    BY <1>14, <2>1 DEF EndStoring
<1> QED
  BY <1>1, <1>2, <1>3, <1>4, <1>5, <1>6, <1>7, <1>8, <1>9, <1>10, <1>11, <1>12, <1>13, <1>14
  DEF WorkspaceNext, workspaceVars, GiveUp, Read, EndRelisting, Reread, EndRereading, StoreFile,
      CommitSnapshot, CommitImport, AbandonJob

(* What was read is a set of pairs. *)
LEMMA ReadIsPairs ==
    ASSUME JobTyped, NEW entry \in job.read
    PROVE  \E p \in DOMAIN Life, c \in Contents : entry = <<p, c>>
  BY DEF JobTyped, JobRecords, Manifests

LEMMA CaptureEdit ==
    ASSUME JobTyped, CaptureInv, NEW q \in DOMAIN Life, Edit(q) PROVE CaptureInv'
<1> USE DEF CaptureInv, Doing
<1>1. CASE ~Reading
  BY <1>1 DEF Edit, Reading
<1>2. CASE Reading
  <2>1. /\ job'.at = job.at /\ job'.read = job.read /\ job'.todo = job.todo
        /\ job'.found = job.found /\ job'.unscanned = job.unscanned
        /\ job'.past = job.past \cup {Now'}
    BY <1>2 DEF Edit, JobTyped, JobRecords
  <2>2. \A entry \in job.read : Behind(entry)' /\ (entry \notin Now => entry \notin Now')
    <3> SUFFICES ASSUME NEW entry \in job.read
                 PROVE  Behind(entry)' /\ (entry \notin Now => entry \notin Now')
      OBVIOUS
    <3>1. PICK p \in DOMAIN Life, c \in Contents : entry = <<p, c>>
      BY ReadIsPairs
    <3>2. Behind(<<p, c>>)
      BY <1>2, <3>1
    <3>3. Behind(<<p, c>>)' /\ (<<p, c>> \notin Now => <<p, c>> \notin Now')
      BY <3>2, EditMovesOn
    <3> QED
      BY <3>1, <3>3
  <2>3. \A p \in DOMAIN Life : LeftOut(p) => LeftOut(p)'
    BY <2>1 DEF LeftOut
  <2>4. Witnessed => Witnessed'
    BY <2>1, <2>3 DEF Witnessed
  <2>5. Spoiled => Spoiled'
    BY <2>1, <2>2 DEF Spoiled
  <2> HIDE DEF CaptureInv
  <2>6. Reading' /\ Now' \in job'.past
    BY <1>2, <2>1 DEF Reading
  <2>7. Doing("relisting")' /\ job'.read \subseteq Now' =>
          \A p \in DOMAIN Life \ (job'.todo \cup job'.found) : LeftOut(p)'
    BY <2>1, <2>2, <2>3 DEF CaptureInv
  <2> QED
    BY <1>2, <2>1, <2>2, <2>4, <2>5, <2>6, <2>7 DEF CaptureInv
<1> QED
  BY <1>1, <1>2

(* The steps of the capture itself.                                         *)
LEMMA CaptureRuns ==
    ASSUME JobTyped, CaptureInv, UNCHANGED age,
           \/ BeginCapture \/ List \/ EndListing \/ EndReading
           \/ (Read \/ EndRelisting \/ Reread) /\ ~GiveUp
    PROVE  CaptureInv'
<1> USE DEF CaptureInv, Reading, Doing
<1>1. Now' = Now /\ \A entry : Behind(entry) => Behind(entry)'
  BY DEF Now, Present, Content, Behind
<1>2. CASE BeginCapture
  <2>1. job'.at = "listing" /\ job'.read = {} /\ job'.past = {Now}
    BY <1>2, EmptyJob DEF BeginCapture, JobRecords
  <2> QED
    BY <1>1, <2>1
<1>3. CASE List
  <2> DEFINE p == NextPath(job.todo)
  <2>1. p \in job.todo /\ p \in DOMAIN Life
    BY <1>3, NextPathIsTodo DEF List, JobTyped
  <2>2. \/ job' = [job EXCEPT !.todo = @ \ {p}, !.found = IF Present(p) THEN @ \cup {p} ELSE @]
        \/ job' = [job EXCEPT !.todo = @ \ {p},
                              !.unscanned = IF Doing("relisting") THEN @ \cup {p} ELSE @]
    BY <1>3 DEF List
  <2> HIDE DEF p
  <2>3. /\ job'.at = job.at /\ job'.read = job.read /\ job'.past = job.past
        /\ job'.todo = job.todo \ {p} /\ job.found \subseteq job'.found
        /\ job.unscanned \subseteq job'.unscanned
        /\ Doing("relisting") /\ Present(p) => p \in job'.found \cup job'.unscanned
    <3>1. CASE job' = [job EXCEPT !.todo = @ \ {p},
                                 !.found = IF Present(p) THEN @ \cup {p} ELSE @]
      BY <3>1 DEF JobTyped, JobRecords
    <3>2. CASE job' = [job EXCEPT !.todo = @ \ {p},
                                 !.unscanned = IF Doing("relisting") THEN @ \cup {p} ELSE @]
      BY <3>2 DEF JobTyped, JobRecords
    <3> QED
      BY <2>2, <3>1, <3>2
  <2>4. \A r \in DOMAIN Life : LeftOut(r) => LeftOut(r)'
    BY <2>3 DEF LeftOut
  <2>5. ASSUME Doing("relisting"), job.read \subseteq Now, ~Present(p) PROVE LeftOut(p)
    BY <2>5, NowIs DEF LeftOut
  <2>6. ASSUME Doing("relisting"), job.read \subseteq Now,
               NEW r \in DOMAIN Life \ (job'.todo \cup job'.found)
        PROVE  LeftOut(r)'
    <3>1. CASE r = p
      <4>1. CASE Present(p)
        BY <2>3, <2>6, <3>1, <4>1 DEF LeftOut
      <4>2. CASE ~Present(p)
        BY <2>1, <2>4, <2>5, <2>6, <3>1, <4>2
      <4> QED
        BY <4>1, <4>2
    <3>2. CASE r # p
      BY <2>3, <2>4, <2>6, <3>2
    <3> QED
      BY <3>1, <3>2
  <2> QED
    BY <1>1, <1>3, <2>3, <2>6 DEF List
<1>4. CASE EndListing
  <2>1. job'.at = "reading" /\ job'.read = job.read /\ job'.past = job.past
    BY <1>4 DEF EndListing, JobTyped, JobRecords
  <2> QED
    BY <1>1, <1>4, <2>1 DEF EndListing, Named
<1>5. CASE EndReading
  <2>1. job'.at = "relisting" /\ job'.read = job.read /\ job'.past = job.past
        /\ job'.todo = DOMAIN Life
    BY <1>5 DEF EndReading, JobTyped, JobRecords
  <2> QED
    BY <1>1, <1>5, <2>1 DEF EndReading
<1>6. CASE Read /\ ~GiveUp
  <2> DEFINE p == NextPath(job.todo)
             entry == <<p, Content(p)>>
  <2>1. p \in job.todo /\ p \in DOMAIN Life
    BY <1>6, NextPathIsTodo DEF Read, JobTyped
  <2>2. Present(p) /\ job' = [job EXCEPT !.todo = @ \ {p}, !.read = @ \cup {entry}]
    BY <1>6 DEF Read
  <2>3. Behind(entry) /\ entry[1] = p
    BY <2>1, <2>2, ReadNow
  <2> HIDE DEF p, entry
  <2>4. /\ job'.at = job.at /\ job'.read = job.read \cup {entry} /\ job'.past = job.past
        /\ job'.todo = job.todo \ {p}
    BY <2>2 DEF JobTyped, JobRecords
  <2>5. job'.at = "reading"
    BY <1>6, <2>4 DEF Read, GiveUp
  <2>6. \A d \in job.read : d[1] # p
    BY <1>6, <2>1 DEF Read, Named
  <2>7. job'.todo \cap Named(job'.read) = {}
    BY <2>3, <2>4, <2>5 DEF Named
  <2>8. \A d, e \in job'.read : d[1] = e[1] => d = e
    BY <2>3, <2>4, <2>5, <2>6
  <2> QED
    BY <1>1, <2>3, <2>4, <2>5, <2>7, <2>8
<1>7. CASE EndRelisting /\ ~GiveUp
  <2>1. /\ job'.at = "rereading" /\ job'.read = job.read /\ job'.past = job.past
        /\ job'.unscanned = job.unscanned /\ job'.todo = job.found /\ job.found = Named(job.read) /\ job.todo = {}
    BY <1>7 DEF EndRelisting, JobTyped, JobRecords
  <2>2. \A r \in DOMAIN Life : LeftOut(r) => LeftOut(r)'
    BY <2>1 DEF LeftOut
  <2>3. ASSUME job.read \subseteq Now PROVE Witnessed'
    <3>1. \A r \in DOMAIN Life \ Named(job.read) : LeftOut(r)
      BY <1>7, <2>1, <2>3 DEF EndRelisting
    <3>2. Now \in job.past /\ job.read \subseteq Now
      BY <1>7, <2>3 DEF EndRelisting
    <3> QED
      BY <2>1, <2>2, <3>1, <3>2 DEF Witnessed
  <2>4. ASSUME ~(job.read \subseteq Now) PROVE Spoiled'
    <3>1. PICK e \in job.read : e \notin Now
      BY <2>4
    <3>2. e[1] \in job'.todo /\ e \in job'.read /\ e \notin Now'
      BY <1>1, <2>1, <3>1 DEF Named
    <3> QED
      BY <3>2 DEF Spoiled
  <2>5. Witnessed' \/ Spoiled'
    BY <2>3, <2>4
  <2> QED
    BY <1>1, <1>7, <2>1, <2>5 DEF EndRelisting
<1>8. CASE Reread /\ ~GiveUp
  <2> DEFINE p == NextPath(job.todo)
             entry == <<p, Content(p)>>
  <2>1. p \in job.todo /\ p \in DOMAIN Life
    BY <1>8, NextPathIsTodo DEF Reread, JobTyped
  <2>2. Present(p) /\ entry \in job.read /\ job' = [job EXCEPT !.todo = @ \ {p}]
    BY <1>8 DEF Reread
  <2>3. entry \in Now /\ entry[1] = p
    BY <2>1, <2>2, ReadNow
  <2> HIDE DEF p, entry
  <2>4. /\ job'.at = job.at /\ job'.read = job.read /\ job'.past = job.past
        /\ job'.todo = job.todo \ {p} /\ job.at = "rereading"
        /\ job'.unscanned = job.unscanned
    BY <1>8, <2>2 DEF JobTyped, JobRecords, Reread, GiveUp
  <2>5. Witnessed => Witnessed'
    BY <2>4 DEF Witnessed, LeftOut
  <2>6. Spoiled => Spoiled'
    BY <1>1, <2>2, <2>3, <2>4 DEF Spoiled
  <2> QED
    BY <1>1, <2>4, <2>5, <2>6
<1> QED
  BY <1>2, <1>3, <1>4, <1>5, <1>6, <1>7, <1>8

LEMMA CaptureStep == WInv /\ [WorkspaceNext]_workspaceVars => CaptureInv'
<1> SUFFICES ASSUME WInv, [WorkspaceNext]_workspaceVars PROVE CaptureInv'
  OBVIOUS
<1> USE DEF WInv
<1>1. CASE UNCHANGED <<age, job>>
  BY <1>1 DEF CaptureInv, Reading, Doing, Now, Present, Content, Behind, Witnessed, Spoiled, LeftOut
<1>2. CASE job'.at \in {"none", "storing"}
  BY <1>2 DEF CaptureInv, Reading, Doing
<1>3. CASE \E p \in DOMAIN Life : Edit(p)
  BY <1>3, CaptureEdit
<1>4. CASE BeginCapture \/ List \/ EndListing \/ EndReading
  <2>1. UNCHANGED age
    BY <1>4 DEF BeginCapture, List, EndListing, EndReading
  <2> QED
    BY <1>4, <2>1, CaptureRuns
<1>5. CASE Read \/ EndRelisting \/ Reread
  <2>1. CASE GiveUp
    BY <1>2, <2>1, EmptyJob DEF GiveUp
  <2>2. CASE ~GiveUp
    BY <1>5, <2>2, CaptureRuns DEF Read, EndRelisting, Reread, GiveUp
  <2> QED
    BY <2>1, <2>2
<1>6. CASE EndRereading \/ EndStoring \/ (\E b \in Archives : BeginImport(b))
  BY <1>2, <1>6, EmptyJob DEF EndRereading, GiveUp, EndStoring, Doing, BeginImport, JobTyped, JobRecords
<1> QED
  BY <1>1, <1>2, <1>3, <1>4, <1>5, <1>6, EmptyJob
  DEF WorkspaceNext, workspaceVars, ReviseProgram, StoreFile, CommitSnapshot, CommitImport, AbandonJob

-----------------------------------------------------------------------------
(* What is archived *)

LEMMA ArchiveStep ==
    WInv /\ [WorkspaceNext]_workspaceVars => ArchiveInv'
<1> SUFFICES ASSUME WInv, [WorkspaceNext]_workspaceVars PROVE ArchiveInv'
  OBVIOUS
<1> USE DEF WInv, Doing
<1>1. \A c \in Contents : Settled(c) => Settled(c)'
  BY WorkspaceKeepsStore DEF workspaceVars, vars, Settled, Safe, Kept
<1>2. Bytes(job.read) \subseteq Contents
  BY DEF JobTyped, JobRecords, Manifests, Bytes
<1> USE DEF ArchiveInv
<1>3. \A c \in rows : Settled(c)'
  BY <1>1
<1>4. CASE UNCHANGED archive /\ job'.at # "storing"
  BY <1>3, <1>4 DEF archive
<1>5. CASE UNCHANGED <<archive, job>>
  BY <1>1, <1>2, <1>5 DEF archive
<1>6. CASE EndRereading /\ ~GiveUp
  <2>1. /\ job'.at = "storing" /\ job'.kind = Capturing
        /\ job'.read = job.read /\ job'.todo = Bytes(job.read)
    BY <1>6 DEF EndRereading, JobTyped, JobRecords, Reading
  <2> QED
    BY <1>3, <1>6, <2>1 DEF EndRereading, archive
<1>7. CASE \E b \in Archives : BeginImport(b)
  <2>1. PICK b \in Archives : BeginImport(b)
    BY <1>7
  <2>2. job'.at = "storing" /\ job'.kind = b /\ job'.todo = Holds[b]
    BY <2>1, EmptyJob DEF BeginImport, JobRecords
  <2> QED
    BY <1>3, <2>1, <2>2 DEF BeginImport, archive
<1>8. CASE EndStoring
  <2>1. /\ job'.at = "storing" /\ job.at = "storing" /\ job'.kind = job.kind
        /\ job'.read = job.read /\ job'.todo = job.todo \ {call.content}
    BY <1>8 DEF EndStoring, JobTyped, JobRecords
  <2>2. call.content \in Contents /\ Settled(call.content)
    BY <1>8, Admitting DEF EndStoring, At, IInv, AdmittedAreSafe, Settled
  <2>3. rows' \subseteq rows \cup {call.content} /\ rows \subseteq rows'
        /\ (job.kind # Capturing => call.content \in rows')
        /\ UNCHANGED <<snapshots, imports>>
    BY <1>8 DEF EndStoring
  <2> QED
    BY <1>1, <1>2, <1>3, <2>1, <2>2, <2>3
<1>9. CASE CommitSnapshot
  <2>1. \A c \in Bytes(job.read) : Settled(c)
    BY <1>9 DEF CommitSnapshot
  <2>2. rows' = rows \cup Bytes(job.read) /\ job'.at = "none" /\ UNCHANGED imports
        /\ snapshots' = snapshots \cup {[revision |-> job.revision, manifest |-> job.read]}
    BY <1>9, EmptyJob DEF CommitSnapshot
  <2> QED
    BY <1>1, <1>2, <1>3, <2>1, <2>2
<1>10. CASE CommitImport
  <2>1. Holds[job.kind] \subseteq rows /\ job.kind \in Archives
    BY <1>10 DEF CommitImport
  <2> QED
    BY <1>3, <1>10, <2>1, EmptyJob DEF CommitImport
<1>11. CASE \E p \in DOMAIN Life : Edit(p)
  <2>1. UNCHANGED archive /\ job'.at = job.at
    BY <1>11 DEF Edit, JobTyped, JobRecords
  <2>2. CASE Reading
    BY <1>4, <2>1, <2>2 DEF Reading
  <2>3. CASE ~Reading
    BY <1>5, <1>11, <2>1, <2>3 DEF Edit
  <2> QED
    BY <2>2, <2>3
<1>12. CASE BeginCapture \/ List \/ EndListing \/ EndReading \/ Read \/ EndRelisting \/ Reread
  <2>1. UNCHANGED archive
    BY <1>12 DEF BeginCapture, List, EndListing, EndReading, Read, EndRelisting, Reread, GiveUp
  <2>2. job'.at # "storing"
    BY <1>12, EmptyJob
    DEF BeginCapture, List, EndListing, EndReading, Read, EndRelisting, Reread, GiveUp, JobTyped,
        JobRecords
  <2> QED
    BY <1>4, <2>1, <2>2
<1> QED
  BY <1>4, <1>5, <1>6, <1>7, <1>8, <1>9, <1>10, <1>11, <1>12, EmptyJob
  DEF WorkspaceNext, workspaceVars, ReviseProgram, StoreFile, AbandonJob, EndRereading, GiveUp

-----------------------------------------------------------------------------
(* What holds of every behaviour of the workspace. *)

LEMMA WorkspaceInitInv == WorkspaceInit => WInv
<1> SUFFICES ASSUME WorkspaceInit PROVE WInv
  OBVIOUS
<1> USE DEF WorkspaceInit
<1>1. IInv
  BY InitInv
<1>2. JobTyped
  BY EmptyJob DEF JobTyped, Reading, Doing
<1>3. CaptureInv
  BY EmptyJob DEF CaptureInv, Reading, Doing
<1>4. ArchiveInv
  BY EmptyJob DEF ArchiveInv, Doing
<1> QED
  BY <1>1, <1>2, <1>3, <1>4 DEF WInv

THEOREM WorkspaceInvariance == WorkspaceSpec => []WInv
<1>1. WInv /\ [WorkspaceNext]_workspaceVars => IInv'
  <2>1. WInv /\ UNCHANGED vars => IInv'
    BY DEF WInv, vars, IInv, Typed, CallTyped, OnlyNewestUnflushed, TreeInv, AdmittedAreSafe, Settled, Safe, Kept,
           At, Opening, Path
  <2> QED
    BY <2>1, WorkspaceKeepsStore DEF WInv, workspaceVars
<1>2. WInv /\ [WorkspaceNext]_workspaceVars => WInv'
  BY <1>1, JobTypedStep, CaptureStep, ArchiveStep DEF WInv
<1> QED
  BY <1>2, WorkspaceInitInv, PTL DEF WorkspaceSpec

(* All that a capture goes on to record was there together, and each path   *)
(* it leaves out was absent while it was, or where the second listing could *)
(* not look.                                                                *)
THEOREM FilesCoexist == WorkspaceSpec => []SnapshotFilesCoexist
<1>1. WInv => SnapshotFilesCoexist
  BY DEF WInv, CaptureInv, Witnessed, Spoiled, LeftOut, SnapshotFilesCoexist, Doing
<1> QED
  BY <1>1, WorkspaceInvariance, PTL

(* The contents of recorded snapshots and imported bundles keep their rows  *)
(* and their files, whatever call died or failed and wherever power failed, *)
(* but for what went with a directory whose first flush was interrupted.    *)
THEOREM ArchivesRead == WorkspaceSpec => []EveryArchiveReads
<1>1. WInv => EveryArchiveReads
  <2> SUFFICES ASSUME WInv, NEW c \in rows PROVE Found(c) \/ c \in orphaned
    BY DEF WInv, ArchiveInv, EveryArchiveReads
  <2> QED
    BY DEF WInv, ArchiveInv, Settled, Safe, Found, NoFile
<1> QED
  BY <1>1, WorkspaceInvariance, PTL

(* Captures and imports share files with the Evidence and cost it nothing:  *)
(* its bytes are kept as without them, and nothing is torn.                 *)
THEOREM BytesAreKeptBesides ==
    WorkspaceSpec => [](AdmittedBytesExist /\ NoTornArtifact)
<1>1. WInv => AdmittedBytesExist /\ NoTornArtifact
  BY DEF WInv, IInv, Typed, AdmittedAreSafe, Settled, Safe, Kept, AdmittedBytesExist, NoTornArtifact, Found, NoFile
<1> QED
  BY <1>1, WorkspaceInvariance, PTL

=============================================================================
