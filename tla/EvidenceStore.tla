--------------------------- MODULE EvidenceStore ---------------------------
(***************************************************************************)
(* EvidenceRepository (kernel/evidence_store.py).  Source bytes are a file *)
(* named by their digest, in a directory named by its first digits; the    *)
(* Evidence that cites them is a row of the database.  The row should not  *)
(* outlive the bytes, although                                             *)
(*   - the process may die, or a system call fail, at every step,          *)
(*   - the power may fail: the operating system then forgets whatever name *)
(*     was not flushed with the directory it is in, and bytes that were    *)
(*     not flushed with their file.  A COMMIT of the database is durable.  *)
(*                                                                         *)
(* One process, one thread and no callback: one call at a time.            *)
(***************************************************************************)
EXTENDS Naturals

CONSTANTS
    EvidenceIds,     \* identities of Evidence
    Contents,        \* source bytes, which their digests tell apart
    Shards,          \* the directories below the artifact root
    ShardOf,         \* ShardOf[c]: the directory of the file of c
    MaxFaults,       \* bound on deaths and failing system calls
    MaxLosses        \* bound on power failures

ASSUME StoreConstants ==
    /\ ShardOf \in [Contents -> Shards] /\ "root" \notin Shards
    /\ "none" \notin Contents \cup EvidenceIds
    /\ MaxFaults \in Nat /\ MaxLosses \in Nat

VARIABLES
    dir,       \* dir[d]: "none", "named", or "durable" once its parent was flushed
    file,      \* file[c]: its name, as for directories, and what became of its bytes
    record,    \* record[e]: the bytes Evidence e cites, or "none"
    call,      \* the call in progress
    abandoned, \* directories made by a call that ended before the flush of their entry
    orphaned,  \* contents whose durable name went with an abandoned directory
    faults, losses

history == <<abandoned, orphaned>>
vars == <<dir, file, record, call, history, faults, losses>>

Root == "root"
Directories == Shards \cup {Root}

NoFile == [name |-> "none", bytes |-> "none"]

(* "none" is the evidence of the call that opens the store. *)
Call(at, e, c) == [at |-> at, evidence |-> e, content |-> c]
Closed == Call("closed", "none", "none")
Idle   == Call("idle", "none", "none")
Opening == call.evidence = "none"

Path == IF Opening THEN Root ELSE ShardOf[call.content]

(* What _artifact_preflight and _read_artifact find at the address of c. *)
Found(c) == file[c] # NoFile /\ file[c].bytes # "torn"

At(stage) == call.at = stage
GoTo(stage) == call' = [call EXCEPT !.at = stage]

-----------------------------------------------------------------------------

(* A call past _mkdir_durable has its directory, one past os.replace its file. *)
TypeOK ==
    /\ dir \in [Directories -> {"none", "named", "durable"}]
    /\ file \in [Contents -> [name : {"named", "durable"}, bytes : {"cached", "flushed", "torn"}]
                             \cup {NoFile}]
    /\ record \in [EvidenceIds -> Contents \cup {"none"}]
    /\ call \in {Closed, Idle, Call("mkdir", "none", "none"), Call("entry", "none", "none")}
         \cup [at : {"mkdir", "entry", "made", "written", "naming", "stored"},
               evidence : EvidenceIds, content : Contents]
    /\ At("naming") \/ At("stored") => file[call.content] # NoFile
    /\ \A c \in Contents : file[c] # NoFile => dir[ShardOf[c]] # "none"
    /\ \A d \in Shards : dir[d] # "none" => dir[Root] # "none"
    /\ abandoned \subseteq {d \in Directories : dir[d] = "named"} /\ orphaned \subseteq Contents
    /\ faults \in 0 .. MaxFaults /\ losses \in 0 .. MaxLosses

Init ==
    /\ dir = [d \in Directories |-> "none"]
    /\ file = [c \in Contents |-> NoFile]
    /\ record = [e \in EvidenceIds |-> "none"]
    /\ call = Closed
    /\ abandoned = {} /\ orphaned = {}
    /\ faults = 0 /\ losses = 0

-----------------------------------------------------------------------------
(* _mkdir_durable, on the way to opening or to admission.  Only the last   *)
(* directory of the path can be missing while the store is open.           *)

Open ==
    /\ At("closed")
    /\ call' = Call("mkdir", "none", "none")
    /\ UNCHANGED <<dir, file, record, history, faults, losses>>

(* admit, up to _store_artifact *)
Admit(e, c) ==
    /\ At("idle")
    /\ record[e] = "none"
    /\ call' = Call("mkdir", e, c)
    /\ UNCHANGED <<dir, file, record, history, faults, losses>>

Made == IF Opening THEN call' = Idle ELSE GoTo("made")

MakeDirectory ==
    /\ At("mkdir")
    /\ IF dir[Path] = "none"
       THEN dir' = [dir EXCEPT ![Path] = "named"] /\ GoTo("entry")
       ELSE Made /\ UNCHANGED dir
    /\ UNCHANGED <<file, record, history, faults, losses>>

(* _fsync_directory of the parent makes every name in it durable.          *)
FlushEntry ==
    /\ At("entry")
    /\ Made
    /\ dir' = [d \in Directories |->
                 IF dir[d] = "named" /\ (d \in Shards <=> Path \in Shards)
                 THEN "durable" ELSE dir[d]]
    /\ abandoned' = {d \in abandoned : dir'[d] = "named"}
    /\ UNCHANGED <<file, record, orphaned, faults, losses>>

-----------------------------------------------------------------------------
(* _store_artifact and the transaction *)

(* Mutant of ReuseArtifact: a file that is there is taken for a durable one. *)
ReuseArtifactUnflushed ==
    /\ At("made")
    /\ file[call.content] # NoFile
    /\ IF Found(call.content) THEN GoTo("stored") ELSE call' = Idle
    /\ UNCHANGED <<dir, file, record, history, faults, losses>>

(* The bytes are there: read and compared, a difference is a collision.    *)
ReuseArtifact ==
    /\ At("made")
    /\ file[call.content] # NoFile
    /\ IF Found(call.content) THEN GoTo("naming") ELSE call' = Idle
    /\ UNCHANGED <<dir, file, record, history, faults, losses>>

(* A private file of another name, which only the replacement makes known. *)
WriteTemporary ==
    /\ At("made")
    /\ file[call.content] = NoFile
    /\ GoTo("written")
    /\ UNCHANGED <<dir, file, record, history, faults, losses>>

(* Mutant of NameArtifact: the temporary file is not flushed. *)
NameArtifactCached ==
    /\ At("written")
    /\ file' = [file EXCEPT ![call.content] = [name |-> "named", bytes |-> "cached"]]
    /\ GoTo("naming")
    /\ UNCHANGED <<dir, record, history, faults, losses>>

(* os.replace of the temporary file, whose bytes were flushed. *)
NameArtifact ==
    /\ At("written")
    /\ file' = [file EXCEPT ![call.content] = [name |-> "named", bytes |-> "flushed"]]
    /\ GoTo("naming")
    /\ UNCHANGED <<dir, record, history, faults, losses>>

(* _fsync_directory of the file's directory *)
FlushName ==
    /\ At("naming")
    /\ file' = [c \in Contents |-> IF ShardOf[c] = Path /\ file[c] # NoFile
                                   THEN [file[c] EXCEPT !.name = "durable"] ELSE file[c]]
    /\ orphaned' = {c \in orphaned : ShardOf[c] # Path \/ file[c] = NoFile}
    /\ GoTo("stored")
    /\ UNCHANGED <<dir, record, abandoned, faults, losses>>

CommitAdmission ==
    /\ At("stored")
    /\ record[call.evidence] = "none"
    /\ record' = [record EXCEPT ![call.evidence] = call.content]
    /\ call' = Idle
    /\ UNCHANGED <<dir, file, history, faults, losses>>

-----------------------------------------------------------------------------
(* What goes wrong *)

(* The call ends where it is. A directory it made and did not flush stays:  *)
(* no later call finds it missing, and its entry is only flushed if one     *)
(* makes another directory beside it.                                       *)
Interrupted ==
    /\ faults < MaxFaults /\ faults' = faults + 1
    /\ abandoned' = abandoned \cup (IF At("entry") THEN {Path} ELSE {})
    /\ UNCHANGED <<dir, file, record, orphaned, losses>>

(* A system call or the transaction fails, and its exception ends the call. *)
Fail ==
    /\ ~At("closed") /\ ~At("idle")
    /\ call' = IF Opening THEN Closed ELSE Idle
    /\ Interrupted

(* The process dies, or closes the store.  The operating system lives on.  *)
Die ==
    /\ ~At("closed")
    /\ call' = Closed
    /\ Interrupted

(* Names that were not flushed may be gone, and with a directory all that  *)
(* is in it; bytes that were not flushed may be torn.  The rest stays.     *)
PowerLoss ==
    /\ losses < MaxLosses
    /\ \E gone \in SUBSET {d \in Directories : dir[d] = "named"},
          unnamed \in SUBSET {c \in Contents : file[c].name = "named"},
          torn \in SUBSET {c \in Contents : file[c].bytes = "cached"} :
          LET lost == IF Root \in gone THEN Directories ELSE gone
          IN  /\ dir' = [d \in Directories |->
                           IF d \in lost \/ dir[d] = "none" THEN "none" ELSE "durable"]
              /\ file' = [c \in Contents |->
                           IF ShardOf[c] \in lost \/ c \in unnamed \/ file[c] = NoFile THEN NoFile
                           ELSE [name |-> "durable",
                                 bytes |-> IF c \in torn THEN "torn" ELSE "flushed"]]
              /\ orphaned' = orphaned \cup
                    {c \in Contents : /\ file[c].name = "durable"
                                      /\ {Root, ShardOf[c]} \cap gone \cap abandoned # {}}
    /\ call' = Closed /\ abandoned' = {}
    /\ losses' = losses + 1
    /\ UNCHANGED <<record, faults>>

Next ==
    \/ Open \/ MakeDirectory \/ FlushEntry
    \/ \E e \in EvidenceIds, c \in Contents : Admit(e, c)
    \/ ReuseArtifact \/ WriteTemporary \/ NameArtifact \/ FlushName \/ CommitAdmission
    \/ Fail \/ Die \/ PowerLoss

Spec == Init /\ [][Next]_vars

-----------------------------------------------------------------------------
(* Properties *)

(* get, admission and artifact find the bytes of every Evidence that was   *)
(* admitted, whichever calls died or failed on the way and wherever the    *)
(* power failed, also where a later admission found the file of one that   *)
(* died before it flushed the name; except that a loss of power may take   *)
(* with it a directory whose first flush was interrupted and that was not  *)
(* flushed since, and what is in it (see NewEntriesAreDurable).            *)
AdmittedBytesExist ==
    \A e \in EvidenceIds : record[e] # "none" => Found(record[e]) \/ record[e] \in orphaned

(* Under the name of a digest there never is a file with other bytes: it   *)
(* would refuse every later admission of those bytes as a collision.       *)
NoTornArtifact == \A c \in Contents : file[c].bytes # "torn"

(* What _mkdir_durable says of itself, that it durably persists every new  *)
(* directory entry: the directories of admitted bytes are durable.         *)
NewEntriesAreDurable ==
    \A e \in EvidenceIds : record[e] # "none" =>
        dir[Root] = "durable" /\ dir[ShardOf[record[e]]] = "durable"
=============================================================================
