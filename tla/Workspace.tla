------------------------------- MODULE Workspace -------------------------------
(***************************************************************************)
(* Workspace snapshots and imported Program bundles                        *)
(* (product/workspace_capture.py, workspace_blobs.py,                      *)
(* workspace_snapshots.py, program_bundle_store.py).  A snapshot is a      *)
(* manifest of every file of the workspace, read while others edit the     *)
(* files, and bound to a Program revision.  Its bytes, and those of an     *)
(* imported bundle, are files first and rows of the database after.        *)
(*                                                                         *)
(* WorkspaceBlobStore.store_file repeats the steps of                      *)
(* EvidenceRepository._store_artifact, with the same layout under a root   *)
(* that may be the same directory; so it is modelled by the steps of       *)
(* EvidenceStore, and the two stores share their files, deaths and power   *)
(* failures.  Reading one file is one step: the identity, size and time    *)
(* comparisons around it turn a file changed meanwhile into a refusal.     *)
(* One call at a time, as in EvidenceStore.                                *)
(***************************************************************************)
EXTENDS EvidenceStore, Sequences, SequencesExt

CONSTANTS
    Paths,           \* the paths of the workspace, in the order they are read
    Life,            \* Life[p]: the contents p has one after the other; then it is deleted
    Archives,        \* bundles exported elsewhere, to be imported here
    Holds,           \* Holds[b]: the contents embedded in bundle b
    MaxRevision,     \* bound on the revision of the Program
    MaxSnapshots     \* bound: no capture is begun with that many snapshots

(* The files of calls are told apart by what the call is for. *)
Capturing == "capture"
Evidence  == EvidenceIds \ (Archives \cup {Capturing})

(* No path comes back to a content it had before, nor is there again once   *)
(* it was deleted: two readings cannot tell such a return from no change.   *)
ASSUME WorkspaceConstants ==
    /\ Paths \in Seq(ToSet(Paths)) /\ IsInjective(Paths)
    /\ DOMAIN Life = ToSet(Paths)
    /\ \A p \in DOMAIN Life : Life[p] \in Seq(Contents) /\ IsInjective(Life[p])
    /\ Holds \in [Archives -> SUBSET Contents]
    /\ Archives \cup {Capturing} \subseteq EvidenceIds /\ Capturing \notin Archives
    /\ MaxRevision \in Nat /\ MaxSnapshots \in Nat

VARIABLES
    age,         \* age[p]: the index in Life[p] of what p holds now
    revision,    \* the revision of the Program
    job,         \* the capture or import in progress
    rows,        \* the contents with a row of metadata (workspace_artifacts)
    snapshots,   \* the recorded snapshots: revision and manifest
    imports      \* the imported bundles

archive == <<rows, snapshots, imports>>
workspaceVars == <<vars, age, revision, job, archive>>

Present(p) == age[p] \in DOMAIN Life[p]
Content(p) == Life[p][age[p]]

(* A manifest gives the present paths their contents. *)
Now == {<<p, Content(p)>> : p \in {q \in DOMAIN Life : Present(q)}}
Bytes(manifest) == {entry[2] : entry \in manifest}
Named(manifest) == {entry[1] : entry \in manifest}

NoJob == [kind |-> "none", at |-> "none", revision |-> 0, todo |-> {},
          found |-> {}, unscanned |-> {}, read |-> {}, past |-> {}]

Doing(at) == job.at = at
Reading == job.at \in {"listing", "reading", "relisting", "rereading"}
Free == At("idle") /\ job = NoJob

(* The next path of todo, in the order of Paths. *)
NextPath(todo) == Paths[Min({i \in DOMAIN Paths : Paths[i] \in todo})]

-----------------------------------------------------------------------------

WorkspaceInit ==
    /\ Init
    /\ age \in [DOMAIN Life -> {0, 1}]
    /\ revision = 0
    /\ job = NoJob
    /\ rows = {} /\ snapshots = {} /\ imports = {}

(* Somebody edits, creates or deletes a file; the Host does not notice.     *)
Edit(p) ==
    /\ age[p] <= Len(Life[p])
    /\ age' = [age EXCEPT ![p] = @ + 1]
    /\ job' = IF Reading THEN [job EXCEPT !.past = @ \cup {Now'}] ELSE job
    /\ UNCHANGED <<vars, revision, archive>>

(* Between calls only: the Host is one thread and holds the writer lock.    *)
ReviseProgram ==
    /\ job = NoJob /\ (At("idle") \/ At("closed"))
    /\ revision < MaxRevision
    /\ revision' = revision + 1
    /\ UNCHANGED <<vars, age, job, archive>>

-----------------------------------------------------------------------------
(* capture_workspace: list, read, list again, read again.  What the        *)
(* workspace has been since is remembered in past, and what the second      *)
(* listing passed over although it was there in unscanned; nothing reads    *)
(* them.                                                                    *)

BeginCapture ==
    /\ Free /\ Cardinality(snapshots) < MaxSnapshots
    /\ job' = [NoJob EXCEPT !.kind = Capturing, !.at = "listing",
                            !.revision = revision, !.todo = DOMAIN Life, !.past = {Now}]
    /\ UNCHANGED <<vars, age, revision, archive>>

(* _workspace_paths: each path is met at a time of its own.  os.walk is not *)
(* asked to report errors: it goes on without a directory it cannot scan.   *)
List ==
    /\ Doing("listing") \/ Doing("relisting")
    /\ job.todo # {}
    /\ LET p == NextPath(job.todo) IN
         \/ job' = [job EXCEPT !.todo = @ \ {p},
                               !.found = IF Present(p) THEN @ \cup {p} ELSE @]
         \/ /\ Present(p)
            /\ job' = [job EXCEPT !.todo = @ \ {p},
                                  !.unscanned = IF Doing("relisting") THEN @ \cup {p} ELSE @]
    /\ UNCHANGED <<vars, age, revision, archive>>

EndListing ==
    /\ Doing("listing") /\ job.todo = {}
    /\ job' = [job EXCEPT !.at = "reading", !.todo = job.found]
    /\ UNCHANGED <<vars, age, revision, archive>>

(* PersistenceConflict: a file is gone or has another content. *)
GiveUp == job' = NoJob /\ UNCHANGED <<vars, age, revision, archive>>

Read ==
    /\ Doing("reading") /\ job.todo # {}
    /\ LET p == NextPath(job.todo) IN
         IF ~Present(p) THEN GiveUp
         ELSE /\ job' = [job EXCEPT !.todo = @ \ {p}, !.read = @ \cup {<<p, Content(p)>>}]
              /\ UNCHANGED <<vars, age, revision, archive>>

EndReading ==
    /\ Doing("reading") /\ job.todo = {}
    /\ job' = [job EXCEPT !.at = "relisting", !.todo = DOMAIN Life, !.found = {}]
    /\ UNCHANGED <<vars, age, revision, archive>>

(* Mutant of EndRelisting: files that appeared meanwhile are not looked for. *)
EndRelistingUncompared ==
    /\ Doing("relisting") /\ job.todo = {}
    /\ job' = [job EXCEPT !.at = "rereading", !.todo = Named(job.read)]
    /\ UNCHANGED <<vars, age, revision, archive>>

EndRelisting ==
    /\ Doing("relisting") /\ job.todo = {}
    /\ IF job.found # Named(job.read) THEN GiveUp
       ELSE /\ job' = [job EXCEPT !.at = "rereading", !.todo = job.found]
            /\ UNCHANGED <<vars, age, revision, archive>>

Reread ==
    /\ Doing("rereading") /\ job.todo # {}
    /\ LET p == NextPath(job.todo) IN
         IF ~(Present(p) /\ <<p, Content(p)>> \in job.read) THEN GiveUp
         ELSE /\ job' = [job EXCEPT !.todo = @ \ {p}]
              /\ UNCHANGED <<vars, age, revision, archive>>

(* The Program is read and compared again; a snapshot that is there already *)
(* is authenticated and returned.                                           *)
EndRereading ==
    /\ Doing("rereading") /\ job.todo = {}
    /\ IF revision # job.revision \/ [revision |-> revision, manifest |-> job.read] \in snapshots
       THEN GiveUp
       ELSE /\ job' = [job EXCEPT !.at = "storing", !.todo = Bytes(job.read),
                                 !.past = {}, !.unscanned = {}]
            /\ UNCHANGED <<vars, age, revision, archive>>

-----------------------------------------------------------------------------
(* store_file, content by content, and the rows *)

BeginImport(b) ==
    /\ Free /\ b \notin imports
    /\ job' = [NoJob EXCEPT !.kind = b, !.at = "storing", !.todo = Holds[b]]
    /\ UNCHANGED <<vars, age, revision, archive>>

StoreFile ==
    /\ Doing("storing") /\ At("idle") /\ job.todo # {}
    /\ \E c \in job.todo : call' = Call("mkdir", job.kind, c)
    /\ UNCHANGED <<dir, file, record, history, faults, losses, age, revision, job, archive>>

(* An import gives each file its row at once, in a transaction of its own;  *)
(* a capture keeps the rows for the transaction of the snapshot.            *)
EndStoring ==
    /\ Doing("storing") /\ At("stored")
    /\ call' = Idle
    /\ job' = [job EXCEPT !.todo = @ \ {call.content}]
    /\ rows' = IF job.kind = Capturing THEN rows ELSE rows \cup {call.content}
    /\ UNCHANGED <<dir, file, record, history, faults, losses, age, revision, snapshots, imports>>

(* Mutant of CommitSnapshot: the snapshot is recorded before its last file. *)
CommitSnapshotEarly ==
    /\ Doing("storing") /\ At("idle") /\ job.kind = Capturing
    /\ rows' = rows \cup Bytes(job.read)
    /\ snapshots' = snapshots \cup {[revision |-> job.revision, manifest |-> job.read]}
    /\ job' = NoJob
    /\ UNCHANGED <<vars, age, revision, imports>>

CommitSnapshot ==
    /\ Doing("storing") /\ At("idle") /\ job.kind = Capturing /\ job.todo = {}
    /\ rows' = rows \cup Bytes(job.read)
    /\ snapshots' = snapshots \cup {[revision |-> job.revision, manifest |-> job.read]}
    /\ job' = NoJob
    /\ UNCHANGED <<vars, age, revision, imports>>

CommitImport ==
    /\ Doing("storing") /\ At("idle") /\ job.kind \in Archives /\ job.todo = {}
    /\ imports' = imports \cup {job.kind}
    /\ job' = NoJob
    /\ UNCHANGED <<vars, age, revision, rows, snapshots>>

(* A job ends with the call it is in, or by itself between two calls.       *)
AbandonJob ==
    /\ job # NoJob /\ At("idle") /\ faults < MaxFaults
    /\ faults' = faults + 1
    /\ job' = NoJob
    /\ UNCHANGED <<dir, file, record, call, history, losses, age, revision, archive>>

-----------------------------------------------------------------------------

FileStep ==
    \/ MakeDirectory \/ FlushEntry \/ ReuseArtifact \/ WriteTemporary \/ NameArtifact \/ FlushName

Refused == call.at = "made" /\ call'.at = "idle"

WorkspaceNext ==
    \/ \E p \in DOMAIN Life : Edit(p)
    \/ ReviseProgram
    \/ BeginCapture \/ List \/ EndListing \/ Read \/ EndReading
    \/ EndRelisting \/ Reread \/ EndRereading
    \/ \E b \in Archives : BeginImport(b)
    \/ StoreFile \/ EndStoring \/ CommitSnapshot \/ CommitImport \/ AbandonJob
    \/ /\ \/ Open
          \/ Free /\ \E e \in Evidence, c \in Contents : Admit(e, c)
          \/ call.evidence \in Evidence /\ CommitAdmission
       /\ UNCHANGED <<age, revision, job, archive>>
    \/ /\ FileStep
       /\ job' = IF Refused THEN NoJob ELSE job
       /\ UNCHANGED <<age, revision, archive>>
    \/ /\ Fail \/ Die \/ PowerLoss
       /\ job' = NoJob
       /\ UNCHANGED <<age, revision, archive>>

WorkspaceSpec == WorkspaceInit /\ [][WorkspaceNext]_workspaceVars

-----------------------------------------------------------------------------
(* Properties *)

(* A snapshot is never a mixture of files that did not exist together: what *)
(* a capture goes on to record was there as a whole, at one moment of the   *)
(* capture; and each path it leaves out was absent at such a moment or in a *)
(* directory that the second listing could not scan, whatever files         *)
(* appeared, vanished or changed during it.  (That all absent paths were so *)
(* at the same moment is more than the capture shows.)                      *)
SnapshotFilesCoexist ==
    Doing("rereading") /\ job.todo = {} =>
        LET whole == {moment \in job.past : job.read \subseteq moment}
        IN  /\ whole # {}
            /\ \A p \in DOMAIN Life \ (Named(job.read) \cup job.unscanned) :
                  \E moment \in whole : p \notin Named(moment)

(* Every recorded snapshot and every imported bundle can be read: its       *)
(* contents have their rows and their files, wherever captures, imports and *)
(* admissions were abandoned before and wherever the power failed, but for  *)
(* files that went with a directory whose first flush was interrupted.      *)
EveryArchiveReads ==
    \A c \in UNION ({Bytes(s.manifest) : s \in snapshots} \cup {Holds[b] : b \in imports}) :
        c \in rows /\ (Found(c) \/ c \in orphaned)

=============================================================================
