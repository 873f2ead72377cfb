------------------------------- MODULE R2Archive -------------------------------
(***************************************************************************)
(* src/scripts/r2_archive.py: an artifact directory is packed into parts,  *)
(* uploaded, described by a reference file, and then deleted locally.      *)
(* upload and cleanup are separate commands; either may fail or be killed  *)
(* between any two of its steps and is then run again.  Meanwhile other    *)
(* programs may write the directory.                                       *)
(*                                                                         *)
(* A file is the number of its version: two versions differ in what        *)
(* inventory() records of them (size, mtime, mode) as they differ in       *)
(* content.  An object in the bucket is what it holds, and a descriptor    *)
(* (size, ETag, SHA-256) is the content it was computed from, so           *)
(* remote_matches is equality.  A scan of the directory is one step.       *)
(***************************************************************************)
EXTENDS Naturals, FiniteSets

CONSTANTS
  Files,       \* paths of the directory
  PartOf,      \* PartOf[f]: the part that batches_of puts f into
  Workers,     \* threads that pack parts
  MaxVersion,  \* bound: versions of a file
  MaxCrashes,  \* bound: commands that are killed and transfers that fail
  MaxLosses,   \* bound: objects that disappear from the bucket
  OneCommand,  \* TRUE: upload and cleanup are never run at the same time
  Nothing      \* no inventory, object, receipt or reference yet

Parts     == {PartOf[f] : f \in Files}
Missing   == 0
Version   == Missing..MaxVersion
Contents  == UNION {[S -> Version] : S \in SUBSET Files}
Reference == [archives : [Parts -> Contents], cleaned : BOOLEAN]

ASSUME WorkersAssumption == Workers \in Nat \ {0}
ASSUME BoundsAssumption  == MaxVersion \in Nat \ {0} /\ {MaxCrashes, MaxLosses} \subseteq Nat
ASSUME CommandAssumption == OneCommand \in BOOLEAN
ASSUME NothingAssumption == Nothing \notin [Files -> Version] \cup Contents \cup Reference

VARIABLES
  local,      \* local[f]: the version on disk
  pointer,    \* R2_ARCHIVE.md is in the directory
  inventory,  \* work/inventory.json
  receipts,   \* receipts[p]: work/part.receipt.json
  remote,     \* remote[p]: the object in the bucket
  manifest,   \* the bucket's manifest is the one that the reference names
  reference,  \* the reference file: the receipts it lists and local_cleanup
  uploader,   \* what upload does next
  thread,     \* thread[p]: what the pool does with part p
  packed,     \* packed[p]: what tar has read of part p so far
  cleaner,    \* what cleanup does next
  listed,     \* the files cleanup is about to delete
  crashes, losses

work == <<inventory, receipts>>
vars == <<local, pointer, inventory, receipts, remote, manifest, reference,
          uploader, thread, packed, cleaner, listed, crashes, losses>>

UploadSteps == {"idle", "packing", "index", "reference"}
ThreadSteps == {"todo", "tar", "send", "receipt", "done", "failed"}
CleanSteps  == {"idle", "verify", "delete", "record", "pointer"}
Active == {p \in Parts : thread[p] \in {"tar", "send", "receipt"}}

TypeOK ==
  /\ local \in [Files -> Version]
  /\ pointer \in BOOLEAN
  /\ inventory \in [Files -> Version] \cup {Nothing}
  /\ receipts \in [Parts -> Contents \cup {Nothing}]
  /\ remote \in [Parts -> Contents \cup {Nothing}]
  /\ manifest \in BOOLEAN
  /\ reference \in Reference \cup {Nothing}
  /\ uploader \in UploadSteps
  /\ thread \in [Parts -> ThreadSteps]
  /\ packed \in [Parts -> Contents]
  /\ Cardinality(Active) <= Workers
  /\ cleaner \in CleanSteps
  /\ listed \subseteq Files
  /\ crashes \in 0..MaxCrashes /\ losses \in 0..MaxLosses

Init ==
  /\ local = [f \in Files |-> 1]
  /\ pointer = FALSE
  /\ inventory = Nothing
  /\ receipts = [p \in Parts |-> Nothing]
  /\ remote = [p \in Parts |-> Nothing]
  /\ manifest = FALSE
  /\ reference = Nothing
  /\ uploader = "idle"
  /\ thread = [p \in Parts |-> "todo"]
  /\ packed = [p \in Parts |-> <<>>]
  /\ cleaner = "idle"
  /\ listed = {}
  /\ crashes = 0 /\ losses = 0

-----------------------------------------------------------------------------
(* upload: the main thread.                                                 *)

Unchanged == inventory # Nothing /\ local = inventory /\ ~pointer

PartFiles(p) == {f \in Files : PartOf[f] = p /\ inventory[f] # Missing}

\* The process ends, by an exception or killed; what it had in memory is gone.
EndUpload ==
  /\ uploader' = "idle"
  /\ thread' = [p \in Parts |-> "todo"]
  /\ packed' = [p \in Parts |-> <<>>]

\* Mutant: every run takes a new inventory.
BeginUploadRescan ==
  /\ uploader = "idle"
  /\ OneCommand => cleaner = "idle"
  /\ ~pointer
  /\ inventory' = local
  /\ uploader' = "packing"
  /\ UNCHANGED <<local, pointer, receipts, remote, manifest, reference, thread, packed,
                 cleaner, listed, crashes, losses>>

\* The inventory is taken once and must hold at every later run, which
\* otherwise raises at once: a step that changes nothing.
BeginUpload ==
  /\ uploader = "idle"
  /\ OneCommand => cleaner = "idle"
  /\ inventory = Nothing \/ Unchanged
  /\ inventory' = local
  /\ uploader' = "packing"
  /\ UNCHANGED <<local, pointer, receipts, remote, manifest, reference, thread, packed,
                 cleaner, listed, crashes, losses>>

\* Leaving the pool waits for every part; a failed one then ends the run.
\* The second scan must find the directory as it was.
PoolDone ==
  /\ uploader = "packing"
  /\ \A p \in Parts : thread[p] \in {"done", "failed"}
  /\ IF Unchanged /\ \A p \in Parts : thread[p] = "done"
     THEN uploader' = "index" /\ UNCHANGED <<thread, packed>>
     ELSE EndUpload
  /\ UNCHANGED <<local, pointer, work, remote, manifest, reference, cleaner, listed,
                 crashes, losses>>

\* The file index and the manifest are uploaded and read back; the manifest
\* carries the time of the run, so an older reference no longer matches it.
PutManifest ==
  /\ uploader = "index"
  /\ manifest' = FALSE
  /\ uploader' = "reference"
  /\ UNCHANGED <<local, pointer, work, remote, reference, thread, packed, cleaner, listed,
                 crashes, losses>>

\* The reference is written over whatever it was before.
PutReference ==
  /\ uploader = "reference"
  /\ reference' = [archives |-> receipts, cleaned |-> FALSE]
  /\ manifest' = TRUE
  /\ EndUpload
  /\ UNCHANGED <<local, pointer, work, remote, cleaner, listed, crashes, losses>>

-----------------------------------------------------------------------------
(* upload: pack_upload, for each part in a thread of the pool.              *)

ThreadStep(p, from, to) == uploader = "packing" /\ thread[p] = from
                             /\ thread' = [thread EXCEPT ![p] = to]

outsideThread == <<local, pointer, inventory, manifest, reference, uploader,
                   cleaner, listed, losses>>

StartPart(p) ==
  /\ Cardinality(Active) < Workers
  /\ receipts[p] = Nothing
  /\ ThreadStep(p, "todo", "tar")
  /\ UNCHANGED <<outsideThread, crashes, receipts, remote, packed>>

\* A receipt from an earlier run stands if its object is still there.
ResumePart(p) ==
  /\ Cardinality(Active) < Workers
  /\ receipts[p] # Nothing
  /\ ThreadStep(p, "todo", IF remote[p] = receipts[p] THEN "done" ELSE "failed")
  /\ UNCHANGED <<outsideThread, crashes, receipts, remote, packed>>

\* tar reads one file; it fails on a path that is gone.
ReadFile(p, f) ==
  /\ uploader = "packing" /\ thread[p] = "tar"
  /\ f \in PartFiles(p) \ DOMAIN packed[p]
  /\ IF local[f] = Missing
     THEN ThreadStep(p, "tar", "failed") /\ UNCHANGED packed
     ELSE /\ ThreadStep(p, "tar", "tar")
          /\ packed' = [packed EXCEPT ![p] =
               [g \in DOMAIN @ \cup {f} |-> IF g = f THEN local[f] ELSE @[g]]]
  /\ UNCHANGED <<outsideThread, crashes, receipts, remote>>

\* After packing, every file must still be the one of the inventory.
CheckPart(p) ==
  /\ uploader = "packing" /\ thread[p] = "tar"
  /\ DOMAIN packed[p] = PartFiles(p)
  /\ \/ ThreadStep(p, "tar", "send") /\ \A f \in PartFiles(p) : local[f] = inventory[f]
     \/ ThreadStep(p, "tar", "failed") /\ \E f \in PartFiles(p) : local[f] # inventory[f]
  /\ UNCHANGED <<outsideThread, crashes, receipts, remote, packed>>

\* upload_verified: the object is there and matches, or the transfer raises.
SendPart(p) ==
  /\ ThreadStep(p, "send", "receipt")
  /\ remote' = [remote EXCEPT ![p] = packed[p]]
  /\ UNCHANGED <<outsideThread, crashes, receipts, packed>>

SendFails(p) ==
  /\ crashes < MaxCrashes
  /\ crashes' = crashes + 1
  /\ ThreadStep(p, "send", "failed")
  /\ UNCHANGED <<outsideThread, receipts, remote, packed>>

SaveReceipt(p) ==
  /\ ThreadStep(p, "receipt", "done")
  /\ receipts' = [receipts EXCEPT ![p] = packed[p]]
  /\ UNCHANGED <<outsideThread, crashes, remote, packed>>

Thread(p) ==
  \/ StartPart(p) \/ ResumePart(p) \/ CheckPart(p) \/ SendPart(p) \/ SendFails(p)
  \/ SaveReceipt(p)
  \/ \E f \in Files : ReadFile(p, f)

-----------------------------------------------------------------------------
(* cleanup.                                                                 *)

outsideCleanup == <<inventory, receipts, remote, manifest, uploader, thread, packed,
                    crashes, losses>>

Changed == {f \in Files : local[f] # Missing /\ local[f] # inventory[f]}

\* Mutant: an interrupted cleanup is taken for a change.
BeginCleanupExact ==
  /\ cleaner = "idle"
  /\ OneCommand => uploader = "idle"
  /\ reference # Nothing /\ ~reference.cleaned
  /\ Unchanged
  /\ cleaner' = "verify"
  /\ UNCHANGED <<outsideCleanup, local, pointer, reference, listed>>

\* A file of the inventory may be gone (an interrupted cleanup); any other
\* difference, or a cleanup on record, raises: a step that changes nothing.
BeginCleanup ==
  /\ cleaner = "idle"
  /\ OneCommand => uploader = "idle"
  /\ reference # Nothing /\ ~reference.cleaned
  /\ Changed = {} /\ ~pointer
  /\ cleaner' = "verify"
  /\ UNCHANGED <<outsideCleanup, local, pointer, reference, listed>>

\* Mutant: cleanup does not ask the bucket.
VerifyRemoteSkipped ==
  /\ cleaner = "verify"
  /\ cleaner' = "delete" /\ listed' = {f \in Files : local[f] # Missing}
  /\ UNCHANGED <<outsideCleanup, local, pointer, reference>>

\* verify_remote, then the listing of the directory.
VerifyRemote ==
  /\ cleaner = "verify"
  /\ IF remote = reference.archives /\ manifest
     THEN cleaner' = "delete" /\ listed' = {f \in Files : local[f] # Missing}
     ELSE cleaner' = "idle" /\ UNCHANGED listed
  /\ UNCHANGED <<outsideCleanup, local, pointer, reference>>

\* One file goes: one of the listing, or one that appeared since in a
\* directory of the listing.
Delete(f) ==
  /\ cleaner = "delete"
  /\ listed # {}
  /\ local[f] # Missing
  /\ local' = [local EXCEPT ![f] = Missing]
  /\ listed' = listed \ {f}
  /\ UNCHANGED <<outsideCleanup, pointer, reference, cleaner>>

\* Another program removed a listed path before unlink, or put a new one into
\* a directory before rmdir: either raises.
DeleteFails(f) ==
  /\ cleaner = "delete"
  /\ f \in listed <=> local[f] = Missing
  /\ cleaner' = "idle"
  /\ listed' = {}
  /\ UNCHANGED <<outsideCleanup, local, pointer, reference>>

\* Mutant: rmtree(child, ignore_errors=True).
DeletedAllOrIgnored ==
  /\ cleaner = "delete"
  /\ cleaner' = "record"
  /\ listed' = {}
  /\ UNCHANGED <<outsideCleanup, local, pointer, reference>>

DeletedAll ==
  /\ cleaner = "delete"
  /\ listed = {}
  /\ cleaner' = "record"
  /\ UNCHANGED <<outsideCleanup, local, pointer, reference, listed>>

RecordCleanup ==
  /\ cleaner = "record"
  /\ reference' = [reference EXCEPT !.cleaned = TRUE]
  /\ cleaner' = "pointer"
  /\ UNCHANGED <<outsideCleanup, local, pointer, listed>>

WritePointer ==
  /\ cleaner = "pointer"
  /\ pointer' = TRUE
  /\ cleaner' = "idle"
  /\ UNCHANGED <<outsideCleanup, local, reference, listed>>

-----------------------------------------------------------------------------
(* The world around the commands.                                           *)

\* Another program writes, creates or removes a file.
Write(f) ==
  /\ \E v \in Version :
       /\ IF v = Missing THEN local[f] # Missing ELSE v > local[f]
       /\ (inventory # Nothing /\ v # Missing) => v > inventory[f]
       /\ local' = [local EXCEPT ![f] = v]
  /\ UNCHANGED <<pointer, work, remote, manifest, reference, uploader, thread, packed,
                 cleaner, listed, crashes, losses>>

\* A command is killed.
Crash ==
  /\ crashes < MaxCrashes
  /\ crashes' = crashes + 1
  /\ \/ uploader # "idle" /\ EndUpload /\ UNCHANGED <<cleaner, listed>>
     \/ cleaner # "idle" /\ cleaner' = "idle" /\ listed' = {}
          /\ UNCHANGED <<uploader, thread, packed>>
  /\ UNCHANGED <<local, pointer, work, remote, manifest, reference, losses>>

\* An object disappears from the bucket while no cleanup runs.
Lose(p) ==
  /\ losses < MaxLosses
  /\ cleaner = "idle"
  /\ remote[p] # Nothing
  /\ remote' = [remote EXCEPT ![p] = Nothing]
  /\ losses' = losses + 1
  /\ UNCHANGED <<local, pointer, work, manifest, reference, uploader, thread, packed,
                 cleaner, listed, crashes>>

Upload  == BeginUpload \/ PoolDone \/ PutManifest \/ PutReference
Cleanup == BeginCleanup \/ VerifyRemote \/ DeletedAll \/ RecordCleanup \/ WritePointer
             \/ \E f \in Files : Delete(f) \/ DeleteFails(f)

Next ==
  \/ Upload \/ Cleanup \/ Crash
  \/ \E p \in Parts : Thread(p) \/ Lose(p)
  \/ \E f \in Files : Write(f)

Spec == Init /\ [][Next]_vars

\* Commands run on, and the operator runs both again for as long as they do
\* not raise at once.  Nothing is assumed of the other programs.
FairSpec ==
  /\ Spec
  /\ SF_vars(BeginUpload) /\ WF_vars(Upload)
  /\ SF_vars(BeginCleanup) /\ WF_vars(Cleanup)
  /\ \A p \in Parts : WF_vars(Thread(p))

-----------------------------------------------------------------------------
(* Properties.                                                              *)

\* A reference describes the inventory: each part it lists was packed from
\* the very versions of the inventory, through crashes, resumed parts and
\* files that changed while tar read them.
ReferenceIsBacked ==
  reference # Nothing =>
    \A f \in Files : inventory[f] # Missing =>
      /\ f \in DOMAIN reference.archives[PartOf[f]]
      /\ reference.archives[PartOf[f]][f] = inventory[f]

\* The bucket holds the version on disk and the reference says where.
Archived(f) ==
  /\ reference # Nothing
  /\ LET archive == reference.archives[PartOf[f]]
     IN remote[PartOf[f]] = archive /\ f \in DOMAIN archive /\ archive[f] = local[f]

\* Whatever others write meanwhile, a version of the inventory is deleted only
\* while the bucket holds it, also when an object was lost since the upload.
OriginalIsArchived ==
  [][\A f \in Files : Delete(f) /\ local[f] = inventory[f] => Archived(f)]_vars

\* A cleanup on record is complete: nothing of the inventory is left.
CleanedIsComplete ==
  [][RecordCleanup => \A f \in Files : local[f] = Missing \/ local[f] # inventory[f]]_vars

Cleaned == reference # Nothing /\ reference.cleaned

\* However often the commands are killed, running them again finishes, unless
\* the bucket lost a part or the directory is not what the next command to
\* run needs: what the inventory says, or, for cleanup, what is left of it.
Refused ==
  \/ losses > 0
  \/ inventory # Nothing
       /\ IF reference = Nothing \/ ~manifest THEN local # inventory ELSE Changed # {}

EventuallyCleaned == <>(Cleaned \/ Refused)

=============================================================================
