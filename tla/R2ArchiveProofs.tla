---------------------------- MODULE R2ArchiveProofs ----------------------------
(***************************************************************************)
(* That a reference describes the inventory, that no version of it is      *)
(* deleted which the bucket does not hold, and that a cleanup on record is *)
(* complete: for any files and parts, threads, versions, kills and losses. *)
(***************************************************************************)
EXTENDS R2Archive, TLAPS

Types ==
  /\ local \in [Files -> Version]
  /\ inventory \in [Files -> Version] \cup {Nothing}
  /\ receipts \in [Parts -> Contents \cup {Nothing}]
  /\ reference \in Reference \cup {Nothing}
  /\ uploader \in UploadSteps
  /\ thread \in [Parts -> ThreadSteps]
  /\ packed \in [Parts -> Contents]
  /\ cleaner \in CleanSteps

\* The content c is that of part p in the inventory.
Backed(c, p) == DOMAIN c = PartFiles(p) /\ \A f \in PartFiles(p) : c[f] = inventory[f]

UploadInv ==
  /\ uploader # "idle" => inventory # Nothing
  /\ uploader = "idle" => \A p \in Parts : thread[p] = "todo"
  /\ uploader \in {"index", "reference"} => \A p \in Parts : receipts[p] # Nothing

\* A version other than the inventory's, once on disk, is never followed by the
\* inventory's: so what tar has read is right if the files still are.
ThreadInv(p) ==
  /\ thread[p] = "todo" => DOMAIN packed[p] = {}
  /\ thread[p] = "tar" =>
       /\ DOMAIN packed[p] \subseteq PartFiles(p)
       /\ \A f \in DOMAIN packed[p] : packed[p][f] = inventory[f] \/ local[f] # inventory[f]
  /\ thread[p] \in {"send", "receipt"} => Backed(packed[p], p)
  /\ thread[p] = "done" => receipts[p] # Nothing

ReceiptInv(p) == receipts[p] # Nothing => inventory # Nothing /\ Backed(receipts[p], p)

ReferenceInv ==
  reference # Nothing => inventory # Nothing /\ \A p \in Parts : Backed(reference.archives[p], p)

Gone(f) == local[f] = Missing \/ local[f] # inventory[f]

CleanInv ==
  /\ cleaner # "idle" => reference # Nothing
  /\ cleaner = "delete" => \A f \in Files : f \in listed \/ Gone(f)
  /\ cleaner = "record" => \A f \in Files : Gone(f)

\* With one command at a time, the bucket is what cleanup has verified.
CommandInv ==
  OneCommand => /\ uploader = "idle" \/ cleaner = "idle"
                /\ cleaner = "delete" => remote = reference.archives

IInv ==
  /\ Types /\ UploadInv
  /\ \A p \in Parts : ThreadInv(p) /\ ReceiptInv(p)
  /\ ReferenceInv /\ CleanInv /\ CommandInv

-----------------------------------------------------------------------------
LEMMA EmptyContents == <<>> \in Contents /\ DOMAIN <<>> = {}
<1>1. DOMAIN <<>> = {}
  OBVIOUS
<1>2. <<>> \in [{} -> Version]
  OBVIOUS
<1> QED BY <1>1, <1>2 DEF Contents

LEMMA VersionIsNat == Version \subseteq Nat /\ Missing \in Version
BY BoundsAssumption DEF Version, Missing

LEMMA InitStep == Init => IInv
<1> SUFFICES ASSUME Init PROVE IInv
  OBVIOUS
<1>1. 1 \in Version
  BY BoundsAssumption DEF Version, Missing
<1> QED
  BY <1>1, EmptyContents DEF Init, IInv, Types, UploadInv, ThreadInv, ReceiptInv, ReferenceInv,
     CleanInv, CommandInv, UploadSteps, ThreadSteps, CleanSteps

-----------------------------------------------------------------------------
(* What stays true of parts and reference when little changes.              *)

\* Versions of the inventory do not come back to the disk.
LocalMoves ==
  /\ local' \in [Files -> Version]
  /\ \A f \in Files : local'[f] = local[f] \/ local'[f] = Missing
                        \/ (inventory # Nothing => local'[f] # inventory[f])

LEMMA LocalStep ==
  ASSUME IInv, LocalMoves,
         UNCHANGED <<inventory, receipts, reference, uploader, thread, packed, cleaner, remote>>,
         cleaner = "delete" => \A f \in Files : f \in listed \/ Gone(f) => f \in listed' \/ Gone(f)'
  PROVE  IInv'
<1>1. Types' /\ UploadInv' /\ ReferenceInv' /\ \A p \in Parts : ReceiptInv(p)'
  BY DEF IInv, Types, UploadInv, ReferenceInv, ReceiptInv, Backed, PartFiles, LocalMoves
<1>2. ASSUME NEW p \in Parts PROVE ThreadInv(p)'
  <2>1. thread[p] = "tar" => inventory # Nothing
    BY DEF IInv, UploadInv
  <2>2. \A f \in PartFiles(p) : inventory[f] # Missing /\ f \in Files
    BY DEF PartFiles
  <2>3. ThreadInv(p) /\ PartFiles(p)' = PartFiles(p)
    BY DEF IInv, PartFiles
  <2>4. Backed(packed[p], p)' <=> Backed(packed[p], p)
    BY <2>3 DEF Backed
  <2> QED BY <2>1, <2>2, <2>3, <2>4 DEF ThreadInv, LocalMoves
<1>3. \A f \in Files : cleaner # "idle" /\ Gone(f) => Gone(f)'
  BY DEF Gone, LocalMoves, IInv, CleanInv, ReferenceInv
<1>4. CleanInv' /\ CommandInv'
  BY <1>3 DEF IInv, CleanInv, CommandInv
<1> QED BY <1>1, <1>2, <1>4 DEF IInv

\* cleanup goes on without touching a file.
LEMMA CleanerStep ==
  ASSUME IInv, cleaner' \in CleanSteps,
         UNCHANGED <<local, inventory, receipts, uploader, thread, packed>>,
         reference' \in Reference \cup {Nothing}, reference' # Nothing <=> reference # Nothing,
         reference # Nothing => reference'.archives = reference.archives,
         CleanInv', CommandInv'
  PROVE  IInv'
<1>1. Types' /\ UploadInv' /\ \A p \in Parts : ReceiptInv(p)' /\ ThreadInv(p)'
  BY DEF IInv, Types, UploadInv, ReceiptInv, ThreadInv, Backed, PartFiles
<1>2. ReferenceInv'
  BY DEF IInv, ReferenceInv, Backed, PartFiles
<1> QED BY <1>1, <1>2 DEF IInv

\* upload goes on without touching inventory, receipts or reference.
LEMMA UploadStep ==
  ASSUME IInv, UNCHANGED <<local, inventory, reference, cleaner, listed>>,
         uploader' \in UploadSteps, thread' \in [Parts -> ThreadSteps], packed' \in [Parts -> Contents],
         receipts' \in [Parts -> Contents \cup {Nothing}],
         UploadInv', \A p \in Parts : ThreadInv(p)' /\ ReceiptInv(p)', CommandInv'
  PROVE  IInv'
<1>1. Types' /\ ReferenceInv' /\ CleanInv'
  BY DEF IInv, Types, ReferenceInv, CleanInv, Backed, PartFiles, Gone
<1> QED BY <1>1 DEF IInv

LEMMA EndUploadStep ==
  ASSUME IInv, EndUpload
  PROVE  /\ uploader' \in UploadSteps /\ thread' \in [Parts -> ThreadSteps] /\ packed' \in [Parts -> Contents]
         /\ uploader' = "idle" /\ UploadInv' /\ \A p \in Parts : ThreadInv(p)'
BY EmptyContents DEF EndUpload, UploadSteps, ThreadSteps, UploadInv, ThreadInv

-----------------------------------------------------------------------------
(* upload.                                                                  *)

LEMMA BeginUploadStep ==
  ASSUME IInv, BeginUpload
  PROVE  IInv'
<1>1. CASE inventory # Nothing
  <2>1. inventory' = inventory
    BY <1>1 DEF BeginUpload, Unchanged
  <2>2. \A p \in Parts : ThreadInv(p)' /\ ReceiptInv(p)'
    BY <2>1 DEF IInv, ThreadInv, ReceiptInv, Backed, PartFiles, BeginUpload
  <2>3. UploadInv'
    BY <1>1, <2>1 DEF IInv, UploadInv, BeginUpload
  <2>4. CommandInv'
    BY DEF IInv, CommandInv, BeginUpload
  <2> QED BY <2>1, <2>2, <2>3, <2>4, UploadStep DEF BeginUpload, IInv, Types, UploadSteps
<1>2. CASE inventory = Nothing
  <2>1. reference = Nothing /\ cleaner = "idle" /\ \A p \in Parts : receipts[p] = Nothing
    BY <1>2 DEF IInv, ReferenceInv, CleanInv, ReceiptInv
  <2>2. local \in [Files -> Version] /\ local # Nothing
    BY NothingAssumption DEF IInv, Types
  <2>3. Types'
    BY <2>2 DEF IInv, Types, BeginUpload, UploadSteps
  <2>4. UploadInv'
    BY <2>2 DEF IInv, UploadInv, BeginUpload
  <2>5. \A p \in Parts : ThreadInv(p)' /\ ReceiptInv(p)'
    BY <2>1 DEF IInv, UploadInv, ThreadInv, ReceiptInv, BeginUpload
  <2>6. ReferenceInv' /\ CleanInv' /\ CommandInv'
    BY <2>1 DEF ReferenceInv, CleanInv, CommandInv, BeginUpload
  <2> QED BY <2>3, <2>4, <2>5, <2>6 DEF IInv
<1> QED BY <1>1, <1>2

LEMMA PoolDoneStep ==
  ASSUME IInv, PoolDone
  PROVE  IInv'
<1>1. /\ UNCHANGED <<local, inventory, receipts, remote, reference, cleaner, listed>>
      /\ uploader = "packing"
  BY DEF PoolDone, work
<1>2. \A p \in Parts : ReceiptInv(p)'
  BY <1>1 DEF IInv, ReceiptInv, Backed, PartFiles
<1>3. CASE EndUpload
  <2>1. CommandInv'
    BY <1>1, <1>3 DEF IInv, CommandInv, EndUpload
  <2> QED BY <1>1, <1>2, <1>3, <2>1, EndUploadStep, UploadStep DEF IInv, Types
<1>4. CASE uploader' = "index" /\ UNCHANGED <<thread, packed>> /\ \A p \in Parts : thread[p] = "done"
  <2>1. \A p \in Parts : ThreadInv(p)'
    BY <1>1, <1>4 DEF IInv, ThreadInv
  <2>2. UploadInv' /\ CommandInv'
    BY <1>1, <1>4 DEF IInv, UploadInv, ThreadInv, CommandInv
  <2> QED BY <1>1, <1>2, <1>4, <2>1, <2>2, UploadStep DEF IInv, Types, UploadSteps
<1> QED BY <1>3, <1>4 DEF PoolDone

LEMMA PutStep ==
  ASSUME IInv, PutManifest \/ PutReference
  PROVE  IInv'
<1>1. CASE PutManifest
  <2>1. \A p \in Parts : ThreadInv(p)' /\ ReceiptInv(p)'
    BY <1>1 DEF PutManifest, work, IInv, ThreadInv, ReceiptInv, Backed, PartFiles
  <2>2. UploadInv' /\ CommandInv'
    BY <1>1 DEF PutManifest, work, IInv, UploadInv, CommandInv
  <2> QED BY <1>1, <2>1, <2>2, UploadStep DEF PutManifest, work, IInv, Types, UploadSteps
<1>2. CASE PutReference
  <2>1. /\ uploader = "reference" /\ EndUpload
        /\ reference' = [archives |-> receipts, cleaned |-> FALSE]
        /\ UNCHANGED <<local, inventory, receipts, remote, cleaner, listed>>
    BY <1>2 DEF PutReference, work
  <2>2. receipts \in [Parts -> Contents] /\ inventory # Nothing
    BY <2>1 DEF IInv, UploadInv, Types
  <2>3. reference' \in Reference /\ reference' # Nothing /\ reference'.archives = receipts
    <3>1. reference' \in Reference
      BY <2>1, <2>2 DEF Reference
    <3>2. Nothing \notin Reference
      BY NothingAssumption
    <3> QED BY <2>1, <3>1, <3>2
  <2>4. Types' /\ UploadInv' /\ \A p \in Parts : ThreadInv(p)'
    BY <2>1, <2>3, EndUploadStep DEF IInv, Types
  <2>5. \A p \in Parts : ReceiptInv(p)'
    BY <2>1 DEF IInv, ReceiptInv, Backed, PartFiles
  <2>6. ReferenceInv'
    <3>1. \A p \in Parts : receipts[p] # Nothing
      BY <2>1 DEF IInv, UploadInv
    <3> QED BY <2>1, <2>2, <2>3, <3>1 DEF IInv, ReceiptInv, ReferenceInv, Backed, PartFiles
  <2>7. CleanInv' /\ CommandInv'
    BY <2>1, <2>3 DEF IInv, CleanInv, CommandInv, Gone, EndUpload
  <2> QED BY <2>4, <2>5, <2>6, <2>7 DEF IInv
<1> QED BY <1>1, <1>2

\* A thread of the pool works on its own part.
LEMMA ThreadKeeps ==
  ASSUME IInv, NEW p \in Parts, NEW s \in ThreadSteps,
         uploader = "packing", thread' = [thread EXCEPT ![p] = s],
         UNCHANGED <<local, inventory, reference, uploader, cleaner, listed>>,
         packed' \in [Parts -> Contents], receipts' \in [Parts -> Contents \cup {Nothing}],
         \A q \in Parts \ {p} : packed'[q] = packed[q] /\ receipts'[q] = receipts[q],
         remote' = remote \/ (OneCommand => cleaner = "idle"),
         ThreadInv(p)', ReceiptInv(p)'
  PROVE  IInv'
<1>1. ASSUME NEW q \in Parts, q # p PROVE ThreadInv(q)' /\ ReceiptInv(q)'
  BY <1>1 DEF IInv, Types, ThreadInv, ReceiptInv, Backed, PartFiles
<1>2. UploadInv' /\ CommandInv'
  BY DEF IInv, UploadInv, CommandInv
<1> QED BY <1>1, <1>2, UploadStep DEF IInv, Types

LEMMA ThreadAction ==
  ASSUME IInv, NEW p \in Parts, Thread(p)
  PROVE  IInv'
<1>1. /\ uploader = "packing" /\ ThreadInv(p) /\ ReceiptInv(p) /\ inventory # Nothing
      /\ UNCHANGED <<local, inventory, reference, uploader, cleaner, listed>>
  BY DEF Thread, ThreadStep, StartPart, ResumePart, ReadFile, CheckPart, SendPart, SendFails,
         SaveReceipt, outsideThread, IInv, UploadInv
<1>2. OneCommand => cleaner = "idle"
  BY <1>1 DEF IInv, CommandInv
<1>3. CASE StartPart(p)
  <2>1. thread' = [thread EXCEPT ![p] = "tar"] /\ thread[p] = "todo" /\ UNCHANGED <<receipts, remote, packed>>
    BY <1>3 DEF StartPart, ThreadStep
  <2>2. ThreadInv(p)' /\ ReceiptInv(p)'
    BY <1>1, <2>1 DEF IInv, Types, ThreadInv, ReceiptInv, Backed, PartFiles
  <2> QED BY <1>1, <2>1, <2>2, ThreadKeeps DEF IInv, Types, ThreadSteps
<1>4. CASE ResumePart(p)
  <2> PICK s \in {"done", "failed"} : thread' = [thread EXCEPT ![p] = s]
    BY <1>4 DEF ResumePart, ThreadStep
  <2>1. UNCHANGED <<receipts, remote, packed>> /\ receipts[p] # Nothing
    BY <1>4 DEF ResumePart
  <2>2. ThreadInv(p)' /\ ReceiptInv(p)'
    BY <1>1, <2>1 DEF IInv, Types, ThreadInv, ReceiptInv, Backed, PartFiles
  <2> QED BY <1>1, <2>1, <2>2, ThreadKeeps DEF IInv, Types, ThreadSteps
<1>5. ASSUME NEW f \in Files, ReadFile(p, f) PROVE IInv'
  <2>1. f \in PartFiles(p) /\ thread[p] = "tar" /\ UNCHANGED <<receipts, remote>>
    BY <1>5 DEF ReadFile
  <2>2. CASE local[f] = Missing
    <3>1. thread' = [thread EXCEPT ![p] = "failed"] /\ UNCHANGED packed
      BY <1>5, <2>2 DEF ReadFile, ThreadStep
    <3>2. ThreadInv(p)' /\ ReceiptInv(p)'
      BY <1>1, <2>1, <3>1 DEF IInv, Types, ThreadInv, ReceiptInv, Backed, PartFiles
    <3> QED BY <1>1, <2>1, <3>1, <3>2, ThreadKeeps DEF IInv, Types, ThreadSteps
  <2>3. CASE local[f] # Missing
    <3> DEFINE old == packed[p]
               new == [g \in DOMAIN old \cup {f} |-> IF g = f THEN local[f] ELSE old[g]]
    <3>1. thread' = [thread EXCEPT ![p] = "tar"] /\ packed' = [packed EXCEPT ![p] = new]
      BY <1>5, <2>3 DEF ReadFile, ThreadStep
    <3>2. PICK S \in SUBSET Files : old \in [S -> Version]
      BY DEF IInv, Types, Contents
    <3>3. DOMAIN new = DOMAIN old \cup {f} /\ new \in [S \cup {f} -> Version]
      BY <3>2 DEF IInv, Types
    <3>4. new \in Contents
      BY <3>2, <3>3 DEF Contents
    <3>5. DOMAIN new \subseteq PartFiles(p)
            /\ \A g \in DOMAIN new : new[g] = inventory[g] \/ local[g] # inventory[g]
      BY <1>1, <2>1, <3>3 DEF ThreadInv
    <3> HIDE DEF new
    <3>6. packed'[p] = new /\ thread'[p] = "tar"
      BY <3>1 DEF IInv, Types
    <3>7. ThreadInv(p)' /\ ReceiptInv(p)'
      BY <1>1, <2>1, <3>5, <3>6 DEF ThreadInv, ReceiptInv, Backed, PartFiles
    <3> QED BY <1>1, <2>1, <3>1, <3>4, <3>7, ThreadKeeps DEF IInv, Types, ThreadSteps
  <2> QED BY <2>2, <2>3
<1>6. CASE CheckPart(p)
  <2>1. thread[p] = "tar" /\ DOMAIN packed[p] = PartFiles(p) /\ UNCHANGED <<receipts, remote, packed>>
    BY <1>6 DEF CheckPart
  <2>2. CASE thread' = [thread EXCEPT ![p] = "send"] /\ \A f \in PartFiles(p) : local[f] = inventory[f]
    <3>1. Backed(packed[p], p)
      BY <1>1, <2>1, <2>2 DEF ThreadInv, Backed
    <3>2. ThreadInv(p)' /\ ReceiptInv(p)'
      BY <1>1, <2>1, <2>2, <3>1 DEF IInv, Types, ThreadInv, ReceiptInv, Backed, PartFiles
    <3> QED BY <1>1, <2>1, <2>2, <3>2, ThreadKeeps DEF IInv, Types, ThreadSteps
  <2>3. CASE thread' = [thread EXCEPT ![p] = "failed"]
    <3>1. ThreadInv(p)' /\ ReceiptInv(p)'
      BY <1>1, <2>1, <2>3 DEF IInv, Types, ThreadInv, ReceiptInv, Backed, PartFiles
    <3> QED BY <1>1, <2>1, <2>3, <3>1, ThreadKeeps DEF IInv, Types, ThreadSteps
  <2> QED BY <1>6, <2>2, <2>3 DEF CheckPart, ThreadStep
<1>7. CASE SendPart(p)
  <2>1. thread[p] = "send" /\ thread' = [thread EXCEPT ![p] = "receipt"] /\ UNCHANGED <<receipts, packed>>
    BY <1>7 DEF SendPart, ThreadStep
  <2>2. ThreadInv(p)' /\ ReceiptInv(p)'
    BY <1>1, <2>1 DEF IInv, Types, ThreadInv, ReceiptInv, Backed, PartFiles
  <2> QED BY <1>1, <1>2, <2>1, <2>2, ThreadKeeps DEF IInv, Types, ThreadSteps
<1>8. CASE SendFails(p)
  <2>1. thread[p] = "send" /\ thread' = [thread EXCEPT ![p] = "failed"] /\ UNCHANGED <<receipts, remote, packed>>
    BY <1>8 DEF SendFails, ThreadStep
  <2>2. ThreadInv(p)' /\ ReceiptInv(p)'
    BY <1>1, <2>1 DEF IInv, Types, ThreadInv, ReceiptInv, Backed, PartFiles
  <2> QED BY <1>1, <2>1, <2>2, ThreadKeeps DEF IInv, Types, ThreadSteps
<1>9. CASE SaveReceipt(p)
  <2>1. /\ thread[p] = "receipt" /\ thread' = [thread EXCEPT ![p] = "done"] /\ UNCHANGED <<remote, packed>>
        /\ receipts' = [receipts EXCEPT ![p] = packed[p]]
    BY <1>9 DEF SaveReceipt, ThreadStep
  <2>2. packed[p] \in Contents /\ packed[p] # Nothing
    BY NothingAssumption DEF IInv, Types
  <2>3. /\ receipts' \in [Parts -> Contents \cup {Nothing}] /\ receipts'[p] = packed[p]
        /\ \A q \in Parts \ {p} : receipts'[q] = receipts[q]
    BY <2>1, <2>2 DEF IInv, Types
  <2>4. ThreadInv(p)' /\ ReceiptInv(p)'
    BY <1>1, <2>1, <2>2, <2>3 DEF IInv, Types, ThreadInv, ReceiptInv, Backed, PartFiles
  <2> QED BY <1>1, <2>1, <2>3, <2>4, ThreadKeeps DEF IInv, Types, ThreadSteps
<1> QED BY <1>3, <1>4, <1>5, <1>6, <1>7, <1>8, <1>9 DEF Thread

-----------------------------------------------------------------------------
(* cleanup.                                                                 *)

LEMMA CleanupStep ==
  ASSUME IInv, Cleanup
  PROVE  IInv'
<1>1. UNCHANGED <<inventory, receipts, uploader, thread, packed, remote>>
  BY DEF Cleanup, BeginCleanup, VerifyRemote, DeletedAll, RecordCleanup, WritePointer, Delete,
         DeleteFails, outsideCleanup
<1>2. reference \in Reference \cup {Nothing}
  BY DEF IInv, Types
<1>3. CASE BeginCleanup
  <2>1. UNCHANGED <<local, reference>> /\ cleaner' = "verify" /\ reference # Nothing
          /\ (OneCommand => uploader = "idle")
    BY <1>3 DEF BeginCleanup
  <2>2. CleanInv' /\ CommandInv'
    BY <1>1, <2>1 DEF CleanInv, CommandInv
  <2> QED BY <1>1, <1>2, <2>1, <2>2, CleanerStep DEF CleanSteps
<1>4. CASE VerifyRemote
  <2>1. UNCHANGED <<local, reference>> /\ cleaner = "verify"
    BY <1>4 DEF VerifyRemote
  <2>2. CASE cleaner' = "idle"
    <3>1. CleanInv' /\ CommandInv'
      BY <1>1, <2>1, <2>2 DEF IInv, CleanInv, CommandInv
    <3> QED BY <1>1, <1>2, <2>1, <2>2, <3>1, CleanerStep DEF CleanSteps
  <2>3. CASE /\ cleaner' = "delete" /\ remote = reference.archives
             /\ listed' = {f \in Files : local[f] # Missing}
    <3>1. CleanInv' /\ CommandInv'
      BY <1>1, <2>1, <2>3 DEF IInv, CleanInv, CommandInv, Gone
    <3> QED BY <1>1, <1>2, <2>1, <2>3, <3>1, CleanerStep DEF CleanSteps
  <2> QED BY <1>4, <2>2, <2>3 DEF VerifyRemote
<1>5. ASSUME NEW f \in Files, Delete(f) PROVE IInv'
  <2>1. /\ local' = [local EXCEPT ![f] = Missing] /\ listed' = listed \ {f}
        /\ UNCHANGED <<reference, cleaner>>
    BY <1>5 DEF Delete
  <2>2. LocalMoves
    BY <2>1, VersionIsNat DEF LocalMoves, IInv, Types
  <2>3. \A g \in Files : g \in listed \/ Gone(g) => g \in listed' \/ Gone(g)'
    BY <1>1, <2>1 DEF Gone, IInv, Types
  <2> QED BY <1>1, <2>1, <2>2, <2>3, LocalStep
<1>6. ASSUME NEW f \in Files, DeleteFails(f) PROVE IInv'
  <2>1. UNCHANGED <<local, reference>> /\ cleaner' = "idle"
    BY <1>6 DEF DeleteFails
  <2>2. CleanInv' /\ CommandInv'
    BY <2>1 DEF CleanInv, CommandInv
  <2> QED BY <1>1, <1>2, <2>1, <2>2, CleanerStep DEF CleanSteps
<1>7. CASE DeletedAll
  <2>1. UNCHANGED <<local, reference>> /\ cleaner = "delete" /\ listed = {} /\ cleaner' = "record"
    BY <1>7 DEF DeletedAll
  <2>2. CleanInv' /\ CommandInv'
    BY <1>1, <2>1 DEF IInv, CleanInv, CommandInv, Gone
  <2> QED BY <1>1, <1>2, <2>1, <2>2, CleanerStep DEF CleanSteps
<1>8. CASE RecordCleanup
  <2>1. /\ UNCHANGED local /\ cleaner = "record" /\ cleaner' = "pointer"
        /\ reference' = [reference EXCEPT !.cleaned = TRUE] /\ reference # Nothing
    BY <1>8 DEF RecordCleanup, IInv, CleanInv
  <2>2. reference' \in Reference /\ reference'.archives = reference.archives
    BY <1>2, <2>1 DEF Reference
  <2>3. reference' # Nothing
    BY <2>2, NothingAssumption
  <2>4. CleanInv' /\ CommandInv'
    BY <1>1, <2>1, <2>3 DEF IInv, CleanInv, CommandInv
  <2> QED BY <1>1, <2>1, <2>2, <2>3, <2>4, CleanerStep DEF CleanSteps
<1>9. CASE WritePointer
  <2>1. UNCHANGED <<local, reference>> /\ cleaner' = "idle"
    BY <1>9 DEF WritePointer
  <2>2. CleanInv' /\ CommandInv'
    BY <2>1 DEF CleanInv, CommandInv
  <2> QED BY <1>1, <1>2, <2>1, <2>2, CleanerStep DEF CleanSteps
<1> QED BY <1>3, <1>4, <1>5, <1>6, <1>7, <1>8, <1>9 DEF Cleanup

-----------------------------------------------------------------------------
(* The world, and all steps.                                                *)

LEMMA NextStep == IInv /\ [Next]_vars => IInv'
<1> SUFFICES ASSUME IInv, [Next]_vars PROVE IInv'
  OBVIOUS
<1>1. CASE Upload
  BY <1>1, BeginUploadStep, PoolDoneStep, PutStep DEF Upload
<1>2. CASE Cleanup
  BY <1>2, CleanupStep
<1>3. CASE Crash
  <2>1. UNCHANGED <<local, inventory, receipts, remote, reference>>
    BY <1>3 DEF Crash, work
  <2>2. CASE EndUpload /\ UNCHANGED <<cleaner, listed>>
    <3>1. \A p \in Parts : ReceiptInv(p)'
      BY <2>1 DEF IInv, ReceiptInv, Backed, PartFiles
    <3>2. CommandInv'
      BY <2>1, <2>2 DEF IInv, CommandInv, EndUpload
    <3> QED BY <2>1, <2>2, <3>1, <3>2, EndUploadStep, UploadStep DEF IInv, Types
  <2>3. CASE cleaner' = "idle" /\ UNCHANGED <<uploader, thread, packed>>
    <3>1. CleanInv' /\ CommandInv'
      BY <2>3 DEF CleanInv, CommandInv
    <3>2. reference \in Reference \cup {Nothing}
      BY DEF IInv, Types
    <3> QED BY <2>1, <2>3, <3>1, <3>2, CleanerStep DEF CleanSteps
  <2> QED BY <1>3, <2>2, <2>3 DEF Crash
<1>4. ASSUME NEW p \in Parts, Thread(p) PROVE IInv'
  BY <1>4, ThreadAction
<1>5. ASSUME NEW p \in Parts, Lose(p) PROVE IInv'
  <2>1. /\ UNCHANGED <<local, inventory, receipts, reference, uploader, thread, packed, cleaner, listed>>
        /\ cleaner = "idle"
    BY <1>5 DEF Lose, work
  <2>2. CleanInv' /\ CommandInv'
    BY <2>1 DEF CleanInv, CommandInv
  <2> QED BY <2>1, <2>2, CleanerStep DEF IInv, Types
<1>6. ASSUME NEW f \in Files, Write(f) PROVE IInv'
  <2>1. PICK v \in Version : /\ inventory # Nothing /\ v # Missing => v > inventory[f]
                             /\ local' = [local EXCEPT ![f] = v]
    BY <1>6 DEF Write
  <2>2. UNCHANGED <<inventory, receipts, reference, uploader, thread, packed, cleaner, remote, listed>>
    BY <1>6 DEF Write, work
  <2>3. inventory # Nothing => inventory[f] \in Nat
    BY VersionIsNat DEF IInv, Types
  <2>4. LocalMoves
    BY <2>1, <2>3, VersionIsNat DEF LocalMoves, IInv, Types
  <2>5. cleaner = "delete" => \A g \in Files : g \in listed \/ Gone(g) => g \in listed' \/ Gone(g)'
    BY <2>2, <2>4 DEF LocalMoves, Gone, IInv, CleanInv, ReferenceInv
  <2> QED BY <2>2, <2>4, <2>5, LocalStep
<1>7. CASE UNCHANGED vars
  <2>1. UNCHANGED <<local, inventory, receipts, reference, uploader, thread, packed, cleaner, listed, remote>>
    BY <1>7 DEF vars, work
  <2>2. CleanInv' /\ CommandInv'
    BY <2>1 DEF IInv, CleanInv, CommandInv, Gone
  <2> QED BY <2>1, <2>2, CleanerStep DEF IInv, Types
<1> QED BY <1>1, <1>2, <1>3, <1>4, <1>5, <1>6, <1>7 DEF Next

LEMMA Invariance == Spec => []IInv
BY InitStep, NextStep, PTL DEF Spec

\* Each part that a reference lists was packed from the very versions of the
\* inventory, however many threads, kills, resumed runs and writes by others.
THEOREM ReferencesAreBacked == Spec => []ReferenceIsBacked
<1>1. ASSUME IInv PROVE ReferenceIsBacked
  <2> SUFFICES ASSUME reference # Nothing, NEW f \in Files, inventory[f] # Missing
               PROVE  /\ f \in DOMAIN reference.archives[PartOf[f]]
                      /\ reference.archives[PartOf[f]][f] = inventory[f]
    BY DEF ReferenceIsBacked
  <2>1. PartOf[f] \in Parts /\ f \in PartFiles(PartOf[f])
    BY DEF Parts, PartFiles
  <2> QED BY <1>1, <2>1 DEF IInv, ReferenceInv, Backed
<1> QED BY <1>1, Invariance, PTL

\* While upload and cleanup are not run at one time, a version of the inventory
\* is deleted only while the bucket holds it.
THEOREM DeletedIsArchived == ASSUME OneCommand PROVE Spec => OriginalIsArchived
<1>1. ASSUME IInv, NEW f \in Files, Delete(f), local[f] = inventory[f] PROVE Archived(f)
  <2>1. /\ cleaner = "delete" /\ local[f] # Missing
        /\ reference # Nothing /\ remote = reference.archives
    BY <1>1 DEF Delete, IInv, CleanInv, CommandInv
  <2>2. PartOf[f] \in Parts /\ f \in PartFiles(PartOf[f])
    BY <1>1, <2>1 DEF Parts, PartFiles
  <2>3. Backed(reference.archives[PartOf[f]], PartOf[f])
    BY <1>1, <2>1, <2>2 DEF IInv, ReferenceInv
  <2> QED BY <1>1, <2>1, <2>2, <2>3 DEF Archived, Backed
<1>2. IInv /\ [Next]_vars => [\A f \in Files : Delete(f) /\ local[f] = inventory[f] => Archived(f)]_vars
  BY <1>1
<1> QED BY <1>2, Invariance, PTL DEF Spec, OriginalIsArchived

\* When a cleanup is recorded nothing of the inventory is left on disk.
THEOREM RecordedIsClean == Spec => CleanedIsComplete
<1>1. ASSUME IInv, RecordCleanup, NEW f \in Files PROVE local[f] = Missing \/ local[f] # inventory[f]
  BY <1>1 DEF RecordCleanup, IInv, CleanInv, Gone
<1>2. IInv /\ [Next]_vars => [RecordCleanup => \A f \in Files : local[f] = Missing \/ local[f] # inventory[f]]_vars
  BY <1>1
<1> QED BY <1>2, Invariance, PTL DEF Spec, CleanedIsComplete
=============================================================================
