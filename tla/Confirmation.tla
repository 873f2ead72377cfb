----------------------------- MODULE Confirmation -----------------------------
(***************************************************************************)
(* The one-shot timing attempt of the matmul-collective confirmation       *)
(* (src/src/tpu_cake/matmul_collective_confirmation_runner.py), for one     *)
(* run_id.  The operator calls confirm or finalize on output roots of his  *)
(* choice, again after every failure; any step may raise and the process   *)
(* may be killed anywhere.  What survives is the output root, the ledger   *)
(* in it, and the claim in the attempt registry.                           *)
(*                                                                         *)
(* The files of a root are named by what they are for: "evidence" is all   *)
(* that is written before timing, "temporary" a file that an atomic write  *)
(* left, "sidecars" the -wal and -shm of an open ledger.  The ledger's     *)
(* states before TIMED are one, "running".  What the files say is checked  *)
(* by _validate and identical in every honest run, so only their presence  *)
(* is kept.  Of the ledger file, which a receipt attests by its hash, the  *)
(* journal mode is kept too: opening a ledger writes WAL into its file,    *)
(* and seal_ledger writes DELETE back.                                     *)
(***************************************************************************)
EXTENDS Naturals

CONSTANTS
  Procs,     \* calls of the commands
  Roots,     \* output roots
  MaxFaults, \* bound: exceptions and kills
  NoRoot     \* the root of no claim

ASSUME FaultsAssumption == MaxFaults \in Nat
ASSUME RootAssumption   == NoRoot \notin Roots

VARIABLES
  dirs,     \* the roots that exist
  files,    \* files[r]
  ledger,   \* ledger[r]: the current state of the run in r's ledger
  sealed,   \* the roots whose ledger file is in the mode that sealing leaves
  attested, \* the roots whose receipt has the hash of a sealed ledger
  claim,    \* the claim file of the run_id
  sessions, \* timing sessions the device has run
  leftover, \* roots in which a process stopped before its run was TIMED
  pc, at, command,
  faults

disk == <<dirs, files, ledger, sealed, attested, claim>>
vars == <<disk, sessions, leftover, pc, at, command, faults>>

Complete == {"identity", "evidence", "marker", "result"}
Names    == Complete \cup {"failure", "receipt", "temporary", "sidecars"}
States   == {"none", "running", "TIMED", "ACCEPTED", "REJECTED"}
Timed    == {"TIMED", "ACCEPTED"}

Claim(state, r) == [state |-> state, root |-> r]
Unclaimed   == Claim("none", NoRoot)
Torn        == Claim("torn", NoRoot)
Reserved(r) == Claim("reserved", r)
Started(r)  == Claim("started", r)

\* Steps inside the try of run_matmul_collective_confirmation.
BeforeTimed == {"evidence", "reserve", "mark", "claim", "time", "result", "timed"}
Tried       == BeforeTimed \cup {"validate", "accept", "receipt", "final"}
Steps       == Tried \cup {"idle", "prepare", "mkdir", "identity", "failure", "reject"}

TypeOK ==
  /\ dirs \subseteq Roots
  /\ files \in [Roots -> SUBSET Names]
  /\ ledger \in [Roots -> States]
  /\ sealed \subseteq Roots /\ attested \subseteq Roots
  /\ claim \in {Unclaimed, Torn} \cup {Reserved(r) : r \in Roots} \cup {Started(r) : r \in Roots}
  /\ sessions \in Nat
  /\ leftover \subseteq Roots
  /\ pc \in [Procs -> Steps]
  /\ at \in [Procs -> Roots]
  /\ command \in [Procs -> {"confirm", "finalize"}]
  /\ faults \in 0..MaxFaults
  /\ \A p, q \in Procs : pc[p] # "idle" /\ pc[q] # "idle" => p = q

Init ==
  /\ dirs = {}
  /\ files = [r \in Roots |-> {}]
  /\ ledger = [r \in Roots |-> "none"]
  /\ sealed = {} /\ attested = {}
  /\ claim = Unclaimed
  /\ sessions = 0
  /\ leftover = {}
  /\ pc = [p \in Procs |-> "idle"]
  /\ at \in [Procs -> Roots]
  /\ command = [p \in Procs |-> "confirm"]
  /\ faults = 0

-----------------------------------------------------------------------------
Goto(p, from, to) == pc[p] = from /\ pc' = [pc EXCEPT ![p] = to]
Put(p, name) == files' = [files EXCEPT ![at[p]] = @ \cup {name}]
Record(p, state) == ledger' = [ledger EXCEPT ![at[p]] = state]
Open(p) == sealed' = sealed \ {at[p]}
Seal(p) == sealed' = sealed \cup {at[p]}

\* The process stops, or an exception leaves its step: what it leaves in a
\* root that is not TIMED is the rest of an interrupted attempt.
Abandon(p) ==
  leftover' = IF pc[p] \in BeforeTimed /\ ledger'[at[p]] \notin Timed
              THEN leftover \cup {at[p]} ELSE leftover

\* Only confirm records a failure, and only of what its try contains.
Raise(p, from) ==
  /\ Goto(p, from, IF command[p] = "confirm" /\ from \in Tried THEN "failure" ELSE "idle")
  /\ UNCHANGED <<disk, sessions, at, command>>
  /\ Abandon(p)

invocation == <<at, command, faults>>

\* Mutant: every call has a lock of its own.
BeginWithoutLock(p, r, c) ==
  /\ pc[p] = "idle" /\ "receipt" \notin files[r]
  /\ c = "finalize" => "identity" \in files[r]
  /\ pc' = [pc EXCEPT ![p] = "prepare"]
  /\ at' = [at EXCEPT ![p] = r]
  /\ command' = [command EXCEPT ![p] = c]
  /\ UNCHANGED <<disk, sessions, leftover, faults>>

\* The lock of the run_id is taken, or the call raises.  A root with a receipt
\* is only validated; finalize needs the root's run_identity.json.
Begin(p, r, c) ==
  /\ \A q \in Procs : pc[q] = "idle"
  /\ "receipt" \notin files[r]
  /\ c = "finalize" => "identity" \in files[r]
  /\ pc' = [pc EXCEPT ![p] = "prepare"]
  /\ at' = [at EXCEPT ![p] = r]
  /\ command' = [command EXCEPT ![p] = c]
  /\ UNCHANGED <<disk, sessions, leftover, faults>>

-----------------------------------------------------------------------------
(* _prepare_output_root                                                     *)

\* No process has claimed the run, or one that meant this root has and did
\* not start.
Free(r) == claim \in {Unclaimed, Reserved(r)}

Fresh(r)    == (r \notin dirs \/ files[r] = {}) /\ Free(r)
Unfinished(r) == "identity" \in files[r] /\ "marker" \notin files[r] /\ Free(r)

\* Mutant: a root is resumed only when its run is ACCEPTED.
ResumableIfAccepted(r) ==
  /\ {"identity", "marker"} \subseteq files[r] /\ claim = Started(r)
  /\ "sidecars" \notin files[r] /\ ledger[r] = "ACCEPTED"

Resumable(r) ==
  /\ {"identity", "marker"} \subseteq files[r]
  /\ claim = Started(r)
  /\ "sidecars" \notin files[r]
  /\ ledger[r] \in Timed

PrepareFresh(p) ==
  /\ Fresh(at[p])
  /\ Goto(p, "prepare", "identity")
  /\ dirs' = dirs \cup {at[p]}
  /\ UNCHANGED <<files, ledger, sealed, attested, claim, sessions, leftover, invocation>>

\* Mutant: an interrupted attempt is continued in place.
PrepareInPlace(p) ==
  /\ Unfinished(at[p])
  /\ Goto(p, "prepare", "identity")
  /\ UNCHANGED <<disk, sessions, leftover, invocation>>

\* An interrupted attempt is renamed out of the way.
PrepareArchive(p) ==
  /\ Unfinished(at[p])
  /\ Goto(p, "prepare", "mkdir")
  /\ dirs' = dirs \ {at[p]}
  /\ files' = [files EXCEPT ![at[p]] = {}]
  /\ Record(p, "none")
  /\ Open(p)
  /\ leftover' = leftover \ {at[p]}
  /\ UNCHANGED <<attested, claim, sessions, invocation>>

\* finalize archives an interrupted attempt too, and then raises.
Mkdir(p) ==
  /\ Goto(p, "mkdir", IF command[p] = "confirm" THEN "identity" ELSE "idle")
  /\ dirs' = dirs \cup {at[p]}
  /\ UNCHANGED <<files, ledger, sealed, attested, claim, sessions, leftover, invocation>>

PrepareResume(p) ==
  /\ Resumable(at[p])
  /\ Goto(p, "prepare", IF command[p] = "confirm" THEN "identity" ELSE "validate")
  /\ UNCHANGED <<disk, sessions, leftover, invocation>>

PrepareRefused(p) ==
  /\ ~(Fresh(at[p]) \/ Unfinished(at[p]) \/ Resumable(at[p]))
  /\ Raise(p, "prepare")
  /\ UNCHANGED faults

Prepare(p) ==
  PrepareFresh(p) \/ PrepareArchive(p) \/ PrepareResume(p) \/ PrepareRefused(p)

-----------------------------------------------------------------------------
(* The attempt.                                                             *)

WriteIdentity(p) ==
  /\ Goto(p, "identity", IF ledger[at[p]] \in Timed THEN "validate" ELSE "evidence")
  /\ Put(p, "identity")
  /\ UNCHANGED <<dirs, ledger, sealed, attested, claim, sessions, leftover, invocation>>

\* Plans, compilation and correctness, with the ledger from CREATED to CORRECT.
WriteEvidence(p) ==
  /\ Goto(p, "evidence", "reserve")
  /\ Put(p, "evidence")
  /\ Record(p, "running")
  /\ Open(p)
  /\ UNCHANGED <<dirs, attested, claim, sessions, leftover, invocation>>

\* _claim_timing_attempt: the claim is created, or it is the reservation of an
\* earlier process for this root; then the marker; then the claim is started.
\* Any other claim raises, which _prepare_output_root has done before.
Reserve(p) ==
  IF Free(at[p])
  THEN /\ Goto(p, "reserve", "mark")
       /\ claim' = Reserved(at[p])
       /\ UNCHANGED <<dirs, files, ledger, sealed, attested, sessions, leftover, invocation>>
  ELSE Raise(p, "reserve") /\ UNCHANGED faults

Mark(p) ==
  /\ Goto(p, "mark", "claim")
  /\ Put(p, "marker")
  /\ UNCHANGED <<dirs, ledger, sealed, attested, claim, sessions, leftover, invocation>>

\* Mutant: the claim stays reserved while the devices are timed.
StartClaimLater(p) ==
  /\ Goto(p, "claim", "time")
  /\ UNCHANGED <<disk, sessions, leftover, invocation>>

StartClaim(p) ==
  /\ Goto(p, "claim", "time")
  /\ claim' = Started(at[p])
  /\ UNCHANGED <<dirs, files, ledger, sealed, attested, sessions, leftover, invocation>>

Time(p) ==
  /\ Goto(p, "time", "result")
  /\ sessions' = sessions + 1
  /\ UNCHANGED <<disk, leftover, invocation>>

WriteResult(p) ==
  /\ Goto(p, "result", "timed")
  /\ Put(p, "result")
  /\ UNCHANGED <<dirs, ledger, sealed, attested, claim, sessions, leftover, invocation>>

RecordTimed(p) ==
  /\ Goto(p, "timed", "validate")
  /\ Record(p, "TIMED")
  /\ Seal(p)
  /\ UNCHANGED <<dirs, files, attested, claim, sessions, leftover, invocation>>

\* _validate: exactly the files of a whole run, and a ledger that ends TIMED or
\* ACCEPTED, or an exception.
Validate(p) ==
  \/ /\ files[at[p]] = Complete
     /\ Goto(p, "validate", IF ledger[at[p]] = "TIMED" THEN "accept" ELSE "receipt")
     /\ UNCHANGED <<disk, sessions, leftover, invocation>>
  \/ files[at[p]] # Complete /\ Raise(p, "validate") /\ UNCHANGED faults

RecordAccepted(p) ==
  /\ Goto(p, "accept", "receipt")
  /\ Record(p, "ACCEPTED")
  /\ Seal(p)
  /\ UNCHANGED <<dirs, files, attested, claim, sessions, leftover, invocation>>

\* The hash in the receipt of a root is that of its ledger.
Attests(r) == r \in attested <=> r \in sealed

PublishReceipt(p) ==
  /\ Goto(p, "receipt", "final")
  /\ Put(p, "receipt")
  /\ attested' = IF at[p] \in sealed THEN attested \cup {at[p]} ELSE attested \ {at[p]}
  /\ UNCHANGED <<dirs, ledger, sealed, claim, sessions, leftover, invocation>>

Return(p) ==
  /\ files[at[p]] = Complete \cup {"receipt"} /\ Attests(at[p])
  /\ Goto(p, "final", "idle")
  /\ UNCHANGED <<disk, sessions, leftover, invocation>>

-----------------------------------------------------------------------------
(* Failures.                                                                *)

\* Mutant: every failure is recorded.
RecordFailureAlways(p) ==
  /\ Goto(p, "failure", IF ledger[at[p]] = "none" THEN "idle" ELSE "reject")
  /\ Put(p, "failure")
  /\ UNCHANGED <<dirs, ledger, sealed, attested, claim, sessions, leftover, invocation>>

\* _record_failure opens a ledger to look at its state, and leaves a run alone
\* that is TIMED or ACCEPTED: its ledger stays unsealed.
RecordFailure(p) ==
  /\ IF ledger[at[p]] # "none" THEN Open(p) ELSE UNCHANGED sealed
  /\ \/ /\ "identity" \in files[at[p]] /\ ledger[at[p]] \notin Timed
        /\ Goto(p, "failure", IF ledger[at[p]] = "none" THEN "idle" ELSE "reject")
        /\ Put(p, "failure")
     \/ /\ "identity" \notin files[at[p]] \/ ledger[at[p]] \in Timed
        /\ Goto(p, "failure", "idle")
        /\ UNCHANGED files
  /\ UNCHANGED <<dirs, ledger, attested, claim, sessions, leftover, invocation>>

Reject(p) ==
  /\ Goto(p, "reject", "idle")
  /\ Record(p, "REJECTED")
  /\ Seal(p)
  /\ UNCHANGED <<dirs, files, attested, claim, sessions, leftover, invocation>>

\* What each of these steps records in the ledger.
Recorded ==
  [evidence |-> "running", timed |-> "TIMED", accept |-> "ACCEPTED", reject |-> "REJECTED"]

\* A step raises before it has done anything.
Fail(p) ==
  /\ faults < MaxFaults
  /\ faults' = faults + 1
  /\ \E from \in Tried \cup {"prepare", "mkdir", "identity"} : Raise(p, from)

\* What a kill leaves of a step that was under way: nothing; a temporary file;
\* half a claim; a ledger that was opened, with or without what was to be
\* recorded in it, and with or without the files of its connection.
Interrupted(p) ==
  \/ UNCHANGED <<files, ledger, sealed, claim>>
  \/ /\ \/ pc[p] \in {"identity", "mark", "receipt"}
        \/ pc[p] = "failure" /\ ledger[at[p]] \notin Timed
     /\ Put(p, "temporary")
     /\ UNCHANGED <<ledger, sealed, claim>>
  \/ /\ pc[p] = "reserve" /\ claim = Unclaimed
     /\ claim' = Torn
     /\ UNCHANGED <<files, ledger, sealed>>
  \/ /\ pc[p] \in DOMAIN Recorded \/ (pc[p] = "failure" /\ ledger[at[p]] # "none")
     /\ Open(p)
     /\ Put(p, "sidecars") \/ UNCHANGED files
     /\ \/ UNCHANGED ledger
        \/ pc[p] \in DOMAIN Recorded /\ Record(p, Recorded[pc[p]])
     /\ UNCHANGED claim

Kill(p) ==
  /\ faults < MaxFaults
  /\ faults' = faults + 1
  /\ pc[p] # "idle"
  /\ pc' = [pc EXCEPT ![p] = "idle"]
  /\ Interrupted(p)
  /\ Abandon(p)
  /\ UNCHANGED <<dirs, attested, sessions, at, command>>

\* The operator moves a root away or deletes it.
Remove(r) ==
  /\ r \in dirs
  /\ \A p \in Procs : pc[p] = "idle"
  /\ dirs' = dirs \ {r}
  /\ files' = [files EXCEPT ![r] = {}]
  /\ ledger' = [ledger EXCEPT ![r] = "none"]
  /\ sealed' = sealed \ {r}
  /\ leftover' = leftover \ {r}
  /\ UNCHANGED <<attested, claim, sessions, pc, at, command, faults>>

Step(p) ==
  \/ Prepare(p) \/ Mkdir(p) \/ WriteIdentity(p) \/ WriteEvidence(p)
  \/ Reserve(p) \/ Mark(p) \/ StartClaim(p) \/ Time(p) \/ WriteResult(p) \/ RecordTimed(p)
  \/ Validate(p) \/ RecordAccepted(p) \/ PublishReceipt(p) \/ Return(p)
  \/ RecordFailure(p) \/ Reject(p)

Next ==
  \/ \E p \in Procs :
       \/ Step(p) \/ Fail(p) \/ Kill(p)
       \/ \E r \in Roots, c \in {"confirm", "finalize"} : Begin(p, r, c)
  \/ \E r \in Roots : Remove(r)

Spec == Init /\ [][Next]_vars

\* Commands run on, and the operator confirms every root again and again.
FairSpec ==
  /\ Spec
  /\ \A p \in Procs : WF_vars(Step(p))
  /\ \A r \in Roots : SF_vars(\E p \in Procs : Begin(p, r, "confirm"))

-----------------------------------------------------------------------------
(* Properties.                                                              *)

\* allow_retry is FALSE: however often the commands are killed and repeated,
\* and whatever roots they are given, the devices are timed once.
TimedAtMostOnce == sessions <= 1

\* A receipt attests the one timing session: the claim names its root, the
\* ledger is ACCEPTED and no failure is on record beside it.
ReceiptIsGenuine ==
  \A r \in Roots : "receipt" \in files[r] =>
    /\ ledger[r] = "ACCEPTED" /\ claim = Started(r) /\ sessions = 1
    /\ files[r] \ {"sidecars"} = Complete \cup {"receipt"}

\* A published receipt has the hash of the ledger beside it.
ReceiptAttestsLedger == \A r \in Roots : "receipt" \in files[r] => Attests(r)

\* No file of an interrupted attempt is part of a run that counts.
NothingIsReused == \A r \in Roots : ledger[r] \in Timed => r \notin leftover

\* A TIMED run gets its receipt when the commands are run again, unless a kill
\* left a file in its root that it may not contain, or the root is taken away.
TimedIsPublished ==
  \A r \in Roots :
    ledger[r] = "TIMED" ~>
      ({"receipt", "temporary", "sidecars"} \cap files[r] # {} \/ r \notin dirs)

=============================================================================
