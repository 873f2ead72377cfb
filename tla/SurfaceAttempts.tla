--------------------------- MODULE SurfaceAttempts ---------------------------
(***************************************************************************)
(* The chain of one-shot attempts by which a collective matmul surface is  *)
(* compiled, tested and timed: compile_surface, execute_surface_correctness *)
(* and execute_surface_calibration (the executors matmul_collective_       *)
(* surface_executor.py, ..._correctness_executor.py, ..._calibration_      *)
(* executor.py and their workers, in src/src/tpu_cake).                    *)
(*                                                                         *)
(* A phase has a key with one claim, which is permanent, and any number of *)
(* callers, each with an attempt and a new root directory of its own.      *)
(* compile and correctness claim before they make the root, and lock the   *)
(* attempt; calibration makes the root and verifies its parent first, and  *)
(* locks the key.  The devices are used by worker processes that the       *)
(* executor starts, and that go on when it is killed.  A later phase names *)
(* its parent in its protocol, and takes a copy of it into its own root.   *)
(* Of the files the model keeps what tells a finished attempt from others: *)
(* the copy of the parent, the ledger and its seal, the workers' results,  *)
(* the phase ledger, the manifest and failure.json.                        *)
(***************************************************************************)
EXTENDS RunStates, Naturals, Sequences, FiniteSets

CONSTANTS
  Procs,      \* processes that call the executors
  Attempts,   \* attempt ids
  Roots,      \* output directories, of any phase
  MaxKills,   \* bound: executors killed
  MaxFaults,  \* bound: steps of an executor or worker that raise
  MaxDamage,  \* bound: archived roots damaged
  NoRoot, NoCall, NoClaim, NoParent

Phase == {"compile", "correctness", "calibration"}
File  == {"absent", "torn", "whole"}
NoEvent == "no event"

Call   == [phase : Phase, attempt : Attempts, root : Roots]
Claim  == [attempt : Attempts, root : Roots]
Launch == [phase : Phase, attempt : Attempts, root : Roots, repetition : {1, 2}]
RootFiles ==
  [phase : Phase, attempt : Attempts, parent : [root : Roots, intact : BOOLEAN] \cup {NoParent},
   events : 0..7, sealed : BOOLEAN, started : 0..2, results : SUBSET {1, 2},
   phases : Seq([phase : Phase \cup {"calibration_sealed"}, artifact : Roots]),
   manifest : File, failure : BOOLEAN, damaged : BOOLEAN]

ASSUME AbsentAssumption ==
  /\ NoRoot \notin RootFiles /\ NoCall \notin Call /\ NoClaim \notin Claim
  /\ NoParent \notin Roots \cup [root : Roots, intact : BOOLEAN]

VARIABLES
  pc, call,   \* per process: its next step, and [phase, attempt, root]
  claims,     \* per phase: the file in the registry, naming an attempt and a root
  roots,      \* per root: NoRoot or the files in it
  protocol,   \* per later phase: the parent its contract names
  workers,    \* the worker processes that run
  kills, faults, damages,
  launches,   \* per phase: the workers started so far, in order
  unrecorded  \* the phases whose claim was held by a call that was killed, or that
              \* could make neither its root nor its failure.json

vars == <<pc, call, claims, roots, protocol, workers, kills, faults, damages, launches, unrecorded>>
still == <<protocol, kills, faults, damages>>

-----------------------------------------------------------------------------
(* What differs between the phases.                                         *)

Parent(ph) == IF ph = "correctness" THEN "compile" ELSE "correctness"

\* The repetitions a phase runs, each in a worker of its own.
Repetitions(ph) == IF ph = "compile" THEN {1, 2} ELSE {1}

\* The events of each phase's ledger; how many come before its workers.
Events(ph) ==
  CASE ph = "compile" -> <<CREATED, VERIFIED, LOWERED, COMPILED>>
    [] OTHER -> <<CREATED, VERIFIED, LOWERED, COMPILED, CORRECT, VALIDATED, ACCEPTED>>
Prepared(ph) == IF ph = "calibration" THEN 3 ELSE 2

\* _exclusive_attempt_lock and _exclusive_claim_lock.
Lock(c) == IF c.phase = "calibration" THEN <<c.phase>> ELSE <<c.phase, c.attempt>>

\* The phases of a surface: what record_surface_phase has put into the ledger.
PhaseEvent(name, r) == [phase |-> name, artifact |-> r]

\* What the independent verifier of a phase accepts.
Verifies(r) ==
  /\ roots[r] # NoRoot
  /\ LET d == roots[r] IN
     /\ d.manifest = "whole" /\ ~d.failure /\ ~d.damaged
     /\ d.events = Len(Events(d.phase)) /\ d.sealed
     /\ d.results = Repetitions(d.phase)
     /\ d.phase # "compile" => d.parent # NoParent

-----------------------------------------------------------------------------
Init ==
  /\ pc = [p \in Procs |-> "idle"]
  /\ call = [p \in Procs |-> NoCall]
  /\ claims = [ph \in Phase |-> NoClaim]
  /\ roots = [r \in Roots |-> NoRoot]
  /\ protocol = [ph \in Phase |-> NoParent]
  /\ workers = {}
  /\ kills = 0 /\ faults = 0 /\ damages = 0
  /\ launches = [ph \in Phase |-> <<>>]
  /\ unrecorded = {}

Goto(p, step) == pc' = [pc EXCEPT ![p] = step] /\ UNCHANGED call
Leave(p) == pc' = [pc EXCEPT ![p] = "idle"] /\ call' = [call EXCEPT ![p] = NoCall]
Set(r, d) == roots' = [roots EXCEPT ![r] = d]

\* p goes and writes nothing, which leaves its claim, if it holds it, unexplained.
LeaveUnrecorded(p) ==
  /\ Leave(p)
  /\ unrecorded' = unrecorded \cup
       {ph \in {call[p].phase} : claims[ph] = [attempt |-> call[p].attempt, root |-> call[p].root]}

\* Mutant: the parent is verified and copied before the try.
InTryLate(p) == pc[p] \in {"prepare", "launch", "work", "record", "manifest", "fill", "replay"}

\* The steps inside an executor's try.
InTry(p) ==
  \/ pc[p] \in {"verify parent", "copy parent", "prepare", "launch", "work",
                "record", "manifest", "fill", "replay"}
  \/ pc[p] = "claim" /\ call[p].phase = "calibration"

\* The executor raises.  Inside its try it writes failure.json.
Raise(p) ==
  /\ IF InTry(p) THEN Set(call[p].root, [roots[call[p].root] EXCEPT !.failure = TRUE])
                 ELSE UNCHANGED roots
  /\ Leave(p)

\* An executor is called: it takes its lock and finds its root absent.
Begin(p) ==
  /\ pc[p] = "idle"
  /\ \E ph \in Phase, a \in Attempts, r \in Roots :
       LET c == [phase |-> ph, attempt |-> a, root |-> r] IN
       /\ ph # "compile" => protocol[ph] # NoParent
       /\ \A q \in Procs : call[q] # NoCall => Lock(call[q]) # Lock(c)
       /\ roots[r] = NoRoot
       /\ call' = [call EXCEPT ![p] = c]
       /\ pc' = [pc EXCEPT ![p] = IF ph = "calibration" THEN "mkdir" ELSE "claim"]
  /\ UNCHANGED <<claims, roots, workers, launches, unrecorded, still>>

\* Mutant: the claim file is written without O_EXCL.
ClaimOverwrites(p) ==
  claims' = [claims EXCEPT ![call[p].phase] = [attempt |-> call[p].attempt, root |-> call[p].root]]

\* The claim is created exclusively, before anything is said in the root.
ClaimExclusively(p) ==
  /\ claims[call[p].phase] = NoClaim
  /\ claims' = [claims EXCEPT ![call[p].phase] = [attempt |-> call[p].attempt, root |-> call[p].root]]

ClaimAttempt(p) ==
  /\ pc[p] = "claim" /\ call[p].phase # "calibration"
  /\ ClaimExclusively(p)
  /\ Goto(p, "mkdir")
  /\ UNCHANGED <<roots, workers, launches, unrecorded, still>>

PermanentlyClaimed(p) ==
  /\ pc[p] = "claim" /\ call[p].phase # "calibration"
  /\ claims[call[p].phase] # NoClaim
  /\ Leave(p)
  /\ UNCHANGED <<claims, roots, workers, launches, unrecorded, still>>

\* Calibration claims inside its try, so that a refusal is on record.
ClaimCalibration(p) ==
  /\ pc[p] = "claim" /\ call[p].phase = "calibration"
  /\ ClaimExclusively(p)
  /\ Goto(p, "prepare")
  /\ UNCHANGED <<roots, workers, launches, unrecorded, still>>

CalibrationClaimed(p) ==
  /\ pc[p] = "claim" /\ call[p].phase = "calibration"
  /\ claims[call[p].phase] # NoClaim
  /\ Raise(p)
  /\ UNCHANGED <<claims, workers, launches, unrecorded, still>>

\* _mkdir_exclusive_durable, the last step before the try.
MakeRoot(p) ==
  /\ pc[p] = "mkdir"
  /\ LET r == call[p].root IN
     IF roots[r] = NoRoot
     THEN /\ Set(r, [phase |-> call[p].phase, attempt |-> call[p].attempt, parent |-> NoParent,
                     events |-> 0, sealed |-> FALSE, started |-> 0, results |-> {}, phases |-> <<>>,
                     manifest |-> "absent", failure |-> FALSE, damaged |-> FALSE])
          /\ Goto(p, CASE call[p].phase = "compile" -> "prepare"
                       [] call[p].phase = "correctness" -> "verify parent"
                       [] OTHER -> "copy parent")
          /\ UNCHANGED unrecorded
     ELSE LeaveUnrecorded(p) /\ UNCHANGED roots
  /\ UNCHANGED <<claims, workers, launches, still>>

\* _copy_parent_compile_snapshot verifies the archive ...
VerifyParent(p) ==
  /\ pc[p] = "verify parent"
  /\ IF Verifies(protocol[call[p].phase])
     THEN Goto(p, "copy parent") /\ UNCHANGED roots
     ELSE Raise(p)
  /\ UNCHANGED <<claims, workers, launches, unrecorded, still>>

Copied(p) == [root |-> protocol[call[p].phase], intact |-> Verifies(protocol[call[p].phase])]
AfterCopy(p) == IF call[p].phase = "correctness" THEN "prepare" ELSE "claim"

\* Mutant: the copy is not verified again.
CopyParentUnverified(p) ==
  /\ pc[p] = "copy parent"
  /\ Set(call[p].root, [roots[call[p].root] EXCEPT !.parent = Copied(p)])
  /\ Goto(p, AfterCopy(p))
  /\ UNCHANGED <<claims, workers, launches, unrecorded, still>>

\* ... and then the copy; _stage_and_verify_parent verifies its copy alone.
CopyParent(p) ==
  /\ pc[p] = "copy parent"
  /\ IF Copied(p).intact
     THEN /\ Set(call[p].root, [roots[call[p].root] EXCEPT !.parent = Copied(p)])
          /\ Goto(p, AfterCopy(p))
     ELSE Raise(p)
  /\ UNCHANGED <<claims, workers, launches, unrecorded, still>>

\* Identity, request and the first events of the ledger.
Prepare(p) ==
  /\ pc[p] = "prepare"
  /\ Set(call[p].root, [roots[call[p].root] EXCEPT !.events = Prepared(call[p].phase)])
  /\ Goto(p, "launch")
  /\ UNCHANGED <<claims, workers, launches, unrecorded, still>>

\* STARTED.json, and the next worker.
LaunchWorker(p) ==
  /\ pc[p] = "launch"
  /\ LET d == roots[call[p].root]
         w == [phase |-> d.phase, attempt |-> call[p].attempt, root |-> call[p].root,
               repetition |-> d.started + 1]
     IN /\ workers' = workers \cup {w}
        /\ launches' = [launches EXCEPT ![w.phase] = Append(@, w)]
        /\ Set(w.root, [d EXCEPT !.started = @ + 1])
  /\ Goto(p, "work")
  /\ UNCHANGED <<claims, unrecorded, still>>

\* A worker asks for the claim of its root, uses the devices and writes its
\* result, whether or not its executor is still there.
WorkerResult(w) ==
  /\ w \in workers
  /\ w.phase = "compile" \/ claims[w.phase] = [attempt |-> w.attempt, root |-> w.root]
  /\ Set(w.root, [roots[w.root] EXCEPT !.results = @ \cup {w.repetition}])
  /\ workers' = workers \ {w}
  /\ UNCHANGED <<pc, call, claims, protocol, kills, faults, damages, launches, unrecorded>>

WorkerFails(w) ==
  /\ w \in workers
  /\ \/ faults < MaxFaults /\ faults' = faults + 1
     \/ /\ w.phase # "compile" /\ claims[w.phase] # [attempt |-> w.attempt, root |-> w.root]
        /\ UNCHANGED faults
  /\ workers' = workers \ {w}
  /\ UNCHANGED <<pc, call, claims, roots, protocol, kills, damages, launches, unrecorded>>

AfterWork(d) == IF d.started < Cardinality(Repetitions(d.phase)) THEN "launch" ELSE "record"

\* Mutant: the exit status and the result of the worker are not looked at.
CollectUnchecked(p) ==
  /\ pc[p] = "work"
  /\ \A w \in workers : w.root # call[p].root
  /\ Goto(p, AfterWork(roots[call[p].root]))
  /\ UNCHANGED <<claims, roots, workers, launches, unrecorded, still>>

\* The worker has ended: its result must be there.
Collect(p) ==
  /\ pc[p] = "work"
  /\ \A w \in workers : w.root # call[p].root
  /\ LET d == roots[call[p].root] IN
     IF d.started \in d.results THEN Goto(p, AfterWork(d)) /\ UNCHANGED roots
     ELSE Raise(p)
  /\ UNCHANGED <<claims, workers, launches, unrecorded, still>>

\* The phase ledger is that of the parent, with this phase's events.
PhaseLedger(p) ==
  LET r == call[p].root IN
  CASE call[p].phase = "compile" -> <<>>
    [] call[p].phase = "correctness" ->
         <<PhaseEvent("compile", protocol["correctness"]), PhaseEvent("correctness", r)>>
    [] OTHER -> roots[roots[r].parent.root].phases
                  \o <<PhaseEvent("calibration", r), PhaseEvent("calibration_sealed", r)>>

\* The evidence, the phase ledger and the rest of the events.
Record(p) ==
  /\ pc[p] = "record"
  /\ LET d == roots[call[p].root] IN
     IF d.events < Len(Events(d.phase))
     THEN /\ Set(call[p].root, [d EXCEPT !.events = @ + 1, !.phases = PhaseLedger(p)])
          /\ Goto(p, "record")
     ELSE Set(call[p].root, [d EXCEPT !.sealed = TRUE]) /\ Goto(p, "manifest")
  /\ UNCHANGED <<claims, workers, launches, unrecorded, still>>

\* manifest.json is created, and written.
OpenManifest(p) ==
  /\ pc[p] = "manifest"
  /\ Set(call[p].root, [roots[call[p].root] EXCEPT !.manifest = "torn"])
  /\ Goto(p, "fill")
  /\ UNCHANGED <<claims, workers, launches, unrecorded, still>>

FillManifest(p) ==
  /\ pc[p] = "fill"
  /\ Set(call[p].root, [roots[call[p].root] EXCEPT !.manifest = "whole"])
  /\ Goto(p, "replay")
  /\ UNCHANGED <<claims, workers, launches, unrecorded, still>>

\* Correctness and calibration run the archived verifier on the root; compile
\* compares its files with the manifest.  What they refuse is a failure.
Replay(p) ==
  /\ pc[p] = "replay"
  /\ IF Verifies(call[p].root) THEN Leave(p) /\ UNCHANGED roots ELSE Raise(p)
  /\ UNCHANGED <<claims, workers, launches, unrecorded, still>>

\* The claim is written and the try not reached.
BeforeTry(p) == pc[p] = "mkdir" /\ call[p].phase # "calibration"

\* An operation of the executor raises.
Fault(p) ==
  /\ pc[p] \notin {"idle", "work"} /\ faults < MaxFaults
  /\ faults' = faults + 1
  /\ IF BeforeTry(p) THEN LeaveUnrecorded(p) /\ UNCHANGED roots
                     ELSE Raise(p) /\ UNCHANGED unrecorded
  /\ UNCHANGED <<claims, workers, launches, protocol, kills, damages>>

\* An operation of the try raises, and so does the handler before there is a
\* failure.json, as when the disk is full.
HandlerFault(p) ==
  /\ InTry(p) /\ faults < MaxFaults
  /\ \A w \in workers : pc[p] = "work" => w.root # call[p].root
  /\ faults' = faults + 1
  /\ LeaveUnrecorded(p)
  /\ UNCHANGED <<claims, roots, workers, launches, protocol, kills, damages>>

\* The executor is killed; its worker is not.
Kill(p) ==
  /\ pc[p] # "idle" /\ kills < MaxKills
  /\ kills' = kills + 1
  /\ LeaveUnrecorded(p)
  /\ UNCHANGED <<claims, roots, workers, launches, protocol, faults, damages>>

\* The operator commits the protocol of a later phase: it names a finished
\* attempt that no process is at.
CommitProtocol ==
  /\ \E ph \in {"correctness", "calibration"}, r \in Roots :
       /\ protocol[ph] = NoParent
       /\ Verifies(r) /\ roots[r].phase = Parent(ph)
       /\ \A q \in Procs : call[q] # NoCall => call[q].root # r
       /\ protocol' = [protocol EXCEPT ![ph] = r]
  /\ UNCHANGED <<pc, call, claims, roots, workers, kills, faults, damages, launches, unrecorded>>

\* A finished root is damaged where it is kept.
Damage ==
  /\ damages < MaxDamage
  /\ \E r \in Roots : Verifies(r) /\ Set(r, [roots[r] EXCEPT !.damaged = TRUE])
  /\ damages' = damages + 1
  /\ UNCHANGED <<pc, call, claims, protocol, workers, kills, faults, launches, unrecorded>>

\* The steps of a call after its first.
Step(p) ==
  \/ ClaimAttempt(p) \/ PermanentlyClaimed(p) \/ ClaimCalibration(p) \/ CalibrationClaimed(p)
  \/ MakeRoot(p) \/ VerifyParent(p) \/ CopyParent(p) \/ Prepare(p) \/ LaunchWorker(p) \/ Collect(p)
  \/ Record(p) \/ OpenManifest(p) \/ FillManifest(p) \/ Replay(p)

Next ==
  \/ \E p \in Procs : Begin(p) \/ Step(p) \/ Fault(p) \/ HandlerFault(p) \/ Kill(p)
  \/ \E w \in workers : WorkerResult(w) \/ WorkerFails(w)
  \/ CommitProtocol \/ Damage

Spec == Init /\ [][Next]_vars

-----------------------------------------------------------------------------
(* Properties.                                                              *)

TypeOK ==
  /\ call \in [Procs -> Call \cup {NoCall}]
  /\ \A p \in Procs : pc[p] = "idle" <=> call[p] = NoCall
  /\ claims \in [Phase -> Claim \cup {NoClaim}]
  /\ roots \in [Roots -> RootFiles \cup {NoRoot}]
  /\ protocol \in [Phase -> Roots \cup {NoParent}]
  /\ workers \subseteq Launch
  /\ launches \in [Phase -> Seq(Launch)]
  /\ kills \in 0..MaxKills /\ faults \in 0..MaxFaults /\ damages \in 0..MaxDamage
  /\ unrecorded \subseteq Phase

\* The devices work once for a key: all its workers belong to the attempt and
\* the root that the claim names, one for each repetition, in their order,
\* whoever else calls and whatever was killed.
OneAttemptPerKey ==
  \A ph \in Phase : \A i \in DOMAIN launches[ph] :
    /\ claims[ph] = [attempt |-> launches[ph][i].attempt, root |-> launches[ph][i].root]
    /\ launches[ph][i].repetition = i
    /\ i \in Repetitions(ph)

\* A later phase reaches the devices only with a copy of its parent that was
\* whole when it was taken; calibration does not even claim without one.
DevicesFollowParent ==
  /\ \A ph \in {"correctness", "calibration"} : \A i \in DOMAIN launches[ph] :
       roots[launches[ph][i].root].parent = [root |-> protocol[ph], intact |-> TRUE]
  /\ claims["calibration"] # NoClaim =>
       roots[claims["calibration"].root].parent = [root |-> protocol["calibration"], intact |-> TRUE]

\* A manifest without a failure beside it, whatever the executor came to: its
\* root is the one the claim names, the ledger is finished and sealed, all
\* workers answered, and the phase ledger goes back to the compile attempt.
ManifestIsGenuine ==
  \A r \in Roots : roots[r] # NoRoot =>
    LET d == roots[r]
        compile == <<PhaseEvent("compile", protocol["correctness"])>>
        tested  == Append(compile, PhaseEvent("correctness", protocol["calibration"])) IN
    d.manifest = "whole" /\ ~d.failure =>
      /\ claims[d.phase] = [attempt |-> d.attempt, root |-> r]
      /\ d.events = Len(Events(d.phase)) /\ d.sealed
      /\ d.results = Repetitions(d.phase)
      /\ d.phase = "correctness" => d.phases = Append(compile, PhaseEvent("correctness", r))
      /\ d.phase = "calibration" =>
           d.phases = tested \o <<PhaseEvent("calibration", r), PhaseEvent("calibration_sealed", r)>>

Recorded(ph) ==
  /\ claims[ph] # NoClaim
  /\ roots[claims[ph].root] # NoRoot
  /\ LET d == roots[claims[ph].root] IN d.failure \/ d.manifest = "whole"

\* A claim, which nobody can take back, has left a failure or a manifest in the
\* root it names when its executor is gone, unless the very call that held it was
\* killed, or failed to write both what it should and failure.json, or could not
\* make the root, as when a call with another key has just made it.
ClaimIsSettled ==
  \A ph \in Phase : claims[ph] # NoClaim =>
    \/ \E p \in Procs : call[p] = [phase |-> ph, attempt |-> claims[ph].attempt, root |-> claims[ph].root]
    \/ Recorded(ph)
    \/ ph \in unrecorded
=============================================================================
