-------------------------- MODULE ConfirmationProofs --------------------------
(***************************************************************************)
(* That the devices are timed at most once, that a receipt attests that    *)
(* one session, and that no interrupted attempt is reused: for any number  *)
(* of calls, output roots and faults.                                      *)
(***************************************************************************)
EXTENDS Confirmation, TLAPS

\* A root that is gone holds nothing; what is left of an attempt shows that
\* the root is owned.
RootsAreConsistent ==
  \A r \in Roots :
    /\ r \notin dirs => files[r] = {} /\ ledger[r] = "none"
    /\ r \in leftover => r \in dirs /\ "identity" \in files[r]

\* Timing has happened only under a started claim, and a TIMED ledger is in
\* the root the claim names.
ClaimCovers ==
  /\ sessions = 1 => claim.state = "started"
  /\ \A r \in Roots : ledger[r] \in Timed => claim = Started(r) /\ sessions = 1

\* The root of a call holds nothing of an earlier attempt.
Untimed(p) == ledger[at[p]] \notin Timed /\ at[p] \notin leftover

\* What a call knows at each step up to TIMED.
KnownBefore(p) ==
  /\ pc[p] \in {"mkdir", "identity", "evidence", "reserve"} =>
       \/ Free(at[p]) /\ Untimed(p)
       \/ pc[p] = "identity" /\ ledger[at[p]] \in Timed
  /\ pc[p] \in {"mark", "claim"} => claim = Reserved(at[p]) /\ Untimed(p)
  /\ pc[p] = "time" => claim = Started(at[p]) /\ sessions = 0 /\ Untimed(p)
  /\ pc[p] \in {"result", "timed"} => claim = Started(at[p]) /\ sessions = 1 /\ Untimed(p)
  /\ pc[p] \in BeforeTimed => "identity" \in files[at[p]]
  /\ pc[p] \in BeforeTimed \cup {"mkdir", "prepare", "identity", "reject"} =>
       "receipt" \notin files[at[p]]

\* And from TIMED to the receipt, or to the recorded failure.
KnownAfter(p) ==
  /\ pc[p] = "validate" => ledger[at[p]] \in Timed /\ "receipt" \notin files[at[p]]
  /\ pc[p] = "accept" => ledger[at[p]] = "TIMED" /\ files[at[p]] = Complete
  /\ pc[p] = "receipt" => ledger[at[p]] = "ACCEPTED" /\ files[at[p]] = Complete
  /\ pc[p] = "final" => "receipt" \in files[at[p]]
  /\ pc[p] = "failure" /\ ledger[at[p]] \notin Timed => "receipt" \notin files[at[p]]
  /\ pc[p] = "reject" => ledger[at[p]] \notin Timed
  /\ pc[p] \in Tried \cup {"identity", "failure", "reject"} => at[p] \in dirs

CallsKnow == \A p \in Procs : KnownBefore(p) /\ KnownAfter(p)

IInv ==
  /\ TypeOK /\ TimedAtMostOnce /\ ReceiptIsGenuine /\ NothingIsReused
  /\ RootsAreConsistent /\ ClaimCovers /\ CallsKnow

-----------------------------------------------------------------------------
\* The vocabulary of the actions.
USE DEF Goto, Put, Record, Open, Seal, Raise, Recorded, disk, invocation, Names, Complete, States,
        Steps, Tried, BeforeTimed, Claim, Unclaimed, Torn, Reserved, Started, Timed, Free, Untimed

\* Before the first call no root exists and nothing is claimed.
LEMMA InitIInv == Init => IInv
BY FaultsAssumption
   DEF Init, IInv, TypeOK, TimedAtMostOnce, ReceiptIsGenuine, NothingIsReused,
       RootsAreConsistent, ClaimCovers, CallsKnow, KnownBefore, KnownAfter

\* Types, and that one call runs at a time, are kept by every step.
LEMMA TypeStep == IInv /\ [Next]_vars => TypeOK'
<1> SUFFICES ASSUME IInv, [Next]_vars PROVE TypeOK'
  OBVIOUS
<1> USE DEF IInv, TypeOK
<1>1. ASSUME NEW p \in Procs, Step(p) PROVE TypeOK'
  BY <1>1
     DEF Abandon, Step,
         Prepare, PrepareFresh, PrepareArchive, PrepareResume, PrepareRefused, Mkdir,
         WriteIdentity, WriteEvidence, Reserve, Mark, StartClaim, Time, WriteResult, RecordTimed,
         Validate, RecordAccepted, PublishReceipt, Return, RecordFailure, Reject
<1>2. ASSUME NEW p \in Procs, Fail(p) \/ Kill(p) PROVE TypeOK'
  BY FaultsAssumption, <1>2 DEF Interrupted, Abandon, Fail, Kill
<1>3. ASSUME NEW p \in Procs, NEW r \in Roots, NEW c \in {"confirm", "finalize"}, Begin(p, r, c)
      PROVE  TypeOK'
  BY <1>3 DEF Begin
<1>4. ASSUME NEW r \in Roots, Remove(r) PROVE TypeOK'
  BY <1>4 DEF Remove
<1>5. CASE UNCHANGED vars
  BY <1>5 DEF vars
<1> QED
  BY <1>1, <1>2, <1>3, <1>4, <1>5 DEF Next

\* Only Time runs a session, and a call that is about to do so knows that none
\* has run.
LEMMA OnceStep == IInv /\ [Next]_vars => TimedAtMostOnce'
<1> SUFFICES ASSUME IInv, [Next]_vars PROVE TimedAtMostOnce'
  OBVIOUS
<1> USE DEF IInv, TypeOK, TimedAtMostOnce
<1>1. ASSUME NEW p \in Procs, Step(p) PROVE TimedAtMostOnce'
  BY <1>1
     DEF CallsKnow, KnownBefore, KnownAfter, Step,
         Prepare, PrepareFresh, PrepareArchive, PrepareResume, PrepareRefused, Mkdir,
         WriteIdentity, WriteEvidence, Reserve, Mark, StartClaim, Time, WriteResult, RecordTimed,
         Validate, RecordAccepted, PublishReceipt, Return, RecordFailure, Reject
<1>2. ASSUME NEW p \in Procs, Fail(p) \/ Kill(p) PROVE TimedAtMostOnce'
  BY <1>2 DEF Fail, Kill
<1>3. ASSUME NEW p \in Procs, NEW r \in Roots, NEW c \in {"confirm", "finalize"}, Begin(p, r, c)
      PROVE  TimedAtMostOnce'
  BY <1>3 DEF Begin
<1>4. ASSUME NEW r \in Roots, Remove(r) PROVE TimedAtMostOnce'
  BY <1>4 DEF Remove
<1>5. CASE UNCHANGED vars
  BY <1>5 DEF vars
<1> QED
  BY <1>1, <1>2, <1>3, <1>4, <1>5 DEF Next

\* A receipt is written on a complete, ACCEPTED root, and nothing but Remove
\* changes such a root.
LEMMA GenuineStep == IInv /\ [Next]_vars => ReceiptIsGenuine'
<1> SUFFICES ASSUME IInv, [Next]_vars PROVE ReceiptIsGenuine'
  OBVIOUS
<1> USE DEF IInv, TypeOK, ReceiptIsGenuine
<1>1. ASSUME NEW p \in Procs, Step(p) PROVE ReceiptIsGenuine'
  BY <1>1
     DEF CallsKnow, KnownBefore, KnownAfter, ClaimCovers, Step,
         Prepare, PrepareFresh, PrepareArchive, PrepareResume, PrepareRefused, Mkdir,
         WriteIdentity, WriteEvidence, Reserve, Mark, StartClaim, Time, WriteResult, RecordTimed,
         Validate, RecordAccepted, PublishReceipt, Return, RecordFailure, Reject
<1>2. ASSUME NEW p \in Procs, Fail(p) \/ Kill(p) PROVE ReceiptIsGenuine'
  BY <1>2 DEF CallsKnow, KnownBefore, KnownAfter, Interrupted, Fail, Kill
<1>3. ASSUME NEW p \in Procs, NEW r \in Roots, NEW c \in {"confirm", "finalize"}, Begin(p, r, c)
      PROVE  ReceiptIsGenuine'
  BY <1>3 DEF Begin
<1>4. ASSUME NEW r \in Roots, Remove(r) PROVE ReceiptIsGenuine'
  BY <1>4 DEF Remove
<1>5. CASE UNCHANGED vars
  BY <1>5 DEF vars
<1> QED
  BY <1>1, <1>2, <1>3, <1>4, <1>5 DEF Next

\* A ledger becomes TIMED only in a root that no process has abandoned.
LEMMA ReuseStep == IInv /\ [Next]_vars => NothingIsReused'
<1> SUFFICES ASSUME IInv, [Next]_vars PROVE NothingIsReused'
  OBVIOUS
<1> USE DEF IInv, TypeOK, NothingIsReused
<1>1. ASSUME NEW p \in Procs, Step(p) PROVE NothingIsReused'
  BY <1>1
     DEF CallsKnow, KnownBefore, KnownAfter, Abandon, Step,
         Prepare, PrepareFresh, PrepareArchive, PrepareResume, PrepareRefused, Mkdir,
         WriteIdentity, WriteEvidence, Reserve, Mark, StartClaim, Time, WriteResult, RecordTimed,
         Validate, RecordAccepted, PublishReceipt, Return, RecordFailure, Reject
<1>2. ASSUME NEW p \in Procs, Fail(p) \/ Kill(p) PROVE NothingIsReused'
  BY <1>2 DEF CallsKnow, KnownBefore, KnownAfter, Interrupted, Abandon, Fail, Kill
<1>3. ASSUME NEW p \in Procs, NEW r \in Roots, NEW c \in {"confirm", "finalize"}, Begin(p, r, c)
      PROVE  NothingIsReused'
  BY <1>3 DEF Begin
<1>4. ASSUME NEW r \in Roots, Remove(r) PROVE NothingIsReused'
  BY <1>4 DEF Remove
<1>5. CASE UNCHANGED vars
  BY <1>5 DEF vars
<1> QED
  BY <1>1, <1>2, <1>3, <1>4, <1>5 DEF Next

\* A root loses its files and its ledger with its directory.
LEMMA RootsStep == IInv /\ [Next]_vars => RootsAreConsistent'
<1> SUFFICES ASSUME IInv, [Next]_vars PROVE RootsAreConsistent'
  OBVIOUS
<1> USE DEF IInv, TypeOK, RootsAreConsistent
<1>1. ASSUME NEW p \in Procs, Step(p) PROVE RootsAreConsistent'
  BY <1>1
     DEF CallsKnow, KnownBefore, KnownAfter, Abandon, Step,
         Prepare, PrepareFresh, PrepareArchive, PrepareResume, PrepareRefused, Mkdir,
         WriteIdentity, WriteEvidence, Reserve, Mark, StartClaim, Time, WriteResult, RecordTimed,
         Validate, RecordAccepted, PublishReceipt, Return, RecordFailure, Reject
<1>2. ASSUME NEW p \in Procs, Fail(p) \/ Kill(p) PROVE RootsAreConsistent'
  BY <1>2 DEF CallsKnow, KnownBefore, KnownAfter, Interrupted, Abandon, Fail, Kill
<1>3. ASSUME NEW p \in Procs, NEW r \in Roots, NEW c \in {"confirm", "finalize"}, Begin(p, r, c)
      PROVE  RootsAreConsistent'
  BY <1>3 DEF Begin
<1>4. ASSUME NEW r \in Roots, Remove(r) PROVE RootsAreConsistent'
  BY <1>4 DEF Remove
<1>5. CASE UNCHANGED vars
  BY <1>5 DEF vars
<1> QED
  BY <1>1, <1>2, <1>3, <1>4, <1>5 DEF Next

\* A started claim is never changed, and only its holder reaches TIMED.
LEMMA ClaimStep == IInv /\ [Next]_vars => ClaimCovers'
<1> SUFFICES ASSUME IInv, [Next]_vars PROVE ClaimCovers'
  OBVIOUS
<1> USE DEF IInv, TypeOK, ClaimCovers
<1>1. ASSUME NEW p \in Procs, Step(p) PROVE ClaimCovers'
  BY RootAssumption, <1>1
     DEF CallsKnow, KnownBefore, KnownAfter, TimedAtMostOnce, Step,
         Prepare, PrepareFresh, PrepareArchive, PrepareResume, PrepareRefused, Mkdir,
         WriteIdentity, WriteEvidence, Reserve, Mark, StartClaim, Time, WriteResult, RecordTimed,
         Validate, RecordAccepted, PublishReceipt, Return, RecordFailure, Reject
<1>2. ASSUME NEW p \in Procs, Fail(p) \/ Kill(p) PROVE ClaimCovers'
  BY RootAssumption, <1>2 DEF CallsKnow, KnownBefore, KnownAfter, Interrupted, Fail, Kill
<1>3. ASSUME NEW p \in Procs, NEW r \in Roots, NEW c \in {"confirm", "finalize"}, Begin(p, r, c)
      PROVE  ClaimCovers'
  BY <1>3 DEF Begin
<1>4. ASSUME NEW r \in Roots, Remove(r) PROVE ClaimCovers'
  BY <1>4 DEF Remove
<1>5. CASE UNCHANGED vars
  BY <1>5 DEF vars
<1> QED
  BY <1>1, <1>2, <1>3, <1>4, <1>5 DEF Next

-----------------------------------------------------------------------------
(* What the calls know.                                                    *)

\* A step of one call leaves the others, which are idle, where they are.
LEMMA OthersAreIdle ==
  ASSUME IInv, NEW p \in Procs, Step(p) \/ Fail(p) \/ Kill(p)
  PROVE  \A q \in Procs \ {p} : pc'[q] = "idle" /\ at'[q] = at[q]
BY DEF IInv, TypeOK, Step, Fail, Kill,
       Prepare, PrepareFresh, PrepareArchive, PrepareResume, PrepareRefused, Mkdir,
       WriteIdentity, WriteEvidence, Reserve, Mark, StartClaim, Time, WriteResult, RecordTimed,
       Validate, RecordAccepted, PublishReceipt, Return, RecordFailure, Reject

\* Preparing the output root: a fresh or archived root is free for this call,
\* a resumed one is TIMED.
LEMMA PrepareKnows ==
  ASSUME IInv, NEW p \in Procs, Prepare(p) \/ Mkdir(p)
  PROVE  KnownBefore(p)' /\ KnownAfter(p)'
<1> USE DEF IInv, TypeOK, CallsKnow, KnownBefore, KnownAfter
<1>1. CASE PrepareFresh(p)
  BY <1>1 DEF PrepareFresh, Fresh, RootsAreConsistent
<1>2. CASE PrepareArchive(p)
  BY <1>2 DEF PrepareArchive, Unfinished
<1>3. CASE PrepareResume(p)
  <2>1. at[p] \in dirs /\ ledger[at[p]] \in Timed /\ "receipt" \notin files[at[p]]
    BY <1>3 DEF PrepareResume, Resumable, RootsAreConsistent
  <2> QED
    BY <1>3, <2>1 DEF PrepareResume
<1>4. CASE PrepareRefused(p)
  BY <1>4 DEF PrepareRefused
<1>5. CASE Mkdir(p)
  BY <1>5 DEF Mkdir
<1> QED
  BY <1>1, <1>2, <1>3, <1>4, <1>5 DEF Prepare

\* The attempt: from the claim of the run_id to its TIMED ledger.
LEMMA AttemptKnows ==
  ASSUME IInv, NEW p \in Procs,
         \/ WriteIdentity(p) \/ WriteEvidence(p) \/ Reserve(p) \/ Mark(p)
         \/ StartClaim(p) \/ Time(p) \/ WriteResult(p) \/ RecordTimed(p)
  PROVE  KnownBefore(p)' /\ KnownAfter(p)'
<1> USE DEF IInv, TypeOK, CallsKnow, KnownBefore, KnownAfter
<1>1. CASE WriteIdentity(p) \/ WriteEvidence(p)
  BY <1>1 DEF WriteIdentity, WriteEvidence
<1>2. CASE Reserve(p) \/ Mark(p)
  BY <1>2 DEF Reserve, Mark
<1>3. CASE StartClaim(p)
  <2>1. pc[p] = "claim" /\ claim = Reserved(at[p]) /\ Untimed(p)
    BY <1>3 DEF StartClaim
  <2>2. sessions = 0
    BY <2>1 DEF TimedAtMostOnce, ClaimCovers
  <2> QED
    BY <1>3, <2>1, <2>2 DEF StartClaim
<1>4. CASE Time(p) \/ WriteResult(p) \/ RecordTimed(p)
  BY <1>4 DEF Time, WriteResult, RecordTimed
<1> QED
  BY <1>1, <1>2, <1>3, <1>4

\* The publication of a TIMED run, and the record of a failure.
LEMMA EndKnows ==
  ASSUME IInv, NEW p \in Procs,
         \/ Validate(p) \/ RecordAccepted(p) \/ PublishReceipt(p) \/ Return(p)
         \/ RecordFailure(p) \/ Reject(p)
  PROVE  KnownBefore(p)' /\ KnownAfter(p)'
<1> USE DEF IInv, TypeOK, CallsKnow, KnownBefore, KnownAfter
<1>1. CASE Validate(p) \/ RecordAccepted(p) \/ PublishReceipt(p) \/ Return(p)
  BY <1>1 DEF Validate, RecordAccepted, PublishReceipt, Return
<1>2. CASE RecordFailure(p) \/ Reject(p)
  BY <1>2 DEF RecordFailure, Reject
<1> QED
  BY <1>1, <1>2

\* An exception or a kill: what has a receipt is ACCEPTED.
LEMMA FaultKnows ==
  ASSUME IInv, NEW p \in Procs, Fail(p) \/ Kill(p)
  PROVE  KnownBefore(p)' /\ KnownAfter(p)'
BY DEF IInv, TypeOK, CallsKnow, KnownBefore, KnownAfter, ReceiptIsGenuine, Fail, Kill

\* A call keeps what it knows, and the others are idle and know nothing.
LEMMA CallsStep == IInv /\ [Next]_vars => CallsKnow'
<1> SUFFICES ASSUME IInv, [Next]_vars PROVE CallsKnow'
  OBVIOUS
<1>1. ASSUME NEW p \in Procs, Step(p) \/ Fail(p) \/ Kill(p) PROVE CallsKnow'
  <2>1. KnownBefore(p)' /\ KnownAfter(p)'
    BY <1>1, PrepareKnows, AttemptKnows, EndKnows, FaultKnows DEF Step
  <2>2. ASSUME NEW q \in Procs \ {p} PROVE KnownBefore(q)' /\ KnownAfter(q)'
    BY <1>1, OthersAreIdle DEF KnownBefore, KnownAfter
  <2> QED
    BY <2>1, <2>2 DEF CallsKnow
<1>2. ASSUME NEW p \in Procs, NEW r \in Roots, NEW c \in {"confirm", "finalize"}, Begin(p, r, c)
      PROVE  CallsKnow'
  BY <1>2 DEF IInv, TypeOK, CallsKnow, KnownBefore, KnownAfter, Begin
<1>3. ASSUME NEW r \in Roots, Remove(r) PROVE CallsKnow'
  BY <1>3 DEF CallsKnow, KnownBefore, KnownAfter, Remove
<1>4. CASE UNCHANGED vars
  BY <1>4 DEF IInv, CallsKnow, KnownBefore, KnownAfter, vars
<1> QED
  BY <1>1, <1>2, <1>3, <1>4 DEF Next

-----------------------------------------------------------------------------
\* The invariant holds of every reachable state.
THEOREM Invariance == Spec => []IInv
<1>1. IInv /\ [Next]_vars => IInv'
  BY TypeStep, OnceStep, GenuineStep, ReuseStep, RootsStep, ClaimStep, CallsStep DEF IInv
<1> QED
  BY InitIInv, <1>1, PTL DEF Spec

\* At most one call of the run_id runs: its lock excludes the others from
\* _prepare_output_root, the claim and the ledger.
THEOREM TypeCorrect == Spec => []TypeOK
<1>1. IInv => TypeOK
  BY DEF IInv
<1> QED
  BY Invariance, <1>1, PTL

\* The devices are timed at most once for a run_id, whatever roots the
\* operator names and wherever the commands raise or are killed.
THEOREM TimedOnce == Spec => []TimedAtMostOnce
<1>1. IInv => TimedAtMostOnce
  BY DEF IInv
<1> QED
  BY Invariance, <1>1, PTL

\* A receipt stands in the root that holds the run's only timing session, with
\* its ledger ACCEPTED and nothing of a failure beside it.
THEOREM ReceiptsAreGenuine == Spec => []ReceiptIsGenuine
<1>1. IInv => ReceiptIsGenuine
  BY DEF IInv
<1> QED
  BY Invariance, <1>1, PTL

\* No run is TIMED on the files of an interrupted attempt.
THEOREM NothingReused == Spec => []NothingIsReused
<1>1. IInv => NothingIsReused
  BY DEF IInv
<1> QED
  BY Invariance, <1>1, PTL

=============================================================================
