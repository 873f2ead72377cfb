----------------------------- MODULE SurfaceProofs -----------------------------
(***************************************************************************)
(* That the devices work for one attempt of each key, behind a parent that *)
(* was whole, that a claim leaves a record, and that a manifest stands only *)
(* over a finished attempt: for any number of processes, attempts, root    *)
(* directories, kills, exceptions and damages.  The first three follow     *)
(* from IInv, on calls, claims and workers; the last from FInv, on what    *)
(* the files of a root say at each step of its call.                       *)
(***************************************************************************)
EXTENDS SurfaceAttempts, FiniteSetTheorems, TLAPS

Steps == {"idle", "claim", "mkdir", "verify parent", "copy parent", "prepare", "launch",
          "work", "record", "manifest", "fill", "replay"}

\* What of TypeOK the proofs use.
Types ==
  /\ pc \in [Procs -> Steps]
  /\ call \in [Procs -> Call \cup {NoCall}]
  /\ claims \in [Phase -> Claim \cup {NoClaim}]
  /\ roots \in [Roots -> RootFiles \cup {NoRoot}]
  /\ protocol \in [Phase -> Roots \cup {NoParent}]
  /\ workers \subseteq Launch
  /\ launches \in [Phase -> Seq(Launch)]

\* The parent, or the claim, that a phase names.
ParentOf(ph)  == [root |-> protocol[ph], intact |-> TRUE]
ClaimOf(c)    == [attempt |-> c.attempt, root |-> c.root]
InUse(r)      == roots[r] # NoRoot

\* A call that has got the claim of its phase.
Holds(p) ==
  \/ pc[p] \in {"prepare", "launch", "work", "record", "manifest", "fill", "replay"}
  \/ pc[p] \in {"mkdir", "verify parent", "copy parent"} /\ call[p].phase # "calibration"

\* What a call knows about its arguments and its claim ...
CallInv(p) ==
  /\ pc[p] = "idle" <=> call[p] = NoCall
  /\ pc[p] # "idle" /\ call[p].phase # "compile" => protocol[call[p].phase] # NoParent
  /\ pc[p] = "verify parent" => call[p].phase = "correctness"
  /\ pc[p] = "copy parent" => call[p].phase # "compile"
  /\ Holds(p) => claims[call[p].phase] = ClaimOf(call[p])
  /\ Holds(p) /\ pc[p] = "mkdir" => launches[call[p].phase] = <<>>

\* ... and, once it has made its root, about that.
RootInv(p) ==
  InTry(p) =>
    LET c == call[p]
        d == roots[c.root] IN
    /\ InUse(c.root) /\ d.phase = c.phase
    /\ pc[p] \in {"verify parent", "copy parent"} => d.parent = NoParent
    /\ pc[p] \notin {"verify parent", "copy parent"} /\ c.phase # "compile"
         => d.parent = ParentOf(c.phase)
    /\ pc[p] \in {"verify parent", "copy parent", "claim", "prepare"} => d.started = 0
    /\ pc[p] = "launch" => d.started < Cardinality(Repetitions(c.phase))
    /\ Holds(p) => Len(launches[c.phase]) = d.started

\* Calls with one lock, or one root they have made, are one call.
LocksApart ==
  \A p, q \in Procs :
    p # q /\ pc[p] # "idle" /\ pc[q] # "idle" => Lock(call[p]) # Lock(call[q])
RootsApart ==
  \A p, q \in Procs : p # q /\ InTry(p) /\ InTry(q) => call[p].root # call[q].root

\* The root of a worker that was started stays, with its parent.
LaunchInv(ph) ==
  \A i \in DOMAIN launches[ph] :
    LET r == launches[ph][i].root IN
    /\ InUse(r)
    /\ ph # "compile" => protocol[ph] # NoParent /\ roots[r].parent = ParentOf(ph)

\* So does the root of a calibration that has its claim, and a named parent.
ClaimInv(ph) ==
  /\ claims[ph] = NoClaim => launches[ph] = <<>>
  /\ ph = "calibration" /\ claims[ph] # NoClaim =>
       /\ InUse(claims[ph].root) /\ protocol[ph] # NoParent
       /\ roots[claims[ph].root].parent = ParentOf(ph)
  /\ protocol[ph] # NoParent => InUse(protocol[ph])

\* ClaimIsSettled, by the claim's own call or the files of its own phase.
Settled(ph) ==
  claims[ph] # NoClaim =>
    \/ \E p \in Procs : Holds(p) /\ call[p].phase = ph
    \/ Recorded(ph) /\ roots[claims[ph].root].phase = ph
    \/ ph \in unrecorded

WorkersInv == \A w \in workers : InUse(w.root)

IInv ==
  /\ Types
  /\ \A p \in Procs : CallInv(p) /\ RootInv(p)
  /\ LocksApart /\ RootsApart
  /\ \A ph \in Phase : LaunchInv(ph) /\ ClaimInv(ph) /\ Settled(ph)
  /\ WorkersInv
  /\ OneAttemptPerKey

-----------------------------------------------------------------------------
LEMMA CallType ==
  ASSUME Types, NEW p \in Procs, CallInv(p), pc[p] # "idle"
  PROVE  call[p] \in Call /\ call[p].phase \in Phase /\ call[p].attempt \in Attempts
           /\ call[p].root \in Roots
BY DEF Types, CallInv, Call

LEMMA RepetitionCounts ==
  /\ Cardinality(Repetitions("compile")) = 2
  /\ \A ph \in {"correctness", "calibration"} : Cardinality(Repetitions(ph)) = 1
<1>1. Cardinality({1}) = 1
  BY FS_Singleton
<1>2. IsFiniteSet({1})
  BY FS_Singleton
<1>3. Cardinality({1} \cup {2}) = 2
  <2>1. 2 \notin {1}
    OBVIOUS
  <2> QED BY <1>1, <1>2, <2>1, FS_AddElement
<1>4. {1, 2} = {1} \cup {2}
  OBVIOUS
<1> QED BY <1>1, <1>3, <1>4 DEF Repetitions

\* Two calls that hold claims are of different phases.
LEMMA HoldersApart ==
  ASSUME IInv, NEW p \in Procs, NEW q \in Procs, p # q, Holds(p), Holds(q)
  PROVE  call[p].phase # call[q].phase
<1>1. pc[p] # "idle" /\ pc[q] # "idle"
  BY DEF Holds
<1>2. call[p] \in Call /\ call[q] \in Call
  BY <1>1, CallType DEF IInv
<1> SUFFICES ASSUME call[p].phase = call[q].phase PROVE FALSE
  OBVIOUS
<1>3. ClaimOf(call[p]) = ClaimOf(call[q])
  BY DEF IInv, CallInv
<1>4. call[p].attempt = call[q].attempt
  BY <1>3 DEF ClaimOf
<1>5. Lock(call[p]) = Lock(call[q])
  BY <1>4 DEF Lock
<1> QED BY <1>1, <1>5 DEF IInv, LocksApart

\* What a step may do to a root that is not its own, and to its own.
Ended(r) == roots[r].failure \/ roots[r].manifest = "whole"
Same(r) ==
  InUse(r) => /\ InUse(r)' /\ roots'[r].phase = roots[r].phase
              /\ roots'[r].parent = roots[r].parent /\ roots'[r].started = roots[r].started
              /\ Ended(r) => Ended(r)'
Kept(r) ==
  InUse(r) => /\ InUse(r)' /\ roots'[r].phase = roots[r].phase
              /\ roots[r].parent # NoParent => roots'[r].parent = roots[r].parent

LEMMA RootType ==
  ASSUME Types, NEW r \in Roots, InUse(r)
  PROVE  roots[r] \in RootFiles
BY DEF Types, InUse

\* The parent that a phase names is not changed; it may be named.
Named(ph) ==
  \/ protocol'[ph] = protocol[ph]
  \/ protocol[ph] = NoParent /\ protocol'[ph] \in Roots /\ roots'[protocol'[ph]] # NoRoot

\* What is known of a call stays true when others change what is not its own.
LEMMA OtherCall ==
  ASSUME IInv, NEW q \in Procs, pc'[q] = pc[q], call'[q] = call[q],
         Holds(q) => /\ claims'[call[q].phase] = claims[call[q].phase]
                     /\ launches'[call[q].phase] = launches[call[q].phase],
         InTry(q) => InUse(call[q].root) /\ Same(call[q].root),
         \A ph \in Phase : Named(ph)
  PROVE  CallInv(q)' /\ RootInv(q)' /\ (InTry(q)' <=> InTry(q)) /\ (Holds(q)' <=> Holds(q))
<1>1. (InTry(q)' <=> InTry(q)) /\ (Holds(q)' <=> Holds(q))
  BY DEF InTry, Holds
<1>2. CallInv(q) /\ RootInv(q)
  BY DEF IInv
<1>3. CASE pc[q] = "idle"
  BY <1>1, <1>2, <1>3 DEF CallInv, RootInv, InTry, Holds
<1>4. CASE pc[q] # "idle"
  <2>1. call[q].phase \in Phase
    BY <1>2, <1>4, CallType DEF IInv
  <2>2. call[q].phase # "compile" => protocol'[call[q].phase] = protocol[call[q].phase]
    BY <1>2, <1>4, <2>1 DEF CallInv, Named
  <2>3. CallInv(q)'
    BY <1>1, <1>2, <1>4, <2>2 DEF CallInv, Holds
  <2>4. RootInv(q)'
    BY <1>1, <1>2, <1>4, <2>2 DEF RootInv, Holds, ParentOf, Same, InUse
  <2> QED BY <1>1, <2>3, <2>4
<1> QED BY <1>3, <1>4

\* What p does is nothing to the calls of the others: the root it writes is its
\* own, and the claim and the launches it changes are those of its phase.
LEMMA Frame ==
  ASSUME IInv, NEW p \in Procs, protocol' = protocol,
         \A q \in Procs \ {p} : pc'[q] = pc[q] /\ call'[q] = call[q],
         \A r \in Roots : Same(r) \/ (InTry(p) /\ r = call[p].root),
         \A ph \in Phase :
           \/ claims'[ph] = claims[ph] /\ launches'[ph] = launches[ph]
           \/ pc[p] # "idle" /\ call[p].phase = ph /\ (Holds(p) \/ claims[ph] = NoClaim)
  PROVE  \A q \in Procs \ {p} : /\ CallInv(q)' /\ RootInv(q)'
                               /\ (InTry(q)' <=> InTry(q))
                               /\ (Holds(q)' <=> Holds(q))
<1> SUFFICES ASSUME NEW q \in Procs, q # p
             PROVE  CallInv(q)' /\ RootInv(q)' /\ (InTry(q)' <=> InTry(q)) /\ (Holds(q)' <=> Holds(q))
  OBVIOUS
<1>1. pc'[q] = pc[q] /\ call'[q] = call[q]
  OBVIOUS
<1>2. CallInv(q) /\ RootInv(q) /\ \A ph \in Phase : Named(ph)
  BY DEF IInv, Named
<1>3. CASE pc[q] = "idle"
  BY <1>1, <1>2, <1>3, OtherCall DEF InTry, Holds
<1>4. CASE pc[q] # "idle"
  <2>1. call[q].phase \in Phase /\ call[q].root \in Roots
    BY <1>2, <1>4, CallType DEF IInv
  <2>2. Holds(q) => /\ claims'[call[q].phase] = claims[call[q].phase]
                    /\ launches'[call[q].phase] = launches[call[q].phase]
    <3> SUFFICES ASSUME Holds(q)
                 PROVE  /\ claims'[call[q].phase] = claims[call[q].phase]
                        /\ launches'[call[q].phase] = launches[call[q].phase]
      OBVIOUS
    <3>1. claims[call[q].phase] # NoClaim
      <4>1. ClaimOf(call[q]) \in Claim
        BY <1>2, <1>4, CallType DEF ClaimOf, Claim, IInv
      <4> QED BY <1>2, <4>1, AbsentAssumption DEF CallInv
    <3>2. Holds(p) => call[p].phase # call[q].phase
      BY HoldersApart
    <3> QED BY <2>1, <3>1, <3>2
  <2>3. InTry(q) => InUse(call[q].root) /\ Same(call[q].root)
    BY <1>2, <2>1 DEF RootInv, IInv, RootsApart
  <2> QED BY <1>1, <1>2, <2>2, <2>3, OtherCall
<1> QED BY <1>3, <1>4

\* What is known of the phases stays true when claims and launches stay.
LEMMA PhasesKept ==
  ASSUME IInv, claims' = claims, launches' = launches, \A ph \in Phase : Named(ph),
         workers' \subseteq workers, \A r \in Roots : Kept(r)
  PROVE  /\ \A ph \in Phase : LaunchInv(ph)' /\ ClaimInv(ph)'
         /\ WorkersInv' /\ OneAttemptPerKey'
<1>1. ASSUME NEW ph \in Phase, protocol[ph] # NoParent
      PROVE  ParentOf(ph) # NoParent /\ ParentOf(ph)' = ParentOf(ph)
  <2>1. protocol[ph] \in Roots
    BY <1>1 DEF IInv, Types
  <2>2. ParentOf(ph) \in [root : Roots, intact : BOOLEAN]
    BY <2>1 DEF ParentOf
  <2> QED BY <1>1, <2>2, AbsentAssumption DEF ParentOf, Named
<1>2. ASSUME NEW ph \in Phase PROVE LaunchInv(ph)'
  <2> SUFFICES ASSUME NEW i \in DOMAIN launches[ph]
               PROVE  LET r == launches[ph][i].root IN
                      /\ InUse(r)'
                      /\ ph # "compile" => protocol'[ph] # NoParent /\ roots'[r].parent = ParentOf(ph)'
    BY DEF LaunchInv
  <2>1. launches[ph][i] \in Launch
    BY DEF IInv, Types
  <2>2. launches[ph][i].root \in Roots
    BY <2>1 DEF Launch
  <2>3. LaunchInv(ph)
    BY DEF IInv
  <2> QED BY <1>1, <2>2, <2>3 DEF LaunchInv, Kept, Named
<1>3. ASSUME NEW ph \in Phase PROVE ClaimInv(ph)'
  <2>1. claims[ph] # NoClaim => claims[ph].root \in Roots
    BY DEF IInv, Types, Claim
  <2>2. protocol[ph] # NoParent => protocol[ph] \in Roots
    BY DEF IInv, Types
  <2>3. ClaimInv(ph)
    BY DEF IInv
  <2>4. Named(ph)
    OBVIOUS
  <2> QED BY <1>1, <2>1, <2>2, <2>3, <2>4, AbsentAssumption DEF ClaimInv, Kept, InUse, Named
<1>4. WorkersInv'
  BY DEF IInv, Types, WorkersInv, Kept, InUse, Launch
<1>5. OneAttemptPerKey'
  BY DEF IInv, OneAttemptPerKey
<1> QED BY <1>2, <1>3, <1>4, <1>5

\* A claim stays settled when its own call does not leave it, or records it.
LEMMA SettledKept ==
  ASSUME IInv, NEW p \in Procs, claims' = claims,
         \A q \in Procs \ {p} : pc'[q] = pc[q] /\ call'[q] = call[q],
         \A r \in Roots : Kept(r),
         \A r \in Roots : (InUse(r) /\ Ended(r) => Ended(r)') \/ (Holds(p) /\ InTry(p) /\ r = call[p].root),
         unrecorded \subseteq unrecorded',
         \A ph \in Phase : Holds(p) /\ call[p].phase = ph => Settled(ph)'
  PROVE  \A ph \in Phase : Settled(ph)'
<1> SUFFICES ASSUME NEW ph \in Phase, claims[ph] # NoClaim PROVE Settled(ph)'
  BY DEF Settled
<1>1. claims[ph].root \in Roots
  BY DEF IInv, Types, Claim
<1>2. CASE \E q \in Procs : Holds(q) /\ call[q].phase = ph
  <2> PICK q \in Procs : Holds(q) /\ call[q].phase = ph
    BY <1>2
  <2>1. CASE q = p
    BY <2>1
  <2>2. CASE q # p
    <3>1. Holds(q)' /\ call'[q].phase = ph
      BY <2>2 DEF Holds
    <3> QED BY <3>1 DEF Settled
  <2> QED BY <2>1, <2>2
<1>3. CASE Recorded(ph) /\ roots[claims[ph].root].phase = ph
  <2>1. InUse(claims[ph].root) /\ Ended(claims[ph].root)
    BY <1>3 DEF Recorded, InUse, Ended
  <2>2. CASE Holds(p) /\ InTry(p) /\ claims[ph].root = call[p].root
    <3>1. roots[call[p].root].phase = call[p].phase
      BY <2>2 DEF IInv, RootInv
    <3> QED BY <1>3, <2>2, <3>1
  <2>3. CASE ~(Holds(p) /\ InTry(p) /\ claims[ph].root = call[p].root)
    BY <1>1, <1>3, <2>1, <2>3 DEF Same, Kept, InUse, Ended, Recorded, Settled
  <2> QED BY <2>2, <2>3
<1>4. CASE ph \in unrecorded
  BY <1>4 DEF Settled
<1> QED BY <1>2, <1>3, <1>4 DEF IInv, Settled

\* p goes on to a step of its try, having changed at most its own root.
LEMMA Going ==
  ASSUME IInv, NEW p \in Procs, NEW s \in Steps \ {"idle"}, pc[p] # "idle", Goto(p, s),
         InTry(p) \/ ~InUse(call[p].root), InTry(p)', Holds(p) => Holds(p)',
         claims' = claims, launches' = launches, protocol' = protocol,
         workers' \subseteq workers, unrecorded' = unrecorded,
         \A r \in Roots : Same(r) \/ (InTry(p) /\ r = call[p].root), \A r \in Roots : Kept(r),
         Holds(p) \/ \A r \in Roots : Ended(r) /\ InUse(r) => Ended(r)',
         Types', CallInv(p)', RootInv(p)'
  PROVE  IInv'
<1>1. /\ pc'[p] = s /\ call'[p] = call[p]
      /\ \A q \in Procs \ {p} : pc'[q] = pc[q] /\ call'[q] = call[q]
  BY DEF Goto, IInv, Types
<1>2. \A q \in Procs \ {p} : CallInv(q)' /\ RootInv(q)' /\ (InTry(q)' <=> InTry(q)) /\ (Holds(q)' <=> Holds(q))
  <2>1. \A ph \in Phase : claims'[ph] = claims[ph] /\ launches'[ph] = launches[ph]
    OBVIOUS
  <2> QED BY <1>1, <2>1, Frame
<1>3. LocksApart'
  BY <1>1 DEF LocksApart, IInv, Lock
<1>4. RootsApart'
  <2>1. \A q \in Procs \ {p} : InTry(q) => call[q].root # call[p].root
    BY DEF IInv, RootsApart, RootInv
  <2> QED BY <1>1, <1>2, <2>1 DEF RootsApart, IInv
<1>5. /\ \A ph \in Phase : LaunchInv(ph)' /\ ClaimInv(ph)'
      /\ WorkersInv' /\ OneAttemptPerKey'
  BY PhasesKept DEF Named
<1>6. \A ph \in Phase : Settled(ph)'
  <2>1. \A ph \in Phase : Holds(p) /\ call[p].phase = ph => Settled(ph)'
    BY <1>1 DEF Settled
  <2>2. \A r \in Roots : (InUse(r) /\ Ended(r) => Ended(r)') \/ (Holds(p) /\ InTry(p) /\ r = call[p].root)
    BY DEF Same
  <2> QED BY <1>1, <2>1, <2>2, SettledKept
<1> QED BY <1>1, <1>2, <1>3, <1>4, <1>5, <1>6 DEF IInv

\* p leaves its call, and has settled its claim if it holds one.
LEMMA Leaving ==
  ASSUME IInv, NEW p \in Procs, pc[p] # "idle", Leave(p), Types',
         claims' = claims, launches' = launches, protocol' = protocol,
         workers' \subseteq workers, unrecorded \subseteq unrecorded',
         \A r \in Roots : Same(r),
         Holds(p) => \/ call[p].phase \in unrecorded'
                     \/ InTry(p) /\ \A r \in Roots : r = call[p].root => Ended(r)'
  PROVE  IInv'
<1>1. /\ pc'[p] = "idle" /\ call'[p] = NoCall
      /\ \A q \in Procs \ {p} : pc'[q] = pc[q] /\ call'[q] = call[q]
  BY DEF Leave, IInv, Types
<1>2. \A q \in Procs \ {p} : CallInv(q)' /\ RootInv(q)' /\ (InTry(q)' <=> InTry(q)) /\ (Holds(q)' <=> Holds(q))
  <2>1. \A ph \in Phase : claims'[ph] = claims[ph] /\ launches'[ph] = launches[ph]
    OBVIOUS
  <2> QED BY <1>1, <2>1, Frame
<1>3. CallInv(p)' /\ RootInv(p)' /\ ~InTry(p)'
  BY <1>1 DEF CallInv, RootInv, InTry, Holds
<1>4. LocksApart' /\ RootsApart'
  <2>1. LocksApart'
    BY <1>1 DEF LocksApart, IInv, Lock
  <2>2. RootsApart'
    BY <1>1, <1>2, <1>3 DEF RootsApart, IInv
  <2> QED BY <2>1, <2>2
<1>5. \A r \in Roots : Kept(r)
  BY DEF Same, Kept
<1>6. /\ \A ph \in Phase : LaunchInv(ph)' /\ ClaimInv(ph)'
      /\ WorkersInv' /\ OneAttemptPerKey'
  BY <1>5, PhasesKept DEF Named
<1>7. \A ph \in Phase : Settled(ph)'
  <2>1. ASSUME NEW ph \in Phase, Holds(p), call[p].phase = ph PROVE Settled(ph)'
    <3>1. CASE call[p].phase \in unrecorded'
      BY <2>1, <3>1 DEF Settled
    <3>2. CASE InTry(p) /\ \A r \in Roots : r = call[p].root => Ended(r)'
      <4>1. call[p].root \in Roots
        BY CallType DEF IInv
      <4>2. InUse(call[p].root) /\ roots[call[p].root].phase = ph
        BY <2>1, <3>2 DEF IInv, RootInv
      <4>3. claims[ph].root = call[p].root
        <5>1. CallInv(p)
          BY DEF IInv
        <5>2. claims[ph] = ClaimOf(call[p])
          BY <2>1, <5>1 DEF CallInv
        <5> QED BY <5>2 DEF ClaimOf
      <4> PICK r \in Roots : r = call[p].root
        BY <4>1
      <4>4. roots'[r] # NoRoot /\ roots'[r].phase = ph
        BY <4>2 DEF Same, InUse
      <4>5. roots'[r].failure \/ roots'[r].manifest = "whole"
        BY <3>2 DEF Ended
      <4>6. claims'[ph].root = r
        BY <4>3
      <4> QED BY <4>4, <4>5, <4>6 DEF Settled, Recorded
    <3> QED BY <2>1, <3>1, <3>2
  <2>2. \A r \in Roots : InUse(r) /\ Ended(r) => Ended(r)'
    BY DEF Same
  <2> QED BY <1>1, <1>5, <2>1, <2>2, SettledKept
<1> QED BY <1>1, <1>2, <1>3, <1>4, <1>6, <1>7 DEF IInv

-----------------------------------------------------------------------------
(* The files of a root.                                                     *)

LEMMA SetRoot ==
  ASSUME Types, NEW r \in Roots, NEW d \in RootFiles, Set(r, d)
  PROVE  /\ roots' \in [Roots -> RootFiles \cup {NoRoot}]
         /\ roots'[r] = d /\ roots'[r] # NoRoot
         /\ \A s \in Roots \ {r} : Same(s) /\ Kept(s) /\ (Ended(s) => Ended(s)')
BY AbsentAssumption DEF Types, Set, Same, Kept, InUse, Ended

LEMMA FailureKept ==
  ASSUME IInv, NEW p \in Procs, pc[p] # "idle", Raise(p)
  PROVE  /\ Leave(p)
         /\ pc' \in [Procs -> Steps] /\ call' \in [Procs -> Call \cup {NoCall}]
         /\ roots' \in [Roots -> RootFiles \cup {NoRoot}]
         /\ \A r \in Roots : Same(r)
         /\ InTry(p) => \A r \in Roots : r = call[p].root => Ended(r)'
<1>1. Leave(p) /\ pc' \in [Procs -> Steps] /\ call' \in [Procs -> Call \cup {NoCall}]
  BY DEF Raise, Leave, IInv, Types, Steps
<1>2. CASE ~InTry(p)
  BY <1>1, <1>2 DEF Raise, Same, InUse, Ended, IInv, Types
<1>3. CASE InTry(p)
  <2> DEFINE r == call[p].root
             d == [roots[r] EXCEPT !.failure = TRUE]
  <2>1. r \in Roots /\ InUse(r)
    BY <1>3, CallType DEF IInv, RootInv
  <2>2. roots[r] \in RootFiles
    BY <2>1, RootType DEF IInv
  <2>3. /\ d \in RootFiles /\ d.phase = roots[r].phase /\ d.parent = roots[r].parent
        /\ d.started = roots[r].started /\ d.failure
    BY <2>2 DEF RootFiles
  <2>4. Set(r, d)
    BY <1>3 DEF Raise
  <2>5. /\ roots' \in [Roots -> RootFiles \cup {NoRoot}]
        /\ roots'[r] = d /\ roots'[r] # NoRoot
        /\ \A s \in Roots \ {r} : Same(s)
    <3> HIDE DEF r, d
    <3> QED BY <2>1, <2>3, <2>4, SetRoot DEF IInv
  <2> QED BY <1>1, <2>1, <2>3, <2>5 DEF Same, InUse, Ended
<1> QED BY <1>2, <1>3

-----------------------------------------------------------------------------
LEMMA InitStep == Init => IInv
<1> SUFFICES ASSUME Init PROVE IInv
  OBVIOUS
<1>1. Types
  BY DEF Init, Types, Steps
<1>2. \A p \in Procs : CallInv(p) /\ RootInv(p)
  BY DEF Init, CallInv, RootInv, Holds, InTry
<1>3. LocksApart /\ RootsApart
  BY DEF Init, LocksApart, RootsApart, InTry
<1>4. \A ph \in Phase : LaunchInv(ph) /\ ClaimInv(ph) /\ Settled(ph)
  BY DEF Init, LaunchInv, ClaimInv, Settled
<1>5. WorkersInv /\ OneAttemptPerKey
  BY DEF Init, WorkersInv, OneAttemptPerKey
<1> QED BY <1>1, <1>2, <1>3, <1>4, <1>5 DEF IInv

-----------------------------------------------------------------------------
(* A call leaves.                                                           *)

\* All the ways in which p leaves without changing the claims or the launches.
LEMMA LeaveStep ==
  ASSUME IInv, NEW p \in Procs, pc[p] # "idle",
         claims' = claims, launches' = launches, protocol' = protocol, workers' = workers,
         \/ Raise(p) \/ (Leave(p) /\ UNCHANGED roots),
         unrecorded \subseteq unrecorded',
         Holds(p) => \/ call[p].phase \in unrecorded'
                     \/ Raise(p) /\ InTry(p)
                     \/ UNCHANGED roots /\ InTry(p) /\ roots[call[p].root].manifest = "whole"
  PROVE  IInv'
<1>1. CASE Raise(p)
  <2>1. /\ Leave(p) /\ \A r \in Roots : Same(r)
        /\ pc' \in [Procs -> Steps] /\ call' \in [Procs -> Call \cup {NoCall}]
        /\ roots' \in [Roots -> RootFiles \cup {NoRoot}]
        /\ InTry(p) => \A r \in Roots : r = call[p].root => Ended(r)'
    BY <1>1, FailureKept
  <2>2. Types'
    BY <2>1 DEF IInv, Types
  <2>3. InTry(p) /\ UNCHANGED roots /\ roots[call[p].root].manifest = "whole"
          => \A r \in Roots : r = call[p].root => Ended(r)'
    BY DEF Ended
  <2> QED BY <2>1, <2>2, <2>3, Leaving
<1>2. CASE Leave(p) /\ UNCHANGED roots /\ ~Raise(p)
  <2>1. \A r \in Roots : Same(r)
    BY <1>2 DEF Same, InUse, Ended
  <2>2. Types'
    BY <1>2 DEF IInv, Types, Leave, Steps
  <2>3. Holds(p) => \/ call[p].phase \in unrecorded'
                    \/ InTry(p) /\ \A r \in Roots : r = call[p].root => Ended(r)'
    BY <1>2 DEF Ended
  <2> QED BY <1>2, <2>1, <2>2, <2>3, Leaving
<1> QED BY <1>1, <1>2

\* p is killed, or can write neither its root nor its failure.
LEMMA UnrecordedStep ==
  ASSUME IInv, NEW p \in Procs, pc[p] # "idle", LeaveUnrecorded(p),
         UNCHANGED <<claims, roots, workers, launches, protocol>>
  PROVE  IInv'
<1>1. Leave(p) /\ unrecorded \subseteq unrecorded'
  BY DEF LeaveUnrecorded
<1>2. ASSUME Holds(p) PROVE call[p].phase \in unrecorded'
  <2>1. claims[call[p].phase] = [attempt |-> call[p].attempt, root |-> call[p].root]
    BY <1>2 DEF IInv, CallInv, ClaimOf
  <2> QED BY <2>1 DEF LeaveUnrecorded
<1> QED BY <1>1, <1>2, LeaveStep

-----------------------------------------------------------------------------
(* A call goes on.                                                          *)

\* p writes files of its root that are not its parent or its workers.
LEMMA OwnFiles ==
  ASSUME IInv, NEW p \in Procs, NEW s \in {"launch", "record", "manifest", "fill", "replay"},
         pc[p] \in {"prepare", "launch", "work", "record", "manifest", "fill", "replay"},
         NEW d \in RootFiles, d.phase = roots[call[p].root].phase,
         d.parent = roots[call[p].root].parent, d.started = roots[call[p].root].started,
         Set(call[p].root, d), Goto(p, s),
         s = "launch" => d.started < Cardinality(Repetitions(call[p].phase)),
         claims' = claims, launches' = launches, protocol' = protocol, workers' = workers,
         unrecorded' = unrecorded
  PROVE  IInv'
<1> DEFINE r == call[p].root
<1>1. InTry(p) /\ Holds(p) /\ pc[p] # "idle"
  BY DEF InTry, Holds
<1>2. pc'[p] = s /\ call' = call
  BY DEF Goto, IInv, Types
<1>3. r \in Roots /\ InUse(r) /\ CallInv(p) /\ RootInv(p)
  BY <1>1, CallType DEF IInv, RootInv
<1>4. /\ roots' \in [Roots -> RootFiles \cup {NoRoot}]
      /\ roots'[r] = d /\ roots'[r] # NoRoot
      /\ \A t \in Roots \ {r} : Same(t) /\ Kept(t)
  <2> HIDE DEF r
  <2> QED BY <1>3, SetRoot DEF IInv, r
<1>5. \A t \in Roots : Kept(t)
  BY <1>3, <1>4 DEF Kept, InUse
<1>6. Types'
  BY <1>2, <1>4 DEF IInv, Types, Goto, Steps
<1>7. InTry(p)' /\ Holds(p)'
  BY <1>2 DEF InTry, Holds
<1>8. CallInv(p)'
  BY <1>1, <1>2, <1>3 DEF CallInv, ClaimOf
<1>9. RootInv(p)'
  BY <1>1, <1>2, <1>3, <1>4 DEF RootInv, InUse, ParentOf
<1>10. s \in Steps \ {"idle"}
  BY DEF Steps
<1>11. \A t \in Roots : Same(t) \/ (InTry(p) /\ t = call[p].root)
  BY <1>1, <1>4
<1> QED BY <1>1, <1>5, <1>6, <1>7, <1>8, <1>9, <1>10, <1>11, Going

LEMMA MakeRootStep ==
  ASSUME IInv, NEW p \in Procs, MakeRoot(p)
  PROVE  IInv'
<1> DEFINE c == call[p]
           r == c.root
           new == [phase |-> c.phase, attempt |-> c.attempt, parent |-> NoParent,
                   events |-> 0, sealed |-> FALSE, started |-> 0, results |-> {}, phases |-> <<>>,
                   manifest |-> "absent", failure |-> FALSE, damaged |-> FALSE]
           s == CASE c.phase = "compile" -> "prepare"
                  [] c.phase = "correctness" -> "verify parent"
                  [] OTHER -> "copy parent"
<1>1. /\ pc[p] = "mkdir" /\ CallInv(p)
      /\ c.phase \in Phase /\ c.attempt \in Attempts /\ r \in Roots
  <2>1. pc[p] = "mkdir" /\ CallInv(p)
    BY DEF MakeRoot, IInv
  <2> QED BY <2>1, CallType DEF IInv
<1>2. CASE roots[r] = NoRoot
  <2>1. Set(r, new) /\ Goto(p, s) /\ UNCHANGED <<claims, workers, launches, unrecorded, protocol>>
    BY <1>2 DEF MakeRoot, still
  <2>2. new \in RootFiles
    BY <1>1 DEF RootFiles, File
  <2>3. /\ roots' \in [Roots -> RootFiles \cup {NoRoot}]
        /\ roots'[r] = new /\ roots'[r] # NoRoot
        /\ \A t \in Roots \ {r} : Same(t) /\ Kept(t) /\ (Ended(t) => Ended(t)')
    <3> HIDE DEF r, new
    <3> QED BY <1>1, <2>1, <2>2, SetRoot DEF IInv
  <2>4. \A t \in Roots : Kept(t) /\ Same(t)
    BY <1>2, <2>3 DEF Kept, Same, InUse
  <2>5. /\ pc'[p] = s /\ call' = call /\ s \in Steps \ {"idle"} /\ ~InUse(r) /\ ~InTry(p)
        /\ s \in {"prepare", "verify parent", "copy parent"}
        /\ s = "prepare" <=> c.phase = "compile"
        /\ s = "verify parent" <=> c.phase = "correctness"
    BY <1>1, <1>2, <2>1 DEF Goto, IInv, Types, Steps, InTry, InUse, Phase
  <2> HIDE DEF s
  <2>6. Types'
    BY <2>1, <2>3, <2>5 DEF IInv, Types, Goto
  <2>7. InTry(p)' /\ (Holds(p) <=> Holds(p)')
    BY <1>1, <2>5 DEF InTry, Holds, Phase
  <2>8. CallInv(p)'
    BY <1>1, <2>1, <2>5, <2>7 DEF CallInv, ClaimOf
  <2>9. RootInv(p)'
    <3>1. Holds(p) => Len(launches[c.phase]) = 0
      BY <1>1 DEF CallInv
    <3>2. /\ call'[p] = c /\ InUse(r)' /\ roots'[r].phase = c.phase
          /\ roots'[r].parent = NoParent /\ roots'[r].started = 0
      <4>1. new.phase = c.phase /\ new.parent = NoParent /\ new.started = 0
        OBVIOUS
      <4>2. call'[p] = c /\ InUse(r)'
        BY <2>3, <2>5 DEF InUse
      <4> HIDE DEF new, r
      <4> QED BY <2>3, <4>1, <4>2
    <3>3. pc'[p] \in {"prepare", "verify parent", "copy parent"}
          /\ (pc'[p] \notin {"verify parent", "copy parent"} => c.phase = "compile")
      BY <2>5
    <3> HIDE DEF new
    <3> QED BY <2>1, <2>7, <3>1, <3>2, <3>3 DEF RootInv
  <2>10. \A t \in Roots : Ended(t) /\ InUse(t) => Ended(t)'
    BY <2>4 DEF Same
  <2> QED BY <1>1, <2>1, <2>4, <2>5, <2>6, <2>7, <2>8, <2>9, <2>10, Going
<1>3. CASE roots[r] # NoRoot
  <2>1. LeaveUnrecorded(p) /\ UNCHANGED <<roots, claims, workers, launches, protocol>>
    BY <1>3 DEF MakeRoot, still
  <2> QED BY <1>1, <2>1, UnrecordedStep
<1> QED BY <1>2, <1>3

LEMMA CopyParentStep ==
  ASSUME IInv, NEW p \in Procs, CopyParent(p)
  PROVE  IInv'
<1> DEFINE c == call[p]
           r == c.root
           d == [roots[r] EXCEPT !.parent = Copied(p)]
           s == AfterCopy(p)
<1>1. /\ pc[p] = "copy parent" /\ CallInv(p) /\ RootInv(p) /\ InTry(p)
      /\ c.phase \in Phase /\ r \in Roots
  <2>1. pc[p] = "copy parent" /\ CallInv(p) /\ RootInv(p)
    BY DEF CopyParent, IInv
  <2> QED BY <2>1, CallType DEF IInv, InTry
<1>2. UNCHANGED <<claims, workers, launches, unrecorded, protocol>>
  BY DEF CopyParent, still
<1>3. CASE Copied(p).intact
  <2>1. Set(r, d) /\ Goto(p, s)
    BY <1>3 DEF CopyParent
  <2>2. Copied(p) = ParentOf(c.phase) /\ protocol[c.phase] \in Roots
    <3>1. protocol[c.phase] # NoParent /\ protocol[c.phase] \in Roots
      BY <1>1 DEF CallInv, IInv, Types
    <3>2. Verifies(protocol[c.phase]) = TRUE
      BY <1>3 DEF Copied, Verifies
    <3> QED BY <3>1, <3>2 DEF Copied, ParentOf
  <2>3. roots[r] \in RootFiles /\ roots[r].parent = NoParent
    BY <1>1, RootType DEF RootInv, IInv
  <2>4. /\ d \in RootFiles /\ d.phase = roots[r].phase /\ d.parent = ParentOf(c.phase)
        /\ d.started = roots[r].started /\ d.failure = roots[r].failure
        /\ d.manifest = roots[r].manifest
    <3>1. Copied(p) \in [root : Roots, intact : BOOLEAN]
      BY <2>2 DEF ParentOf
    <3> QED BY <2>2, <2>3, <3>1 DEF RootFiles
  <2>5. /\ roots' \in [Roots -> RootFiles \cup {NoRoot}]
        /\ roots'[r] = d /\ roots'[r] # NoRoot
        /\ \A t \in Roots \ {r} : Same(t) /\ Kept(t) /\ (Ended(t) => Ended(t)')
    <3> HIDE DEF r, d
    <3> QED BY <1>1, <2>1, <2>4, SetRoot DEF IInv
  <2>6. \A t \in Roots : Kept(t)
    BY <2>3, <2>4, <2>5 DEF Kept, InUse
  <2>7. \A t \in Roots : Ended(t) => Ended(t)'
    BY <2>4, <2>5 DEF Ended
  <2>8. /\ pc'[p] = s /\ call' = call /\ s \in Steps \ {"idle"}
        /\ s = "prepare" <=> c.phase = "correctness"
        /\ s = "claim" <=> c.phase = "calibration"
    BY <1>1, <2>1 DEF Goto, IInv, Types, Steps, AfterCopy, CallInv, Phase
  <2> HIDE DEF s
  <2>9. c.phase \in {"correctness", "calibration"}
    BY <1>1 DEF CallInv, Phase
  <2>10. Types'
    BY <1>2, <2>1, <2>5, <2>8 DEF IInv, Types, Goto
  <2>11. InTry(p)' /\ (Holds(p) <=> Holds(p)')
    BY <1>1, <2>8, <2>9 DEF InTry, Holds
  <2>12. CallInv(p)'
    BY <1>1, <1>2, <2>8, <2>9, <2>11 DEF CallInv, ClaimOf
  <2> HIDE DEF d
  <2>13. RootInv(p)'
    <3>1. pc'[p] \in {"prepare", "claim"}
      BY <2>8, <2>9
    <3>2. roots[r].started = 0 /\ (Holds(p) => Len(launches[c.phase]) = 0)
      BY <1>1 DEF RootInv
    <3>3. /\ call'[p] = c /\ InUse(r)' /\ roots'[r].phase = c.phase
          /\ roots'[r].parent = ParentOf(c.phase)' /\ roots'[r].started = 0
      BY <1>1, <1>2, <2>4, <2>5, <2>8, <3>2 DEF RootInv, InUse, ParentOf
    <3> QED BY <1>2, <2>11, <3>1, <3>2, <3>3 DEF RootInv
  <2> QED BY <1>1, <1>2, <2>1, <2>5, <2>6, <2>7, <2>8, <2>10, <2>11, <2>12, <2>13, Going
<1>4. CASE ~Copied(p).intact
  <2>1. Raise(p)
    BY <1>4 DEF CopyParent
  <2> QED BY <1>1, <1>2, <2>1, LeaveStep
<1> QED BY <1>3, <1>4

\* p gets the claim of its phase, in its try or before it.
LEMMA ClaimStep ==
  ASSUME IInv, NEW p \in Procs, ClaimAttempt(p) \/ ClaimCalibration(p)
  PROVE  IInv'
<1> DEFINE c == call[p]
           s == IF c.phase = "calibration" THEN "prepare" ELSE "mkdir"
<1>1. /\ pc[p] = "claim" /\ claims[c.phase] = NoClaim
      /\ claims' = [claims EXCEPT ![c.phase] = ClaimOf(c)]
      /\ Goto(p, s)
      /\ UNCHANGED <<roots, workers, launches, unrecorded, protocol>>
  BY DEF ClaimAttempt, ClaimCalibration, ClaimExclusively, still, ClaimOf
<1>2. /\ CallInv(p) /\ RootInv(p)
      /\ c.phase \in Phase /\ c.root \in Roots /\ ClaimOf(c) \in Claim
  <2>1. CallInv(p) /\ RootInv(p)
    BY DEF IInv
  <2>2. c \in Call
    BY <1>1, <2>1, CallType DEF IInv
  <2> QED BY <2>1, <2>2 DEF Call, Claim, ClaimOf
<1>3. /\ pc'[p] = s /\ call' = call /\ s \in Steps
      /\ \A q \in Procs \ {p} : pc'[q] = pc[q]
  BY <1>1 DEF Goto, IInv, Types, Steps
<1>4. /\ claims'[c.phase] = ClaimOf(c) /\ ClaimOf(c) # NoClaim
      /\ \A ph \in Phase \ {c.phase} : claims'[ph] = claims[ph]
  BY <1>1, <1>2, AbsentAssumption DEF IInv, Types
<1>5. ~Holds(p) /\ Holds(p)' /\ (InTry(p) <=> InTry(p)')
  BY <1>1, <1>3 DEF Holds, InTry
<1>6. \A q \in Procs \ {p} : CallInv(q)' /\ RootInv(q)' /\ (InTry(q)' <=> InTry(q)) /\ (Holds(q)' <=> Holds(q))
  <2>1. \A r \in Roots : Same(r)
    BY <1>1 DEF Same, InUse, Ended
  <2>2. \A ph \in Phase : \/ claims'[ph] = claims[ph] /\ launches'[ph] = launches[ph]
                          \/ pc[p] # "idle" /\ call[p].phase = ph /\ (Holds(p) \/ claims[ph] = NoClaim)
    BY <1>1, <1>4
  <2> QED BY <1>1, <1>3, <2>1, <2>2, Frame
<1>7. launches[c.phase] = <<>>
  BY <1>1, <1>2 DEF IInv, ClaimInv
<1>8. CallInv(p)'
  <2>1. pc'[p] \in {"prepare", "mkdir"}
    BY <1>3
  <2> QED BY <1>1, <1>2, <1>3, <1>4, <1>7, <2>1 DEF CallInv, ClaimOf
<1>9. RootInv(p)'
  <2>1. CASE c.phase = "calibration"
    <3>1. pc'[p] = "prepare" /\ InTry(p)
      BY <1>1, <1>3, <2>1 DEF InTry
    <3> QED BY <1>1, <1>2, <1>3, <1>7, <2>1, <3>1 DEF RootInv, InUse, ParentOf
  <2>2. CASE c.phase # "calibration"
    BY <1>1, <1>5, <2>2 DEF RootInv, InTry
  <2> QED BY <2>1, <2>2
<1>10. Types'
  BY <1>1, <1>2, <1>3 DEF IInv, Types, Goto
<1>11. LocksApart' /\ RootsApart'
  <2>1. LocksApart'
    BY <1>1, <1>3 DEF LocksApart, IInv, Lock
  <2>2. RootsApart'
    BY <1>3, <1>5, <1>6 DEF RootsApart, IInv
  <2> QED BY <2>1, <2>2
<1>12. ASSUME NEW ph \in Phase PROVE LaunchInv(ph)' /\ ClaimInv(ph)' /\ Settled(ph)'
  <2>1. LaunchInv(ph)'
    BY <1>1 DEF IInv, LaunchInv, InUse, ParentOf
  <2>2. CASE ph = c.phase
    <3>1. ph = "calibration" =>
            InUse(c.root) /\ protocol[ph] # NoParent /\ roots[c.root].parent = ParentOf(ph)
      BY <1>1, <1>2, <2>2 DEF RootInv, CallInv, InTry
    <3>2. ClaimOf(c).root = c.root
      BY DEF ClaimOf
    <3>3. protocol[ph] # NoParent => InUse(protocol[ph])
      BY DEF IInv, ClaimInv
    <3>4. ClaimInv(ph)'
      BY <1>1, <1>4, <2>2, <3>1, <3>2, <3>3 DEF ClaimInv, InUse, ParentOf
    <3>5. Settled(ph)'
      BY <1>3, <1>5, <2>2 DEF Settled
    <3> QED BY <2>1, <3>4, <3>5
  <2>3. CASE ph # c.phase
    <3>1. ClaimInv(ph)'
      BY <1>1, <1>4, <2>3 DEF IInv, ClaimInv, InUse, ParentOf
    <3>2. Settled(ph) /\ claims'[ph] = claims[ph]
      BY <1>4, <2>3 DEF IInv
    <3>3. Settled(ph)'
      BY <1>1, <1>3, <1>5, <1>6, <3>2 DEF Settled, Recorded
    <3> QED BY <2>1, <3>1, <3>3
  <2> QED BY <2>2, <2>3
<1>13. WorkersInv' /\ OneAttemptPerKey'
  <2>1. WorkersInv'
    BY <1>1 DEF IInv, WorkersInv, InUse
  <2>2. OneAttemptPerKey'
    <3> SUFFICES ASSUME NEW ph \in Phase, NEW i \in DOMAIN launches[ph]
                 PROVE  /\ claims'[ph] = [attempt |-> launches[ph][i].attempt, root |-> launches[ph][i].root]
                        /\ launches[ph][i].repetition = i /\ i \in Repetitions(ph)
      BY <1>1 DEF OneAttemptPerKey
    <3>1. ph # c.phase
      BY <1>7
    <3> QED BY <1>4, <3>1 DEF IInv, OneAttemptPerKey
  <2> QED BY <2>1, <2>2
<1> QED BY <1>6, <1>8, <1>9, <1>10, <1>11, <1>12, <1>13 DEF IInv

LEMMA AppendElements ==
  ASSUME NEW S, NEW seq \in Seq(S), NEW e \in S, NEW i \in DOMAIN Append(seq, e)
  PROVE  \/ i \in DOMAIN seq /\ Append(seq, e)[i] = seq[i] /\ seq[i] \in S
         \/ i = Len(seq) + 1 /\ Append(seq, e)[i] = e
<1>1. CASE i = Len(seq) + 1
  BY <1>1
<1>2. CASE i # Len(seq) + 1
  <2>1. i \in 1..Len(seq)
    BY <1>2
  <2> QED BY <2>1
<1> QED BY <1>1, <1>2

\* The next worker is that of the next repetition, and of the claim.
LEMMA LaunchStep ==
  ASSUME IInv, NEW p \in Procs, LaunchWorker(p)
  PROVE  IInv'
<1> DEFINE c == call[p]
           r == c.root
           n == roots[r].started + 1
           d == [roots[r] EXCEPT !.started = n]
           w == [phase |-> c.phase, attempt |-> c.attempt, root |-> r, repetition |-> n]
<1>1. /\ pc[p] = "launch" /\ InTry(p) /\ Holds(p) /\ CallInv(p) /\ RootInv(p)
      /\ c.phase \in Phase /\ c.attempt \in Attempts /\ r \in Roots
  <2>1. pc[p] = "launch" /\ CallInv(p) /\ RootInv(p)
    BY DEF LaunchWorker, IInv
  <2> QED BY <2>1, CallType DEF IInv, InTry, Holds
<1>2. /\ roots[r] \in RootFiles /\ InUse(r) /\ roots[r].phase = c.phase
      /\ roots[r].started < Cardinality(Repetitions(c.phase))
      /\ Len(launches[c.phase]) = roots[r].started
      /\ claims[c.phase] = ClaimOf(c)
  BY <1>1, RootType DEF RootInv, CallInv, IInv
<1>3. /\ workers' = workers \cup {w} /\ Set(r, d)
      /\ launches' = [launches EXCEPT ![c.phase] = Append(@, w)]
      /\ Goto(p, "work") /\ UNCHANGED <<claims, unrecorded, protocol>>
  BY <1>2 DEF LaunchWorker, still
<1>4. n \in Repetitions(c.phase) /\ n \in {1, 2}
  <2>1. roots[r].started \in 0..2
    BY <1>2 DEF RootFiles
  <2> QED BY <1>1, <1>2, <2>1, RepetitionCounts DEF Phase, Repetitions
<1>5. /\ d \in RootFiles /\ d.phase = c.phase /\ d.parent = roots[r].parent /\ d.started = n
      /\ d.failure = roots[r].failure /\ d.manifest = roots[r].manifest
  BY <1>2, <1>4 DEF RootFiles
<1>6. w \in Launch
  BY <1>1, <1>4 DEF Launch
<1> HIDE DEF d, n
<1>7. /\ roots' \in [Roots -> RootFiles \cup {NoRoot}]
      /\ roots'[r] = d /\ roots'[r] # NoRoot
      /\ \A t \in Roots \ {r} : Same(t) /\ Kept(t) /\ (Ended(t) => Ended(t)')
  <2> HIDE DEF r
  <2> QED BY <1>1, <1>3, <1>5, SetRoot DEF IInv
<1>8. /\ pc'[p] = "work" /\ call' = call
      /\ \A q \in Procs \ {p} : pc'[q] = pc[q]
  BY <1>3 DEF Goto, IInv, Types
<1>9. /\ launches'[c.phase] = Append(launches[c.phase], w) /\ launches[c.phase] \in Seq(Launch)
      /\ \A ph \in Phase \ {c.phase} : launches'[ph] = launches[ph]
  BY <1>1, <1>3 DEF IInv, Types
<1>10. Types'
  <2>1. launches' \in [Phase -> Seq(Launch)]
    BY <1>1, <1>3, <1>6, <1>9 DEF IInv, Types
  <2> QED BY <1>3, <1>6, <1>7, <1>8, <2>1 DEF IInv, Types, Goto, Steps
<1>11. \A t \in Roots : Kept(t) /\ (Ended(t) => Ended(t)')
  BY <1>2, <1>5, <1>7 DEF Kept, InUse, Ended
<1>12. \A q \in Procs \ {p} : CallInv(q)' /\ RootInv(q)' /\ (InTry(q)' <=> InTry(q)) /\ (Holds(q)' <=> Holds(q))
  <2>1. \A t \in Roots : Same(t) \/ (InTry(p) /\ t = call[p].root)
    BY <1>1, <1>7
  <2>2. \A ph \in Phase : \/ claims'[ph] = claims[ph] /\ launches'[ph] = launches[ph]
                          \/ pc[p] # "idle" /\ call[p].phase = ph /\ (Holds(p) \/ claims[ph] = NoClaim)
    BY <1>1, <1>3, <1>9
  <2> QED BY <1>3, <1>8, <2>1, <2>2, Frame
<1>13. CallInv(p)' /\ InTry(p)' /\ Holds(p)'
  BY <1>1, <1>3, <1>8 DEF CallInv, InTry, Holds, ClaimOf
<1>14. RootInv(p)'
  <2>1. Len(launches'[c.phase]) = n
    BY <1>2, <1>6, <1>9 DEF n
  <2>2. c.phase # "compile" => roots[r].parent = ParentOf(c.phase)
    BY <1>1 DEF RootInv
  <2>3. /\ call'[p] = c /\ InUse(r)' /\ roots'[r].phase = c.phase /\ roots'[r].started = n
        /\ (c.phase # "compile" => roots'[r].parent = ParentOf(c.phase)')
    BY <1>3, <1>5, <1>7, <1>8, <2>2 DEF InUse, ParentOf
  <2> QED BY <1>8, <2>1, <2>3 DEF RootInv
<1>15. LocksApart' /\ RootsApart'
  <2>1. LocksApart'
    BY <1>1, <1>8 DEF LocksApart, IInv, Lock
  <2>2. RootsApart'
    BY <1>1, <1>8, <1>12 DEF RootsApart, IInv
  <2> QED BY <2>1, <2>2
<1>16. ASSUME NEW ph \in Phase PROVE ClaimInv(ph)'
  <2>1. ClaimInv(ph) /\ (claims[ph] # NoClaim => claims[ph].root \in Roots)
          /\ (protocol[ph] # NoParent => protocol[ph] \in Roots)
    BY DEF IInv, Types, Claim
  <2>2. ph = c.phase => claims[ph] # NoClaim
    <3>1. ClaimOf(c) \in Claim
      BY <1>1 DEF ClaimOf, Claim
    <3> QED BY <1>2, <3>1, AbsentAssumption
  <2>3. claims'[ph] = NoClaim => launches'[ph] = <<>>
    BY <1>3, <1>9, <2>1, <2>2 DEF ClaimInv
  <2>4. ph = "calibration" /\ claims'[ph] # NoClaim =>
          /\ InUse(claims[ph].root)' /\ protocol'[ph] # NoParent
          /\ roots'[claims[ph].root].parent = ParentOf(ph)'
    <3> SUFFICES ASSUME ph = "calibration", claims[ph] # NoClaim
                 PROVE  /\ roots'[claims[ph].root] # NoRoot /\ protocol[ph] # NoParent
                        /\ roots'[claims[ph].root].parent = ParentOf(ph)
      BY <1>3 DEF ParentOf, InUse
    <3>1. protocol[ph] # NoParent /\ InUse(claims[ph].root) /\ roots[claims[ph].root].parent = ParentOf(ph)
      BY <2>1 DEF ClaimInv
    <3>2. ParentOf(ph) # NoParent
      <4>1. ParentOf(ph) \in [root : Roots, intact : BOOLEAN]
        BY <2>1, <3>1 DEF ParentOf
      <4> QED BY <4>1, AbsentAssumption
    <3> QED BY <1>11, <2>1, <3>1, <3>2 DEF Kept, InUse
  <2>5. protocol'[ph] # NoParent => InUse(protocol[ph])'
    BY <1>3, <1>11, <2>1 DEF ClaimInv, Kept, InUse
  <2> QED BY <1>3, <2>3, <2>4, <2>5 DEF ClaimInv
<1>17. ASSUME NEW ph \in Phase, NEW i \in DOMAIN launches'[ph]
       PROVE  \/ i \in DOMAIN launches[ph] /\ launches'[ph][i] = launches[ph][i] /\ launches[ph][i] \in Launch
              \/ ph = c.phase /\ i = n /\ launches'[ph][i] = w
  <2>1. CASE ph = c.phase
    <3>1. /\ i \in DOMAIN Append(launches[ph], w) /\ launches'[ph] = Append(launches[ph], w)
          /\ launches[ph] \in Seq(Launch)
      BY <1>9, <2>1
    <3>2. Len(launches[ph]) + 1 = n
      BY <1>2, <2>1 DEF n
    <3> HIDE DEF w
    <3> QED BY <1>6, <2>1, <3>1, <3>2, AppendElements
  <2>2. CASE ph # c.phase
    <3>1. launches[ph] \in Seq(Launch) /\ launches'[ph] = launches[ph]
      BY <1>9, <2>2 DEF IInv, Types
    <3> QED BY <3>1
  <2> QED BY <2>1, <2>2
<1>18. ASSUME NEW ph \in Phase PROVE LaunchInv(ph)'
  <2> SUFFICES ASSUME NEW i \in DOMAIN launches'[ph]
               PROVE  LET t == launches'[ph][i].root IN
                      /\ roots'[t] # NoRoot
                      /\ ph # "compile" => protocol[ph] # NoParent /\ roots'[t].parent = ParentOf(ph)
    BY <1>3 DEF LaunchInv, InUse, ParentOf
  <2>1. CASE i \in DOMAIN launches[ph] /\ launches'[ph][i] = launches[ph][i] /\ launches[ph][i] \in Launch
    <3>1. launches[ph][i].root \in Roots
      BY <2>1 DEF Launch
    <3>2. /\ InUse(launches[ph][i].root)
          /\ ph # "compile" => protocol[ph] # NoParent /\ roots[launches[ph][i].root].parent = ParentOf(ph)
      BY <2>1 DEF IInv, LaunchInv
    <3>3. ph # "compile" => ParentOf(ph) # NoParent
      <4>1. ph # "compile" => ParentOf(ph) \in [root : Roots, intact : BOOLEAN]
        BY <3>2 DEF ParentOf, IInv, Types
      <4> QED BY <4>1, AbsentAssumption
    <3> QED BY <1>11, <2>1, <3>1, <3>2, <3>3 DEF Kept, InUse
  <2>2. CASE ph = c.phase /\ i = n /\ launches'[ph][i] = w
    <3>1. launches'[ph][i].root = r
      BY <2>2
    <3>2. ph # "compile" => protocol[ph] # NoParent /\ roots[r].parent = ParentOf(ph)
      BY <1>1, <2>2 DEF RootInv, CallInv
    <3> QED BY <1>5, <1>7, <3>1, <3>2
  <2> QED BY <1>17, <2>1, <2>2
<1>19. OneAttemptPerKey'
  <2> SUFFICES ASSUME NEW ph \in Phase, NEW i \in DOMAIN launches'[ph]
               PROVE  /\ claims'[ph] = [attempt |-> launches'[ph][i].attempt, root |-> launches'[ph][i].root]
                      /\ launches'[ph][i].repetition = i
                      /\ i \in Repetitions(ph)
    BY DEF OneAttemptPerKey
  <2>1. CASE i \in DOMAIN launches[ph] /\ launches'[ph][i] = launches[ph][i]
    BY <1>3, <2>1 DEF IInv, OneAttemptPerKey
  <2>2. CASE ph = c.phase /\ i = n /\ launches'[ph][i] = w
    BY <1>2, <1>3, <1>4, <2>2 DEF ClaimOf
  <2> QED BY <1>17, <2>1, <2>2
<1>20. WorkersInv'
  <2> SUFFICES ASSUME NEW v \in workers' PROVE roots'[v.root] # NoRoot
    BY DEF WorkersInv, InUse
  <2>1. CASE v = w
    BY <1>7, <2>1
  <2>2. CASE v \in workers
    <3>1. v.root \in Roots /\ InUse(v.root)
      BY <2>2 DEF IInv, Types, Launch, WorkersInv
    <3> QED BY <1>11, <3>1 DEF Kept, InUse
  <2> QED BY <1>3, <2>1, <2>2
<1>21. \A ph \in Phase : Settled(ph)'
  <2>1. \A ph \in Phase : Holds(p) /\ call[p].phase = ph => Settled(ph)'
    BY <1>8, <1>13 DEF Settled
  <2> QED BY <1>3, <1>8, <1>11, <2>1, SettledKept
<1> QED BY <1>10, <1>12, <1>13, <1>14, <1>15, <1>16, <1>18, <1>19, <1>20, <1>21 DEF IInv

\* A call begins: its lock is free.
LEMMA BeginStep ==
  ASSUME IInv, NEW p \in Procs, Begin(p)
  PROVE  IInv'
<1> PICK ph \in Phase, a \in Attempts, r \in Roots :
      LET c == [phase |-> ph, attempt |-> a, root |-> r] IN
      /\ ph # "compile" => protocol[ph] # NoParent
      /\ \A q \in Procs : call[q] # NoCall => Lock(call[q]) # Lock(c)
      /\ call' = [call EXCEPT ![p] = c]
      /\ pc' = [pc EXCEPT ![p] = IF ph = "calibration" THEN "mkdir" ELSE "claim"]
  BY DEF Begin
<1> DEFINE c == [phase |-> ph, attempt |-> a, root |-> r]
<1>1. /\ pc[p] = "idle" /\ UNCHANGED <<claims, roots, workers, launches, unrecorded, protocol>>
      /\ c \in Call /\ c # NoCall
  BY AbsentAssumption DEF Begin, still, Call
<1>2. /\ call'[p] = c /\ pc'[p] = IF ph = "calibration" THEN "mkdir" ELSE "claim"
      /\ \A q \in Procs \ {p} : pc'[q] = pc[q] /\ call'[q] = call[q]
  BY DEF IInv, Types
<1>3. \A t \in Roots : Same(t) /\ Kept(t)
  BY <1>1 DEF Same, Kept, InUse, Ended
<1>4. \A q \in Procs \ {p} : CallInv(q)' /\ RootInv(q)' /\ (InTry(q)' <=> InTry(q)) /\ (Holds(q)' <=> Holds(q))
  <2>1. \A k \in Phase : claims'[k] = claims[k] /\ launches'[k] = launches[k]
    BY <1>1
  <2> QED BY <1>1, <1>2, <1>3, <2>1, Frame
<1>5. CallInv(p)' /\ RootInv(p)' /\ ~InTry(p)' /\ ~Holds(p)
  <2>1. call'[p].phase = ph /\ call'[p] # NoCall
    BY <1>1, <1>2
  <2>2. \/ ph = "calibration" /\ pc'[p] = "mkdir"
        \/ ph # "calibration" /\ pc'[p] = "claim"
    BY <1>2
  <2> HIDE DEF c
  <2>3. ~Holds(p)' /\ ~InTry(p)' /\ ~Holds(p)
    BY <1>1, <2>1, <2>2 DEF Holds, InTry
  <2>4. ph # "compile" => protocol[ph] # NoParent
    OBVIOUS
  <2> QED BY <1>1, <2>1, <2>2, <2>3, <2>4 DEF CallInv, RootInv
<1>6. Types'
  BY <1>1 DEF IInv, Types, Steps
<1>7. LocksApart' /\ RootsApart'
  <2>1. \A q \in Procs \ {p} : pc[q] # "idle" => Lock(call[q]) # Lock(c)
    BY DEF IInv, CallInv
  <2> HIDE DEF c
  <2>2. LocksApart'
    BY <1>2, <2>1, SMTT(30) DEF LocksApart, IInv, Lock
  <2>3. RootsApart'
    BY <1>2, <1>4, <1>5 DEF RootsApart, IInv
  <2> QED BY <2>2, <2>3
<1>8. /\ \A k \in Phase : LaunchInv(k)' /\ ClaimInv(k)'
      /\ WorkersInv' /\ OneAttemptPerKey'
  BY <1>1, <1>3, PhasesKept DEF Named
<1>9. \A k \in Phase : Settled(k)'
  <2>1. \A t \in Roots : InUse(t) /\ Ended(t) => Ended(t)'
    BY <1>3 DEF Same
  <2> QED BY <1>1, <1>2, <1>3, <1>5, <2>1, SettledKept
<1> QED BY <1>4, <1>5, <1>6, <1>7, <1>8, <1>9 DEF IInv

\* A step of no call.
LEMMA OutsideStep ==
  ASSUME IInv, pc' = pc, call' = call, claims' = claims, launches' = launches,
         unrecorded' = unrecorded, workers' \subseteq workers,
         \A ph \in Phase : Named(ph), \A r \in Roots : Same(r),
         protocol' \in [Phase -> Roots \cup {NoParent}],
         roots' \in [Roots -> RootFiles \cup {NoRoot}]
  PROVE  IInv'
<1>1. \A q \in Procs : CallInv(q)' /\ RootInv(q)' /\ (InTry(q)' <=> InTry(q)) /\ (Holds(q)' <=> Holds(q))
  <2> TAKE q \in Procs
  <2>1. InTry(q) => InUse(call[q].root) /\ call[q].root \in Roots
    <3> SUFFICES ASSUME InTry(q) PROVE InUse(call[q].root) /\ call[q].root \in Roots
      OBVIOUS
    <3>1. CallInv(q) /\ RootInv(q) /\ pc[q] # "idle"
      BY DEF IInv, InTry
    <3> QED BY <3>1, CallType DEF RootInv, IInv
  <2> QED BY <2>1, OtherCall
<1>2. Types'
  BY DEF IInv, Types
<1>3. LocksApart' /\ RootsApart'
  <2>1. LocksApart'
    BY DEF LocksApart, IInv, Lock
  <2>2. RootsApart'
    BY <1>1 DEF RootsApart, IInv
  <2> QED BY <2>1, <2>2
<1>4. \A r \in Roots : Kept(r)
  BY DEF Same, Kept
<1>5. /\ \A ph \in Phase : LaunchInv(ph)' /\ ClaimInv(ph)'
      /\ WorkersInv' /\ OneAttemptPerKey'
  BY <1>4, PhasesKept
<1>6. \A ph \in Phase : Settled(ph)'
  <2> SUFFICES ASSUME NEW ph \in Phase, claims[ph] # NoClaim PROVE Settled(ph)'
    BY DEF Settled
  <2>1. claims[ph].root \in Roots
    BY DEF IInv, Types, Claim
  <2>2. CASE Recorded(ph) /\ roots[claims[ph].root].phase = ph
    BY <2>1, <2>2 DEF Settled, Recorded, Same, InUse, Ended
  <2>3. CASE ph \in unrecorded \/ \E p \in Procs : Holds(p) /\ call[p].phase = ph
    BY <1>1, <2>3 DEF Settled
  <2> QED BY <2>2, <2>3 DEF IInv, Settled
<1> QED BY <1>1, <1>2, <1>3, <1>5, <1>6 DEF IInv

LEMMA EventCounts ==
  ASSUME NEW ph \in Phase
  PROVE  Len(Events(ph)) \in 0..7 /\ Prepared(ph) \in 0..7
BY DEF Events, Prepared, Phase

\* The steps that write files, and the end of a worker.
LEMMA FileStep ==
  ASSUME IInv, NEW p \in Procs, Prepare(p) \/ Collect(p) \/ Record(p) \/ OpenManifest(p) \/ FillManifest(p)
  PROVE  IInv'
<1> DEFINE c == call[p]
           r == c.root
           d == roots[r]
<1>1. /\ pc[p] \in {"prepare", "work", "record", "manifest", "fill"} /\ InTry(p) /\ Holds(p)
      /\ CallInv(p) /\ RootInv(p) /\ c.phase \in Phase /\ r \in Roots
  <2>1. pc[p] \in {"prepare", "work", "record", "manifest", "fill"}
    BY DEF Prepare, Collect, Record, OpenManifest, FillManifest
  <2>2. CallInv(p) /\ RootInv(p)
    BY DEF IInv
  <2> QED BY <2>1, <2>2, CallType DEF IInv, InTry, Holds
<1>2. d \in RootFiles /\ d.phase = c.phase /\ InUse(r)
  BY <1>1, RootType DEF RootInv, IInv
<1>3. UNCHANGED <<claims, workers, launches, unrecorded, protocol>>
  BY DEF Prepare, Collect, Record, OpenManifest, FillManifest, still
<1>4. CASE Prepare(p)
  <2> DEFINE e == [d EXCEPT !.events = Prepared(c.phase)]
  <2>1. Set(r, e) /\ Goto(p, "launch") /\ pc[p] = "prepare"
    BY <1>4 DEF Prepare
  <2>2. e \in RootFiles /\ e.phase = d.phase /\ e.parent = d.parent /\ e.started = d.started
    BY <1>1, <1>2, EventCounts DEF RootFiles
  <2>3. d.started < Cardinality(Repetitions(c.phase))
    BY <1>1, <2>1, RepetitionCounts DEF RootInv, Phase
  <2> HIDE DEF e
  <2> QED BY <1>1, <1>3, <2>1, <2>2, <2>3, OwnFiles
<1>5. CASE Collect(p) /\ d.started \in d.results
  <2>1. Goto(p, AfterWork(d)) /\ UNCHANGED roots
    BY <1>5 DEF Collect
  <2>2. Set(r, d)
    BY <2>1 DEF Set, IInv, Types
  <2>3. /\ AfterWork(d) \in {"launch", "record"}
        /\ AfterWork(d) = "launch" => d.started < Cardinality(Repetitions(c.phase))
    BY <1>2 DEF AfterWork
  <2> QED BY <1>1, <1>2, <1>3, <2>1, <2>2, <2>3, OwnFiles
<1>6. CASE Collect(p) /\ d.started \notin d.results
  <2>1. Raise(p)
    BY <1>6 DEF Collect
  <2> QED BY <1>1, <1>3, <2>1, LeaveStep
<1>7. CASE Record(p) /\ d.events < Len(Events(d.phase))
  <2> DEFINE e == [d EXCEPT !.events = @ + 1, !.phases = PhaseLedger(p)]
  <2>1. Set(r, e) /\ Goto(p, "record")
    BY <1>7 DEF Record
  <2>2. PhaseLedger(p) \in Seq([phase : Phase \cup {"calibration_sealed"}, artifact : Roots])
    <3>1. CASE c.phase = "compile"
      BY <3>1 DEF PhaseLedger
    <3>2. CASE c.phase = "correctness"
      <4>1. protocol["correctness"] \in Roots
        BY <1>1, <3>2 DEF CallInv, IInv, Types
      <4> QED BY <1>1, <3>2, <4>1 DEF PhaseLedger, PhaseEvent, Phase
    <3>3. CASE c.phase = "calibration"
      <4>1. protocol["calibration"] \in Roots /\ InUse(protocol["calibration"])
        BY <1>1, <3>3 DEF CallInv, IInv, Types, ClaimInv
      <4>2. d.parent.root = protocol["calibration"]
        BY <1>1, <1>7, <3>3 DEF RootInv, ParentOf, Record
      <4>3. roots[d.parent.root].phases \in Seq([phase : Phase \cup {"calibration_sealed"}, artifact : Roots])
        BY <4>1, <4>2, RootType DEF IInv, RootFiles
      <4>4. <<PhaseEvent("calibration", r), PhaseEvent("calibration_sealed", r)>>
              \in Seq([phase : Phase \cup {"calibration_sealed"}, artifact : Roots])
        BY <1>1 DEF PhaseEvent, Phase
      <4>5. PhaseLedger(p) = roots[d.parent.root].phases
                               \o <<PhaseEvent("calibration", r), PhaseEvent("calibration_sealed", r)>>
        BY <3>3 DEF PhaseLedger
      <4>6. \A S : \A f, g \in Seq(S) : f \o g \in Seq(S)
        OBVIOUS
      <4> HIDE DEF c, d, r
      <4> QED BY <4>3, <4>4, <4>5, <4>6, Zenon
    <3>4. c.phase \in {"compile", "correctness", "calibration"}
      BY <1>1 DEF Phase
    <3>5. c.phase = "compile" \/ c.phase = "correctness" \/ c.phase = "calibration"
      BY <3>4
    <3> HIDE DEF c
    <3> QED BY <3>1, <3>2, <3>3, <3>5, Zenon
  <2>3. d.events + 1 \in 0..7
    <3>1. d.events \in 0..7
      BY <1>2 DEF RootFiles
    <3>2. Len(Events(d.phase)) \in 0..7
      BY <1>1, <1>2, EventCounts
    <3>3. d.events < Len(Events(d.phase))
      BY <1>7
    <3>4. \A m, n \in 0..7 : m < n => m + 1 \in 0..7
      OBVIOUS
    <3> HIDE DEF c, d
    <3> QED BY <3>1, <3>2, <3>3, <3>4, Zenon
  <2>4. e \in RootFiles /\ e.phase = d.phase /\ e.parent = d.parent /\ e.started = d.started
    BY <1>2, <2>2, <2>3 DEF RootFiles
  <2> HIDE DEF e
  <2> QED BY <1>1, <1>3, <2>1, <2>4, OwnFiles
<1>8. CASE Record(p) /\ ~(d.events < Len(Events(d.phase)))
  <2> DEFINE e == [d EXCEPT !.sealed = TRUE]
  <2>1. Set(r, e) /\ Goto(p, "manifest")
    BY <1>8 DEF Record
  <2>2. e \in RootFiles /\ e.phase = d.phase /\ e.parent = d.parent /\ e.started = d.started
    BY <1>2 DEF RootFiles
  <2> HIDE DEF e
  <2> QED BY <1>1, <1>3, <2>1, <2>2, OwnFiles
<1>9. CASE OpenManifest(p)
  <2> DEFINE e == [d EXCEPT !.manifest = "torn"]
  <2>1. Set(r, e) /\ Goto(p, "fill")
    BY <1>9 DEF OpenManifest
  <2>2. e \in RootFiles /\ e.phase = d.phase /\ e.parent = d.parent /\ e.started = d.started
    BY <1>2 DEF RootFiles, File
  <2> HIDE DEF e
  <2> QED BY <1>1, <1>3, <2>1, <2>2, OwnFiles
<1>10. CASE FillManifest(p)
  <2> DEFINE e == [d EXCEPT !.manifest = "whole"]
  <2>1. Set(r, e) /\ Goto(p, "replay")
    BY <1>10 DEF FillManifest
  <2>2. e \in RootFiles /\ e.phase = d.phase /\ e.parent = d.parent /\ e.started = d.started
    BY <1>2 DEF RootFiles, File
  <2> HIDE DEF e
  <2> QED BY <1>1, <1>3, <2>1, <2>2, OwnFiles
<1> QED BY <1>4, <1>5, <1>6, <1>7, <1>8, <1>9, <1>10

-----------------------------------------------------------------------------
LEMMA StepKeeps ==
  ASSUME IInv, NEW p \in Procs, Step(p)
  PROVE  IInv'
<1>1. CASE ClaimAttempt(p) \/ ClaimCalibration(p)
  BY <1>1, ClaimStep
<1>2. CASE PermanentlyClaimed(p)
  <2>1. pc[p] = "claim" /\ ~Holds(p) /\ Leave(p) /\ UNCHANGED <<claims, roots, workers, launches, unrecorded, protocol>>
    BY <1>2 DEF PermanentlyClaimed, Holds, still
  <2> QED BY <2>1, LeaveStep
<1>3. CASE CalibrationClaimed(p)
  <2>1. pc[p] = "claim" /\ ~Holds(p) /\ Raise(p) /\ UNCHANGED <<claims, workers, launches, unrecorded, protocol>>
    BY <1>3 DEF CalibrationClaimed, Holds, still
  <2> QED BY <2>1, LeaveStep
<1>4. CASE MakeRoot(p)
  BY <1>4, MakeRootStep
<1>5. CASE VerifyParent(p)
  <2>1. /\ pc[p] = "verify parent" /\ InTry(p) /\ CallInv(p) /\ RootInv(p)
        /\ UNCHANGED <<claims, workers, launches, unrecorded, protocol>>
    BY <1>5 DEF VerifyParent, still, InTry, IInv
  <2>2. CASE Raise(p)
    BY <2>1, <2>2, LeaveStep
  <2>3. CASE Goto(p, "copy parent") /\ UNCHANGED roots
    <3>1. pc'[p] = "copy parent" /\ call' = call /\ call[p].phase = "correctness"
      BY <2>1, <2>3 DEF Goto, IInv, Types, CallInv
    <3>2. InTry(p)' /\ Holds(p)' /\ Holds(p)
      BY <2>1, <3>1 DEF InTry, Holds
    <3>3. \A r \in Roots : Same(r) /\ Kept(r)
      BY <2>3 DEF Same, Kept, InUse, Ended
    <3>4. Types'
      BY <2>1, <2>3 DEF IInv, Types, Goto, Steps
    <3>5. CallInv(p)'
      BY <2>1, <3>1, <3>2 DEF CallInv, ClaimOf
    <3>6. RootInv(p)'
      BY <2>1, <2>3, <3>1, <3>2 DEF RootInv, InUse
    <3>7. "copy parent" \in Steps \ {"idle"}
      BY DEF Steps
    <3> QED BY <2>1, <2>3, <3>2, <3>3, <3>4, <3>5, <3>6, <3>7, Going
  <2> QED BY <1>5, <2>2, <2>3 DEF VerifyParent
<1>6. CASE CopyParent(p)
  BY <1>6, CopyParentStep
<1>7. CASE Prepare(p) \/ Collect(p) \/ Record(p) \/ OpenManifest(p) \/ FillManifest(p)
  BY <1>7, FileStep
<1>8. CASE LaunchWorker(p)
  BY <1>8, LaunchStep
<1>9. CASE Replay(p)
  <2>1. pc[p] = "replay" /\ InTry(p) /\ UNCHANGED <<claims, workers, launches, unrecorded, protocol>>
    BY <1>9 DEF Replay, still, InTry
  <2>2. CASE Raise(p)
    BY <2>1, <2>2, LeaveStep
  <2>3. CASE Verifies(call[p].root) /\ Leave(p) /\ UNCHANGED roots
    <3>1. roots[call[p].root].manifest = "whole"
      BY <2>3 DEF Verifies
    <3> QED BY <2>1, <2>3, <3>1, LeaveStep
  <2> QED BY <1>9, <2>2, <2>3 DEF Replay
<1> QED BY <1>1, <1>2, <1>3, <1>4, <1>5, <1>6, <1>7, <1>8, <1>9 DEF Step

\* A worker ends; a protocol is committed; a root is damaged.
LEMMA WorldKeeps ==
  ASSUME IInv, \/ \E w \in workers : WorkerResult(w) \/ WorkerFails(w)
               \/ CommitProtocol \/ Damage \/ UNCHANGED vars
  PROVE  IInv'
<1>1. ASSUME NEW w \in workers, WorkerResult(w) PROVE IInv'
  <2> DEFINE r == w.root
             d == [roots[r] EXCEPT !.results = @ \cup {w.repetition}]
  <2>1. r \in Roots /\ w.repetition \in {1, 2} /\ InUse(r)
    BY DEF IInv, Types, Launch, WorkersInv
  <2>2. roots[r] \in RootFiles
    BY <2>1, RootType DEF IInv
  <2>3. /\ d \in RootFiles /\ d.phase = roots[r].phase /\ d.parent = roots[r].parent
        /\ d.started = roots[r].started /\ d.failure = roots[r].failure /\ d.manifest = roots[r].manifest
    BY <2>1, <2>2 DEF RootFiles
  <2>4. /\ Set(r, d) /\ workers' \subseteq workers
        /\ UNCHANGED <<pc, call, claims, protocol, launches, unrecorded>>
    BY <1>1 DEF WorkerResult
  <2> HIDE DEF r, d
  <2>5. /\ roots' \in [Roots -> RootFiles \cup {NoRoot}] /\ roots'[r] = d /\ roots'[r] # NoRoot
        /\ \A t \in Roots \ {r} : Same(t)
    BY <2>1, <2>3, <2>4, SetRoot DEF IInv
  <2>6. \A t \in Roots : Same(t)
    BY <2>3, <2>5 DEF Same, InUse, Ended
  <2> QED BY <2>4, <2>5, <2>6, OutsideStep DEF Named, IInv, Types
<1>2. ASSUME NEW w \in workers, WorkerFails(w) PROVE IInv'
  <2>1. workers' \subseteq workers /\ UNCHANGED <<pc, call, claims, roots, protocol, launches, unrecorded>>
    BY <1>2 DEF WorkerFails
  <2>2. \A r \in Roots : Same(r)
    BY <2>1 DEF Same, InUse, Ended
  <2> QED BY <2>1, <2>2, OutsideStep DEF Named, IInv, Types
<1>3. ASSUME CommitProtocol PROVE IInv'
  <2>1. UNCHANGED <<pc, call, claims, roots, workers, launches, unrecorded>>
    BY <1>3 DEF CommitProtocol
  <2>2. PICK ph \in {"correctness", "calibration"}, r \in Roots :
          protocol[ph] = NoParent /\ Verifies(r) /\ protocol' = [protocol EXCEPT ![ph] = r]
    BY <1>3 DEF CommitProtocol
  <2>3. \A t \in Roots : Same(t)
    BY <2>1 DEF Same, InUse, Ended
  <2>4. \A k \in Phase : Named(k)
    BY <2>1, <2>2 DEF Named, Verifies, IInv, Types
  <2>5. protocol' \in [Phase -> Roots \cup {NoParent}]
    BY <2>2 DEF IInv, Types
  <2> QED BY <2>1, <2>3, <2>4, <2>5, OutsideStep DEF IInv, Types
<1>4. ASSUME Damage PROVE IInv'
  <2>1. UNCHANGED <<pc, call, claims, protocol, workers, launches, unrecorded>>
    BY <1>4 DEF Damage
  <2>2. PICK r \in Roots : Verifies(r) /\ Set(r, [roots[r] EXCEPT !.damaged = TRUE])
    BY <1>4 DEF Damage
  <2> DEFINE d == [roots[r] EXCEPT !.damaged = TRUE]
  <2>3. roots[r] \in RootFiles
    BY <2>2, RootType DEF Verifies, InUse, IInv
  <2>4. /\ d \in RootFiles /\ d.phase = roots[r].phase /\ d.parent = roots[r].parent
        /\ d.started = roots[r].started /\ d.failure = roots[r].failure /\ d.manifest = roots[r].manifest
    BY <2>3 DEF RootFiles
  <2>5. Set(r, d)
    BY <2>2
  <2> HIDE DEF d
  <2>6. /\ roots' \in [Roots -> RootFiles \cup {NoRoot}] /\ roots'[r] = d /\ roots'[r] # NoRoot
        /\ \A t \in Roots \ {r} : Same(t)
    BY <2>4, <2>5, SetRoot DEF IInv
  <2>7. \A t \in Roots : Same(t)
    BY <2>4, <2>6 DEF Same, InUse, Ended
  <2> QED BY <2>1, <2>6, <2>7, OutsideStep DEF Named, IInv, Types
<1>5. ASSUME UNCHANGED vars PROVE IInv'
  <2>1. UNCHANGED <<pc, call, claims, roots, protocol, workers, launches, unrecorded>>
    BY <1>5 DEF vars
  <2>2. \A r \in Roots : Same(r)
    BY <2>1 DEF Same, InUse, Ended
  <2> QED BY <2>1, <2>2, OutsideStep DEF Named, IInv, Types
<1> QED BY <1>1, <1>2, <1>3, <1>4, <1>5

LEMMA NextStep == IInv /\ [Next]_vars => IInv'
<1> SUFFICES ASSUME IInv, [Next]_vars PROVE IInv'
  OBVIOUS
<1>1. ASSUME NEW p \in Procs, Begin(p) PROVE IInv'
  BY <1>1, BeginStep
<1>2. ASSUME NEW p \in Procs, Step(p) PROVE IInv'
  BY <1>2, StepKeeps
<1>3. ASSUME NEW p \in Procs, Fault(p) PROVE IInv'
  <2>1. pc[p] # "idle" /\ UNCHANGED <<claims, workers, launches, protocol>>
    BY <1>3 DEF Fault
  <2>2. CASE BeforeTry(p)
    BY <1>3, <2>1, <2>2, UnrecordedStep DEF Fault
  <2>3. CASE ~BeforeTry(p)
    <3>1. Raise(p) /\ unrecorded' = unrecorded
      BY <1>3, <2>3 DEF Fault
    <3>2. Holds(p) => InTry(p)
      BY <2>3 DEF Holds, BeforeTry, InTry
    <3> QED BY <2>1, <3>1, <3>2, LeaveStep
  <2> QED BY <2>2, <2>3
<1>4. ASSUME NEW p \in Procs, HandlerFault(p) \/ Kill(p) PROVE IInv'
  <2>1. pc[p] # "idle" /\ LeaveUnrecorded(p) /\ UNCHANGED <<claims, roots, workers, launches, protocol>>
    BY <1>4 DEF HandlerFault, InTry, Kill
  <2> QED BY <2>1, UnrecordedStep
<1> QED BY <1>1, <1>2, <1>3, <1>4, WorldKeeps DEF Next

LEMMA Invariance == Spec => []IInv
BY InitStep, NextStep, PTL DEF Spec

\* The devices work once for a key: all its workers belong to the attempt and
\* the root that the claim names, one for each repetition, in their order,
\* whatever number of calls meet and wherever they are killed or raise.
THEOREM AttemptsAreSingle == Spec => []OneAttemptPerKey
<1>1. IInv => OneAttemptPerKey
  BY DEF IInv
<1> QED BY <1>1, Invariance, PTL

\* Correctness and calibration reach the devices only behind a copy of their
\* parent that the verifier accepted; calibration does not claim without one.
THEOREM ParentsAreVerified == Spec => []DevicesFollowParent
<1>1. ASSUME IInv PROVE DevicesFollowParent
  <2>1. \A ph \in {"correctness", "calibration"} : ph \in Phase /\ LaunchInv(ph)
    BY <1>1 DEF IInv, Phase
  <2>2. "calibration" \in Phase /\ ClaimInv("calibration")
    BY <1>1 DEF IInv, Phase
  <2> QED BY <2>1, <2>2 DEF DevicesFollowParent, LaunchInv, ClaimInv, ParentOf
<1> QED BY <1>1, Invariance, PTL

\* A claim nobody is at has left a failure or a manifest in the root it names,
\* unless the call that held it was killed, or could write neither that root
\* nor its failure.
THEOREM ClaimsAreSettled == Spec => []ClaimIsSettled
<1>1. ASSUME IInv, NEW ph \in Phase, claims[ph] # NoClaim, NEW p \in Procs, Holds(p), call[p].phase = ph
      PROVE  call[p] = [phase |-> ph, attempt |-> claims[ph].attempt, root |-> claims[ph].root]
  <2>1. CallInv(p) /\ pc[p] # "idle"
    BY <1>1 DEF IInv, Holds
  <2>2. call[p] \in Call
    BY <1>1, <2>1, CallType DEF IInv
  <2>3. claims[ph] = ClaimOf(call[p])
    BY <1>1, <2>1 DEF CallInv
  <2> QED BY <1>1, <2>2, <2>3 DEF Call, ClaimOf
<1>2. ASSUME IInv PROVE ClaimIsSettled
  <2> SUFFICES ASSUME NEW ph \in Phase, claims[ph] # NoClaim
               PROVE  \/ \E p \in Procs : call[p] = [phase |-> ph, attempt |-> claims[ph].attempt, root |-> claims[ph].root]
                      \/ Recorded(ph)
                      \/ ph \in unrecorded
    BY DEF ClaimIsSettled
  <2>1. Settled(ph)
    BY <1>2 DEF IInv
  <2> QED BY <1>1, <1>2, <2>1 DEF Settled
<1> QED BY <1>2, Invariance, PTL

-----------------------------------------------------------------------------
(* What the files of a root say.                                            *)

\* The phase ledger of a finished root.
Ledger(ph, r) ==
  LET compile == <<PhaseEvent("compile", protocol["correctness"])>>
      tested  == Append(compile, PhaseEvent("correctness", protocol["calibration"])) IN
  CASE ph = "compile" -> <<>>
    [] ph = "correctness" -> Append(compile, PhaseEvent("correctness", r))
    [] OTHER -> tested \o <<PhaseEvent("calibration", r), PhaseEvent("calibration_sealed", r)>>

NoWorker(r) == \A w \in workers : w.root # r

\* A root in which everything is written but the manifest.
Done(r, d) ==
  /\ d.phase \in Phase
  /\ claims[d.phase] = [attempt |-> d.attempt, root |-> r]
  /\ d.events = Len(Events(d.phase)) /\ d.sealed
  /\ d.results = Repetitions(d.phase) /\ NoWorker(r)
  /\ d.phases = Ledger(d.phase, r)
  /\ d.phase # "compile" => protocol[d.phase] # NoParent

FilesInv(r) == InUse(r) /\ roots[r].manifest # "absent" => Done(r, roots[r])

\* The parent of a calibration is a correctness root with its manifest.
ParentsInv ==
  protocol["calibration"] # NoParent =>
    LET d == roots[protocol["calibration"]] IN d.phase = "correctness" /\ d.manifest # "absent"

\* How far a call at step s has come with the files d of its root.
Progress(s, c, d) ==
  /\ d.attempt = c.attempt
  /\ s \notin {"fill", "replay"} => d.manifest = "absent"
  /\ s # "work" => NoWorker(c.root)
  /\ s \in {"verify parent", "copy parent", "claim", "prepare"} => d.results = {}
  /\ s = "launch" => d.results = 1..d.started
  /\ s = "work" => /\ d.started \in Repetitions(c.phase)
                   /\ d.results \in {1..(d.started - 1), 1..d.started}
                   /\ \A w \in workers : w.root = c.root => w.repetition = d.started
  /\ s \in {"launch", "work"} => d.events = Prepared(c.phase)
  /\ s \in {"record", "manifest", "fill", "replay"} => d.results = Repetitions(c.phase)
  /\ s = "record" =>
       \/ d.events = Prepared(c.phase)
       \/ d.events \in Prepared(c.phase)..Len(Events(c.phase)) /\ d.phases = Ledger(c.phase, c.root)
  /\ s \in {"manifest", "fill", "replay"} =>
       d.events = Len(Events(c.phase)) /\ d.sealed /\ d.phases = Ledger(c.phase, c.root)

ProgressInv(p) == InTry(p) => Progress(pc[p], call[p], roots[call[p].root])

FInv ==
  /\ \A r \in Roots : FilesInv(r)
  /\ ParentsInv
  /\ \A p \in Procs : ProgressInv(p)

\* A root in which a step changes nothing that is said above.
Alike(r) ==
  InUse(r) =>
    LET d == roots[r]
        e == roots'[r] IN
    /\ InUse(r)' /\ e.phase = d.phase /\ e.attempt = d.attempt /\ e.started = d.started
    /\ e.results = d.results /\ e.manifest = d.manifest /\ e.events = d.events
    /\ e.sealed = d.sealed /\ e.phases = d.phases

LEMMA CorrectnessNamed ==
  ASSUME IInv, FInv, protocol["calibration"] # NoParent
  PROVE  protocol["correctness"] # NoParent
<1> DEFINE r == protocol["calibration"]
<1>1. r \in Roots /\ InUse(r)
  <2>1. "calibration" \in Phase
    BY DEF Phase
  <2> QED BY <2>1 DEF IInv, Types, ClaimInv
<1>2. roots[r].phase = "correctness" /\ roots[r].manifest # "absent"
  BY DEF FInv, ParentsInv
<1>3. Done(r, roots[r])
  BY <1>1, <1>2 DEF FInv, FilesInv
<1> QED BY <1>2, <1>3 DEF Done

LEMMA LedgerStays ==
  ASSUME IInv, FInv, NEW ph \in Phase, ph # "compile" => protocol[ph] # NoParent,
         \A k \in Phase : Named(k), NEW r
  PROVE  Ledger(ph, r)' = Ledger(ph, r)
<1>1. "calibration" \in Phase /\ "correctness" \in Phase /\ ph \in {"compile", "correctness", "calibration"}
  BY DEF Phase
<1>2. CASE ph = "compile"
  BY <1>2 DEF Ledger
<1>3. CASE ph = "correctness"
  BY <1>1, <1>3 DEF Ledger, Named
<1>4. CASE ph = "calibration"
  BY <1>1, <1>4, CorrectnessNamed DEF Ledger, Named
<1> QED BY <1>1, <1>2, <1>3, <1>4

LEMMA ProgressKept ==
  ASSUME IInv, FInv, \A ph \in Phase : Named(ph),
         NEW q \in Procs, pc'[q] = pc[q], call'[q] = call[q],
         InTry(q) => /\ Alike(call[q].root)
                     /\ \A w \in workers' : w.root = call[q].root => w \in workers
  PROVE  ProgressInv(q)'
<1> SUFFICES ASSUME InTry(q)' PROVE Progress(pc[q], call[q], roots[call[q].root])'
  BY DEF ProgressInv
<1>1. InTry(q) /\ pc[q] # "idle" /\ CallInv(q) /\ RootInv(q)
  BY DEF InTry, IInv
<1>2. PICK s, c : s = pc[q] /\ c = call[q]
  OBVIOUS
<1>3. c.phase \in Phase /\ c.root \in Roots
  BY <1>1, <1>2, CallType DEF IInv
<1>4. Ledger(c.phase, c.root)' = Ledger(c.phase, c.root)
  <2>1. c.phase # "compile" => protocol[c.phase] # NoParent
    BY <1>1, <1>2 DEF CallInv
  <2> QED BY <1>3, <2>1, LedgerStays
<1>5. PICK d, e : d = roots[c.root] /\ e = roots'[c.root]
  OBVIOUS
<1>6. /\ e.attempt = d.attempt /\ e.started = d.started
      /\ e.results = d.results /\ e.manifest = d.manifest /\ e.events = d.events
      /\ e.sealed = d.sealed /\ e.phases = d.phases
  BY <1>1, <1>2, <1>5 DEF Alike, RootInv
<1>7. Progress(s, c, d)
  BY <1>1, <1>2, <1>5 DEF FInv, ProgressInv
<1>8. \A w \in workers' : w.root = c.root => w \in workers
  BY <1>1, <1>2
<1>9. Progress(s, c, e)'
  BY <1>4, <1>6, <1>7, <1>8 DEF Progress, NoWorker
<1> QED BY <1>2, <1>5, <1>9

LEMMA FilesKept ==
  ASSUME IInv, FInv, \A ph \in Phase : Named(ph), NEW r \in Roots, Alike(r),
         ~InUse(r) /\ InUse(r)' => roots'[r].manifest = "absent",
         \A ph \in Phase : claims[ph] # NoClaim => claims'[ph] = claims[ph],
         NoWorker(r) => NoWorker(r)'
  PROVE  FilesInv(r)'
<1> SUFFICES ASSUME roots'[r] # NoRoot, roots'[r].manifest # "absent" PROVE Done(r, roots[r])'
  BY DEF FilesInv, InUse
<1>1. PICK d, e : d = roots[r] /\ e = roots'[r]
  OBVIOUS
<1>2. InUse(r)
  BY DEF InUse
<1>3. /\ e.phase = d.phase /\ e.attempt = d.attempt
      /\ e.results = d.results /\ e.manifest = d.manifest /\ e.events = d.events
      /\ e.sealed = d.sealed /\ e.phases = d.phases
  BY <1>1, <1>2 DEF Alike
<1>4. Done(r, d)
  BY <1>1, <1>2, <1>3 DEF FInv, FilesInv
<1>5. d.phase \in Phase /\ Ledger(d.phase, r)' = Ledger(d.phase, r)
  BY <1>4, LedgerStays DEF Done
<1>6. claims'[d.phase] = claims[d.phase]
  <2>1. roots[r] \in RootFiles
    BY <1>2, RootType DEF IInv
  <2>2. [attempt |-> d.attempt, root |-> r] \in Claim
    BY <1>1, <2>1 DEF RootFiles, Claim
  <2> QED BY <1>4, <2>2, AbsentAssumption DEF Done
<1>7. d.phase # "compile" => protocol'[d.phase] # NoParent
  BY <1>4, <1>5, AbsentAssumption DEF Done, Named, IInv, Types
<1>8. Done(r, e)'
  BY <1>3, <1>4, <1>5, <1>6, <1>7 DEF Done
<1> QED BY <1>1, <1>8

LEMMA ParentsKept ==
  ASSUME IInv, FInv, protocol' = protocol,
         \A r \in Roots : InUse(r) => /\ roots'[r].phase = roots[r].phase
                                      /\ roots[r].manifest # "absent" => roots'[r].manifest # "absent"
  PROVE  ParentsInv'
<1> SUFFICES ASSUME protocol["calibration"] # NoParent
             PROVE  LET e == roots'[protocol["calibration"]] IN e.phase = "correctness" /\ e.manifest # "absent"
  BY DEF ParentsInv
<1>1. protocol["calibration"] \in Roots /\ InUse(protocol["calibration"])
  <2>1. "calibration" \in Phase
    BY DEF Phase
  <2> QED BY <2>1 DEF IInv, Types, ClaimInv
<1>2. LET d == roots[protocol["calibration"]] IN d.phase = "correctness" /\ d.manifest # "absent"
  BY DEF FInv, ParentsInv
<1> QED BY <1>1, <1>2

\* A step of p that says what it does to its own root, and does nothing to others.
LEMMA FilesFrame ==
  ASSUME IInv, FInv, NEW p \in Procs, protocol' = protocol,
         \A q \in Procs \ {p} : pc'[q] = pc[q] /\ call'[q] = call[q],
         \A r \in Roots :
           \/ Alike(r) /\ (~InUse(r) /\ InUse(r)' => roots'[r].manifest = "absent")
           \/ /\ InTry(p) /\ r = call[p].root /\ FilesInv(r)'
              /\ roots'[r].phase = roots[r].phase
              /\ roots[r].manifest # "absent" => roots'[r].manifest # "absent",
         \A ph \in Phase : claims[ph] # NoClaim => claims'[ph] = claims[ph],
         \A w \in workers' : w \in workers \/ (pc[p] = "launch" /\ w.root = call[p].root),
         ProgressInv(p)'
  PROVE  FInv'
<1>1. \A ph \in Phase : Named(ph)
  BY DEF Named
<1>2. ASSUME NEW q \in Procs PROVE ProgressInv(q)'
  <2>1. CASE q = p
    BY <2>1
  <2>2. CASE q # p
    <3>1. ASSUME InTry(q)
          PROVE  /\ Alike(call[q].root)
                 /\ \A w \in workers' : w.root = call[q].root => w \in workers
      <4>1. call[q].root \in Roots
        <5>1. pc[q] # "idle" /\ CallInv(q)
          BY <3>1 DEF InTry, IInv
        <5> QED BY <5>1, CallType DEF IInv
      <4>2. InTry(p) => call[q].root # call[p].root
        BY <2>2, <3>1 DEF IInv, RootsApart
      <4>3. pc[p] = "launch" => InTry(p)
        BY DEF InTry
      <4> QED BY <4>1, <4>2, <4>3
    <3>2. pc'[q] = pc[q] /\ call'[q] = call[q]
      BY <2>2
    <3> QED BY <1>1, <3>1, <3>2, ProgressKept
  <2> QED BY <2>1, <2>2
<1>3. ASSUME NEW r \in Roots PROVE FilesInv(r)'
  <2>1. CASE FilesInv(r)'
    BY <2>1
  <2>2. CASE Alike(r) /\ (~InUse(r) /\ InUse(r)' => roots'[r].manifest = "absent")
    <3>1. CASE pc[p] = "launch" /\ r = call[p].root
      <4>1. roots[r].manifest = "absent" /\ InUse(r)
        BY <3>1 DEF FInv, ProgressInv, Progress, InTry, IInv, RootInv
      <4> QED BY <2>2, <4>1 DEF FilesInv, Alike
    <3>2. CASE ~(pc[p] = "launch" /\ r = call[p].root)
      <4>1. NoWorker(r) => NoWorker(r)'
        BY <3>2 DEF NoWorker
      <4> QED BY <1>1, <2>2, <4>1, FilesKept
    <3> QED BY <3>1, <3>2
  <2> QED BY <2>1, <2>2
<1>4. ParentsInv'
  <2>1. ASSUME NEW r \in Roots, InUse(r)
        PROVE  /\ roots'[r].phase = roots[r].phase
               /\ roots[r].manifest # "absent" => roots'[r].manifest # "absent"
    BY <2>1 DEF Alike
  <2> QED BY <2>1, ParentsKept
<1> QED BY <1>2, <1>3, <1>4 DEF FInv

-----------------------------------------------------------------------------
(* The steps of a call, and what they write.                                *)

\* p goes on in its try, having written the files d into its root.
LEMMA WriteFiles ==
  ASSUME IInv, FInv, NEW p \in Procs, InTry(p), NEW s \in Steps, Goto(p, s), NEW c, c = call[p],
         NEW d \in RootFiles, Set(c.root, d), d.phase = roots[c.root].phase,
         roots[c.root].manifest # "absent" => d.manifest # "absent",
         protocol' = protocol,
         \A ph \in Phase : claims[ph] # NoClaim => claims'[ph] = claims[ph],
         \A w \in workers' : w \in workers \/ (pc[p] = "launch" /\ w.root = c.root),
         Progress(s, c, d)',
         d.manifest # "absent" => Done(c.root, d)'
  PROVE  FInv'
<1>1. c.root \in Roots /\ pc[p] # "idle"
  <2>1. pc[p] # "idle" /\ CallInv(p)
    BY DEF InTry, IInv
  <2> QED BY <2>1, CallType DEF IInv
<1>2. /\ pc'[p] = s /\ call'[p] = c
      /\ \A q \in Procs \ {p} : pc'[q] = pc[q] /\ call'[q] = call[q]
  BY DEF Goto, IInv, Types
<1>3. roots'[c.root] = d /\ \A r \in Roots \ {c.root} : roots'[r] = roots[r]
  BY <1>1 DEF Set, IInv, Types
<1>4. ProgressInv(p)'
  BY <1>2, <1>3 DEF ProgressInv
<1>5. ASSUME NEW r \in Roots
      PROVE  \/ Alike(r) /\ (~InUse(r) /\ InUse(r)' => roots'[r].manifest = "absent")
             \/ /\ InTry(p) /\ r = call[p].root /\ FilesInv(r)'
                /\ roots'[r].phase = roots[r].phase
                /\ roots[r].manifest # "absent" => roots'[r].manifest # "absent"
  <2>1. CASE r = c.root
    BY <1>3, <2>1 DEF FilesInv
  <2>2. CASE r # c.root
    BY <1>3, <2>2 DEF Alike, InUse
  <2> QED BY <2>1, <2>2
<1> QED BY <1>2, <1>4, <1>5, FilesFrame

\* The same where no worker is started.
LEMMA WriteStill ==
  ASSUME IInv, FInv, NEW p \in Procs, InTry(p), NEW s \in Steps, Goto(p, s), NEW c, c = call[p],
         NEW d \in RootFiles, Set(c.root, d), d.phase = roots[c.root].phase,
         roots[c.root].manifest # "absent" => d.manifest # "absent",
         protocol' = protocol, workers' = workers,
         \A ph \in Phase : claims[ph] # NoClaim => claims'[ph] = claims[ph],
         Progress(s, c, d),
         d.manifest # "absent" => Done(c.root, d) /\ claims' = claims
  PROVE  FInv'
<1>1. Ledger(c.phase, c.root)' = Ledger(c.phase, c.root) /\ Ledger(d.phase, c.root)' = Ledger(d.phase, c.root)
  BY DEF Ledger
<1>2. Progress(s, c, d)'
  BY <1>1 DEF Progress, NoWorker
<1>3. d.manifest # "absent" => Done(c.root, d)'
  BY <1>1 DEF Done, NoWorker
<1> QED BY <1>2, <1>3, WriteFiles

\* p leaves its call; at most failure.json is written.
LEMMA LeaveFiles ==
  ASSUME IInv, FInv, NEW p \in Procs, pc[p] # "idle",
         claims' = claims, protocol' = protocol, workers' = workers,
         Raise(p) \/ (Leave(p) /\ UNCHANGED roots)
  PROVE  FInv'
<1>1. /\ pc'[p] = "idle"
      /\ \A q \in Procs \ {p} : pc'[q] = pc[q] /\ call'[q] = call[q]
  BY DEF Raise, Leave, IInv, Types
<1>2. ProgressInv(p)'
  BY <1>1 DEF ProgressInv, InTry
<1>3. ASSUME NEW r \in Roots
      PROVE  Alike(r) /\ (~InUse(r) /\ InUse(r)' => roots'[r].manifest = "absent")
  <2>1. CASE UNCHANGED roots
    BY <2>1 DEF Alike, InUse
  <2>2. CASE InTry(p) /\ Set(call[p].root, [roots[call[p].root] EXCEPT !.failure = TRUE])
    <3>1. CASE r = call[p].root
      <4>1. InUse(r)
        BY <2>2, <3>1 DEF IInv, RootInv
      <4>2. roots[r] \in RootFiles
        BY <4>1, RootType DEF IInv
      <4>3. roots'[r] = [roots[r] EXCEPT !.failure = TRUE]
        BY <2>2, <3>1 DEF Set, IInv, Types
      <4>4. roots'[r] \in RootFiles
        BY <4>2, <4>3 DEF RootFiles
      <4> QED BY <4>1, <4>2, <4>3, <4>4, AbsentAssumption DEF Alike, InUse, RootFiles
    <3>2. CASE r # call[p].root
      <4>1. roots'[r] = roots[r]
        BY <2>2, <3>2 DEF Set, IInv, Types
      <4> QED BY <4>1 DEF Alike, InUse
    <3> QED BY <3>1, <3>2
  <2> QED BY <2>1, <2>2 DEF Raise
<1> QED BY <1>1, <1>2, <1>3, FilesFrame

\* p is not in its try after the step, and writes nothing.
LEMMA OutsideFiles ==
  ASSUME IInv, FInv, NEW p \in Procs, ~InTry(p)', roots' = roots, workers' = workers, protocol' = protocol,
         \A q \in Procs \ {p} : pc'[q] = pc[q] /\ call'[q] = call[q],
         \A ph \in Phase : claims[ph] # NoClaim => claims'[ph] = claims[ph]
  PROVE  FInv'
<1>1. ProgressInv(p)'
  BY DEF ProgressInv
<1>2. \A r \in Roots : Alike(r) /\ (~InUse(r) /\ InUse(r)' => roots'[r].manifest = "absent")
  BY DEF Alike, InUse
<1> QED BY <1>1, <1>2, FilesFrame

LEMMA BeginFiles ==
  ASSUME IInv, FInv, NEW p \in Procs, Begin(p)
  PROVE  FInv'
<1>1. PICK ph \in Phase, a \in Attempts, r \in Roots :
        /\ pc[p] = "idle" /\ UNCHANGED <<claims, roots, workers, protocol>>
        /\ call' = [call EXCEPT ![p] = [phase |-> ph, attempt |-> a, root |-> r]]
        /\ pc' = [pc EXCEPT ![p] = IF ph = "calibration" THEN "mkdir" ELSE "claim"]
  BY DEF Begin, still
<1>2. \A q \in Procs \ {p} : pc'[q] = pc[q] /\ call'[q] = call[q]
  BY <1>1 DEF IInv, Types
<1>3. ~InTry(p)'
  BY <1>1 DEF InTry, IInv, Types
<1> QED BY <1>1, <1>2, <1>3, OutsideFiles

LEMMA ClaimFiles ==
  ASSUME IInv, FInv, NEW p \in Procs, ClaimAttempt(p) \/ ClaimCalibration(p)
  PROVE  FInv'
<1>1. /\ pc[p] = "claim" /\ CallInv(p) /\ RootInv(p) /\ call[p].phase \in Phase
      /\ UNCHANGED <<roots, workers, protocol>> /\ ClaimExclusively(p)
  <2>1. pc[p] = "claim" /\ CallInv(p) /\ RootInv(p)
    BY DEF ClaimAttempt, ClaimCalibration, IInv
  <2> QED BY <2>1, CallType DEF ClaimAttempt, ClaimCalibration, still, IInv
<1>2. \A ph \in Phase : claims[ph] # NoClaim => claims'[ph] = claims[ph]
  BY <1>1 DEF ClaimExclusively, IInv, Types
<1>3. CASE ClaimAttempt(p)
  <2>1. /\ pc'[p] = "mkdir"
        /\ \A q \in Procs \ {p} : pc'[q] = pc[q] /\ call'[q] = call[q]
    BY <1>3 DEF ClaimAttempt, Goto, IInv, Types
  <2> QED BY <1>1, <1>2, <2>1, OutsideFiles DEF InTry
<1>4. CASE ClaimCalibration(p)
  <2>1. InTry(p) /\ Goto(p, "prepare") /\ "prepare" \in Steps
    BY <1>4 DEF ClaimCalibration, InTry, Steps
  <2> PICK c : c = call[p]
    OBVIOUS
  <2> PICK d : d = roots[c.root]
    OBVIOUS
  <2>2. c.root \in Roots /\ InUse(c.root)
    <3>1. pc[p] # "idle"
      BY <1>1
    <3> QED BY <1>1, <2>1, <3>1, CallType DEF RootInv, IInv
  <2>3. d \in RootFiles
    BY <2>2, RootType DEF IInv
  <2>4. Progress("claim", c, d)
    BY <1>1, <2>1 DEF FInv, ProgressInv
  <2>5. Progress("prepare", c, d) /\ d.manifest = "absent"
    BY <2>4 DEF Progress
  <2>6. Set(c.root, d)
    BY <1>1 DEF Set, IInv, Types
  <2> QED BY <1>1, <1>2, <2>1, <2>3, <2>5, <2>6, WriteStill
<1> QED BY <1>3, <1>4

LEMMA MakeRootFiles ==
  ASSUME IInv, FInv, NEW p \in Procs, MakeRoot(p)
  PROVE  FInv'
<1>1. /\ pc[p] = "mkdir" /\ CallInv(p) /\ call[p].phase \in Phase /\ call[p].root \in Roots
      /\ UNCHANGED <<claims, workers, protocol>>
  <2>1. pc[p] = "mkdir" /\ CallInv(p)
    BY DEF MakeRoot, IInv
  <2> QED BY <2>1, CallType DEF IInv, MakeRoot, still
<1> PICK c : c = call[p]
  OBVIOUS
<1>2. CASE roots[c.root] = NoRoot
  <2> DEFINE new == [phase |-> c.phase, attempt |-> c.attempt, parent |-> NoParent,
                     events |-> 0, sealed |-> FALSE, started |-> 0, results |-> {}, phases |-> <<>>,
                     manifest |-> "absent", failure |-> FALSE, damaged |-> FALSE]
             s == CASE c.phase = "compile" -> "prepare"
                    [] c.phase = "correctness" -> "verify parent"
                    [] OTHER -> "copy parent"
  <2>1. Set(c.root, new) /\ Goto(p, s)
    BY <1>2 DEF MakeRoot
  <2>2. s \in {"prepare", "verify parent", "copy parent"}
    OBVIOUS
  <2> HIDE DEF s
  <2>3. /\ pc'[p] = s /\ call'[p] = c
        /\ \A q \in Procs \ {p} : pc'[q] = pc[q] /\ call'[q] = call[q]
    BY <2>1 DEF Goto, IInv, Types
  <2>4. roots'[c.root] = new /\ \A r \in Roots \ {c.root} : roots'[r] = roots[r]
    BY <1>1, <2>1 DEF Set, IInv, Types
  <2>5. NoWorker(c.root)
    BY <1>2 DEF NoWorker, IInv, WorkersInv, InUse
  <2>6. Progress(s, c, new)'
    BY <1>1, <2>2, <2>5 DEF Progress, NoWorker
  <2>7. ProgressInv(p)'
    BY <2>3, <2>4, <2>6 DEF ProgressInv
  <2>8. new.manifest = "absent"
    OBVIOUS
  <2> HIDE DEF new
  <2>9. \A r \in Roots : Alike(r) /\ (~InUse(r) /\ InUse(r)' => roots'[r].manifest = "absent")
    BY <1>2, <2>4, <2>8 DEF Alike, InUse
  <2> QED BY <1>1, <2>3, <2>7, <2>9, FilesFrame
<1>3. CASE roots[c.root] # NoRoot
  <2>1. Leave(p) /\ UNCHANGED roots
    BY <1>3 DEF MakeRoot, LeaveUnrecorded
  <2> QED BY <1>1, <2>1, LeaveFiles
<1> QED BY <1>2, <1>3

\* What is known of a call in its try.
LEMMA OwnFacts ==
  ASSUME IInv, FInv, NEW p \in Procs, InTry(p), NEW c, c = call[p], NEW d, d = roots[c.root]
  PROVE  /\ c.phase \in Phase /\ c.attempt \in Attempts /\ c.root \in Roots
         /\ d \in RootFiles /\ d.phase = c.phase
         /\ CallInv(p) /\ RootInv(p) /\ Progress(pc[p], c, d)
<1>1. pc[p] # "idle" /\ CallInv(p) /\ RootInv(p)
  BY DEF InTry, IInv
<1>2. c.phase \in Phase /\ c.attempt \in Attempts /\ c.root \in Roots
  BY <1>1, CallType DEF IInv
<1>3. InUse(c.root) /\ d.phase = c.phase
  BY <1>1 DEF RootInv
<1>4. d \in RootFiles
  BY <1>2, <1>3, RootType DEF IInv
<1> QED BY <1>1, <1>2, <1>3, <1>4 DEF FInv, ProgressInv

LEMMA CopyFiles ==
  ASSUME IInv, FInv, NEW p \in Procs, VerifyParent(p) \/ CopyParent(p)
  PROVE  FInv'
<1>1. /\ pc[p] \in {"verify parent", "copy parent"} /\ InTry(p)
      /\ UNCHANGED <<claims, workers, protocol>>
  BY DEF VerifyParent, CopyParent, InTry, still
<1> PICK c : c = call[p]
  OBVIOUS
<1> PICK d : d = roots[c.root]
  OBVIOUS
<1>2. /\ c.root \in Roots /\ c.phase \in Phase /\ d \in RootFiles /\ Progress(pc[p], c, d)
      /\ CallInv(p)
  BY <1>1, OwnFacts
<1>3. CASE Raise(p)
  BY <1>1, <1>3, LeaveFiles
<1>4. CASE VerifyParent(p) /\ Goto(p, "copy parent") /\ UNCHANGED roots
  <2>1. Set(c.root, d) /\ pc[p] = "verify parent" /\ "copy parent" \in Steps
    BY <1>4 DEF Set, IInv, Types, VerifyParent, Steps
  <2>2. Progress("copy parent", c, d) /\ d.manifest = "absent"
    BY <1>2, <2>1 DEF Progress
  <2> QED BY <1>1, <1>2, <1>4, <2>1, <2>2, WriteStill
<1>5. CASE /\ CopyParent(p) /\ Copied(p).intact /\ Goto(p, AfterCopy(p))
           /\ Set(c.root, [d EXCEPT !.parent = Copied(p)])
  <2> PICK e : e = [d EXCEPT !.parent = Copied(p)]
    OBVIOUS
  <2> PICK s : s = AfterCopy(p)
    OBVIOUS
  <2>1. pc[p] = "copy parent" /\ s \in {"prepare", "claim"} /\ s \in Steps
    BY <1>5 DEF CopyParent, AfterCopy, Steps
  <2>2. Copied(p) \in [root : Roots, intact : BOOLEAN]
    <3>1. protocol[c.phase] \in Roots
      BY <1>2, <2>1 DEF CallInv, IInv, Types
    <3> QED BY <1>5, <3>1 DEF Copied, Verifies
  <2>3. /\ e \in RootFiles /\ e.phase = d.phase /\ e.attempt = d.attempt /\ e.manifest = d.manifest
        /\ e.results = d.results /\ e.started = d.started /\ e.events = d.events
    BY <1>2, <2>2 DEF RootFiles
  <2>4. Progress(s, c, e) /\ e.manifest = "absent"
    BY <1>2, <2>1, <2>3 DEF Progress
  <2> QED BY <1>1, <1>2, <1>5, <2>1, <2>3, <2>4, WriteStill
<1> QED BY <1>3, <1>4, <1>5 DEF VerifyParent, CopyParent

LEMMA PrepareFiles ==
  ASSUME IInv, FInv, NEW p \in Procs, Prepare(p)
  PROVE  FInv'
<1>1. /\ pc[p] = "prepare" /\ InTry(p) /\ "launch" \in Steps /\ Goto(p, "launch")
      /\ UNCHANGED <<claims, workers, protocol>>
  BY DEF Prepare, InTry, still, Steps
<1> PICK c : c = call[p]
  OBVIOUS
<1> PICK d : d = roots[c.root]
  OBVIOUS
<1>2. /\ c.root \in Roots /\ c.phase \in Phase /\ d \in RootFiles /\ Progress(pc[p], c, d)
      /\ RootInv(p)
  BY <1>1, OwnFacts
<1> PICK e : e = [d EXCEPT !.events = Prepared(c.phase)]
  OBVIOUS
<1>3. Set(c.root, e)
  BY DEF Prepare
<1>4. /\ e \in RootFiles /\ e.phase = d.phase /\ e.attempt = d.attempt /\ e.manifest = d.manifest
      /\ e.results = d.results /\ e.started = d.started /\ e.events = Prepared(c.phase)
  BY <1>2, EventCounts DEF RootFiles
<1>5. d.started = 0
  BY <1>1, <1>2 DEF RootInv
<1>6. Progress("launch", c, e) /\ e.manifest = "absent"
  <2>1. {} = 1..0
    OBVIOUS
  <2> QED BY <1>1, <1>2, <1>4, <1>5, <2>1 DEF Progress
<1> QED BY <1>1, <1>2, <1>3, <1>4, <1>6, WriteStill

\* The result of the worker that was launched last completes those before it.
LEMMA CollectFiles ==
  ASSUME IInv, FInv, NEW p \in Procs, Collect(p)
  PROVE  FInv'
<1>1. pc[p] = "work" /\ InTry(p) /\ NoWorker(call[p].root) /\ UNCHANGED <<claims, workers, protocol>>
  BY DEF Collect, InTry, still, NoWorker
<1> PICK c : c = call[p]
  OBVIOUS
<1> PICK d : d = roots[c.root]
  OBVIOUS
<1>2. /\ c.root \in Roots /\ c.phase \in Phase /\ d \in RootFiles /\ Progress(pc[p], c, d)
      /\ d.phase = c.phase
  BY <1>1, OwnFacts
<1>3. CASE Raise(p)
  BY <1>1, <1>3, LeaveFiles
<1>4. CASE d.started \in d.results /\ Goto(p, AfterWork(d)) /\ UNCHANGED roots
  <2>1. Set(c.root, d)
    BY <1>4 DEF Set, IInv, Types
  <2>2. /\ d.started \in Repetitions(c.phase) /\ d.attempt = c.attempt /\ d.manifest = "absent"
        /\ d.results \in {1..(d.started - 1), 1..d.started} /\ d.events = Prepared(c.phase)
    BY <1>1, <1>2 DEF Progress
  <2>3. d.started \in {1, 2}
    BY <1>2, <2>2 DEF Repetitions
  <2>4. d.results = 1..d.started
    <3>1. d.started \notin 1..(d.started - 1)
      BY <2>3
    <3> QED BY <1>4, <2>2, <3>1
  <2> PICK s : s = AfterWork(d)
    OBVIOUS
  <2>5. /\ s \in {"launch", "record"} /\ s \in Steps
        /\ s = "record" => d.results = Repetitions(c.phase)
    <3>1. s \in {"launch", "record"} /\ s \in Steps
      BY DEF AfterWork, Steps
    <3>2. ASSUME s = "record" PROVE 1..d.started = Repetitions(c.phase)
      <4>1. ~(d.started < Cardinality(Repetitions(c.phase)))
        BY <1>2, <3>2 DEF AfterWork
      <4>2. CASE c.phase = "compile"
        <5>1. d.started = 2
          BY <2>3, <4>1, <4>2, RepetitionCounts
        <5>2. 1..2 = {1, 2}
          OBVIOUS
        <5> QED BY <4>2, <5>1, <5>2 DEF Repetitions
      <4>3. CASE c.phase # "compile"
        <5>1. d.started = 1
          BY <2>2, <4>3 DEF Repetitions
        <5>2. 1..1 = {1}
          OBVIOUS
        <5> QED BY <4>3, <5>1, <5>2 DEF Repetitions
      <4> QED BY <4>2, <4>3
    <3> QED BY <2>4, <3>1, <3>2
  <2>6. Progress(s, c, d)
    BY <1>1, <2>2, <2>4, <2>5 DEF Progress
  <2> QED BY <1>1, <1>2, <1>4, <2>1, <2>2, <2>5, <2>6, WriteStill
<1> QED BY <1>3, <1>4 DEF Collect

LEMMA LaunchFiles ==
  ASSUME IInv, FInv, NEW p \in Procs, LaunchWorker(p)
  PROVE  FInv'
<1>1. /\ pc[p] = "launch" /\ InTry(p) /\ Goto(p, "work") /\ "work" \in Steps
      /\ UNCHANGED <<claims, protocol>>
  BY DEF LaunchWorker, InTry, still, Steps
<1> PICK c : c = call[p]
  OBVIOUS
<1> PICK d : d = roots[c.root]
  OBVIOUS
<1>2. /\ c.root \in Roots /\ c.phase \in Phase /\ d \in RootFiles /\ Progress(pc[p], c, d)
      /\ d.phase = c.phase /\ RootInv(p)
  BY <1>1, OwnFacts
<1> PICK n : n = d.started + 1
  OBVIOUS
<1> PICK w : w = [phase |-> d.phase, attempt |-> c.attempt, root |-> c.root, repetition |-> n]
  OBVIOUS
<1> PICK e : e = [d EXCEPT !.started = n]
  OBVIOUS
<1>3. /\ workers' = workers \cup {w} /\ w.root = c.root /\ w.repetition = n
      /\ Set(c.root, e)
  BY DEF LaunchWorker
<1>4. n \in Repetitions(c.phase) /\ n \in {1, 2} /\ n - 1 = d.started
  <2>1. d.started \in 0..2 /\ d.started < Cardinality(Repetitions(c.phase))
    BY <1>1, <1>2 DEF RootFiles, RootInv
  <2> QED BY <1>2, <2>1, RepetitionCounts DEF Phase, Repetitions
<1>5. /\ e \in RootFiles /\ e.phase = d.phase /\ e.attempt = d.attempt /\ e.manifest = d.manifest
      /\ e.results = d.results /\ e.started = n /\ e.events = d.events
  BY <1>2, <1>4 DEF RootFiles
<1>6. Progress("work", c, e)'
  <2>1. d.results = 1..(n - 1) /\ NoWorker(c.root)
    BY <1>1, <1>2, <1>4 DEF Progress
  <2>2. \A v \in workers' : v.root = c.root => v.repetition = n
    BY <1>3, <2>1 DEF NoWorker
  <2> QED BY <1>1, <1>2, <1>4, <1>5, <2>1, <2>2 DEF Progress
<1>7. e.manifest = "absent"
  BY <1>1, <1>2, <1>5 DEF Progress
<1>8. \A v \in workers' : v \in workers \/ (pc[p] = "launch" /\ v.root = c.root)
  BY <1>1, <1>3
<1>9. e.phase = roots[c.root].phase /\ \A ph \in Phase : claims[ph] # NoClaim => claims'[ph] = claims[ph]
  BY <1>1, <1>5
<1>10. e \in RootFiles /\ Set(c.root, e) /\ protocol' = protocol
  BY <1>1, <1>3, <1>5
<1> PICK s : s = "work"
  OBVIOUS
<1>11. s \in Steps /\ Goto(p, s) /\ Progress(s, c, e)'
  BY <1>1, <1>6
<1>12. roots[c.root].manifest # "absent" => e.manifest # "absent"
  BY <1>5
<1>13. e.manifest # "absent" => Done(c.root, e)'
  BY <1>7
<1> QED BY ONLY IInv, FInv, p \in Procs, c = call[p], <1>1, <1>8, <1>9, <1>10, <1>11, <1>12, <1>13, WriteFiles

LEMMA PreparedBefore ==
  ASSUME NEW ph \in Phase
  PROVE  Prepared(ph) \in Nat /\ Len(Events(ph)) \in 0..7 /\ Prepared(ph) < Len(Events(ph))
BY DEF Prepared, Events, Phase

\* The phase ledger that a call records goes back to the compile attempt: a
\* calibration continues that of the correctness root it has copied.
LEMMA LedgerRecorded ==
  ASSUME IInv, FInv, NEW p \in Procs, pc[p] = "record", NEW c, c = call[p]
  PROVE  PhaseLedger(p) = Ledger(c.phase, c.root)
<1>1. InTry(p)
  BY DEF InTry
<1> PICK d : d = roots[c.root]
  OBVIOUS
<1>2. c.phase \in Phase /\ c.root \in Roots /\ CallInv(p) /\ RootInv(p)
  BY <1>1, OwnFacts
<1>3. CASE c.phase = "compile"
  BY <1>3 DEF PhaseLedger, Ledger
<1>4. CASE c.phase = "correctness"
  <2>1. \A a, b : <<a, b>> = Append(<<a>>, b)
    OBVIOUS
  <2> QED BY <1>4, <2>1 DEF PhaseLedger, Ledger
<1>5. CASE c.phase = "calibration"
  <2> PICK parent : parent = protocol["calibration"]
    OBVIOUS
  <2>1. parent \in Roots /\ InUse(parent) /\ parent # NoParent
    BY <1>1, <1>2, <1>5 DEF CallInv, IInv, Types, ClaimInv
  <2>2. roots[parent].phase = "correctness" /\ roots[parent].manifest # "absent"
    BY <2>1 DEF FInv, ParentsInv
  <2>3. Done(parent, roots[parent])
    BY <2>1, <2>2 DEF FInv, FilesInv
  <2>4. roots[parent].phases = Append(<<PhaseEvent("compile", protocol["correctness"])>>, PhaseEvent("correctness", parent))
    BY <2>2, <2>3 DEF Done, Ledger
  <2>5. roots[c.root].parent.root = parent
    BY <1>1, <1>2, <1>5 DEF RootInv, ParentOf
  <2> QED BY <1>5, <2>4, <2>5 DEF PhaseLedger, Ledger
<1> QED BY <1>2, <1>3, <1>4, <1>5 DEF Phase

LEMMA RecordFiles ==
  ASSUME IInv, FInv, NEW p \in Procs, Record(p)
  PROVE  FInv'
<1>1. pc[p] = "record" /\ InTry(p) /\ UNCHANGED <<claims, workers, protocol>>
  BY DEF Record, InTry, still
<1> PICK c : c = call[p]
  OBVIOUS
<1> PICK d : d = roots[c.root]
  OBVIOUS
<1>2. /\ c.root \in Roots /\ c.phase \in Phase /\ d \in RootFiles /\ Progress(pc[p], c, d)
      /\ d.phase = c.phase
  BY <1>1, OwnFacts
<1> PICK n : n = Len(Events(c.phase))
  OBVIOUS
<1> PICK m : m = Prepared(c.phase)
  OBVIOUS
<1> PICK k : k = d.events
  OBVIOUS
<1>3. m \in Nat /\ n \in 0..7 /\ m < n /\ k \in 0..7
  BY <1>2, PreparedBefore DEF RootFiles
<1>4. /\ d.attempt = c.attempt /\ d.manifest = "absent" /\ NoWorker(c.root)
      /\ d.results = Repetitions(c.phase)
      /\ k = m \/ (k \in m..n /\ d.phases = Ledger(c.phase, c.root))
  BY <1>1, <1>2 DEF Progress
<1>5. CASE k < n
  <2> PICK e : e = [d EXCEPT !.events = k + 1, !.phases = PhaseLedger(p)]
    OBVIOUS
  <2>1. Set(c.root, e) /\ Goto(p, "record") /\ "record" \in Steps
    BY <1>2, <1>5 DEF Record, Steps
  <2>2. /\ e.phase = d.phase /\ e.attempt = d.attempt /\ e.manifest = d.manifest
        /\ e.results = d.results /\ e.started = d.started /\ e.events = k + 1
        /\ e.phases = PhaseLedger(p)
    BY <1>2 DEF RootFiles
  <2>3. e \in RootFiles
    <3>1. roots' \in [Roots -> RootFiles \cup {NoRoot}]
      BY NextStep DEF Next, Step, IInv, Types
    <3>2. roots'[c.root] = e
      BY <1>2, <2>1 DEF Set, IInv, Types
    <3>3. e # NoRoot
      <4>1. RootInv(p)'
        BY NextStep DEF Next, Step, IInv
      <4>2. InTry(p)' /\ call'[p] = c
        BY <2>1 DEF InTry, Goto, IInv, Types
      <4> QED BY <3>2, <4>1, <4>2 DEF RootInv, InUse
    <3> QED BY <1>2, <3>1, <3>2, <3>3
  <2>4. k + 1 \in m..n
    BY <1>3, <1>4, <1>5
  <2>5. Progress("record", c, e)
    BY <1>1, <1>4, <2>2, <2>4, LedgerRecorded DEF Progress
  <2> QED BY <1>1, <1>2, <1>4, <2>1, <2>2, <2>3, <2>5, WriteStill
<1>6. CASE ~(k < n)
  <2> PICK e : e = [d EXCEPT !.sealed = TRUE]
    OBVIOUS
  <2>1. Set(c.root, e) /\ Goto(p, "manifest") /\ "manifest" \in Steps
    BY <1>2, <1>6 DEF Record, Steps
  <2>2. /\ e \in RootFiles /\ e.phase = d.phase /\ e.attempt = d.attempt /\ e.manifest = d.manifest
        /\ e.results = d.results /\ e.started = d.started /\ e.events = k
        /\ e.phases = d.phases /\ e.sealed
    BY <1>2 DEF RootFiles
  <2>3. k = n /\ d.phases = Ledger(c.phase, c.root)
    BY <1>3, <1>4, <1>6
  <2>4. Progress("manifest", c, e)
    BY <1>1, <1>4, <2>2, <2>3 DEF Progress
  <2>5. e.phase = roots[c.root].phase /\ e.manifest = "absent" /\ roots[c.root].manifest = "absent"
    BY <1>2, <1>4, <2>2
  <2> QED BY <1>1, <1>2, <2>1, <2>2, <2>4, <2>5, WriteStill
<1> QED BY <1>5, <1>6

\* Everything is written when manifest.json is created.
LEMMA ManifestFiles ==
  ASSUME IInv, FInv, NEW p \in Procs, OpenManifest(p) \/ FillManifest(p)
  PROVE  FInv'
<1>1. pc[p] \in {"manifest", "fill"} /\ InTry(p) /\ UNCHANGED <<claims, workers, protocol>>
  BY DEF OpenManifest, FillManifest, InTry, still
<1> PICK c : c = call[p]
  OBVIOUS
<1> PICK d : d = roots[c.root]
  OBVIOUS
<1>2. /\ c.root \in Roots /\ c.phase \in Phase /\ d \in RootFiles /\ Progress(pc[p], c, d)
      /\ d.phase = c.phase /\ CallInv(p)
  BY <1>1, OwnFacts
<1>3. Done(c.root, d)
  <2>1. claims[c.phase] = [attempt |-> d.attempt, root |-> c.root]
    BY <1>1, <1>2 DEF CallInv, Holds, ClaimOf, Progress
  <2>2. c.phase # "compile" => protocol[c.phase] # NoParent
    BY <1>1, <1>2 DEF CallInv
  <2> QED BY <1>1, <1>2, <2>1, <2>2 DEF Done, Progress
<1> PICK mark, s : \/ mark = "torn" /\ s = "fill" /\ OpenManifest(p)
                   \/ mark = "whole" /\ s = "replay" /\ FillManifest(p)
  OBVIOUS
<1> PICK e : e = [d EXCEPT !.manifest = mark]
  OBVIOUS
<1>4. Set(c.root, e) /\ Goto(p, s) /\ s \in Steps /\ s \in {"fill", "replay"}
  BY DEF OpenManifest, FillManifest, Steps
<1>5. /\ e \in RootFiles /\ e.phase = d.phase /\ e.attempt = d.attempt /\ e.manifest # "absent"
      /\ e.results = d.results /\ e.started = d.started /\ e.events = d.events
      /\ e.phases = d.phases /\ e.sealed = d.sealed
  BY <1>2 DEF RootFiles, File
<1>6. Done(c.root, e)
  BY <1>3, <1>5 DEF Done
<1>7. Progress(s, c, e)
  BY <1>1, <1>2, <1>4, <1>5 DEF Progress
<1> QED BY <1>1, <1>2, <1>4, <1>5, <1>6, <1>7, WriteStill

LEMMA StepFiles ==
  ASSUME IInv, FInv, NEW p \in Procs, Step(p)
  PROVE  FInv'
<1>1. CASE PermanentlyClaimed(p) \/ CalibrationClaimed(p) \/ Replay(p)
  BY <1>1, LeaveFiles DEF PermanentlyClaimed, CalibrationClaimed, Replay, still
<1> QED BY <1>1, ClaimFiles, MakeRootFiles, CopyFiles, PrepareFiles, LaunchFiles, CollectFiles,
           RecordFiles, ManifestFiles DEF Step

-----------------------------------------------------------------------------
(* The steps that are not of a call.                                        *)

\* No call moves, no claim is made, and no root says anything else.
LEMMA OutsideKeeps ==
  ASSUME IInv, FInv, UNCHANGED <<pc, call, claims>>, workers' \subseteq workers,
         \A ph \in Phase : Named(ph),
         \A r \in Roots : Alike(r) /\ (~InUse(r) /\ InUse(r)' => roots'[r].manifest = "absent"),
         ParentsInv'
  PROVE  FInv'
<1>1. ASSUME NEW q \in Procs PROVE ProgressInv(q)'
  <2>1. InTry(q) => call[q].root \in Roots
    BY OwnFacts
  <2>2. InTry(q) => /\ Alike(call[q].root)
                    /\ \A w \in workers' : w.root = call[q].root => w \in workers
    BY <2>1
  <2> QED BY <2>2, ProgressKept
<1>2. ASSUME NEW r \in Roots PROVE FilesInv(r)'
  <2>1. NoWorker(r) => NoWorker(r)'
    BY DEF NoWorker
  <2> QED BY <2>1, FilesKept
<1> QED BY <1>1, <1>2 DEF FInv

LEMMA ResultFiles ==
  ASSUME IInv, FInv, NEW w \in workers, WorkerResult(w)
  PROVE  FInv'
<1> PICK r : r = w.root
  OBVIOUS
<1> PICK d : d = roots[r]
  OBVIOUS
<1> PICK e : e = [d EXCEPT !.results = @ \cup {w.repetition}]
  OBVIOUS
<1>1. r \in Roots /\ InUse(r) /\ ~NoWorker(r)
  BY DEF IInv, Types, Launch, WorkersInv, NoWorker
<1>2. d \in RootFiles
  BY <1>1, RootType DEF IInv
<1>3. /\ UNCHANGED <<pc, call, claims, protocol>> /\ workers' \subseteq workers
      /\ roots'[r] = e /\ \A t \in Roots \ {r} : roots'[t] = roots[t]
  BY <1>1 DEF WorkerResult, Set, IInv, Types
<1>4. /\ e.phase = d.phase /\ e.attempt = d.attempt /\ e.manifest = d.manifest
      /\ e.results = d.results \cup {w.repetition} /\ e.started = d.started /\ e.events = d.events
      /\ e.phases = d.phases /\ e.sealed = d.sealed
  BY <1>2 DEF RootFiles
<1>5. \A ph \in Phase : Named(ph)
  BY <1>3 DEF Named
<1>6. d.manifest = "absent"
  BY <1>1 DEF FInv, FilesInv, Done
<1>7. ASSUME NEW q \in Procs PROVE ProgressInv(q)'
  <2>1. CASE InTry(q) /\ call[q].root = r
    <3> PICK c : c = call[q]
      OBVIOUS
    <3>1. c.phase \in Phase /\ Progress(pc[q], c, d)
      BY <2>1, OwnFacts
    <3>2. pc[q] = "work"
      BY <1>1, <2>1, <3>1 DEF Progress
    <3>3. /\ d.started \in Repetitions(c.phase) /\ w.repetition = d.started
          /\ d.results \in {1..(d.started - 1), 1..d.started}
          /\ \A v \in workers : v.root = r => v.repetition = d.started
          /\ d.attempt = c.attempt /\ d.events = Prepared(c.phase)
      BY <2>1, <3>1, <3>2 DEF Progress
    <3>4. e.results = 1..e.started
      <4>1. d.started \in {1, 2}
        BY <3>3 DEF Repetitions
      <4>2. \A n \in {1, 2} : (1..(n - 1)) \cup {n} = 1..n /\ (1..n) \cup {n} = 1..n
        OBVIOUS
      <4> QED BY <1>4, <3>3, <4>1, <4>2
    <3>5. Progress("work", c, e)'
      BY <1>3, <1>4, <1>6, <2>1, <3>3, <3>4 DEF Progress
    <3>6. pc'[q] = "work" /\ call'[q] = c /\ roots'[c.root] = e
      BY <1>3, <2>1, <3>2
    <3> QED BY <3>5, <3>6 DEF ProgressInv
  <2>2. CASE ~(InTry(q) /\ call[q].root = r)
    <3>1. InTry(q) => call[q].root \in Roots
      BY OwnFacts
    <3>2. InTry(q) => /\ Alike(call[q].root)
                      /\ \A v \in workers' : v.root = call[q].root => v \in workers
      BY <1>3, <2>2, <3>1 DEF Alike, InUse
    <3> QED BY <1>3, <1>5, <3>2, ProgressKept
  <2> QED BY <2>1, <2>2
<1>8. ASSUME NEW t \in Roots PROVE FilesInv(t)'
  <2>1. CASE t = r
    BY <1>3, <1>4, <1>6, <2>1 DEF FilesInv
  <2>2. CASE t # r
    <3>1. Alike(t) /\ (~InUse(t) /\ InUse(t)' => roots'[t].manifest = "absent")
      BY <1>3, <2>2 DEF Alike, InUse
    <3>2. NoWorker(t) => NoWorker(t)'
      BY <1>3 DEF NoWorker
    <3> QED BY <1>3, <1>5, <3>1, <3>2, FilesKept
  <2> QED BY <2>1, <2>2
<1>9. ParentsInv'
  <2>1. ASSUME NEW t \in Roots, InUse(t)
        PROVE  /\ roots'[t].phase = roots[t].phase
               /\ roots[t].manifest # "absent" => roots'[t].manifest # "absent"
    <3>1. CASE t = r
      BY <1>3, <1>4, <3>1
    <3>2. CASE t # r
      BY <1>3, <3>2
    <3> QED BY <3>1, <3>2
  <2> QED BY <1>3, <2>1, ParentsKept
<1> QED BY <1>7, <1>8, <1>9 DEF FInv

LEMMA WorldFiles ==
  ASSUME IInv, FInv, \/ \E w \in workers : WorkerResult(w) \/ WorkerFails(w)
                     \/ CommitProtocol \/ Damage \/ UNCHANGED vars
  PROVE  FInv'
<1>1. CASE \E w \in workers : WorkerResult(w)
  BY <1>1, ResultFiles
<1>2. CASE (\E w \in workers : WorkerFails(w)) \/ UNCHANGED vars
  <2>1. UNCHANGED <<pc, call, claims, roots, protocol>> /\ workers' \subseteq workers
    BY <1>2 DEF WorkerFails, vars
  <2>2. \A r \in Roots : Alike(r) /\ (~InUse(r) /\ InUse(r)' => roots'[r].manifest = "absent")
    BY <2>1 DEF Alike, InUse
  <2>3. ParentsInv' /\ \A ph \in Phase : Named(ph)
    BY <2>1 DEF FInv, ParentsInv, Named
  <2> QED BY <2>1, <2>2, <2>3, OutsideKeeps
<1>3. CASE CommitProtocol
  <2>1. UNCHANGED <<pc, call, claims, roots, workers>>
    BY <1>3 DEF CommitProtocol
  <2>2. PICK ph \in {"correctness", "calibration"}, r \in Roots :
          /\ protocol[ph] = NoParent /\ Verifies(r) /\ roots[r].phase = Parent(ph)
          /\ protocol' = [protocol EXCEPT ![ph] = r]
    BY <1>3 DEF CommitProtocol
  <2>3. \A t \in Roots : Alike(t) /\ (~InUse(t) /\ InUse(t)' => roots'[t].manifest = "absent")
    BY <2>1 DEF Alike, InUse
  <2>4. \A k \in Phase : Named(k)
    BY <2>1, <2>2 DEF Named, Verifies, IInv, Types
  <2>5. ParentsInv'
    <3>1. "calibration" \in Phase
      BY DEF Phase
    <3>2. CASE ph = "calibration"
      BY <2>1, <2>2, <3>1, <3>2 DEF ParentsInv, Verifies, Parent, IInv, Types
    <3>3. CASE ph = "correctness"
      <4>1. protocol'["calibration"] = protocol["calibration"]
        BY <2>2, <3>1, <3>3 DEF IInv, Types
      <4> QED BY <2>1, <4>1 DEF FInv, ParentsInv
    <3> QED BY <3>2, <3>3
  <2> QED BY <2>1, <2>3, <2>4, <2>5, OutsideKeeps
<1>4. CASE Damage
  <2>1. UNCHANGED <<pc, call, claims, protocol, workers>>
    BY <1>4 DEF Damage
  <2>2. PICK r \in Roots : Verifies(r) /\ Set(r, [roots[r] EXCEPT !.damaged = TRUE])
    BY <1>4 DEF Damage
  <2> PICK d : d = roots[r]
    OBVIOUS
  <2> PICK e : e = [d EXCEPT !.damaged = TRUE]
    OBVIOUS
  <2>3. d \in RootFiles
    BY <2>2, RootType DEF Verifies, InUse, IInv
  <2>4. /\ e \in RootFiles /\ e.phase = d.phase /\ e.attempt = d.attempt /\ e.manifest = d.manifest
        /\ e.results = d.results /\ e.started = d.started /\ e.events = d.events
        /\ e.phases = d.phases /\ e.sealed = d.sealed
    BY <2>3 DEF RootFiles
  <2>5. roots'[r] = e /\ \A t \in Roots \ {r} : roots'[t] = roots[t]
    BY <2>2 DEF Set, IInv, Types
  <2>6. ASSUME NEW t \in Roots
        PROVE  Alike(t) /\ (~InUse(t) /\ InUse(t)' => roots'[t].manifest = "absent")
    <3>1. CASE t = r
      BY <2>2, <2>4, <2>5, <3>1, AbsentAssumption DEF Alike, InUse, Verifies
    <3>2. CASE t # r
      BY <2>5, <3>2 DEF Alike, InUse
    <3> QED BY <3>1, <3>2
  <2>7. ParentsInv'
    <3>1. ASSUME NEW t \in Roots, InUse(t)
          PROVE  /\ roots'[t].phase = roots[t].phase
                 /\ roots[t].manifest # "absent" => roots'[t].manifest # "absent"
      BY <2>6, <3>1 DEF Alike
    <3> QED BY <2>1, <3>1, ParentsKept
  <2> QED BY <2>1, <2>6, <2>7, OutsideKeeps DEF Named
<1> QED BY <1>1, <1>2, <1>3, <1>4

LEMMA FilesInit == Init => FInv
<1> SUFFICES ASSUME Init PROVE FInv
  OBVIOUS
<1>1. "calibration" \in Phase
  BY DEF Phase
<1> QED BY <1>1 DEF Init, FInv, FilesInv, InUse, ParentsInv, ProgressInv, InTry

LEMMA FilesNext == IInv /\ FInv /\ [Next]_vars => FInv'
<1> SUFFICES ASSUME IInv, FInv, [Next]_vars PROVE FInv'
  OBVIOUS
<1>1. ASSUME NEW p \in Procs, Fault(p) \/ HandlerFault(p) \/ Kill(p) PROVE FInv'
  <2>1. /\ pc[p] # "idle" /\ UNCHANGED <<claims, protocol, workers>>
        /\ Raise(p) \/ (Leave(p) /\ UNCHANGED roots)
    BY <1>1 DEF Fault, HandlerFault, InTry, Kill, LeaveUnrecorded
  <2> QED BY <2>1, LeaveFiles
<1> QED BY <1>1, BeginFiles, StepFiles, WorldFiles DEF Next

\* A manifest stands only over a finished attempt, without a failure beside it
\* or with one: its root is the one the claim names, its ledger is finished and
\* sealed, all its workers answered, and its phase ledger goes back, root by
\* root, to the compile attempt, whatever was killed, raised or damaged.
THEOREM ManifestsAreGenuine == Spec => []ManifestIsGenuine
<1>1. ASSUME FInv PROVE ManifestIsGenuine
  <2> SUFFICES ASSUME NEW r \in Roots, InUse(r), roots[r].manifest = "whole"
               PROVE  LET d == roots[r]
                          compile == <<PhaseEvent("compile", protocol["correctness"])>>
                          tested  == Append(compile, PhaseEvent("correctness", protocol["calibration"])) IN
                      /\ claims[d.phase] = [attempt |-> d.attempt, root |-> r]
                      /\ d.events = Len(Events(d.phase)) /\ d.sealed
                      /\ d.results = Repetitions(d.phase)
                      /\ d.phase = "correctness" => d.phases = Append(compile, PhaseEvent("correctness", r))
                      /\ d.phase = "calibration" =>
                           d.phases = tested \o <<PhaseEvent("calibration", r), PhaseEvent("calibration_sealed", r)>>
    BY DEF ManifestIsGenuine, InUse
  <2>1. Done(r, roots[r])
    BY <1>1 DEF FInv, FilesInv
  <2> QED BY <2>1 DEF Done, Ledger
<1> QED BY <1>1, InitStep, NextStep, FilesInit, FilesNext, PTL DEF Spec
=============================================================================
