---------------------------- MODULE LedgerProofs ----------------------------
(***************************************************************************)
(* Theorems about the experiment ledger, for any number of processes, runs *)
(* and payloads and for any set of calls.                                  *)
(***************************************************************************)
EXTENDS Ledger, SequenceTheorems, TLAPS

\* A process that is inside a call has its arguments.
InCall(w) == pc[w] # "idle" => call[w] \in Calls

\* The statements of a call that run inside _append.
Appending == {"existing", "check", "insert", "commit"}

\* Outside _append, transition has not read a state yet.
PreviousUnset(w) == pc[w] \notin Appending => previous[w] = NoState

\* The state read before _append allows the new state, or is the new state
\* (a replay), or is missing, for a creation.
PreviousAllows(w) ==
  pc[w] \in Appending =>
    \/ previous[w] = NoState /\ call[w].row.state = CREATED
    \/ previous[w] # NoState /\ previous[w] = call[w].row.state
    \/ previous[w] # NoState /\ MayFollow(previous[w], call[w].row.state)

\* A state that was read stays in the history of its run.
PreviousCommitted(w) ==
  pc[w] \in Appending /\ previous[w] # NoState =>
    \E i \in DOMAIN log[call[w].run] : log[call[w].run][i].state = previous[w]

\* UNIQUE was checked by the INSERT, and the write lock is held since.
CommitIsNew(w) ==
  pc[w] = "commit" =>
    /\ Existing(call[w]) = {}
    /\ \A v \in Writers : pc[v] = "commit" => v = w

\* Everything that is known of one writer; the invariant is that of all of
\* them and the two properties of the committed histories.
WriterInv(w) ==
  /\ InCall(w)
  /\ PreviousUnset(w)
  /\ PreviousAllows(w)
  /\ PreviousCommitted(w)
  /\ CommitIsNew(w)

IInv ==
  /\ TypeOK
  /\ \A w \in Writers : WriterInv(w)
  /\ OneEventPerState
  /\ DerivedHistory

LEMMA InitIInv == Init => IInv
BY DEF Init, IInv, WriterInv, TypeOK, InCall, PreviousUnset, PreviousAllows, PreviousCommitted,
   CommitIsNew, OneEventPerState, DerivedHistory, Derived, Steps, Appending

-----------------------------------------------------------------------------
\* The last row of a history has a run state.
LEMMA LastRowState ==
  ASSUME NEW h \in Seq(Row), h # <<>>
  PROVE  Len(h) \in DOMAIN h /\ h[Len(h)].state \in RunState
<1>1. Len(h) \in Nat /\ Len(h) # 0 /\ DOMAIN h = 1..Len(h)
  OBVIOUS
<1>2. Len(h) \in DOMAIN h
  BY <1>1
<1>3. h[Len(h)] \in Row
  BY <1>2
<1> QED
  BY <1>2, <1>3 DEF Row

\* Type correctness of the ledger, for every instance.
LEMMA TypeStep == IInv /\ [Next]_vars => TypeOK'
<1> SUFFICES ASSUME TypeOK, \A w \in Writers : InCall(w), [Next]_vars PROVE TypeOK'
  BY DEF IInv, WriterInv
<1> USE CallsAssumption DEF TypeOK, Steps
<1>1. \A r \in Runs : CurrentState(r) \in RunState \cup {NoState}
  BY LastRowState DEF CurrentState
<1>2. CASE UNCHANGED vars
  BY <1>2 DEF vars
<1>3. ASSUME NEW w \in Writers, Begin(w) PROVE TypeOK'
  <2>1. PICK c \in Calls : call' = [call EXCEPT ![w] = c]
    BY <1>3 DEF Begin
  <2>2. c \in Call
    OBVIOUS
  <2>3. pc' \in [Writers -> Steps]
    BY <1>3, <2>2 DEF Begin, Call, Kinds
  <2> QED
    BY <1>3, <2>1, <2>2, <2>3 DEF Begin
<1>4. ASSUME NEW w \in Writers, Step(w) \/ Crash(w) PROVE TypeOK'
  <2> USE DEF Raise, Return, Finish, Goto
  <2>1. pc[w] # "idle"
    BY <1>4 DEF Step, Crash, ReadHistory, ReadCurrent, CheckExisting, CheckCurrent, Insert,
       InsertBusy, Commit
  <2>2. call[w] \in Call /\ call[w].run \in Runs /\ call[w].row \in Row
    BY <2>1 DEF InCall, Call
  <2>3. CASE ReadHistory(w)
    BY <2>2, <2>3 DEF ReadHistory
  <2>4. CASE ReadCurrent(w)
    BY <1>1, <2>2, <2>4 DEF ReadCurrent
  <2>5. CASE CheckExisting(w) \/ CheckCurrent(w) \/ Insert(w) \/ InsertBusy(w)
    BY <2>2, <2>5 DEF CheckExisting, CheckCurrent, Insert, InsertBusy
  <2>6. CASE Commit(w)
    BY <2>2, <2>6 DEF Commit, Committed
  <2>7. CASE Crash(w)
    <3>1. CASE UNCHANGED log
      BY <2>7, <3>1 DEF Crash
    <3>2. CASE Committed(w)
      BY <2>2, <2>7, <3>2 DEF Crash, Committed
    <3> QED
      BY <2>7, <3>1, <3>2 DEF Crash
  <2> QED
    BY <1>4, <2>3, <2>4, <2>5, <2>6, <2>7 DEF Step
<1> QED
  BY <1>2, <1>3, <1>4 DEF Next


-----------------------------------------------------------------------------
(* A step of w that commits nothing keeps IInv if it keeps what is known of  *)
(* w: no other writer can tell.                                             *)

Local(w) ==
  /\ UNCHANGED log
  /\ \A v \in Writers \ {w} : pc'[v] = pc[v] /\ call'[v] = call[v] /\ previous'[v] = previous[v]

LEMMA LocalStep ==
  ASSUME NEW w \in Writers, IInv, TypeOK', Local(w),
         InCall(w)', PreviousUnset(w)', PreviousAllows(w)', PreviousCommitted(w)',
         pc'[w] = "commit" => Existing(call[w]) = {} /\ WriteLockFree /\ call'[w] = call[w]
  PROVE  IInv'
<1>1. OneEventPerState' /\ DerivedHistory'
  BY DEF IInv, Local, OneEventPerState, DerivedHistory
<1>2. ASSUME NEW v \in Writers PROVE WriterInv(v)'
  <2>1. CASE v = w
    <3>1. CommitIsNew(w)'
      BY DEF Local, CommitIsNew, Existing, WriteLockFree
    <3> QED
      BY <2>1, <3>1 DEF WriterInv
  <2>2. CASE v # w
    <3>1. InCall(v)' /\ PreviousUnset(v)' /\ PreviousAllows(v)' /\ PreviousCommitted(v)'
      BY <2>2 DEF IInv, WriterInv, Local, InCall, PreviousUnset, PreviousAllows, PreviousCommitted
    <3>2. CommitIsNew(v)'
      BY <2>2 DEF IInv, WriterInv, Local, CommitIsNew, Existing, WriteLockFree
    <3> QED
      BY <3>1, <3>2 DEF WriterInv
  <2> QED
    BY <2>1, <2>2
<1> QED
  BY <1>1, <1>2 DEF IInv

\* A call that returns or raises without a commit.
LEMMA FinishStep ==
  ASSUME NEW w \in Writers, NEW result, IInv, TypeOK', Finish(w, result), UNCHANGED log
  PROVE  IInv'
<1>1. Local(w) /\ pc'[w] = "idle" /\ previous'[w] = NoState
  BY DEF IInv, TypeOK, Finish, Local
<1>2. InCall(w)' /\ PreviousUnset(w)' /\ PreviousAllows(w)' /\ PreviousCommitted(w)'
  BY <1>1 DEF InCall, PreviousUnset, PreviousAllows, PreviousCommitted, Appending
<1> QED
  BY <1>1, <1>2, LocalStep

\* A call that goes on with its next statement, inside _append or before it.
LEMMA GotoStep ==
  ASSUME NEW w \in Writers, NEW s \in Steps, IInv, TypeOK', Goto(w, s), UNCHANGED previous,
         pc[w] # "idle",
         s \in Appending /\ pc[w] \notin Appending => call[w].row.state = CREATED,
         pc[w] \in Appending => s \in Appending,
         s = "commit" => Existing(call[w]) = {} /\ WriteLockFree
  PROVE  IInv'
<1>1. Local(w) /\ pc'[w] = s /\ UNCHANGED <<call, previous>>
  BY DEF IInv, TypeOK, Goto, Local
<1>2. InCall(w)' /\ PreviousUnset(w)' /\ PreviousAllows(w)' /\ PreviousCommitted(w)'
  BY <1>1 DEF IInv, WriterInv, Local, InCall, PreviousUnset, PreviousAllows, PreviousCommitted
<1> QED
  BY <1>1, <1>2, LocalStep

-----------------------------------------------------------------------------
(* A commit appends a row whose state is new to the run.                     *)

LEMMA CommitStep ==
  ASSUME NEW w \in Writers, NEW result, IInv, TypeOK', pc[w] = "commit",
         Committed(w), Finish(w, result)
  PROVE  IInv'
<1> DEFINE c == call[w]
           h == log[c.run]
           n == Len(h)
<1>1. c \in Call /\ c.run \in Runs /\ c.row \in Row /\ h \in Seq(Row)
  BY CallsAssumption DEF IInv, WriterInv, InCall, TypeOK, Call
<1>2. /\ log' = [log EXCEPT ![c.run] = Append(h, c.row)]
      /\ log'[c.run] = Append(h, c.row)
      /\ \A r \in Runs \ {c.run} : log'[r] = log[r]
  BY <1>1 DEF Committed, IInv, TypeOK
<1>3. /\ Len(Append(h, c.row)) = n + 1
      /\ \A i \in 1..n : Append(h, c.row)[i] = h[i]
      /\ Append(h, c.row)[n + 1] = c.row
      /\ n \in Nat /\ DOMAIN h = 1..n /\ DOMAIN Append(h, c.row) = 1..(n + 1)
  BY <1>1
<1> n \in Nat
  BY <1>3
<1> HIDE DEF n
<1>4. \A i \in 1..n : h[i].state # c.row.state
  BY <1>3 DEF IInv, WriterInv, CommitIsNew, Existing
<1>5. OneEventPerState'
  <2> SUFFICES ASSUME NEW r \in Runs, NEW i \in DOMAIN log'[r], NEW j \in DOMAIN log'[r],
                      log'[r][i].state = log'[r][j].state
               PROVE  i = j
    BY DEF OneEventPerState
  <2>1. CASE r # c.run
    BY <1>2, <2>1 DEF IInv, OneEventPerState
  <2>2. CASE r = c.run
    <3>1. i \in 1..(n + 1) /\ j \in 1..(n + 1)
      BY <1>2, <1>3, <2>2
    <3>2. CASE i \in 1..n /\ j \in 1..n
      BY <1>1, <1>2, <1>3, <2>2, <3>2 DEF IInv, OneEventPerState
    <3>3. CASE i = n + 1 /\ j \in 1..n
      BY <1>2, <1>3, <1>4, <2>2, <3>3, SMTT(30)
    <3>4. CASE j = n + 1 /\ i \in 1..n
      BY <1>2, <1>3, <1>4, <2>2, <3>4, SMTT(30)
    <3> QED
      BY <3>1, <3>2, <3>3, <3>4
  <2> QED
    BY <2>1, <2>2
<1>6. DerivedHistory'
  <2> SUFFICES ASSUME NEW r \in Runs, NEW i \in DOMAIN log'[r]
               PROVE  \/ log'[r][i].state = CREATED /\ i = 1
                      \/ \E j \in 1..(i - 1) : MayFollow(log'[r][j].state, log'[r][i].state)
    BY DEF DerivedHistory, Derived
  <2>1. CASE r # c.run
    BY <1>2, <2>1 DEF IInv, DerivedHistory, Derived
  <2>2. CASE r = c.run /\ i \in 1..n
    <3>1. \/ h[i].state = CREATED /\ i = 1
          \/ \E j \in 1..(i - 1) : MayFollow(h[j].state, h[i].state)
      BY <1>1, <1>3, <2>2 DEF IInv, DerivedHistory, Derived
    <3>2. \A j \in 1..i : log'[r][j] = h[j]
      BY <1>2, <1>3, <2>2
    <3> QED
      BY <3>1, <3>2, <1>3, <2>2
  <2>3. CASE r = c.run /\ i = n + 1
    <3>1. log'[r][i] = c.row /\ \A j \in 1..(i - 1) : log'[r][j] = h[j]
      BY <1>2, <1>3, <2>3
    <3>2. CASE previous[w] = NoState /\ c.row.state = CREATED
      <4>1. 1 \in 1..n => h[1].state = CREATED
        BY <1>1, <1>3 DEF IInv, DerivedHistory, Derived
      <4>2. n = 0
        BY <1>4, <3>2, <4>1
      <4> QED
        BY <2>3, <3>1, <3>2, <4>2
    <3>3. CASE previous[w] # NoState
      <4>1. PICK j \in 1..n : h[j].state = previous[w]
        BY <1>3, <3>3 DEF IInv, WriterInv, PreviousCommitted, Appending
      <4>2. previous[w] # c.row.state
        BY <1>4, <4>1
      <4>3. MayFollow(previous[w], c.row.state)
        BY <3>3, <4>2 DEF IInv, WriterInv, PreviousAllows, Appending
      <4> QED
        BY <2>3, <3>1, <4>1, <4>3
    <3> QED
      BY <3>2, <3>3 DEF IInv, WriterInv, PreviousAllows, Appending
  <2>4. r = c.run => i \in 1..(n + 1)
    BY <1>2, <1>3
  <2> QED
    BY <2>1, <2>2, <2>3, <2>4
<1>7. ASSUME NEW v \in Writers PROVE WriterInv(v)'
  <2>1. CASE v = w
    <3>1. pc'[w] = "idle" /\ previous'[w] = NoState
      BY DEF IInv, TypeOK, Finish
    <3> QED
      BY <2>1, <3>1 DEF WriterInv, InCall, PreviousUnset, PreviousAllows, PreviousCommitted,
         CommitIsNew, Appending
  <2>2. CASE v # w
    <3>1. pc'[v] = pc[v] /\ call'[v] = call[v] /\ previous'[v] = previous[v]
      BY <2>2 DEF IInv, TypeOK, Finish
    <3>2. InCall(v)' /\ PreviousUnset(v)' /\ PreviousAllows(v)'
      BY <3>1 DEF IInv, WriterInv, InCall, PreviousUnset, PreviousAllows
    <3>3. PreviousCommitted(v)'
      <4> SUFFICES ASSUME pc[v] \in Appending, previous[v] # NoState
                   PROVE  \E i \in DOMAIN log'[call[v].run] :
                            log'[call[v].run][i].state = previous[v]
        BY <3>1 DEF PreviousCommitted
      <4>1. PICK i \in DOMAIN log[call[v].run] : log[call[v].run][i].state = previous[v]
        BY DEF IInv, WriterInv, PreviousCommitted
      <4>2. call[v].run \in Runs
        BY CallsAssumption DEF IInv, WriterInv, InCall, Appending, Call
      <4>3. i \in DOMAIN log'[call[v].run] /\ log'[call[v].run][i] = log[call[v].run][i]
        BY <1>2, <1>3, <4>1, <4>2
      <4> QED
        BY <4>1, <4>3
    <3>4. pc[v] # "commit"
      BY <2>2 DEF IInv, WriterInv, CommitIsNew
    <3> QED
      BY <3>1, <3>2, <3>3, <3>4 DEF WriterInv, CommitIsNew
  <2> QED
    BY <2>1, <2>2
<1> QED
  BY <1>5, <1>6, <1>7 DEF IInv

-----------------------------------------------------------------------------
(* The inductive step, one action at a time, and the theorems.               *)

LEMMA NextIInv == IInv /\ [Next]_vars => IInv'
<1> SUFFICES ASSUME IInv, [Next]_vars PROVE IInv'
  OBVIOUS
<1>0. TypeOK'
  BY TypeStep
<1>1. CASE UNCHANGED vars
  BY <1>1 DEF vars, IInv, TypeOK, WriterInv, InCall, PreviousUnset, PreviousAllows,
     PreviousCommitted, CommitIsNew, Existing, OneEventPerState, DerivedHistory
<1>2. ASSUME NEW w \in Writers, Begin(w) PROVE IInv'
  <2>1. PICK c \in Calls :
          /\ call' = [call EXCEPT ![w] = c]
          /\ pc' = [pc EXCEPT ![w] = CASE c.kind = "create"     -> "existing"
                                       [] c.kind = "transition" -> "current"
                                       [] c.kind = "record"     -> "history"]
    BY <1>2 DEF Begin
  <2>2. c.kind \in Kinds /\ (c.kind = "create" => c.row.state = CREATED)
    BY CallsAssumption DEF Call
  <2>3. /\ Local(w)
        /\ call'[w] = c
        /\ previous'[w] = NoState
        /\ pc'[w] \in {"existing", "current", "history"}
        /\ pc'[w] = "existing" => c.row.state = CREATED
    BY <1>2, <2>1, <2>2 DEF Begin, IInv, TypeOK, WriterInv, PreviousUnset, Appending, Local, Kinds
  <2>4. InCall(w)' /\ PreviousUnset(w)' /\ PreviousAllows(w)' /\ PreviousCommitted(w)'
    BY <2>3 DEF InCall, PreviousUnset, PreviousAllows, PreviousCommitted, Appending
  <2> QED
    BY <1>0, <2>3, <2>4, LocalStep
<1>3. ASSUME NEW w \in Writers, NEW result, Finish(w, result), UNCHANGED log PROVE IInv'
  BY <1>0, <1>3, FinishStep
<1>4. ASSUME NEW w \in Writers, ReadHistory(w) PROVE IInv'
  <2>1. CASE Return(w) \/ Raise(w)
    BY <1>3, <2>1 DEF Return, Raise
  <2>2. CASE /\ Goto(w, IF call[w].row.state = CREATED THEN "existing" ELSE "current")
             /\ UNCHANGED previous
    <3>1. pc[w] = "history"
      BY <1>4 DEF ReadHistory
    <3>2. CASE call[w].row.state = CREATED
      BY <1>0, <2>2, <3>1, <3>2, GotoStep DEF Steps, Appending
    <3>3. CASE call[w].row.state # CREATED
      BY <1>0, <2>2, <3>1, <3>3, GotoStep DEF Steps, Appending
    <3> QED
      BY <3>2, <3>3
  <2> QED
    BY <1>4, <2>1, <2>2 DEF ReadHistory
<1>5. ASSUME NEW w \in Writers, ReadCurrent(w) PROVE IInv'
  <2> DEFINE s == CurrentState(call[w].run)
             t == call[w].row.state
  <2>1. CASE Raise(w)
    BY <1>3, <2>1 DEF Raise
  <2>2. CASE /\ s # NoState /\ (s = t \/ MayFollow(s, t))
             /\ previous' = [previous EXCEPT ![w] = s]
             /\ Goto(w, "existing")
    <3>1. /\ Local(w)
          /\ pc'[w] = "existing" /\ call'[w] = call[w] /\ previous'[w] = s
      BY <2>2 DEF IInv, TypeOK, Goto, Local
    <3>2. call[w].run \in Runs /\ log[call[w].run] \in Seq(Row)
      BY <1>5, CallsAssumption DEF ReadCurrent, IInv, TypeOK, WriterInv, InCall, Call
    <3>3. \E i \in DOMAIN log[call[w].run] : log[call[w].run][i].state = s
      BY <2>2, <3>2, LastRowState DEF CurrentState
    <3>4. InCall(w)'
      BY <1>5, <3>1 DEF ReadCurrent, IInv, WriterInv, InCall
    <3>5. PreviousUnset(w)' /\ PreviousAllows(w)' /\ PreviousCommitted(w)'
      BY <2>2, <3>1, <3>3 DEF PreviousUnset, PreviousAllows, PreviousCommitted, Appending, Local
    <3> QED
      BY <1>0, <3>1, <3>4, <3>5, LocalStep
  <2> QED
    BY <1>5, <2>1, <2>2 DEF ReadCurrent
<1>6. ASSUME NEW w \in Writers, CheckExisting(w) PROVE IInv'
  BY <1>0, <1>3, <1>6, GotoStep DEF CheckExisting, Return, Raise, Steps, Appending
<1>7. ASSUME NEW w \in Writers, CheckCurrent(w) PROVE IInv'
  BY <1>0, <1>3, <1>7, GotoStep DEF CheckCurrent, Return, Raise, Steps, Appending
<1>8. ASSUME NEW w \in Writers, Insert(w) PROVE IInv'
  BY <1>0, <1>3, <1>8, GotoStep DEF Insert, Raise, Steps, Appending
<1>9. ASSUME NEW w \in Writers, InsertBusy(w) PROVE IInv'
  BY <1>3, <1>9 DEF InsertBusy, Raise
<1>10. ASSUME NEW w \in Writers, Commit(w) PROVE IInv'
  BY <1>0, <1>10, CommitStep DEF Commit
<1>11. ASSUME NEW w \in Writers, Crash(w) PROVE IInv'
  BY <1>0, <1>3, <1>11, CommitStep DEF Crash
<1> QED
  BY <1>1, <1>2, <1>4, <1>5, <1>6, <1>7, <1>8, <1>9, <1>10, <1>11 DEF Next, Step

THEOREM IInvInvariant == Spec => []IInv
BY InitIInv, NextIInv, PTL DEF Spec

\* The ledger's variables keep their types.
THEOREM TypeCorrect == Spec => []TypeOK
BY IInvInvariant, PTL DEF IInv

\* However many processes write one ledger, statement by statement and dying
\* at any point, no state of a run is completed twice.
THEOREM NoStateCompletedTwice == Spec => []OneEventPerState
BY IInvInvariant, PTL DEF IInv

\* And every event follows from an earlier event of its run: no interleaving
\* makes up a state that no legal move leads to.
THEOREM HistoryIsDerived == Spec => []DerivedHistory
BY IInvInvariant, PTL DEF IInv

-----------------------------------------------------------------------------
(* What a caller was handed stays committed.                                *)

LEMMA ReturnedStep == IInv /\ ReturnedIsCommitted /\ [Next]_vars => ReturnedIsCommitted'
<1> SUFFICES ASSUME IInv, ReturnedIsCommitted, [Next]_vars PROVE ReturnedIsCommitted'
  OBVIOUS
<1> USE DEF ReturnedIsCommitted
<1>0. CASE UNCHANGED vars
  BY <1>0 DEF vars
<1>1. ASSUME NEW w \in Writers, NEW c \in Call, log[c.run] \in Seq(Row), Committed(w),
             call[w] \in Call, NEW i \in DOMAIN log[c.run], log \in [Runs -> Seq(Row)]
      PROVE  i \in DOMAIN log'[c.run] /\ log'[c.run][i] = log[c.run][i]
  BY <1>1 DEF Committed, Call
<1>2. ASSUME NEW w \in Writers, Begin(w) PROVE ReturnedIsCommitted'
  BY <1>2 DEF Begin, IInv, TypeOK
<1>3. ASSUME NEW w \in Writers, NEW s, Goto(w, s) PROVE ReturnedIsCommitted'
  BY <1>3 DEF Goto
<1>4. ASSUME NEW w \in Writers, Raise(w) PROVE ReturnedIsCommitted'
  BY <1>4 DEF Raise, Finish, IInv, TypeOK
<1>5. ASSUME NEW w \in Writers, pc[w] # "idle", SameEvidence(call[w]), Return(w)
      PROVE  ReturnedIsCommitted'
  <2>1. call[w] \in Call /\ call[w].row \in Row /\ log[call[w].run] \in Seq(Row)
    BY <1>5, CallsAssumption DEF IInv, WriterInv, InCall, TypeOK, Call
  <2>2. PICK i \in DOMAIN log[call[w].run] :
          /\ log[call[w].run][i].state = call[w].row.state
          /\ log[call[w].run][i].payload = call[w].row.payload
    BY <1>5 DEF SameEvidence, Existing
  <2>3. log[call[w].run][i] \in Row
    BY <2>1, <2>2
  <2>4. log[call[w].run][i] = call[w].row
    BY <2>1, <2>2, <2>3 DEF Row
  <2> QED
    BY <1>5, <2>2, <2>4 DEF Return, Finish, IInv, TypeOK
<1>6. ASSUME NEW w \in Writers, NEW result, pc[w] = "commit", Committed(w), Finish(w, result),
             result \in {call[w], NoCall}
      PROVE  ReturnedIsCommitted'
  <2>1. call[w] \in Call /\ call[w].run \in Runs /\ call[w].row \in Row
    BY <1>6, CallsAssumption DEF IInv, WriterInv, InCall, Call
  <2>2. log[call[w].run] \in Seq(Row)
    BY <2>1 DEF IInv, TypeOK
  <2>3. \E i \in DOMAIN log'[call[w].run] : log'[call[w].run][i] = call[w].row
    <3>1. log'[call[w].run] = Append(log[call[w].run], call[w].row)
      BY <1>6, <2>1 DEF Committed, IInv, TypeOK
    <3>2. LET n == Len(log[call[w].run]) + 1
          IN  n \in DOMAIN log'[call[w].run] /\ log'[call[w].run][n] = call[w].row
      BY <2>1, <2>2, <3>1
    <3> QED
      BY <3>2
  <2>4. ASSUME NEW v \in Writers, v # w, returned[v] # NoCall
        PROVE  \E i \in DOMAIN log'[returned[v].run] :
                 log'[returned[v].run][i] = returned[v].row
    <3>1. returned[v] \in Call /\ returned[v].run \in Runs
      BY <2>4 DEF IInv, TypeOK, Call
    <3>2. PICK i \in DOMAIN log[returned[v].run] : log[returned[v].run][i] = returned[v].row
      BY <2>4
    <3> QED
      BY <1>1, <1>6, <2>1, <3>1, <3>2 DEF IInv, TypeOK
  <2> QED
    BY <1>6, <2>3, <2>4 DEF Finish, IInv, TypeOK
<1>7. ASSUME NEW w \in Writers, Crash(w) PROVE ReturnedIsCommitted'
  <2>1. CASE UNCHANGED log
    BY <1>7, <2>1 DEF Crash, Finish, IInv, TypeOK
  <2>2. CASE pc[w] = "commit" /\ Committed(w)
    BY <1>6, <1>7, <2>2 DEF Crash
  <2> QED
    BY <1>7, <2>1, <2>2 DEF Crash
<1>8. ASSUME NEW w \in Writers, Step(w) PROVE ReturnedIsCommitted'
  <2>1. CASE ReadHistory(w)
    BY <1>3, <1>4, <1>5, <2>1 DEF ReadHistory
  <2>2. CASE ReadCurrent(w)
    BY <1>3, <1>4, <2>2 DEF ReadCurrent
  <2>3. CASE CheckExisting(w)
    BY <1>3, <1>4, <1>5, <2>3 DEF CheckExisting
  <2>4. CASE CheckCurrent(w) \/ Insert(w) \/ InsertBusy(w)
    BY <1>3, <1>4, <2>4 DEF CheckCurrent, Insert, InsertBusy
  <2>5. CASE Commit(w)
    BY <1>6, <2>5 DEF Commit
  <2> QED
    BY <1>8, <2>1, <2>2, <2>3, <2>4, <2>5 DEF Step
<1> QED
  BY <1>0, <1>2, <1>7, <1>8 DEF Next

\* An event a caller was handed stays committed with the caller's own payload,
\* through the deaths, retries and rival completions of any other process.
THEOREM ReturnedEventsAreCommitted == Spec => []ReturnedIsCommitted
<1>1. Init => ReturnedIsCommitted
  BY DEF Init, ReturnedIsCommitted
<1> QED
  BY <1>1, ReturnedStep, IInvInvariant, PTL DEF Spec

-----------------------------------------------------------------------------
(* When the calls are serialized, the ledger implements RunHistory: the     *)
(* committed states of a run are a path through the allowed moves.  The     *)
(* step that needs it is the commit: the state transition read must still   *)
(* be the last one.                                                         *)

\* Serialized calls: at most one process is inside a call.
OneCall ==
  \A v, w \in Writers : pc[v] # "idle" /\ pc[w] # "idle" => v = w

\* After the second SELECT, the state read by transition is still current.
PreviousIsCurrent ==
  \A w \in Writers :
    pc[w] \in {"insert", "commit"} => previous[w] = CurrentState(call[w].run)

SerialInv == IInv /\ (serialized => OneCall /\ PreviousIsCurrent)

LEMMA InitSerialInv == Init => SerialInv
BY InitIInv DEF Init, SerialInv, OneCall, PreviousIsCurrent

\* The step when calls are serialized.
LEMMA LockedStep ==
  ASSUME serialized, IInv, OneCall, PreviousIsCurrent, [Next]_vars
  PROVE  OneCall' /\ PreviousIsCurrent'
<1> USE DEF IInv
<1>1. CASE UNCHANGED vars
  BY <1>1 DEF vars, OneCall, PreviousIsCurrent, CurrentState
<1>2. ASSUME NEW w \in Writers, Begin(w) PROVE OneCall' /\ PreviousIsCurrent'
  <2>1. OneCall'
    BY <1>2 DEF Begin, TypeOK, OneCall
  <2>2. PreviousIsCurrent'
    <3>1. \A v \in Writers : pc'[v] \notin {"insert", "commit"}
      <4>1. PICK c \in Calls :
              pc' = [pc EXCEPT ![w] = CASE c.kind = "create"     -> "existing"
                                        [] c.kind = "transition" -> "current"
                                        [] c.kind = "record"     -> "history"]
        BY <1>2 DEF Begin
      <4>2. c.kind \in Kinds
        BY CallsAssumption DEF Call
      <4> QED
        BY <1>2, <4>1, <4>2 DEF Begin, TypeOK, Kinds
    <3> QED
      BY <3>1 DEF PreviousIsCurrent
  <2> QED
    BY <2>1, <2>2
<1>3. ASSUME NEW w \in Writers, Step(w) \/ Crash(w) PROVE OneCall' /\ PreviousIsCurrent'
  <2> USE DEF Goto, Raise, Return, Finish
  <2>1. \A v \in Writers \ {w} : pc[v] = "idle"
    BY <1>3 DEF Step, Crash, ReadHistory, ReadCurrent, CheckExisting, CheckCurrent, Insert,
       InsertBusy, Commit, OneCall
  <2>2. \A v \in Writers \ {w} : pc'[v] = "idle"
    BY <1>3, <2>1 DEF Step, Crash, ReadHistory, ReadCurrent, CheckExisting, CheckCurrent, Insert,
       InsertBusy, Commit, TypeOK
  <2>3. OneCall'
    BY <2>2 DEF OneCall
  <2>4. pc'[w] \in {"insert", "commit"} => previous'[w] = CurrentState(call[w].run)'
    <3>1. CASE CheckCurrent(w)
      BY <3>1 DEF CheckCurrent, CurrentState, TypeOK
    <3>2. CASE Insert(w)
      BY <3>2 DEF Insert, CurrentState, TypeOK, PreviousIsCurrent
    <3>3. CASE /\ Step(w) \/ Crash(w)
               /\ ~CheckCurrent(w)
               /\ ~Insert(w)
      BY <3>3 DEF Step, Crash, ReadHistory, ReadCurrent, CheckExisting, InsertBusy, Commit,
         TypeOK
    <3> QED
      BY <1>3, <3>1, <3>2, <3>3
  <2> QED
    BY <2>2, <2>3, <2>4 DEF PreviousIsCurrent
<1> QED
  BY <1>1, <1>2, <1>3 DEF Next

LEMMA NextSerialInv == SerialInv /\ [Next]_vars => SerialInv'
<1> SUFFICES ASSUME SerialInv, [Next]_vars PROVE SerialInv'
  OBVIOUS
<1>1. IInv'
  BY NextIInv DEF SerialInv
<1>2. UNCHANGED serialized
  BY DEF Next, vars, Begin, Step, Crash, ReadHistory, ReadCurrent, CheckExisting, CheckCurrent,
     Insert, InsertBusy, Commit, Return, Raise, Finish, Goto
<1> QED
  BY <1>1, <1>2, LockedStep DEF SerialInv

-----------------------------------------------------------------------------
(* The refinement.                                                          *)

LEMMA StatesType ==
  ASSUME NEW h \in Seq(Row)
  PROVE  States(h) \in Seq(RunState) /\ Len(States(h)) = Len(h)
<1>1. /\ Len(h) \in Nat /\ DOMAIN h = 1..Len(h)
      /\ \A i \in 1..Len(h) : h[i] \in Row
  OBVIOUS
<1>2. States(h) \in [1..Len(h) -> RunState]
  BY <1>1 DEF States, Row
<1> QED
  BY <1>1, <1>2

LEMMA StatesOfAppend ==
  ASSUME NEW h \in Seq(Row), NEW row \in Row
  PROVE  States(Append(h, row)) = Append(States(h), row.state)
<1>1. /\ Len(h) \in Nat /\ DOMAIN h = 1..Len(h)
      /\ \A i \in 1..Len(h) : h[i] \in Row
  OBVIOUS
<1>2. States(h) \in Seq(RunState) /\ Len(States(h)) = Len(h)
  BY StatesType
<1>3. row.state \in RunState
  BY DEF Row
<1>4. /\ Append(h, row) \in Seq(Row)
      /\ Len(Append(h, row)) = Len(h) + 1
      /\ DOMAIN Append(h, row) = 1..(Len(h) + 1)
      /\ \A i \in 1..Len(h) : Append(h, row)[i] = h[i]
      /\ Append(h, row)[Len(h) + 1] = row
  BY <1>1
<1>5. States(Append(h, row)) \in Seq(RunState) /\ Len(States(Append(h, row))) = Len(h) + 1
  <2>1. States(Append(h, row)) \in [1..(Len(h) + 1) -> RunState]
    BY <1>1, <1>3, <1>4 DEF States, Row
  <2> QED
    BY <1>1, <2>1
<1>6. /\ Append(States(h), row.state) \in Seq(RunState)
      /\ Len(Append(States(h), row.state)) = Len(h) + 1
  BY <1>2, <1>3
<1>7. ASSUME NEW i \in 1..(Len(h) + 1)
      PROVE  States(Append(h, row))[i] = Append(States(h), row.state)[i]
  <2>1. CASE i \in 1..Len(h)
    <3>1. States(Append(h, row))[i] = h[i].state
      BY <1>1, <1>4, <2>1 DEF States
    <3>2. Append(States(h), row.state)[i] = States(h)[i]
      BY <1>2, <1>3, <2>1
    <3>3. States(h)[i] = h[i].state
      BY <1>1, <2>1 DEF States
    <3> QED
      BY <3>1, <3>2, <3>3
  <2>2. CASE i = Len(h) + 1
    <3>1. States(Append(h, row))[i] = row.state
      BY <1>1, <1>4, <2>2 DEF States
    <3>2. Append(States(h), row.state)[i] = row.state
      BY <1>2, <1>3, <2>2
    <3> QED
      BY <3>1, <3>2
  <2>3. i \in 1..Len(h) \/ i = Len(h) + 1
    BY <1>1
  <2> QED
    BY <2>1, <2>2, <2>3
<1> QED
  BY <1>5, <1>6, <1>7, SeqEqual

\* The abstract module has its own copy of the state machine.
LEMMA SameMoves ==
  /\ History!CREATED = CREATED
  /\ History!RunState = RunState
  /\ \A s, t \in RunState : MayFollow(s, t) => History!MayFollow(s, t)
BY DEF CREATED, VERIFIED, LOWERED, COMPILED, CORRECT, TIMED, TRACED, COUNTERED, VALIDATED,
   ACCEPTED, REJECTED, RunState, Measured, Terminal, MayFollow, NextStates,
   History!CREATED, History!VERIFIED, History!LOWERED, History!COMPILED, History!CORRECT,
   History!TIMED, History!TRACED, History!COUNTERED, History!VALIDATED, History!ACCEPTED,
   History!REJECTED, History!RunState, History!Measured, History!Terminal, History!MayFollow,
   History!NextStates

\* With serialized calls the move that is committed is legal after the last row.
LEMMA CommittedMove ==
  ASSUME serialized, SerialInv, NEW w \in Writers, pc[w] = "commit"
  PROVE  LET c == call[w]
             h == log[c.run]
         IN  IF h = <<>> THEN c.row.state = CREATED ELSE MayFollow(h[Len(h)].state, c.row.state)
<1> DEFINE c == call[w]
           h == log[c.run]
<1>1. h \in Seq(Row)
  BY CallsAssumption DEF SerialInv, IInv, WriterInv, InCall, TypeOK, Call
<1>2. previous[w] = CurrentState(c.run)
  BY DEF SerialInv, PreviousIsCurrent
<1>3. CASE h = <<>>
  BY <1>2, <1>3, NoStateAssumption DEF CurrentState, SerialInv, IInv, WriterInv, PreviousAllows,
     Appending
<1>4. CASE h # <<>>
  <2>1. Len(h) \in DOMAIN h /\ h[Len(h)].state \in RunState
    BY <1>1, <1>4, LastRowState
  <2>2. previous[w] = h[Len(h)].state /\ previous[w] # NoState
    BY <1>2, <1>4, <2>1, NoStateAssumption DEF CurrentState
  <2>3. \A i \in DOMAIN h : h[i].state # c.row.state
    BY DEF SerialInv, IInv, WriterInv, CommitIsNew, Existing
  <2>4. MayFollow(h[Len(h)].state, c.row.state)
    BY <2>1, <2>2, <2>3 DEF SerialInv, IInv, WriterInv, PreviousAllows, Appending
  <2> QED BY <1>4, <2>4
<1> QED BY <1>3, <1>4

\* A commit completes an allowed state of the abstract history.
LEMMA CommitCompletes ==
  ASSUME serialized, UNCHANGED serialized, SerialInv,
         NEW w \in Writers, pc[w] = "commit", Committed(w)
  PROVE  History!Next
<1> DEFINE c == call[w]
           h == log[c.run]
           hist == [r \in Runs |-> States(log[r])]
<1>0. ShownHistory = hist /\ ShownHistory' = hist'
  BY DEF ShownHistory
<1>1. c.run \in Runs /\ c.row \in Row /\ c.row.state \in RunState /\ h \in Seq(Row)
  BY CallsAssumption DEF SerialInv, IInv, WriterInv, InCall, TypeOK, Call, Row
<1>2. hist[c.run] = States(h) /\ DOMAIN h = 1..Len(h) /\ Len(h) \in Nat
  BY <1>1
<1>3. Len(States(h)) = Len(h)
  BY <1>1, StatesType
<1>4. IF h = <<>> THEN c.row.state = CREATED ELSE MayFollow(h[Len(h)].state, c.row.state)
  BY CommittedMove
<1>6. CASE h = <<>>
  <2>1. c.row.state = CREATED
    BY <1>4, <1>6
  <2>2. States(h) = <<>>
    BY <1>2, <1>6 DEF States
  <2>3. hist' = [hist EXCEPT ![c.run] = Append(@, c.row.state)]
    BY <1>1, <1>2, StatesOfAppend DEF Committed, SerialInv, IInv, TypeOK
  <2> QED
    <3>1. History!Complete(c.run, c.row.state)
      BY <1>2, <2>1, <2>2, <2>3, SameMoves, <1>0 DEF History!Complete
    <3> QED
      BY <1>1, <3>1, SameMoves DEF History!Next
<1>7. CASE h # <<>>
  <2>1. Len(h) \in DOMAIN h /\ h[Len(h)].state \in RunState
    BY <1>1, <1>7, LastRowState
  <2>3. MayFollow(h[Len(h)].state, c.row.state)
    BY <1>4, <1>7
  <2>4. States(h)[Len(States(h))] = h[Len(h)].state /\ States(h) # <<>>
    BY <1>2, <1>3, <2>1 DEF States
  <2>5. hist' = [hist EXCEPT ![c.run] = Append(@, c.row.state)]
    BY <1>1, <1>2, StatesOfAppend DEF Committed, SerialInv, IInv, TypeOK
  <2> QED
    <3>1. History!Complete(c.run, c.row.state)
      BY <1>1, <1>2, <2>1, <2>3, <2>4, <2>5, SameMoves, <1>0 DEF History!Complete
    <3> QED
      BY <1>1, <3>1, SameMoves DEF History!Next
<1> QED
  BY <1>6, <1>7

\* The ledger keeps its promise to its readers whenever its calls are
\* serialized: a run's history is a path of allowed moves, and nothing follows a
\* terminal state.
THEOREM SerialLedgerImplementsRunHistory == Spec => ImplementsRunHistory
<1>1. Init => History!Init
  BY DEF Init, History!Init, ShownHistory, States
<1>2. SerialInv /\ [Next]_vars => [History!Next]_ShownHistory
  <2> SUFFICES ASSUME SerialInv, [Next]_vars
               PROVE  History!Next \/ UNCHANGED ShownHistory
    OBVIOUS
  <2>0. UNCHANGED serialized
    BY DEF Next, vars, Begin, Step, Crash, ReadHistory, ReadCurrent, CheckExisting, CheckCurrent,
       Insert, InsertBusy, Commit, Return, Raise, Finish, Goto
  <2>1. CASE UNCHANGED log \/ ~serialized
    BY <2>0, <2>1 DEF ShownHistory
  <2>2. CASE log' # log /\ serialized
    <3>1. PICK w \in Writers : pc[w] = "commit" /\ Committed(w)
      BY <2>2 DEF Next, vars, Begin, Step, ReadHistory, ReadCurrent, CheckExisting, CheckCurrent,
         Insert, InsertBusy, Commit, Crash, Return, Raise, Goto
    <3> QED
      BY <2>0, <2>2, <3>1, CommitCompletes
  <2> QED
    BY <2>1, <2>2
<1>3. Spec => []SerialInv
  BY InitSerialInv, NextSerialInv, PTL DEF Spec
<1> QED
  BY <1>1, <1>2, <1>3, PTL DEF Spec, ImplementsRunHistory, History!Spec

\* With serialized calls a row is legal after the row it is appended to.
LEMMA CommitFollows ==
  ASSUME serialized, SerialInv, LegalHistory, NEW w \in Writers, pc[w] = "commit", Committed(w)
  PROVE  LegalHistory'
<1> DEFINE c == call[w]
           h == log[c.run]
<1>1. c.run \in Runs /\ c.row \in Row /\ c.row.state \in RunState /\ h \in Seq(Row)
      /\ log \in [Runs -> Seq(Row)]
  BY CallsAssumption DEF SerialInv, IInv, WriterInv, InCall, TypeOK, Call, Row
<1>3. IF h = <<>> THEN c.row.state = CREATED ELSE MayFollow(h[Len(h)].state, c.row.state)
  BY CommittedMove
<1> SUFFICES ASSUME NEW r \in Runs PROVE Legal(log'[r])
  BY DEF LegalHistory
<1>4. Legal(log[r])
  BY DEF LegalHistory
<1>5. CASE r # c.run
  BY <1>1, <1>4, <1>5 DEF Committed
<1>6. CASE r = c.run
  <2>1. log'[r] = Append(h, c.row)
    BY <1>1, <1>6 DEF Committed
  <2>2. /\ Len(h) \in Nat /\ DOMAIN h = 1..Len(h) /\ DOMAIN log'[r] = 1..(Len(h) + 1)
        /\ log'[r][Len(h) + 1] = c.row /\ \A i \in 1..Len(h) : log'[r][i] = h[i]
    BY <1>1, <2>1
  <2>3. ASSUME NEW i \in 1..(Len(h) + 1)
        PROVE  IF i = 1 THEN log'[r][i].state = CREATED
                        ELSE MayFollow(log'[r][i - 1].state, log'[r][i].state)
    <3>1. CASE i = Len(h) + 1
      <4>1. CASE h = <<>>
        <5>1. i = 1
          BY <3>1, <4>1
        <5> QED BY <1>3, <2>2, <3>1, <4>1, <5>1
      <4>2. CASE h # <<>>
        <5>1. i - 1 = Len(h) /\ Len(h) \in 1..Len(h) /\ i # 1
          BY <1>1, <2>2, <3>1, <4>2
        <5> QED BY <1>3, <2>2, <3>1, <4>2, <5>1
      <4> QED BY <4>1, <4>2
    <3>2. CASE i \in 1..Len(h)
      <4>1. i # 1 => i - 1 \in 1..Len(h)
        BY <2>2, <3>2
      <4> QED BY <1>4, <1>6, <2>2, <3>2, <4>1 DEF Legal
    <3>3. i = Len(h) + 1 \/ i \in 1..Len(h)
      BY ONLY <2>2
    <3> QED BY ONLY <3>1, <3>2, <3>3
  <2> QED BY <2>2, <2>3 DEF Legal
<1> QED BY <1>5, <1>6

\* Run by run, what the refinement means for a reader: each event is legal
\* after the event before it, and nothing follows ACCEPTED or REJECTED.  The
\* two SELECTs of _append do not give this to callers that overlap.
THEOREM SerialHistoryIsLegal == Spec => [](serialized => LegalHistory)
<1>1. Init => LegalHistory
  BY DEF Init, LegalHistory, Legal
<1>2. SerialInv /\ (serialized => LegalHistory) /\ [Next]_vars => (serialized => LegalHistory)'
  <2> SUFFICES ASSUME SerialInv, serialized => LegalHistory, [Next]_vars, serialized'
               PROVE  LegalHistory'
    OBVIOUS
  <2>0. UNCHANGED serialized
    BY DEF Next, vars, Begin, Step, Crash, ReadHistory, ReadCurrent, CheckExisting, CheckCurrent,
       Insert, InsertBusy, Commit, Return, Raise, Finish, Goto
  <2>1. CASE UNCHANGED log
    BY <2>0, <2>1 DEF LegalHistory
  <2>2. CASE log' # log
    <3>1. PICK w \in Writers : pc[w] = "commit" /\ Committed(w)
      BY <2>2 DEF Next, vars, Begin, Step, ReadHistory, ReadCurrent, CheckExisting, CheckCurrent,
         Insert, InsertBusy, Commit, Crash, Return, Raise, Goto
    <3> QED BY <2>0, <3>1, CommitFollows
  <2> QED BY <2>1, <2>2
<1>3. Spec => []SerialInv
  BY InitSerialInv, NextSerialInv, PTL DEF Spec
<1> QED BY <1>1, <1>2, <1>3, PTL DEF Spec

=============================================================================
