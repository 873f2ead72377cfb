-------------------------------- MODULE Ledger --------------------------------
(***************************************************************************)
(* The experiment ledger of src/src/tpu_cake/ledger.py: one SQLite table   *)
(* of events with UNIQUE(run_id, state), written by processes that each    *)
(* open their own connection.                                              *)
(*                                                                         *)
(* The grain is one SQL statement.  Python's sqlite3 module opens a        *)
(* transaction only before an INSERT, so the SELECTs of _append and of     *)
(* transition each see the last committed table, and another process may   *)
(* commit between any two of them.  From the INSERT to the commit a writer *)
(* holds SQLite's write lock; its row is invisible until the commit and is *)
(* lost if the process dies first.  Every query of the code selects the    *)
(* rows of one run, so the table is kept as one sequence of rows per run.  *)
(***************************************************************************)
EXTENDS RunStates, Naturals, Sequences

CONSTANTS
  Writers,     \* processes that open the ledger
  Runs,        \* run identifiers
  Payloads,    \* payload hashes: equal iff the evidence is equal
  Calls,       \* the calls the processes make
  NoState,     \* Python's None: the run has no event
  NoCall       \* a process that is not in a call

ASSUME NoStateAssumption    == NoState \notin RunState

Row   == [state : RunState, payload : Payloads]
Kinds == {"create", "transition", "record"}
Call  == [kind : Kinds, run : Runs, row : Row]

\* create takes no state argument: it always completes CREATED.
ASSUME CallsAssumption ==
  /\ Calls \subseteq Call
  /\ \A c \in Calls : c.kind = "create" => c.row.state = CREATED
ASSUME NoCallAssumption == NoCall \notin Call

VARIABLES
  serialized, \* whether calls are made one at a time, under a lock or by one process;
              \* never changes
  log,       \* log[r]: the committed rows of run r, by their sequence column
  pc,        \* pc[w]: the next statement of w's call; "idle" between calls
  call,      \* call[w]: the operation and arguments of w's current call
  previous,  \* previous[w]: the state transition() read before _append
  returned   \* returned[w]: the last call of w if it returned its event

vars == <<serialized, log, pc, call, previous, returned>>

Steps == {"idle", "history", "current", "existing", "check", "insert", "commit"}

TypeOK ==
  /\ serialized \in BOOLEAN
  /\ log \in [Runs -> Seq(Row)]
  /\ pc \in [Writers -> Steps]
  /\ call \in [Writers -> Call \cup {NoCall}]
  /\ previous \in [Writers -> RunState \cup {NoState}]
  /\ returned \in [Writers -> Call \cup {NoCall}]

-----------------------------------------------------------------------------
(* The queries: each sees the committed table at the moment it runs.         *)

\* SELECT state ... ORDER BY sequence DESC LIMIT 1
CurrentState(r) == IF log[r] = <<>> THEN NoState ELSE log[r][Len(log[r])].state

\* SELECT ... WHERE run_id = ? AND state = ?
Existing(c) == {i \in DOMAIN log[c.run] : log[c.run][i].state = c.row.state}

SameEvidence(c)  == \E i \in Existing(c) : log[c.run][i].payload = c.row.payload
OtherEvidence(c) == \E i \in Existing(c) : log[c.run][i].payload # c.row.payload

-----------------------------------------------------------------------------
Init ==
  /\ serialized \in BOOLEAN
  /\ log = [r \in Runs |-> <<>>]
  /\ pc = [w \in Writers |-> "idle"]
  /\ call = [w \in Writers |-> NoCall]
  /\ previous = [w \in Writers |-> NoState]
  /\ returned = [w \in Writers |-> NoCall]

\* The call of w goes on with another statement.
Goto(w, step) ==
  /\ pc' = [pc EXCEPT ![w] = step]
  /\ UNCHANGED <<serialized, log, call, returned>>

\* The call of w ends; result is the call itself when it returns its event
\* and NoCall when it raises.
Finish(w, result) ==
  /\ pc' = [pc EXCEPT ![w] = "idle"]
  /\ call' = [call EXCEPT ![w] = NoCall]
  /\ previous' = [previous EXCEPT ![w] = NoState]
  /\ returned' = [returned EXCEPT ![w] = result]
  /\ UNCHANGED serialized

Return(w) == Finish(w, call[w]) /\ UNCHANGED log
Raise(w)  == Finish(w, NoCall) /\ UNCHANGED log

\* Mutant: nothing serializes the calls.
BeginUnlocked(w) ==
  /\ pc[w] = "idle"
  /\ \E c \in Calls :
       /\ call' = [call EXCEPT ![w] = c]
       /\ pc' = [pc EXCEPT ![w] = CASE c.kind = "create"     -> "existing"
                                    [] c.kind = "transition" -> "current"
                                    [] c.kind = "record"     -> "history"]
  /\ returned' = [returned EXCEPT ![w] = NoCall]
  /\ UNCHANGED <<serialized, log, previous>>

\* A caller enters create, transition or EvidenceRun.record.
Begin(w) ==
  /\ pc[w] = "idle"
  /\ serialized => \A v \in Writers : pc[v] = "idle"
  /\ \E c \in Calls :
       /\ call' = [call EXCEPT ![w] = c]
       /\ pc' = [pc EXCEPT ![w] = CASE c.kind = "create"     -> "existing"
                                    [] c.kind = "transition" -> "current"
                                    [] c.kind = "record"     -> "history"]
  /\ returned' = [returned EXCEPT ![w] = NoCall]
  /\ UNCHANGED <<serialized, log, previous>>

\* record: replay the event if the history has it, else create or transition.
ReadHistory(w) ==
  /\ pc[w] = "history"
  /\ \/ SameEvidence(call[w]) /\ Return(w)
     \/ OtherEvidence(call[w]) /\ Raise(w)
     \/ /\ Existing(call[w]) = {}
        /\ Goto(w, IF call[w].row.state = CREATED THEN "existing" ELSE "current")
        /\ UNCHANGED previous

\* Mutant: transition asks only that the run exists.
ReadCurrentUnchecked(w) ==
  LET s == CurrentState(call[w].run) IN
  /\ pc[w] = "current"
  /\ \/ s # NoState /\ previous' = [previous EXCEPT ![w] = s] /\ Goto(w, "existing")
     \/ s = NoState /\ Raise(w)

\* transition: read the current state and check that the move is legal.
ReadCurrent(w) ==
  LET s == CurrentState(call[w].run)
      t == call[w].row.state
      legal == s # NoState /\ (s = t \/ MayFollow(s, t))
  IN
  /\ pc[w] = "current"
  /\ \/ /\ legal
        /\ previous' = [previous EXCEPT ![w] = s]
        /\ Goto(w, "existing")
     \/ ~legal /\ Raise(w)

\* Mutant: a duplicate is returned without comparing its evidence.
CheckExistingAnyPayload(w) ==
  /\ pc[w] = "existing"
  /\ \/ Existing(call[w]) # {} /\ Return(w)
     \/ Existing(call[w]) = {} /\ Goto(w, "check") /\ UNCHANGED previous

\* _append, first SELECT: an earlier completion of the same state.
CheckExisting(w) ==
  /\ pc[w] = "existing"
  /\ \/ SameEvidence(call[w]) /\ Return(w)
     \/ OtherEvidence(call[w]) /\ Raise(w)
     \/ Existing(call[w]) = {} /\ Goto(w, "check") /\ UNCHANGED previous

\* _append, second SELECT: is the state still the one transition read?
CheckCurrent(w) ==
  /\ pc[w] = "check"
  /\ \/ /\ CurrentState(call[w].run) = previous[w]
        /\ Goto(w, "insert")
        /\ UNCHANGED previous
     \/ CurrentState(call[w].run) # previous[w] /\ Raise(w)

WriteLockFree == \A v \in Writers : pc[v] # "commit"

\* Mutant: the table has no UNIQUE(run_id, state).
InsertNotUnique(w) ==
  pc[w] = "insert" /\ WriteLockFree /\ Goto(w, "commit") /\ UNCHANGED previous

\* _append, INSERT: takes the write lock; UNIQUE(run_id, state) may refuse.
Insert(w) ==
  /\ pc[w] = "insert"
  /\ WriteLockFree
  /\ \/ Existing(call[w]) = {} /\ Goto(w, "commit") /\ UNCHANGED previous
     \/ Existing(call[w]) # {} /\ Raise(w)

\* SQLite's busy timeout expires while another writer holds the lock.
InsertBusy(w) == pc[w] = "insert" /\ ~WriteLockFree /\ Raise(w)

Committed(w) == log' = [log EXCEPT ![call[w].run] = Append(@, call[w].row)]

\* Leaving the connection's context commits; the call returns the event.
Commit(w) ==
  /\ pc[w] = "commit"
  /\ Committed(w)
  /\ Finish(w, call[w])

\* The process dies.  SQLite rolls an open transaction back, unless the
\* commit had already reached the disk.
Crash(w) ==
  /\ pc[w] # "idle"
  /\ Finish(w, NoCall)
  /\ \/ UNCHANGED log
     \/ pc[w] = "commit" /\ Committed(w)

Step(w) ==
  \/ ReadHistory(w) \/ ReadCurrent(w) \/ CheckExisting(w) \/ CheckCurrent(w)
  \/ Insert(w) \/ InsertBusy(w) \/ Commit(w)

Next == \E w \in Writers : Begin(w) \/ Step(w) \/ Crash(w)

Spec == Init /\ [][Next]_vars

-----------------------------------------------------------------------------
(* Properties.                                                              *)

\* No state of a run is completed twice, however creations, retries and
\* rival completions interleave: existing-check and INSERT are separate
\* statements, so this rests on UNIQUE(run_id, state) inside the INSERT.
OneEventPerState ==
  \A r \in Runs : \A i, j \in DOMAIN log[r] :
    log[r][i].state = log[r][j].state => i = j

\* Every event was legal after some earlier event of its run, and only
\* creation needs none.  This is what the two checks of transition and
\* _append give when calls of several processes interleave freely.
Derived(h) ==
  \A i \in DOMAIN h :
    \/ h[i].state = CREATED /\ i = 1
    \/ \E j \in 1..(i - 1) : MayFollow(h[j].state, h[i].state)

DerivedHistory == \A r \in Runs : Derived(log[r])

\* The strong form: every event is legal after the event just before it, so
\* nothing follows ACCEPTED or REJECTED.  It needs one call at a time.
Legal(h) ==
  \A i \in DOMAIN h :
    IF i = 1 THEN h[i].state = CREATED ELSE MayFollow(h[i - 1].state, h[i].state)

LegalHistory == \A r \in Runs : Legal(log[r])

\* An event a caller was handed is committed with the caller's own payload:
\* a crash, a replay or a rival completion never takes it back.
ReturnedIsCommitted ==
  \A w \in Writers : returned[w] # NoCall =>
    \E i \in DOMAIN log[returned[w].run] : log[returned[w].run][i] = returned[w].row

\* The promise of the ledger (RunHistory), kept when calls are serialized:
\* run by run, the committed states are a path through the allowed moves.
\* Of a ledger with rival calls nothing is shown to the abstract history.
States(h) == [i \in DOMAIN h |-> h[i].state]
ShownHistory == [r \in Runs |-> IF serialized THEN States(log[r]) ELSE <<>>]
History == INSTANCE RunHistory WITH history <- ShownHistory
ImplementsRunHistory == History!Spec

=============================================================================
