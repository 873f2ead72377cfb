--------------------------- MODULE ResumableSearch ---------------------------
(***************************************************************************)
(* The two searches that measure candidates run by run and can be started  *)
(* again on what an earlier process left: the matmul tile search of        *)
(* src/src/tpu_cake/search.py and the fused-RPA block search of            *)
(* src/src/tpu_cake/rpa_search.py.  Both walk one directory per run in a   *)
(* fixed order, load the runs that are complete, do the others, then       *)
(* compute the report from the files alone and write it.  They differ in   *)
(* what they do with the directory of a run that was cut short: search.py  *)
(* refuses to go on ("refuse"), rpa_search.py moves it aside, keeps it as  *)
(* evidence and runs again ("archive").  Only rpa_search.py measures the   *)
(* provisional winner a second time before it names a winner.              *)
(*                                                                         *)
(* The process may be killed before any step, which loses its memory and   *)
(* keeps the disk.  Path.write_text truncates and then writes, so a file   *)
(* may be left torn.  One process searches at a time: an assumption, as    *)
(* neither search takes a lock.  Between two processes the source may be   *)
(* another commit.  Of a run's files the model keeps the ledger's state,   *)
(* the result, the device timing of an RPA run and the commit in           *)
(* source_state; of a timing, whether it beats the baseline by enough, and *)
(* for an RPA run whether its trace holds as many events as the contract   *)
(* asks for.                                                               *)
(***************************************************************************)
EXTENDS RunStates, Naturals, Sequences, FiniteSets

CONSTANTS
  Names,         \* the candidates in the order of the contract, the baseline first
  Rounds,        \* rounds of the search
  Confirmations, \* confirmation_rounds of an RPA search
  MaxKills,      \* bound: processes killed
  MaxFailures,   \* bound: runs that raise
  MaxCommits,    \* bound: commits the search is started from
  NoDir,         \* the directory of a run does not exist
  NoReport,      \* result.json of the search does not exist
  TornReport     \* it was truncated and not written

Candidate == {Names[i] : i \in DOMAIN Names}

ASSUME NamesAssumption  == Names \in Seq(Candidate) /\ Len(Names) >= 2
ASSUME RoundsAssumption == Rounds \in Nat \ {0} /\ Confirmations \in Nat \ {0}
ASSUME BoundsAssumption == MaxCommits \in Nat \ {0}

File     == {"absent", "torn", "whole"}
Policies == {"refuse", "archive"}
Timings  == {"slow", "fast", "short"}
NoEvent  == "no event"

Baseline  == Names[1]
Slot      == [phase : {"search", "confirmation"}, round : Nat, name : Candidate]

VARIABLES
  policy,   \* which of the two searches this is; never changes
  \* The process.
  pc, at,   \* the step, and the number of the run it is at
  commit,   \* the commit the process runs from
  \* The search directory.
  contract, \* contract.json
  dirs,     \* dirs[s]: the directory of run s
  kept,     \* kept[s]: incomplete/.../<run>-attempt-NN, by NN
  report,   \* result.json
  \* Bounds and history.
  kills, failures,
  started   \* started[s]: how often run s was begun

process == <<pc, at, commit>>
disk    == <<contract, dirs, kept, report>>
vars    == <<policy, process, disk, kills, failures, started>>

-----------------------------------------------------------------------------
(* The runs of a search.                                                    *)

N == Len(Names)

\* The order of a round: search.py reverses every other round; rpa_search.py
\* rotates, through a Latin square and then its mirror image.
Reversed(s) == [i \in DOMAIN s |-> s[Len(s) + 1 - i]]
Order(r) ==
  IF policy = "refuse" THEN IF r % 2 = 0 THEN Names ELSE Reversed(Names)
  ELSE LET basis == IF (r \div N) % 2 = 0 THEN Names ELSE Reversed(Names)
       IN [i \in 1..N |-> basis[((i - 1 + r) % N) + 1]]

SearchSlot(i) ==
  LET r == (i - 1) \div N IN
  [phase |-> "search", round |-> r, name |-> Order(r)[((i - 1) % N) + 1]]
SearchSlots == {SearchSlot(i) : i \in 1..(Rounds * N)}

\* The provisional winner and the baseline take turns in going first.
ConfirmationSlot(i, winner) ==
  LET r == (i - 1) \div 2 IN
  [phase |-> "confirmation", round |-> r,
   name  |-> IF (i - 1) % 2 = r % 2 THEN Baseline ELSE winner]
ConfirmationSlots(winner) == {ConfirmationSlot(i, winner) : i \in 1..(2 * Confirmations)}

Slots == [phase : {"search"}, round : 0..(Rounds - 1), name : Candidate]
           \cup [phase : {"confirmation"}, round : 0..(Confirmations - 1), name : Candidate]

Dir == [attempt : Nat, state : RunState \cup {NoEvent}, timing : Timings, commit : 1..MaxCommits,
        result : File, device : File, failed : BOOLEAN]
ASSUME AbsentAssumption == NoDir \notin Dir

\* What validation accepts: a result that agrees with its files and ledger.
Measurement == IF policy = "refuse" THEN TIMED ELSE TRACED
Settled(s) ==
  dirs[s] # NoDir /\ dirs[s].result = "whole" /\ dirs[s].state = Measurement

-----------------------------------------------------------------------------
(* The report, a function of the directory.                                 *)

\* The lower end of the interval is above the practical minimum.
Improves(phase, rounds, name) ==
  \A r \in 0..(rounds - 1) : dirs[[phase |-> phase, round |-> r, name |-> name]].timing = "fast"

Promotable == {c \in Candidate \ {Baseline} : Improves("search", Rounds, c)}

\* max over the promotable ones; of equal timings the first in the contract.
ProvisionalWinner ==
  IF Promotable = {} THEN Baseline
  ELSE Names[CHOOSE i \in DOMAIN Names :
         Names[i] \in Promotable /\ \A j \in 1..(i - 1) : Names[j] \notin Promotable]

Needed ==
  SearchSlots \cup (IF policy = "archive" /\ ProvisionalWinner # Baseline
                    THEN ConfirmationSlots(ProvisionalWinner) ELSE {})

Winner ==
  IF policy = "archive" /\ ProvisionalWinner # Baseline
       /\ ~Improves("confirmation", Confirmations, ProvisionalWinner)
  THEN Baseline ELSE ProvisionalWinner

\* Mutant: the report leaves the attempts set aside out.
ReportWithoutAttempts ==
  [winner |-> Winner, runs |-> [s \in Needed |-> dirs[s]], incomplete |-> [s \in Slots |-> <<>>]]

\* The report lists every run it used and, in an RPA search, every attempt
\* that was moved aside.
Report ==
  [winner |-> Winner,
   runs   |-> [s \in Needed |-> dirs[s]],
   incomplete |-> IF policy = "archive" THEN kept ELSE [s \in Slots |-> <<>>]]

\* Mutant: the identities are not compared.
AnyIdentity(S) == TRUE

\* The runs of one report share one commit, runtime and lock file.
OneIdentity(S) == \A s, t \in S : dirs[s].commit = dirs[t].commit

-----------------------------------------------------------------------------
Init ==
  /\ policy \in Policies
  /\ pc = "down" /\ at = 1 /\ commit = 1
  /\ contract = "absent"
  /\ dirs = [s \in Slots |-> NoDir]
  /\ kept = [s \in Slots |-> <<>>]
  /\ report = NoReport
  /\ kills = 0 /\ failures = 0
  /\ started = [s \in Slots |-> 0]

Goto(step) == pc' = step /\ UNCHANGED <<policy, commit, kills, failures>>

Stay  == UNCHANGED at
Raise == Goto("raised") /\ at' = 1 /\ UNCHANGED <<disk, started>>

\* The run the process is at.
Here ==
  IF at <= Rounds * N THEN SearchSlot(at)
  ELSE ConfirmationSlot(at - Rounds * N, ProvisionalWinner)

\* The search is started, perhaps from another commit.
Start ==
  /\ pc \in {"down", "raised", "done"}
  /\ pc' = "open" /\ UNCHANGED at
  /\ \/ UNCHANGED commit
     \/ commit < MaxCommits /\ commit' = commit + 1
  /\ UNCHANGED <<policy, disk, kills, failures, started>>

\* contract.json must be this search's; a torn one is another text.
OpenContract ==
  /\ pc = "open"
  /\ \/ contract = "whole" /\ Goto("visit") /\ Stay /\ UNCHANGED <<disk, started>>
     \/ contract = "torn" /\ Raise
     \/ /\ contract = "absent"
        /\ contract' = "torn"
        /\ Goto("contract") /\ Stay /\ UNCHANGED <<dirs, kept, report, started>>

FillContract ==
  /\ pc = "contract"
  /\ contract' = "whole"
  /\ Goto("visit") /\ Stay /\ UNCHANGED <<dirs, kept, report, started>>

Running == {"open", "contract", "visit", "run", "result", "time", "device", "collect", "report"}

\* The last run of the search, or of its confirmation.
LastRun == at = Rounds * N \/ at = Rounds * N + 2 * Confirmations

\* The run is settled: go to the next one, or to the report.
Advance ==
  /\ Goto(IF LastRun THEN "collect" ELSE "visit")
  /\ at' = at + 1

\* result.json is there but does not parse, or the run is not that of the
\* program as the present source lowers it.
LoadRefused ==
  /\ pc = "visit"
  /\ dirs[Here] # NoDir
  /\ \/ dirs[Here].result = "torn"
     \/ dirs[Here].result = "whole" /\ dirs[Here].commit # commit
     \/ dirs[Here].device = "torn"
  /\ Raise

\* Mutant: the archive of an earlier attempt is replaced.
ArchiveFirstName(s, dir) ==
  /\ kept' = [kept EXCEPT ![s] = <<[dir EXCEPT !.failed = TRUE]>>]
  /\ dirs' = [dirs EXCEPT ![s] = NoDir]

\* _archive_incomplete_run: note the failure and move the directory to the
\* first attempt number not in use.
Archive(s, dir) ==
  /\ kept' = [kept EXCEPT ![s] = Append(@, [dir EXCEPT !.failed = TRUE])]
  /\ dirs' = [dirs EXCEPT ![s] = NoDir]

\* search.py loads the run.
MatmulLoad ==
  /\ policy = "refuse" /\ pc = "visit"
  /\ Settled(Here)
  /\ Advance /\ UNCHANGED <<disk, started>>

\* Mutant: an RPA run without its device timing is taken for incomplete.
RpaLoadTimedOnly ==
  /\ policy = "archive" /\ pc = "visit"
  /\ Settled(Here)
  /\ \/ dirs[Here].device = "whole" /\ Advance /\ UNCHANGED <<disk, started>>
     \/ /\ dirs[Here].device = "absent"
        /\ Archive(Here, dirs[Here])
        /\ Goto("visit") /\ Stay /\ UNCHANGED <<contract, report, started>>

\* rpa_search.py loads the run, and its device timing unless a kill left the
\* run without one.
RpaLoad ==
  /\ policy = "archive" /\ pc = "visit"
  /\ Settled(Here)
  /\ \/ dirs[Here].device = "whole" /\ Advance
     \/ dirs[Here].device = "absent" /\ Goto("time") /\ Stay
  /\ UNCHANGED <<disk, started>>

\* The directory is there without a result: search.py gives up.
MatmulIncomplete ==
  /\ policy = "refuse" /\ pc = "visit"
  /\ dirs[Here] # NoDir /\ dirs[Here].result = "absent"
  /\ Raise

\* Mutant: rpa_search.py refuses it as search.py does.
RpaIncompleteRefused ==
  /\ policy = "archive" /\ pc = "visit"
  /\ dirs[Here] # NoDir /\ dirs[Here].result = "absent"
  /\ Raise

\* rpa_search.py moves what an earlier process left out of the way, and then
\* finds no directory.
RpaIncomplete ==
  /\ policy = "archive" /\ pc = "visit"
  /\ dirs[Here] # NoDir /\ dirs[Here].result = "absent"
  /\ Archive(Here, dirs[Here])
  /\ Goto("visit") /\ Stay /\ UNCHANGED <<contract, report, started>>

\* run_distributed_matmul, run_fused_rpa: the directory must be new.
BeginRun ==
  /\ pc = "visit"
  /\ dirs[Here] = NoDir
  /\ started' = [started EXCEPT ![Here] = @ + 1]
  /\ dirs' = [dirs EXCEPT ![Here] =
       [attempt |-> started[Here] + 1, state |-> NoEvent, timing |-> "slow", commit |-> commit,
        result |-> "absent", device |-> "absent", failed |-> FALSE]]
  /\ Goto("run") /\ Stay /\ UNCHANGED <<contract, kept, report>>

\* The events of a run that succeeds, in their order; those before COMPILED,
\* after which a run is equally incomplete, are one step.
History == <<NoEvent, COMPILED, CORRECT, Measurement>>
NextEvent(s) == History[1 + CHOOSE i \in DOMAIN History : History[i] = s]

\* What a run may measure.
Measurable ==
  IF dirs[Here].state # CORRECT THEN {"slow"}
  ELSE (IF Here.name = Baseline THEN {"slow"} ELSE {"slow", "fast"})
         \cup (IF policy = "archive" THEN {"short"} ELSE {})

\* The run records its next event; the measurement is taken before the last.
RunStep ==
  /\ pc = "run" /\ dirs[Here].state # Measurement
  /\ \E timing \in Measurable :
       dirs' = [dirs EXCEPT ![Here].state = NextEvent(@), ![Here].timing = timing]
  /\ Goto("run") /\ Stay /\ UNCHANGED <<contract, kept, report, started>>

\* The run raises: the device fails, or the output is wrong, which the ledger
\* records as a rejection.  rpa_search.py archives the directory and raises;
\* search.py raises.
RunFails ==
  /\ pc = "run" /\ failures < MaxFailures
  /\ \E state \in {dirs[Here].state} \cup (IF dirs[Here].state = COMPILED THEN {REJECTED} ELSE {}) :
       LET failed == [dirs[Here] EXCEPT !.state = state] IN
       IF policy = "archive" THEN Archive(Here, failed)
       ELSE dirs' = [dirs EXCEPT ![Here] = failed] /\ UNCHANGED kept
  /\ pc' = "raised" /\ at' = 1 /\ failures' = failures + 1
  /\ UNCHANGED <<policy, commit, contract, report, kills, started>>

\* The last file of a run is its result.
OpenResult ==
  /\ pc = "run" /\ dirs[Here].state = Measurement
  /\ dirs' = [dirs EXCEPT ![Here].result = "torn"]
  /\ Goto("result") /\ Stay /\ UNCHANGED <<contract, kept, report, started>>

FillResult ==
  /\ pc = "result"
  /\ dirs' = [dirs EXCEPT ![Here].result = "whole"]
  /\ IF policy = "refuse" THEN Advance ELSE Goto("time") /\ Stay
  /\ UNCHANGED <<contract, kept, report, started>>

\* _device_timing counts the events of the trace, outside the try that
\* archives: a short trace raises now and whenever the run is loaded.
TimeDevice ==
  /\ pc = "time"
  /\ IF dirs[Here].timing = "short" THEN Raise
     ELSE /\ dirs' = [dirs EXCEPT ![Here].device = "torn"]
          /\ Goto("device") /\ Stay /\ UNCHANGED <<contract, kept, report, started>>

FillDevice ==
  /\ pc = "device"
  /\ dirs' = [dirs EXCEPT ![Here].device = "whole"]
  /\ Advance /\ UNCHANGED <<contract, kept, report, started>>

\* The runs the report is computed from: in an RPA search first those of the
\* search alone, for the provisional winner, then those of its confirmation.
Interim   == policy = "archive" /\ at = Rounds * N + 1
Collected == IF Interim THEN SearchSlots ELSE Needed

\* Mutant: there is a confirmation also when no candidate was promotable.
CollectAlwaysConfirms ==
  /\ pc = "collect"
  /\ IF ~OneIdentity(Collected) THEN Raise
     ELSE IF Interim
     THEN Goto("visit") /\ Stay /\ UNCHANGED <<disk, started>>
     ELSE /\ report' = TornReport
          /\ Goto("report") /\ Stay /\ UNCHANGED <<contract, dirs, kept, started>>

\* Compare the runs' identities and write the report, or go on to confirm.
Collect ==
  /\ pc = "collect"
  /\ IF ~OneIdentity(Collected) THEN Raise
     ELSE IF Interim /\ ProvisionalWinner # Baseline
     THEN Goto("visit") /\ Stay /\ UNCHANGED <<disk, started>>
     ELSE /\ report' = TornReport
          /\ Goto("report") /\ Stay /\ UNCHANGED <<contract, dirs, kept, started>>

WriteReport ==
  /\ pc = "report"
  /\ report' = Report
  /\ Goto("done") /\ at' = 1 /\ UNCHANGED <<contract, dirs, kept, started>>

\* The process is killed; the disk is as it is.
Kill ==
  /\ pc \in Running /\ kills < MaxKills
  /\ pc' = "down" /\ at' = 1 /\ kills' = kills + 1
  /\ UNCHANGED <<policy, commit, disk, failures, started>>

Step ==
  \/ OpenContract \/ FillContract
  \/ LoadRefused \/ MatmulLoad \/ RpaLoad \/ MatmulIncomplete \/ RpaIncomplete
  \/ BeginRun \/ RunStep \/ OpenResult \/ FillResult \/ TimeDevice \/ FillDevice
  \/ Collect \/ WriteReport

Next == Start \/ Step \/ RunFails \/ Kill

\* A running process goes on, and the search is started again until it ends.
Spec == Init /\ [][Next]_vars /\ WF_vars(Step) /\ WF_vars(Start /\ pc # "done")

-----------------------------------------------------------------------------
(* Properties.                                                              *)

TypeOK ==
  /\ policy \in Policies
  /\ pc \in Running \cup {"down", "raised", "done"}
  /\ at \in 1..(Rounds * N + 2 * Confirmations + 1)
  /\ pc \in {"visit", "run", "result", "time", "device"} => Here \in Slots
  /\ commit \in 1..MaxCommits
  /\ contract \in File
  /\ dirs \in [Slots -> Dir \cup {NoDir}]
  /\ \A s \in Slots : kept[s] \in Seq(Dir) /\ started[s] \in Nat
  /\ report \in {NoReport, TornReport} \/ DOMAIN report.runs \subseteq Slots
  /\ kills \in 0..MaxKills /\ failures \in 0..MaxFailures

\* A run that is complete is evidence: no later process repeats it, moves it
\* or changes it, except to add the device timing a kill left out.
SettledRunsStay ==
  [][\A s \in Slots : Settled(s) =>
       dirs'[s] # NoDir /\ [dirs[s] EXCEPT !.device = "absent"] = [dirs'[s] EXCEPT !.device = "absent"]
    ]_vars

\* No attempt at a run is lost: all that were begun are there in their order,
\* the last in the run's place and the others set aside with the failure noted.
AttemptsAreKept ==
  \A s \in Slots :
    LET here == IF dirs[s] = NoDir THEN <<>> ELSE <<dirs[s]>>
        all  == kept[s] \o here
    IN /\ Len(all) = started[s]
       /\ \A i \in DOMAIN all : all[i].attempt = i
       /\ \A i \in DOMAIN kept[s] : kept[s][i].failed

Published == report \notin {NoReport, TornReport}

\* A report can be replayed from the directory for ever after: each run it
\* lists is there as it was, each attempt set aside is in it, and the winner
\* is the one the runs give, for an RPA search a confirmed one.
ReportIsReplayable ==
  Published =>
    /\ \A s \in DOMAIN report.runs : Settled(s) /\ report.runs[s] = dirs[s]
    /\ DOMAIN report.runs = Needed
    /\ report.winner = Winner
    /\ policy = "archive" => report.incomplete = kept

\* However often the search was stopped and started from another commit, the
\* runs of a report all come from one.
PublishedIsUniform ==
  Published => \A s, t \in DOMAIN report.runs : report.runs[s].commit = report.runs[t].commit

\* Confirmation runs are made after the whole search, for the baseline and for
\* the candidate that won it, which no restart exchanges for another.
ConfirmationFollowsSelection ==
  \A s \in Slots : s.phase = "confirmation" /\ started[s] > 0 =>
    /\ policy = "archive"
    /\ \A t \in SearchSlots : Settled(t)
    /\ ProvisionalWinner # Baseline
    /\ s.name \in {Baseline, ProvisionalWinner}

\* A file that a kill left half written, or a trace that is too short in a run
\* that is otherwise complete: every later process raises at it.
Wedged ==
  \/ contract = "torn"
  \/ \E s \in Slots : dirs[s] # NoDir /\
       \/ "torn" \in {dirs[s].result, dirs[s].device}
       \/ Settled(s) /\ dirs[s].timing = "short"

\* An RPA search that is started again after each kill and each failure ends
\* with its report, unless the source changes under it or it is wedged.
SearchResumes ==
  policy = "archive" => \/ <>Published
                        \/ <>(commit # 1)
                        \/ <>[]Wedged
=============================================================================
