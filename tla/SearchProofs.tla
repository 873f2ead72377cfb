----------------------------- MODULE SearchProofs -----------------------------
(***************************************************************************)
(* That a search which is killed, fails and is started again anywhere      *)
(* loses no attempt, repeats no settled run, and publishes only what can   *)
(* be replayed from its directory: for any number of candidates, rounds,   *)
(* confirmations, kills, failures and commits.                             *)
(***************************************************************************)
EXTENDS ResumableSearch, WellFoundedInduction, TLAPS

-----------------------------------------------------------------------------
(* The order of the runs.                                                   *)

\* The number of runs of the search proper.
Last == Rounds * N

LEMMA LeastNat ==
  ASSUME NEW T, T \subseteq Nat, T # {}
  PROVE  \E x \in T : \A y \in T : x <= y
<1>1. IsWellFoundedOn({ss \in Nat \X Nat : ss[1] < ss[2]}, Nat)
  BY NatLessThanWellFounded DEF OpToRel
<1>2. \E x \in T : \A y \in T : <<y, x>> \notin {ss \in Nat \X Nat : ss[1] < ss[2]}
  <2> DEFINE R == {ss \in Nat \X Nat : ss[1] < ss[2]}
  <2>1. IsWellFoundedOn(R, Nat)
    BY <1>1 DEF R
  <2> HIDE DEF R
  <2>2. \E x \in T : \A y \in T : ~(<<y, x>> \in R)
    BY <2>1, WFMin
  <2> QED BY <2>2 DEF R
<1>3. PICK x \in T : \A y \in T : <<y, x>> \notin {ss \in Nat \X Nat : ss[1] < ss[2]}
  BY <1>2
<1>4. ASSUME NEW y \in T PROVE x <= y
  <2>1. <<y, x>> \in Nat \X Nat /\ <<y, x>>[1] = y /\ <<y, x>>[2] = x
    OBVIOUS
  <2>2. ~(y < x)
    BY <1>3, <2>1
  <2> QED BY <2>2
<1> QED BY <1>4

LEMMA Counts ==
  /\ N \in Nat /\ N >= 2 /\ Rounds \in Nat /\ Rounds >= 1 /\ Last \in Nat /\ Last >= 2
  /\ Confirmations \in Nat /\ Confirmations >= 1
  /\ Names \in [1..N -> Candidate] /\ Baseline \in Candidate
<1>1. /\ N \in Nat /\ N >= 2 /\ Rounds \in Nat /\ Rounds >= 1
      /\ Confirmations \in Nat /\ Confirmations >= 1
  BY NamesAssumption, RoundsAssumption DEF N
<1>2. Names \in [1..N -> Candidate] /\ Baseline \in Candidate
  BY NamesAssumption DEF N, Baseline, Candidate
<1>3. Last \in Nat /\ Last >= 2
  <2>1. \A a, b \in Nat : a >= 1 /\ b >= 2 => a * b \in Nat /\ a * b >= 2
    OBVIOUS
  <2> QED BY <1>1, <2>1 DEF Last
<1> QED BY <1>1, <1>2, <1>3

\* Runs are counted round by round.
LEMMA Divided ==
  ASSUME NEW n \in Nat, n >= 1, NEW i \in Nat
  PROVE  /\ i \div n \in Nat /\ i % n \in 0..(n - 1) /\ i = n * (i \div n) + (i % n)
OBVIOUS

LEMMA Composed ==
  ASSUME NEW n \in Nat, n >= 1, NEW r \in Nat, NEW j \in 0..(n - 1)
  PROVE  (n * r + j) \div n = r /\ (n * r + j) % n = j
OBVIOUS

LEMMA RoundOf ==
  ASSUME NEW n \in Nat, n >= 1, NEW k \in Nat, NEW i \in 0..(k * n - 1)
  PROVE  i \div n \in 0..(k - 1)
<1>1. i \in Nat /\ i < k * n
  OBVIOUS
<1>2. i \div n \in Nat /\ i % n \in Nat /\ i = n * (i \div n) + (i % n)
  BY <1>1, Divided
<1>3. \A q \in Nat : q >= k => n * q >= k * n
  OBVIOUS
<1>4. \A x, y \in Nat : n * x \in Nat /\ (i = n * x + y => i >= n * x)
  OBVIOUS
<1>5. ~(i \div n >= k)
  BY <1>1, <1>2, <1>3, <1>4
<1> QED BY <1>2, <1>5

\* A rotation reaches every place.
LEMMA Rotated ==
  ASSUME NEW n \in Nat, n >= 1, NEW r \in Nat, NEW k \in 0..(n - 1)
  PROVE  \E i \in 0..(n - 1) : (i + r) % n = k
<1> PICK q, m : q = r \div n /\ m = r % n
  OBVIOUS
<1>1. q \in Nat /\ m \in 0..(n - 1) /\ r = n * q + m
  BY Divided
<1>2. CASE k >= m
  <2>1. k - m \in 0..(n - 1) /\ (k - m) + r = n * q + k
    BY <1>1, <1>2
  <2>2. (n * q + k) % n = k
    BY <1>1, Composed
  <2>3. ((k - m) + r) % n = k
    BY ONLY <2>1, <2>2
  <2> QED BY <2>1, <2>3
<1>3. CASE k < m
  <2>1. k - m + n \in 0..(n - 1)
    BY <1>1, <1>3
  <2>2. (k - m + n) + r = n * (q + 1) + k /\ q + 1 \in Nat
    BY <1>1, <1>3
  <2>3. (n * (q + 1) + k) % n = k
    BY <2>2, Composed
  <2>4. ((k - m + n) + r) % n = k
    BY ONLY <2>2, <2>3
  <2> QED BY <2>1, <2>4
<1> QED BY <1>1, <1>2, <1>3

\* Each round runs every candidate.
LEMMA OrderCovers ==
  ASSUME policy \in Policies, NEW r \in Nat
  PROVE  /\ \A j \in 1..N : Order(r)[j] \in Candidate
         /\ \A c \in Candidate : \E j \in 1..N : Order(r)[j] = c
<1>1. N \in Nat /\ N >= 2 /\ Names \in [1..N -> Candidate] /\ Len(Names) = N
  BY Counts DEF N
<1>2. \A c \in Candidate : \E j \in 1..N : Names[j] = c
  BY <1>1 DEF Candidate
<1>3. Reversed(Names) = [i \in 1..N |-> Names[N + 1 - i]]
  BY <1>1 DEF Reversed
<1>4. /\ \A j \in 1..N : Reversed(Names)[j] \in Candidate
      /\ \A c \in Candidate : \E j \in 1..N : Reversed(Names)[j] = c
  <2>1. \A j \in 1..N : N + 1 - j \in 1..N /\ N + 1 - (N + 1 - j) = j
    BY <1>1
  <2>2. ASSUME NEW c \in Candidate PROVE \E j \in 1..N : Reversed(Names)[j] = c
    <3> PICK j \in 1..N : Names[j] = c
      BY <1>2
    <3> PICK k : k = N + 1 - j
      OBVIOUS
    <3>1. k \in 1..N /\ N + 1 - k = j
      BY <2>1
    <3>2. Reversed(Names)[k] = Names[N + 1 - k]
      BY <1>3, <3>1
    <3> QED BY <3>1, <3>2
  <2>3. ASSUME NEW j \in 1..N PROVE Reversed(Names)[j] \in Candidate
    BY <1>1, <1>3, <2>1
  <2> QED BY <2>2, <2>3
<1>5. CASE policy = "refuse"
  BY <1>1, <1>2, <1>4, <1>5 DEF Order
<1>6. CASE policy = "archive"
  <2> PICK basis : basis = IF (r \div N) % 2 = 0 THEN Names ELSE Reversed(Names)
    OBVIOUS
  <2>1. /\ \A j \in 1..N : basis[j] \in Candidate
        /\ \A c \in Candidate : \E j \in 1..N : basis[j] = c
    BY <1>1, <1>2, <1>4
  <2>2. Order(r) = [i \in 1..N |-> basis[((i - 1 + r) % N) + 1]]
    BY <1>6 DEF Order
  <2>3. ASSUME NEW j \in 1..N PROVE Order(r)[j] \in Candidate
    <3> PICK x, n : x = j - 1 + r /\ n = N
      OBVIOUS
    <3>1. x \in Nat /\ n \in Nat /\ n >= 1
      BY <1>1
    <3>2. x % n \in 0..(n - 1)
      BY <3>1, Divided
    <3>3. ((j - 1 + r) % N) + 1 \in 1..N
      BY <1>1, <3>2
    <3> QED BY <2>1, <2>2, <3>3
  <2>4. ASSUME NEW c \in Candidate PROVE \E j \in 1..N : Order(r)[j] = c
    <3> PICK k \in 1..N : basis[k] = c
      BY <2>1
    <3> PICK i \in 0..(N - 1) : (i + r) % N = k - 1
      <4> PICK x, n : x = k - 1 /\ n = N
        OBVIOUS
      <4>1. n \in Nat /\ n >= 1 /\ x \in 0..(n - 1)
        BY <1>1
      <4>2. \E i \in 0..(n - 1) : (i + r) % n = x
        BY <4>1, Rotated
      <4> QED BY <4>2
    <3>2. i + 1 \in 1..N /\ i + 1 - 1 + r = i + r /\ k - 1 + 1 = k
      BY <1>1
    <3>3. Order(r)[i + 1] = basis[((i + 1 - 1 + r) % N) + 1]
      BY <2>2, <3>2
    <3> QED BY <3>2, <3>3
  <2> QED BY <2>3, <2>4
<1> QED BY <1>5, <1>6 DEF Policies

\* The runs of the search are all candidates in all rounds.
LEMMA SearchSlotIs ==
  ASSUME policy \in Policies, NEW i \in 1..Last
  PROVE  /\ SearchSlot(i) \in [phase : {"search"}, round : 0..(Rounds - 1), name : Candidate]
         /\ SearchSlot(i) \in SearchSlots
<1>1. N \in Nat /\ N >= 2 /\ Rounds \in Nat /\ Last \in Nat /\ i - 1 \in 0..(Rounds * N - 1)
  BY Counts DEF Last
<1> PICK r, j : r = (i - 1) \div N /\ j = ((i - 1) % N) + 1
  OBVIOUS
<1>2. r \in 0..(Rounds - 1) /\ r \in Nat
  <2> PICK x, n, k : x = i - 1 /\ n = N /\ k = Rounds
    OBVIOUS
  <2>1. n \in Nat /\ n >= 1 /\ k \in Nat /\ x \in 0..(k * n - 1)
    BY <1>1
  <2>2. x \div n \in 0..(k - 1)
    BY <2>1, RoundOf
  <2> QED BY <1>1, <2>2
<1>3. j \in 1..N
  <2>1. (i - 1) % N \in 0..(N - 1)
    BY <1>1, Divided
  <2> QED BY <1>1, <2>1
<1>4. SearchSlot(i) = [phase |-> "search", round |-> r, name |-> Order(r)[j]]
  BY DEF SearchSlot
<1>5. SearchSlot(i) \in SearchSlots
  BY DEF SearchSlots, Last
<1> QED BY <1>2, <1>3, <1>4, <1>5, OrderCovers

LEMMA SearchSlotsAre ==
  ASSUME policy \in Policies
  PROVE  SearchSlots = [phase : {"search"}, round : 0..(Rounds - 1), name : Candidate]
<1>1. ASSUME NEW s \in SearchSlots PROVE s \in [phase : {"search"}, round : 0..(Rounds - 1), name : Candidate]
  BY SearchSlotIs DEF SearchSlots, Last
<1>2. ASSUME NEW r \in 0..(Rounds - 1), NEW c \in Candidate
      PROVE  [phase |-> "search", round |-> r, name |-> c] \in SearchSlots
  <2>1. N \in Nat /\ N >= 2 /\ Rounds \in Nat /\ r \in Nat
    BY Counts
  <2> PICK j \in 1..N : Order(r)[j] = c
    BY <2>1, OrderCovers
  <2> PICK i : i = N * r + (j - 1) + 1
    OBVIOUS
  <2>2. j - 1 \in 0..(N - 1) /\ N * r \in Nat
    BY <2>1
  <2>3. i - 1 = N * r + (j - 1) /\ i \in Nat /\ i >= 1
    BY <2>1, <2>2
  <2>4. (i - 1) \div N = r /\ (i - 1) % N = j - 1
    <3>1. N \in Nat /\ N >= 1 /\ r \in Nat /\ j - 1 \in 0..(N - 1)
      BY <2>1, <2>2
    <3>2. \A n, q \in Nat : n >= 1 => \A x \in 0..(n - 1) : (n * q + x) \div n = q /\ (n * q + x) % n = x
      BY Composed
    <3>3. (N * r + (j - 1)) \div N = r /\ (N * r + (j - 1)) % N = j - 1
      BY ONLY <3>1, <3>2, Zenon
    <3> QED BY ONLY <2>3, <3>3
  <2>5. i <= Rounds * N
    <3>1. N * r + N <= Rounds * N
      <4>1. r + 1 <= Rounds
        BY <2>1
      <4>2. \A a, b, n \in Nat : a <= b => n * a <= b * n /\ n * (r + 1) = n * r + n
        BY <2>1
      <4> QED BY <2>1, <4>1, <4>2
    <3>2. Rounds * N \in Nat
      BY <2>1
    <3> QED BY <2>1, <2>2, <3>1, <3>2
  <2>6. SearchSlot(i) = [phase |-> "search", round |-> r, name |-> c]
    <3>1. ((i - 1) % N) + 1 = j
      BY <2>1, <2>4
    <3> QED BY <2>4, <3>1 DEF SearchSlot
  <2>7. i \in 1..(Rounds * N)
    BY <2>1, <2>3, <2>5
  <2> QED BY <2>6, <2>7 DEF SearchSlots
<1>3. ASSUME NEW s \in [phase : {"search"}, round : 0..(Rounds - 1), name : Candidate] PROVE s \in SearchSlots
  BY <1>2
<1> QED BY <1>1, <1>3

\* The rounds of a confirmation run the baseline and the candidate.
LEMMA ConfirmationSlotIs ==
  ASSUME NEW w, NEW i \in 1..(2 * Confirmations)
  PROVE  /\ ConfirmationSlot(i, w) \in [phase : {"confirmation"}, round : 0..(Confirmations - 1),
                                        name : {Baseline, w}]
         /\ ConfirmationSlot(i, w) \in ConfirmationSlots(w)
<1>1. Confirmations \in Nat
  BY Counts
<1>2. (i - 1) \div 2 \in 0..(Confirmations - 1)
  BY <1>1
<1> QED BY <1>2 DEF ConfirmationSlot, ConfirmationSlots

LEMMA ConfirmationCovers ==
  ASSUME NEW w, NEW r \in 0..(Confirmations - 1)
  PROVE  [phase |-> "confirmation", round |-> r, name |-> w] \in ConfirmationSlots(w)
<1>1. Confirmations \in Nat /\ r \in Nat
  BY Counts
<1> PICK i : i = 2 * r + (1 - (r % 2)) + 1
  OBVIOUS
<1>2. i \in 1..(2 * Confirmations) /\ (i - 1) \div 2 = r /\ (i - 1) % 2 # r % 2
  BY <1>1
<1>3. ConfirmationSlot(i, w) = [phase |-> "confirmation", round |-> r, name |-> w]
  BY <1>2 DEF ConfirmationSlot
<1> QED BY <1>2, <1>3 DEF ConfirmationSlots

\* The winner is the first of the candidates that may be promoted.
LEMMA WinnerIs ==
  /\ ProvisionalWinner \in Candidate
  /\ ProvisionalWinner # Baseline => ProvisionalWinner \in Promotable
<1>1. CASE Promotable = {}
  BY <1>1, Counts DEF ProvisionalWinner
<1>2. CASE Promotable # {}
  <2> DEFINE T == {i \in DOMAIN Names : Names[i] \in Promotable}
  <2>1. DOMAIN Names = 1..N /\ N \in Nat
    BY Counts
  <2>2. T # {} /\ T \subseteq Nat
    BY <1>2, <2>1 DEF Promotable, Candidate
  <2> HIDE DEF T
  <2>3. PICK x \in T : \A y \in T : x <= y
    BY <2>2, LeastNat
  <2>4. x \in DOMAIN Names /\ Names[x] \in Promotable
    BY DEF T
  <2>5. \A j \in 1..(x - 1) : Names[j] \notin Promotable
    <3> SUFFICES ASSUME NEW j \in 1..(x - 1), Names[j] \in Promotable PROVE FALSE
      OBVIOUS
    <3>1. j \in DOMAIN Names
      BY <2>1, <2>4
    <3>2. j \in T
      BY <3>1 DEF T
    <3>3. x <= j
      BY <2>3, <3>2
    <3> QED BY <2>1, <2>4, <3>3
  <2> DEFINE First(i) == Names[i] \in Promotable /\ \A j \in 1..(i - 1) : Names[j] \notin Promotable
  <2>6. x \in DOMAIN Names /\ First(x)
    BY <2>4, <2>5
  <2>7. ProvisionalWinner = Names[CHOOSE i \in DOMAIN Names : First(i)]
    BY <1>2 DEF ProvisionalWinner
  <2>8. (CHOOSE i \in DOMAIN Names : First(i)) \in DOMAIN Names /\ First(CHOOSE i \in DOMAIN Names : First(i))
    <3> HIDE DEF First
    <3> QED BY <2>6
  <2>9. ProvisionalWinner \in Promotable
    BY <2>7, <2>8
  <2> QED BY <2>9 DEF Promotable
<1> QED BY <1>1, <1>2

-----------------------------------------------------------------------------
(* The invariant.                                                           *)

\* The steps at a run, and those of a walk over the runs.
Visiting == {"visit", "run", "result", "time", "device"}
Walking  == Visiting \cup {"collect", "report"}

\* A run that no later process has anything to do at.
Finished(s) == Settled(s) /\ (policy = "archive" => dirs[s].device = "whole")

\* The search goes on to confirm its provisional winner.
Confirms == policy = "archive" /\ ProvisionalWinner # Baseline

Types ==
  /\ policy \in Policies
  /\ pc \in Running \cup {"down", "raised", "done"}
  /\ at \in Nat
  /\ commit \in 1..MaxCommits
  /\ dirs \in [Slots -> Dir \cup {NoDir}]
  /\ kept \in [Slots -> Seq(Dir)]
  /\ started \in [Slots -> Nat]

\* Where a walk is, and what it has passed.
PlaceInv ==
  /\ pc \notin Walking => at = 1
  /\ pc \in Visiting =>
       \/ at \in 1..Last
       \/ Confirms /\ at \in (Last + 1)..(Last + 2 * Confirmations)
  /\ pc = "collect" => at = Last + 1 \/ (Confirms /\ at = Last + 2 * Confirmations + 1)
  /\ pc = "report" => (\A s \in Needed : Finished(s)) /\ OneIdentity(Needed)

WalkedInv ==
  pc \in Walking =>
    /\ \A i \in 1..Last : i < at => Finished(SearchSlot(i))
    /\ \A i \in 1..(2 * Confirmations) :
         Last + i < at => Finished(ConfirmationSlot(i, ProvisionalWinner))

\* The files of the run a process is at.
RunFiles(step, d) ==
  /\ d # NoDir
  /\ step = "run" => /\ d.result = "absent" /\ d.device = "absent"
                     /\ d.state \in {NoEvent, COMPILED, CORRECT, Measurement}
  /\ step = "result" => d.result = "torn" /\ d.device = "absent" /\ d.state = Measurement
  /\ step \in {"time", "device"} => policy = "archive" /\ d.result = "whole" /\ d.state = Measurement
  /\ step = "time" => d.device = "absent"
  /\ step = "device" => d.device = "torn"

RunInv == pc \in Visiting \ {"visit"} => RunFiles(pc, dirs[Here])

\* ConfirmationFollowsSelection, of runs that have their device timing too.
ConfirmInv ==
  \A s \in Slots : s.phase = "confirmation" /\ started[s] > 0 =>
    /\ Confirms
    /\ \A t \in SearchSlots : Finished(t)
    /\ s.name \in {Baseline, ProvisionalWinner}

\* ReportIsReplayable and PublishedIsUniform, in the same way.
ReportInv ==
  Published =>
    /\ \A s \in DOMAIN report.runs : Finished(s) /\ report.runs[s] = dirs[s]
    /\ DOMAIN report.runs = Needed
    /\ report.winner = Winner
    /\ policy = "archive" => report.incomplete = kept
    /\ OneIdentity(Needed)

\* AttemptsAreKept, of one run.
AttemptsAt(s) ==
  /\ started[s] = Len(kept[s]) + (IF dirs[s] = NoDir THEN 0 ELSE 1)
  /\ dirs[s] # NoDir => dirs[s].attempt = Len(kept[s]) + 1
  /\ \A i \in DOMAIN kept[s] : kept[s][i].attempt = i /\ kept[s][i].failed

IInv ==
  /\ Types /\ PlaceInv /\ WalkedInv /\ RunInv /\ ConfirmInv /\ ReportInv
  /\ \A s \in Slots : AttemptsAt(s)

-----------------------------------------------------------------------------
(* The run a process is at.                                                 *)

LEMMA HereIs ==
  ASSUME Types, PlaceInv, pc \in Visiting
  PROVE  /\ Here \in Slots /\ Here \in Needed
         /\ at <= Last => Here = SearchSlot(at) /\ Here \in SearchSlots
         /\ at > Last => /\ Confirms /\ at - Last \in 1..(2 * Confirmations)
                         /\ Here = ConfirmationSlot(at - Last, ProvisionalWinner)
                         /\ Here.phase = "confirmation" /\ Here.name \in {Baseline, ProvisionalWinner}
<1>1. Last \in Nat /\ Last = Rounds * N /\ Confirmations \in Nat /\ at \in Nat
  BY Counts DEF Last, Types
<1>2. CASE at <= Last
  <2>1. at \in 1..Last /\ Here = SearchSlot(at)
    BY <1>1, <1>2 DEF PlaceInv, Here
  <2>2. Here \in [phase : {"search"}, round : 0..(Rounds - 1), name : Candidate] /\ Here \in SearchSlots
    BY <2>1, SearchSlotIs DEF Types
  <2> QED BY <1>1, <1>2, <2>1, <2>2 DEF Slots, Needed
<1>3. CASE at > Last
  <2>1. /\ Confirms /\ at - Last \in 1..(2 * Confirmations)
        /\ Here = ConfirmationSlot(at - Last, ProvisionalWinner)
    BY <1>1, <1>3 DEF PlaceInv, Here
  <2>2. /\ Here \in [phase : {"confirmation"}, round : 0..(Confirmations - 1), name : {Baseline, ProvisionalWinner}]
        /\ Here \in ConfirmationSlots(ProvisionalWinner)
    <3> PICK i, w : i = at - Last /\ w = ProvisionalWinner
      OBVIOUS
    <3>1. Here = ConfirmationSlot(i, w) /\ i \in 1..(2 * Confirmations)
      BY <2>1
    <3> QED BY <3>1, ConfirmationSlotIs
  <2>3. ProvisionalWinner \in Candidate /\ Baseline \in Candidate
    BY WinnerIs, Counts
  <2> QED BY <1>1, <1>3, <2>1, <2>2, <2>3 DEF Slots, Needed, Confirms
<1> QED BY <1>1, <1>2, <1>3

-----------------------------------------------------------------------------
(* What a step leaves as it was.                                            *)

\* The finished runs are not touched.
FinishedStay == \A s \in Slots : Finished(s) => dirs'[s] = dirs[s]

LEMMA SlotTypes ==
  ASSUME Types
  PROVE  /\ SearchSlots \subseteq Slots /\ Needed \subseteq Slots
         /\ SearchSlots \subseteq Needed
         /\ \A i \in 1..Last : SearchSlot(i) \in SearchSlots
         /\ \A w \in Candidate : \A i \in 1..(2 * Confirmations) : ConfirmationSlot(i, w) \in Slots
<1>1. SearchSlots \subseteq Slots /\ \A i \in 1..Last : SearchSlot(i) \in SearchSlots
  BY SearchSlotsAre, SearchSlotIs DEF Slots, Types
<1>2. ASSUME NEW w \in Candidate, NEW i \in 1..(2 * Confirmations) PROVE ConfirmationSlot(i, w) \in Slots
  <2>1. ConfirmationSlot(i, w) \in [phase : {"confirmation"}, round : 0..(Confirmations - 1), name : {Baseline, w}]
    BY ConfirmationSlotIs
  <2> QED BY <2>1, Counts DEF Slots
<1>3. Needed \subseteq Slots /\ SearchSlots \subseteq Needed
  <2>1. ProvisionalWinner \in Candidate
    BY WinnerIs
  <2> QED BY <1>1, <1>2, <2>1 DEF Needed, ConfirmationSlots
<1> QED BY <1>1, <1>2, <1>3

LEMMA FinishedKept ==
  ASSUME IInv, policy' = policy, FinishedStay
  PROVE  \A s \in Slots : Finished(s) => Finished(s)'
BY DEF FinishedStay, Finished, Settled, Measurement

\* The winner is a function of the finished runs of the search.
LEMMA WinnerStays ==
  ASSUME IInv, policy' = policy, FinishedStay, \A t \in SearchSlots : Finished(t)
  PROVE  /\ ProvisionalWinner' = ProvisionalWinner
         /\ Confirms' = Confirms /\ Needed' = Needed /\ SearchSlots' = SearchSlots
<1>1. SearchSlots' = SearchSlots
  BY DEF SearchSlots, SearchSlot, Order
<1>2. \A r \in 0..(Rounds - 1), c \in Candidate : [phase |-> "search", round |-> r, name |-> c] \in SearchSlots
  BY SearchSlotsAre DEF IInv, Types
<1>3. \A s \in SearchSlots : dirs'[s] = dirs[s]
  BY SlotTypes DEF IInv, FinishedStay
<1>4. Promotable' = Promotable
  BY <1>2, <1>3 DEF Promotable, Improves
<1>5. ProvisionalWinner' = ProvisionalWinner
  BY <1>4 DEF ProvisionalWinner
<1>6. Needed' = Needed
  BY <1>1, <1>5 DEF Needed, ConfirmationSlots, ConfirmationSlot
<1> QED BY <1>1, <1>5, <1>6 DEF Confirms

\* A walk that has come to the confirmation has finished the search.
LEMMA Searched ==
  ASSUME IInv, pc \in Walking, at > Last
  PROVE  \A t \in SearchSlots : Finished(t)
<1>1. Last \in Nat /\ at \in Nat
  BY Counts DEF IInv, Types
<1>2. \A i \in 1..Last : Finished(SearchSlot(i))
  BY <1>1 DEF IInv, WalkedInv
<1> QED BY <1>2 DEF SearchSlots, Last

LEMMA HereStays ==
  ASSUME IInv, pc \in Visiting, policy' = policy, at' = at, FinishedStay
  PROVE  Here' = Here
<1>1. Last \in Nat /\ Last = Rounds * N /\ at \in Nat
  BY Counts DEF Last, IInv, Types
<1>2. CASE at <= Last
  BY <1>1, <1>2 DEF Here, SearchSlot, Order
<1>3. CASE ~(at <= Last)
  <2>1. at > Last /\ pc \in Walking
    BY <1>1, <1>3 DEF Walking
  <2>2. ProvisionalWinner' = ProvisionalWinner
    BY <2>1, Searched, WinnerStays
  <2> QED BY <1>1, <1>3, <2>2 DEF Here, ConfirmationSlot
<1> QED BY <1>2, <1>3

LEMMA ReportKept ==
  ASSUME IInv, policy' = policy, FinishedStay, report' = report, Published => kept' = kept
  PROVE  ReportInv'
<1> SUFFICES ASSUME Published PROVE ReportInv'
  BY DEF ReportInv, Published
<1>1. /\ \A s \in DOMAIN report.runs : Finished(s) /\ report.runs[s] = dirs[s]
      /\ DOMAIN report.runs = Needed /\ report.winner = Winner
      /\ policy = "archive" => report.incomplete = kept
      /\ OneIdentity(Needed)
  BY DEF IInv, ReportInv
<1>2. SearchSlots \subseteq Slots /\ Needed \subseteq Slots /\ SearchSlots \subseteq Needed
  BY SlotTypes DEF IInv
<1>3. /\ ProvisionalWinner' = ProvisionalWinner
      /\ Confirms' = Confirms /\ Needed' = Needed
  BY <1>1, <1>2, WinnerStays
<1>4. \A s \in Needed : dirs'[s] = dirs[s] /\ Finished(s)'
  BY <1>1, <1>2, FinishedKept DEF FinishedStay
<1>5. Winner' = Winner
  <2>1. CASE Confirms
    <3>1. \A r \in 0..(Confirmations - 1) :
            [phase |-> "confirmation", round |-> r, name |-> ProvisionalWinner] \in Needed
      <4>1. ConfirmationSlots(ProvisionalWinner) \subseteq Needed
        BY <2>1 DEF Needed, Confirms
      <4> PICK w : w = ProvisionalWinner
        OBVIOUS
      <4>2. \A r \in 0..(Confirmations - 1) :
              [phase |-> "confirmation", round |-> r, name |-> w] \in ConfirmationSlots(w)
        BY ConfirmationCovers
      <4> QED BY <4>1, <4>2
    <3> PICK w : w = ProvisionalWinner
      OBVIOUS
    <3>2. \A r \in 0..(Confirmations - 1) :
            dirs'[[phase |-> "confirmation", round |-> r, name |-> w]]
              = dirs[[phase |-> "confirmation", round |-> r, name |-> w]]
      BY <1>4, <3>1
    <3>3. w = ProvisionalWinner'
      BY <1>3
    <3>4. Winner' = IF policy = "archive" /\ w # Baseline
                       /\ ~(\A r \in 0..(Confirmations - 1) :
                              dirs'[[phase |-> "confirmation", round |-> r, name |-> w]].timing = "fast")
                    THEN Baseline ELSE w
      BY <3>3 DEF Winner, Improves
    <3>5. Winner = IF policy = "archive" /\ w # Baseline
                      /\ ~(\A r \in 0..(Confirmations - 1) :
                             dirs[[phase |-> "confirmation", round |-> r, name |-> w]].timing = "fast")
                   THEN Baseline ELSE w
      BY DEF Winner, Improves
    <3> QED BY <3>2, <3>4, <3>5
  <2>2. CASE ~Confirms
    BY <1>3, <2>2 DEF Winner, Confirms
  <2> QED BY <2>1, <2>2
<1>6. OneIdentity(Needed)'
  BY <1>1, <1>3, <1>4 DEF OneIdentity
<1> QED BY <1>1, <1>3, <1>4, <1>5, <1>6 DEF ReportInv

LEMMA ConfirmKept ==
  ASSUME IInv, policy' = policy, FinishedStay,
         \A s \in Slots : s.phase = "confirmation" /\ started'[s] > 0 =>
           \/ started[s] > 0
           \/ pc \in Visiting /\ s = Here
  PROVE  ConfirmInv'
<1> SUFFICES ASSUME NEW s \in Slots, s.phase = "confirmation", started'[s] > 0
             PROVE  Confirms' /\ (\A t \in SearchSlots' : Finished(t)') /\ s.name \in {Baseline, ProvisionalWinner'}
  BY DEF ConfirmInv
<1>1. Confirms /\ (\A t \in SearchSlots : Finished(t)) /\ s.name \in {Baseline, ProvisionalWinner}
  <2>1. CASE started[s] > 0
    BY <2>1 DEF IInv, ConfirmInv
  <2>2. CASE pc \in Visiting /\ s = Here
    <3>1. ~(at <= Last)
      <4>1. ASSUME at <= Last PROVE FALSE
        <5>1. Here \in SearchSlots
          BY <2>2, <4>1, HereIs DEF IInv
        <5>2. SearchSlots = [phase : {"search"}, round : 0..(Rounds - 1), name : Candidate]
          BY SearchSlotsAre DEF IInv, Types
        <5>3. Here.phase = "search"
          BY <5>1, <5>2
        <5> QED BY <2>2, <5>3
      <4> QED BY <4>1
    <3>2. at > Last /\ pc \in Walking
      BY <2>2, <3>1, Counts DEF IInv, Types, Walking
    <3> QED BY <2>2, <3>2, HereIs, Searched DEF IInv
  <2> QED BY <2>1, <2>2
<1>2. /\ ProvisionalWinner' = ProvisionalWinner
      /\ Confirms' = Confirms /\ SearchSlots' = SearchSlots
  BY <1>1, WinnerStays
<1>3. \A t \in SearchSlots : Finished(t)'
  BY <1>1, FinishedKept, SlotTypes DEF IInv
<1> QED BY <1>1, <1>2, <1>3

LEMMA WalkKept ==
  ASSUME IInv, pc \in Walking, policy' = policy, FinishedStay, at' = at
  PROVE  WalkedInv'
<1>1. Last \in Nat /\ at \in Nat
  BY Counts DEF IInv, Types
<1>2. ASSUME NEW i \in 1..Last, i < at PROVE Finished(SearchSlot(i))'
  <2>1. SearchSlot(i)' = SearchSlot(i)
    BY DEF SearchSlot, Order
  <2> PICK s : s = SearchSlot(i)
    OBVIOUS
  <2>2. Finished(s) /\ s \in Slots
    BY <1>2, SlotTypes DEF IInv, WalkedInv
  <2>3. Finished(s)'
    BY <2>2, FinishedKept
  <2> QED BY <2>1, <2>3 DEF Finished, Settled
<1>3. ASSUME NEW i \in 1..(2 * Confirmations), Last + i < at
      PROVE  Finished(ConfirmationSlot(i, ProvisionalWinner))'
  <2>1. at > Last
    BY <1>1, <1>3, Counts
  <2>2. ProvisionalWinner' = ProvisionalWinner
    BY <2>1, Searched, WinnerStays
  <2> PICK w : w = ProvisionalWinner
    OBVIOUS
  <2> PICK s : s = ConfirmationSlot(i, w)
    OBVIOUS
  <2>3. Finished(s) /\ s \in Slots
    BY <1>3, SlotTypes, WinnerIs DEF IInv, WalkedInv
  <2>4. Finished(s)'
    BY <2>3, FinishedKept
  <2>5. ConfirmationSlot(i, ProvisionalWinner)' = s
    BY <2>2 DEF ConfirmationSlot
  <2> QED BY <2>4, <2>5 DEF Finished, Settled
<1> QED BY <1>2, <1>3 DEF WalkedInv

-----------------------------------------------------------------------------
(* Ways for a process to go on.                                             *)

\* It leaves the walk, or has not begun it.
LEMMA AwayStep ==
  ASSUME IInv, policy' = policy, pc' \notin Walking, at' = 1, Types', FinishedStay,
         report' = report, Published => kept' = kept, started' = started,
         \A s \in Slots : AttemptsAt(s)'
  PROVE  IInv'
<1>1. PlaceInv' /\ WalkedInv' /\ RunInv'
  BY DEF PlaceInv, WalkedInv, RunInv, Walking, Visiting
<1>2. ConfirmInv' /\ ReportInv'
  BY ConfirmKept, ReportKept
<1> QED BY <1>1, <1>2 DEF IInv

\* It does something at a run that is not finished.
LEMMA RunStays ==
  ASSUME IInv, pc \in Visiting, pc' \in Visiting, policy' = policy, at' = at, Types',
         NEW h, h = Here,
         \/ ~Finished(h)
         \/ dirs' = dirs /\ kept' = kept,
         \A s \in Slots \ {h} : dirs'[s] = dirs[s] /\ kept'[s] = kept[s] /\ started'[s] = started[s],
         report' = report, AttemptsAt(h)',
         NEW t, t = pc', NEW d, d = dirs'[h], t # "visit" => RunFiles(t, d)
  PROVE  IInv'
<1>1. h \in Slots /\ h \in Needed
  BY HereIs DEF IInv
<1>2. FinishedStay
  BY DEF FinishedStay
<1>3. Here' = h
  BY <1>2, HereStays
<1>4. RunInv'
  <2>1. RunFiles(t, d) => RunFiles(t, d)'
    BY DEF RunFiles, Measurement
  <2>2. pc' # "visit" => RunFiles(pc, dirs[Here])'
    BY <1>3, <2>1 DEF RunFiles
  <2> QED BY <2>2 DEF RunInv
<1>5. pc \in Walking
  BY DEF Walking
<1>6. WalkedInv'
  BY <1>2, <1>5, WalkKept
<1>7. PlaceInv'
  <2>1. at > Last => Confirms' = Confirms
    BY <1>2, <1>5, Searched, WinnerStays
  <2>2. Last \in Nat /\ at \in Nat /\ Confirmations \in Nat
    BY Counts DEF IInv, Types
  <2>3. at \in 1..Last \/ (Confirms /\ at \in (Last + 1)..(Last + 2 * Confirmations))
    BY DEF IInv, PlaceInv
  <2>4. at \in 1..Last \/ (Confirms' /\ at \in (Last + 1)..(Last + 2 * Confirmations))
    BY <2>1, <2>2, <2>3
  <2>5. pc' \in Walking /\ pc' # "collect" /\ pc' # "report"
    BY DEF Visiting, Walking
  <2> QED BY <2>4, <2>5 DEF PlaceInv
<1>8. ConfirmInv'
  BY <1>2, ConfirmKept
<1>9. ReportInv'
  <2>1. ASSUME Published, ~Finished(h) PROVE FALSE
    BY <1>1, <2>1 DEF IInv, ReportInv
  <2>2. Published => kept' = kept
    BY <2>1
  <2> QED BY <1>2, <2>2, ReportKept
<1>10. ASSUME NEW s \in Slots PROVE AttemptsAt(s)'
  <2>1. CASE s # h
    <3>1. AttemptsAt(s) /\ dirs'[s] = dirs[s] /\ kept'[s] = kept[s] /\ started'[s] = started[s]
      BY <2>1 DEF IInv
    <3> QED BY <3>1 DEF AttemptsAt
  <2> QED BY <2>1
<1> QED BY <1>4, <1>6, <1>7, <1>8, <1>9, <1>10 DEF IInv

\* It has finished the run and goes to the next, or to the report.
LEMMA RunEnds ==
  ASSUME IInv, pc \in Visiting, Advance, Types',
         NEW h, h = Here, Finished(h)',
         Finished(h) => dirs'[h] = dirs[h],
         \A s \in Slots \ {h} : dirs'[s] = dirs[s],
         kept' = kept, started' = started, report' = report, AttemptsAt(h)'
  PROVE  IInv'
<1>1. h \in Slots /\ h \in Needed
  BY HereIs DEF IInv
<1>2. FinishedStay
  BY DEF FinishedStay
<1>3. /\ Last \in Nat /\ Last >= 2 /\ at \in Nat /\ Confirmations \in Nat /\ Confirmations >= 1
      /\ policy' = policy /\ at' = at + 1 /\ pc \in Walking
      /\ pc' = IF at = Last \/ at = Last + 2 * Confirmations THEN "collect" ELSE "visit"
  BY Counts DEF IInv, Types, Advance, Goto, LastRun, Walking, Last
<1>4. at > Last => Confirms' = Confirms /\ ProvisionalWinner' = ProvisionalWinner
  BY <1>2, <1>3, Searched, WinnerStays
<1>5. at \in 1..Last \/ (Confirms /\ at \in (Last + 1)..(Last + 2 * Confirmations))
  BY DEF IInv, PlaceInv
<1>6. PlaceInv'
  <2>1. CASE at = Last
    BY <1>3, <2>1 DEF PlaceInv, Visiting, Walking
  <2>2. CASE at = Last + 2 * Confirmations
    <3>1. at > Last /\ Confirms'
      BY <1>3, <1>4, <1>5, <2>2
    <3>2. pc' = "collect" /\ at' = Last + 2 * Confirmations + 1
      BY <1>3, <2>2
    <3> QED BY <3>1, <3>2 DEF PlaceInv, Visiting, Walking
  <2>3. CASE at # Last /\ at # Last + 2 * Confirmations
    <3>1. at' \in 1..Last \/ (Confirms' /\ at' \in (Last + 1)..(Last + 2 * Confirmations))
      BY <1>3, <1>4, <1>5, <2>3
    <3>2. pc' = "visit"
      BY <1>3, <2>3
    <3> QED BY <3>1, <3>2 DEF PlaceInv, Visiting, Walking
  <2> QED BY <2>1, <2>2, <2>3
<1>7. WalkedInv'
  <2>1. ASSUME NEW i \in 1..Last, i < at + 1 PROVE Finished(SearchSlot(i))'
    <3>1. SearchSlot(i)' = SearchSlot(i)
      BY <1>3 DEF SearchSlot, Order
    <3> PICK s : s = SearchSlot(i)
      OBVIOUS
    <3>2. s \in Slots
      BY SlotTypes DEF IInv
    <3>3. Finished(s)'
      <4>1. CASE i = at
        <5>1. s = h
          BY <1>3, <4>1, HereIs DEF IInv
        <5> QED BY <5>1
      <4>2. CASE i < at
        <5>1. Finished(s)
          BY <1>3, <4>2 DEF IInv, WalkedInv
        <5> QED BY <1>2, <1>3, <3>2, <5>1, FinishedKept
      <4> QED BY <1>3, <2>1, <4>1, <4>2
    <3> QED BY <3>1, <3>3 DEF Finished, Settled
  <2>2. ASSUME NEW i \in 1..(2 * Confirmations), Last + i < at + 1
        PROVE  Finished(ConfirmationSlot(i, ProvisionalWinner))'
    <3>1. at > Last
      BY <1>3, <2>2
    <3> PICK w : w = ProvisionalWinner
      OBVIOUS
    <3> PICK s : s = ConfirmationSlot(i, w)
      OBVIOUS
    <3>2. s \in Slots
      BY SlotTypes, WinnerIs DEF IInv
    <3>3. Finished(s)'
      <4>1. CASE Last + i = at
        <5>1. at - Last = i
          BY <1>3, <4>1
        <5>2. s = h
          BY <3>1, <5>1, HereIs DEF IInv
        <5> QED BY <5>2
      <4>2. CASE Last + i < at
        <5>1. Finished(s)
          BY <1>3, <4>2 DEF IInv, WalkedInv
        <5> QED BY <1>2, <1>3, <3>2, <5>1, FinishedKept
      <4> QED BY <1>3, <2>2, <4>1, <4>2
    <3>4. ConfirmationSlot(i, ProvisionalWinner)' = s
      BY <1>4, <3>1 DEF ConfirmationSlot
    <3> QED BY <3>3, <3>4 DEF Finished, Settled
  <2> QED BY <1>3, <2>1, <2>2 DEF WalkedInv
<1>8. RunInv'
  BY <1>3 DEF RunInv, Visiting
<1>9. ConfirmInv' /\ ReportInv'
  BY <1>2, <1>3, ConfirmKept, ReportKept
<1>10. ASSUME NEW s \in Slots PROVE AttemptsAt(s)'
  <2>1. CASE s # h
    <3>1. AttemptsAt(s) /\ dirs'[s] = dirs[s] /\ kept'[s] = kept[s] /\ started'[s] = started[s]
      BY <2>1 DEF IInv
    <3> QED BY <3>1 DEF AttemptsAt
  <2> QED BY <2>1
<1> QED BY <1>6, <1>7, <1>8, <1>9, <1>10 DEF IInv

-----------------------------------------------------------------------------
(* The steps.                                                               *)

LEMMA Unmoved ==
  ASSUME IInv, dirs' = dirs, kept' = kept, started' = started
  PROVE  FinishedStay /\ \A s \in Slots : AttemptsAt(s)'
BY DEF IInv, FinishedStay, AttemptsAt

\* Nothing is written but, perhaps, contract.json.
LEMMA QuietStep ==
  ASSUME IInv, policy' = policy, commit' \in 1..MaxCommits,
         pc' \in {"down", "raised", "done", "open", "contract"}, at' = 1,
         dirs' = dirs, kept' = kept, started' = started, report' = report
  PROVE  IInv'
<1>1. Types'
  BY DEF IInv, Types, Running
<1>2. pc' \notin Walking
  BY DEF Walking, Visiting
<1> QED BY <1>1, <1>2, Unmoved, AwayStep

LEMMA RaiseStep ==
  ASSUME IInv, Raise
  PROVE  IInv'
BY QuietStep DEF Raise, Goto, disk, IInv, Types

LEMMA OutsideStep ==
  ASSUME IInv, Start \/ Kill \/ LoadRefused \/ MatmulIncomplete
  PROVE  IInv'
<1>1. CASE Start
  <2>1. pc \notin Walking /\ pc' = "open" /\ at' = at
    BY <1>1 DEF Start, Walking, Visiting
  <2>2. at = 1
    BY <2>1 DEF IInv, PlaceInv
  <2>3. commit' \in 1..MaxCommits
    BY <1>1, BoundsAssumption DEF Start, IInv, Types
  <2> QED BY <1>1, <2>1, <2>2, <2>3, QuietStep DEF Start, disk
<1>2. CASE Kill
  BY <1>2, QuietStep DEF Kill, disk, IInv, Types
<1>3. CASE LoadRefused \/ MatmulIncomplete
  BY <1>3, RaiseStep DEF LoadRefused, MatmulIncomplete
<1> QED BY <1>1, <1>2, <1>3

\* The walk begins at the first run.
LEMMA ContractStep ==
  ASSUME IInv, OpenContract \/ FillContract
  PROVE  IInv'
<1>1. /\ (pc \in {"open", "contract"} /\ at' = 1) \/ Raise
      /\ pc \notin Walking
  BY DEF OpenContract, FillContract, Stay, IInv, PlaceInv, Walking, Visiting
<1>2. at = 1
  BY <1>1 DEF IInv, PlaceInv
<1>3. CASE Raise
  BY <1>3, RaiseStep
<1>4. CASE pc' = "contract" /\ ~Raise
  BY <1>2, <1>4, QuietStep DEF OpenContract, FillContract, Stay, Goto, IInv, Types, disk
<1>5. CASE pc' = "visit" /\ ~Raise
  <2>1. UNCHANGED <<policy, commit, at, dirs, kept, report, started>>
    BY <1>5 DEF OpenContract, FillContract, Stay, Goto, disk
  <2>2. Types' /\ Last \in Nat /\ Last >= 2
    BY <1>5, <2>1, Counts DEF IInv, Types, Running
  <2>3. PlaceInv' /\ WalkedInv' /\ RunInv'
    <3>1. at' = 1 /\ 1 \in 1..Last /\ \A i \in Nat : ~(i + 1 < 1)
      BY <1>2, <2>1, <2>2
    <3>2. \A i \in 1..Last : ~(i < 1)
      OBVIOUS
    <3>3. \A i \in 1..(2 * Confirmations) : ~(Last + i < 1)
      BY <2>2
    <3> QED BY <1>5, <3>1, <3>2, <3>3 DEF PlaceInv, WalkedInv, RunInv, Walking, Visiting
  <2>4. FinishedStay /\ \A s \in Slots : AttemptsAt(s)'
    BY <2>1, Unmoved
  <2>5. ConfirmInv' /\ ReportInv'
    BY <2>1, <2>4, ConfirmKept, ReportKept
  <2> QED BY <2>2, <2>3, <2>4, <2>5 DEF IInv
<1> QED BY <1>3, <1>4, <1>5 DEF OpenContract, FillContract, Goto

\* What is known of the directory of the run at hand.
LEMMA HereTypes ==
  ASSUME IInv, pc \in Visiting, NEW h, h = Here
  PROVE  /\ h \in Slots /\ h \in Needed /\ AttemptsAt(h)
         /\ dirs[h] # NoDir => dirs[h] \in Dir
         /\ kept[h] \in Seq(Dir) /\ started[h] \in Nat
         /\ pc # "visit" => RunFiles(pc, dirs[h])
<1>1. h \in Slots /\ h \in Needed
  BY HereIs DEF IInv
<1>2. pc # "visit" => RunFiles(pc, dirs[h])
  BY DEF IInv, RunInv
<1> QED BY <1>1, <1>2 DEF IInv, Types

LEMMA LoadStep ==
  ASSUME IInv, MatmulLoad \/ RpaLoad
  PROVE  IInv'
<1>1. /\ pc = "visit" /\ pc \in Visiting /\ Settled(Here)
      /\ UNCHANGED <<policy, commit, dirs, kept, report, started>>
  BY DEF MatmulLoad, RpaLoad, Advance, Goto, Visiting, disk
<1> PICK h : h = Here
  OBVIOUS
<1>2. h \in Slots /\ Settled(h)
  BY <1>1, HereTypes
<1>3. \A s \in Slots : AttemptsAt(s)'
  BY <1>1, Unmoved
<1>4. pc' \in Running
  BY DEF MatmulLoad, RpaLoad, Advance, Goto, Running
<1>5. CASE Advance /\ (policy = "archive" => dirs[h].device = "whole")
  <2>1. Finished(h)'
    BY <1>1, <1>2, <1>5 DEF Finished, Settled, Measurement
  <2>2. Types'
    BY <1>1, <1>4, <1>5 DEF IInv, Types, Advance
  <2> QED BY <1>1, <1>2, <1>3, <1>5, <2>1, <2>2, RunEnds
<1>6. CASE policy = "archive" /\ dirs[h].device = "absent" /\ Goto("time") /\ Stay
  <2>1. pc' = "time" /\ pc' \in Visiting /\ at' = at
    BY <1>6 DEF Goto, Stay, Visiting
  <2>2. Types'
    BY <1>1, <1>4, <2>1 DEF IInv, Types
  <2> PICK t, d : t = pc' /\ d = dirs'[h]
    OBVIOUS
  <2>3. RunFiles(t, d)
    BY <1>1, <1>2, <1>6, <2>1 DEF RunFiles, Settled
  <2> QED BY <1>1, <1>2, <1>3, <2>1, <2>2, <2>3, RunStays
<1> QED BY <1>5, <1>6 DEF MatmulLoad, RpaLoad, Policies

\* Setting a directory aside keeps its attempt, and the failure with it.
LEMMA ArchiveKeeps ==
  ASSUME Types, NEW h \in Slots, AttemptsAt(h), dirs[h] # NoDir,
         NEW d \in Dir, d.attempt = dirs[h].attempt, Archive(h, d), started' = started
  PROVE  /\ kept' \in [Slots -> Seq(Dir)] /\ dirs' \in [Slots -> Dir \cup {NoDir}]
         /\ \A s \in Slots \ {h} : dirs'[s] = dirs[s] /\ kept'[s] = kept[s]
         /\ AttemptsAt(h)'
<1> PICK e : e = [d EXCEPT !.failed = TRUE]
  OBVIOUS
<1>1. e \in Dir /\ e.attempt = dirs[h].attempt /\ e.failed
  BY DEF Dir
<1>2. kept' = [kept EXCEPT ![h] = Append(@, e)] /\ dirs' = [dirs EXCEPT ![h] = NoDir]
  BY DEF Archive
<1> PICK q : q = kept[h]
  OBVIOUS
<1>3. q \in Seq(Dir)
  BY DEF Types
<1>4. /\ Append(q, e) \in Seq(Dir) /\ Len(Append(q, e)) = Len(q) + 1 /\ Len(q) \in Nat
      /\ \A i \in DOMAIN Append(q, e) :
           \/ i = Len(q) + 1 /\ Append(q, e)[i] = e
           \/ i \in DOMAIN q /\ Append(q, e)[i] = q[i]
  BY <1>1, <1>3
<1>5. kept'[h] = Append(q, e) /\ dirs'[h] = NoDir
  BY <1>2 DEF Types
<1>6. AttemptsAt(h)'
  <2>1. started[h] = Len(q) + 1 /\ dirs[h].attempt = Len(q) + 1
    BY DEF AttemptsAt
  <2>2. \A i \in DOMAIN q : q[i].attempt = i /\ q[i].failed
    BY DEF AttemptsAt
  <2>3. \A i \in DOMAIN Append(q, e) : Append(q, e)[i].attempt = i /\ Append(q, e)[i].failed
    BY <1>1, <1>4, <2>1, <2>2
  <2> QED BY <1>4, <1>5, <2>1, <2>3 DEF AttemptsAt
<1> QED BY <1>2, <1>4, <1>5, <1>6 DEF Types

LEMMA IncompleteStep ==
  ASSUME IInv, RpaIncomplete
  PROVE  IInv'
<1> PICK h : h = Here
  OBVIOUS
<1>1. /\ pc = "visit" /\ pc' = "visit" /\ pc \in Visiting /\ at' = at
      /\ dirs[h] # NoDir /\ dirs[h].result = "absent" /\ Archive(h, dirs[h])
      /\ UNCHANGED <<policy, commit, report, started>>
  BY DEF RpaIncomplete, Goto, Stay, Visiting
<1>2. h \in Slots /\ AttemptsAt(h) /\ dirs[h] \in Dir
  BY <1>1, HereTypes
<1> PICK d : d = dirs[h]
  OBVIOUS
<1>3. /\ kept' \in [Slots -> Seq(Dir)] /\ dirs' \in [Slots -> Dir \cup {NoDir}]
      /\ \A s \in Slots \ {h} : dirs'[s] = dirs[s] /\ kept'[s] = kept[s]
      /\ AttemptsAt(h)'
  <2>1. d \in Dir /\ d.attempt = dirs[h].attempt /\ Archive(h, d)
    BY <1>1, <1>2
  <2> QED BY <1>1, <1>2, <2>1, ArchiveKeeps DEF IInv
<1>4. Types'
  BY <1>1, <1>3 DEF IInv, Types, Running
<1>5. ~Finished(h)
  BY <1>1 DEF Finished, Settled
<1> PICK t, e : t = pc' /\ e = dirs'[h]
  OBVIOUS
<1>6. /\ pc' \in Visiting /\ t = "visit"
      /\ \A s \in Slots \ {h} : dirs'[s] = dirs[s] /\ kept'[s] = kept[s] /\ started'[s] = started[s]
  BY <1>1, <1>3
<1> QED BY <1>1, <1>3, <1>4, <1>5, <1>6, RunStays

LEMMA BeginStep ==
  ASSUME IInv, BeginRun
  PROVE  IInv'
<1> PICK h : h = Here
  OBVIOUS
<1> PICK d : d = [attempt |-> started[h] + 1, state |-> NoEvent, timing |-> "slow", commit |-> commit,
                  result |-> "absent", device |-> "absent", failed |-> FALSE]
  OBVIOUS
<1>1. /\ pc = "visit" /\ pc \in Visiting /\ pc' = "run" /\ pc' \in Visiting /\ at' = at
      /\ dirs[h] = NoDir /\ dirs' = [dirs EXCEPT ![h] = d]
      /\ started' = [started EXCEPT ![h] = @ + 1]
      /\ UNCHANGED <<policy, commit, kept, report>>
  BY DEF BeginRun, Goto, Stay, Visiting
<1>2. h \in Slots /\ AttemptsAt(h) /\ started[h] \in Nat /\ kept[h] \in Seq(Dir)
  BY <1>1, HereTypes
<1>3. d \in Dir /\ d.attempt = started[h] + 1 /\ d.state = NoEvent /\ d.result = "absent" /\ d.device = "absent"
  BY <1>2 DEF Dir, File, Timings, IInv, Types
<1>4. d # NoDir
  BY <1>3, AbsentAssumption
<1>5. /\ dirs'[h] = d /\ started'[h] = started[h] + 1
      /\ \A s \in Slots \ {h} : dirs'[s] = dirs[s] /\ kept'[s] = kept[s] /\ started'[s] = started[s]
      /\ Types'
  BY <1>1, <1>2, <1>3 DEF IInv, Types, Running
<1>6. AttemptsAt(h)'
  <2>1. Len(kept[h]) \in Nat
    BY <1>2
  <2>2. started[h] = Len(kept[h]) + 0 /\ \A i \in DOMAIN kept[h] : kept[h][i].attempt = i /\ kept[h][i].failed
    BY <1>1, <1>2 DEF AttemptsAt
  <2>3. started'[h] = Len(kept[h]) + 1 /\ d.attempt = Len(kept[h]) + 1
    BY <1>2, <1>3, <1>5, <2>1, <2>2
  <2> QED BY <1>1, <1>4, <1>5, <2>2, <2>3 DEF AttemptsAt
<1>7. ~Finished(h)
  BY <1>1 DEF Finished, Settled
<1> PICK t : t = pc'
  OBVIOUS
<1>8. RunFiles(t, d)
  BY <1>1, <1>3, <1>4 DEF RunFiles
<1> QED BY <1>1, <1>5, <1>6, <1>7, <1>8, RunStays

\* A file of run h is written, which stays the same attempt.
Rewrites(h, d) ==
  /\ dirs[h] # NoDir /\ d \in Dir /\ d.attempt = dirs[h].attempt
  /\ dirs' = [dirs EXCEPT ![h] = d]
  /\ UNCHANGED <<policy, commit, kept, started, report>>

LEMMA RewriteKeeps ==
  ASSUME Types, NEW h \in Slots, AttemptsAt(h), NEW d, Rewrites(h, d), pc' \in Running, at' \in Nat
  PROVE  /\ Types' /\ AttemptsAt(h)' /\ dirs'[h] = d /\ d # NoDir
         /\ \A s \in Slots \ {h} : dirs'[s] = dirs[s]
<1>1. dirs'[h] = d /\ (\A s \in Slots \ {h} : dirs'[s] = dirs[s]) /\ dirs' \in [Slots -> Dir \cup {NoDir}]
  BY DEF Types, Rewrites
<1>2. d # NoDir
  BY AbsentAssumption DEF Rewrites
<1>3. Types'
  BY <1>1 DEF Types, Rewrites
<1>4. AttemptsAt(h)'
  BY <1>1, <1>2 DEF AttemptsAt, Rewrites
<1> QED BY <1>1, <1>2, <1>3, <1>4

LEMMA NextEventIs ==
  ASSUME policy \in Policies, NEW s \in {NoEvent, COMPILED, CORRECT}
  PROVE  NextEvent(s) \in {COMPILED, CORRECT, Measurement}
<1>1. Measurement \in {TIMED, TRACED}
  BY DEF Measurement
<1>2. DOMAIN History = 1..4 /\ History[1] = NoEvent /\ History[2] = COMPILED /\ History[3] = CORRECT
      /\ History[4] = Measurement
  BY DEF History
<1>3. Measurement # s
  BY <1>1 DEF NoEvent, COMPILED, CORRECT, TIMED, TRACED
<1>4. \E i \in DOMAIN History : History[i] = s
  BY <1>2
<1> PICK i : i = CHOOSE j \in DOMAIN History : History[j] = s
  OBVIOUS
<1>5. i \in DOMAIN History /\ History[i] = s
  BY <1>4
<1>6. i \in 1..3
  BY <1>2, <1>3, <1>5
<1>7. NextEvent(s) = History[1 + i]
  BY DEF NextEvent
<1> PICK k : k = 1 + i
  OBVIOUS
<1>8. k = 2 \/ k = 3 \/ k = 4
  <2>1. \A j \in 1..3 : 1 + j = 2 \/ 1 + j = 3 \/ 1 + j = 4
    OBVIOUS
  <2>2. k = 1 + i
    OBVIOUS
  <2> QED BY ONLY <1>6, <2>1, <2>2
<1>9. History[k] \in {COMPILED, CORRECT, Measurement}
  BY <1>2, <1>8
<1> QED BY <1>7, <1>9

\* A step of the run at hand that rewrites its directory and goes on with it.
LEMMA RewriteStays ==
  ASSUME IInv, pc \in Visiting, pc' \in Visiting, at' = at,
         NEW h, h = Here, ~Finished(h), NEW d, Rewrites(h, d),
         NEW t, t = pc', RunFiles(t, d)
  PROVE  IInv'
<1>1. h \in Slots /\ AttemptsAt(h) /\ Types
  BY HereTypes DEF IInv
<1>2. pc' \in Running /\ at' \in Nat
  BY <1>1 DEF Visiting, Running, Types
<1>3. /\ Types' /\ AttemptsAt(h)' /\ dirs'[h] = d
      /\ \A s \in Slots \ {h} : dirs'[s] = dirs[s]
  BY <1>1, <1>2, RewriteKeeps
<1>4. /\ policy' = policy /\ report' = report
      /\ \A s \in Slots \ {h} : dirs'[s] = dirs[s] /\ kept'[s] = kept[s] /\ started'[s] = started[s]
  BY <1>3 DEF Rewrites
<1> QED BY <1>3, <1>4, RunStays

LEMMA RunStepStep ==
  ASSUME IInv, RunStep
  PROVE  IInv'
<1> PICK h : h = Here
  OBVIOUS
<1> PICK timing \in Measurable :
      dirs' = [dirs EXCEPT ![Here].state = NextEvent(@), ![Here].timing = timing]
  BY DEF RunStep
<1>1. /\ pc = "run" /\ pc' = "run" /\ pc \in Visiting /\ at' = at /\ dirs[h].state # Measurement
      /\ UNCHANGED <<policy, commit, kept, started, report>>
  BY DEF RunStep, Goto, Stay, Visiting
<1>2. h \in Slots /\ RunFiles("run", dirs[h]) /\ dirs[h] \in Dir
  <2>1. h \in Slots /\ RunFiles("run", dirs[h]) /\ (dirs[h] # NoDir => dirs[h] \in Dir)
    BY <1>1, HereTypes
  <2> QED BY <2>1 DEF RunFiles
<1> PICK r : r = dirs[h]
  OBVIOUS
<1> PICK e : e = NextEvent(r.state)
  OBVIOUS
<1> PICK d : d = [r EXCEPT !.state = e, !.timing = timing]
  OBVIOUS
<1>3. e \in {COMPILED, CORRECT, Measurement} /\ e \in RunState
  <2>1. r.state \in {NoEvent, COMPILED, CORRECT}
    BY <1>1, <1>2 DEF RunFiles
  <2>2. Measurement \in RunState
    BY DEF Measurement, RunState, Measured
  <2> PICK u : u = r.state
    OBVIOUS
  <2>3. NextEvent(u) \in {COMPILED, CORRECT, Measurement}
    BY <2>1, NextEventIs DEF IInv, Types
  <2> QED BY <2>2, <2>3 DEF RunState
<1>4. timing \in Timings
  BY DEF Measurable, Timings
<1>5. /\ d \in Dir /\ d.attempt = r.attempt /\ d.state = e /\ d.result = r.result /\ d.device = r.device
  BY <1>2, <1>3, <1>4 DEF Dir
<1>6. dirs' = [dirs EXCEPT ![h] = d]
  BY <1>2 DEF IInv, Types
<1>7. ~Finished(h)
  BY <1>1 DEF Finished, Settled
<1>8. dirs[h] # NoDir
  BY <1>2 DEF RunFiles
<1> PICK t : t = pc'
  OBVIOUS
<1>9. RunFiles(t, d)
  <2>1. d # NoDir
    BY <1>5, AbsentAssumption
  <2>2. r.result = "absent" /\ r.device = "absent"
    BY <1>2 DEF RunFiles
  <2> QED BY <1>1, <1>3, <1>5, <2>1, <2>2 DEF RunFiles
<1>10. Rewrites(h, d)
  BY <1>1, <1>5, <1>6, <1>8 DEF Rewrites
<1> QED BY <1>1, <1>7, <1>9, <1>10, RewriteStays

LEMMA OpenResultStep ==
  ASSUME IInv, OpenResult
  PROVE  IInv'
<1> PICK h : h = Here
  OBVIOUS
<1> PICK r : r = dirs[h]
  OBVIOUS
<1>1. /\ pc = "run" /\ pc' = "result" /\ pc \in Visiting /\ pc' \in Visiting /\ at' = at
      /\ dirs' = [dirs EXCEPT ![h].result = "torn"] /\ r.state = Measurement
      /\ UNCHANGED <<policy, commit, kept, started, report>>
  BY DEF OpenResult, Goto, Stay, Visiting
<1>2. h \in Slots /\ RunFiles("run", r) /\ r \in Dir
  <2>1. h \in Slots /\ RunFiles("run", r) /\ (r # NoDir => r \in Dir)
    BY <1>1, HereTypes
  <2> QED BY <2>1 DEF RunFiles
<1> PICK d : d = [r EXCEPT !.result = "torn"]
  OBVIOUS
<1>3. /\ d \in Dir /\ d.attempt = r.attempt /\ d.state = r.state /\ d.result = "torn" /\ d.device = r.device
  BY <1>2 DEF Dir, File
<1>4. dirs' = [dirs EXCEPT ![h] = d]
  BY <1>1, <1>2 DEF IInv, Types
<1>5. r # NoDir /\ r.result = "absent" /\ r.device = "absent"
  BY <1>2 DEF RunFiles
<1>6. ~Finished(h)
  BY <1>5 DEF Finished, Settled
<1> PICK t : t = pc'
  OBVIOUS
<1>7. RunFiles(t, d)
  <2>1. d # NoDir
    BY <1>3, AbsentAssumption
  <2> QED BY <1>1, <1>3, <1>5, <2>1 DEF RunFiles
<1>8. Rewrites(h, d)
  BY <1>1, <1>3, <1>4, <1>5 DEF Rewrites
<1> QED BY <1>1, <1>6, <1>7, <1>8, RewriteStays

LEMMA FillResultStep ==
  ASSUME IInv, FillResult
  PROVE  IInv'
<1> PICK h : h = Here
  OBVIOUS
<1> PICK r : r = dirs[h]
  OBVIOUS
<1>1. /\ pc = "result" /\ pc \in Visiting
      /\ dirs' = [dirs EXCEPT ![h].result = "whole"]
      /\ IF policy = "refuse" THEN Advance ELSE Goto("time") /\ Stay
      /\ UNCHANGED <<policy, commit, kept, started, report>>
  BY DEF FillResult, Visiting, Advance, Goto
<1>2. h \in Slots /\ RunFiles("result", r) /\ r \in Dir /\ AttemptsAt(h)
  <2>1. h \in Slots /\ RunFiles("result", r) /\ (r # NoDir => r \in Dir) /\ AttemptsAt(h)
    BY <1>1, HereTypes
  <2> QED BY <2>1 DEF RunFiles
<1> PICK d : d = [r EXCEPT !.result = "whole"]
  OBVIOUS
<1>3. /\ d \in Dir /\ d.attempt = r.attempt /\ d.state = r.state /\ d.result = "whole" /\ d.device = r.device
  BY <1>2 DEF Dir, File
<1>4. dirs' = [dirs EXCEPT ![h] = d]
  BY <1>1, <1>2 DEF IInv, Types
<1>5. r # NoDir /\ r.result = "torn" /\ r.device = "absent" /\ r.state = Measurement
  BY <1>2 DEF RunFiles
<1>6. ~Finished(h)
  BY <1>5 DEF Finished, Settled
<1>7. d # NoDir /\ Rewrites(h, d)
  BY <1>1, <1>3, <1>4, <1>5, AbsentAssumption DEF Rewrites
<1>8. CASE policy = "refuse"
  <2>1. Advance /\ pc' \in Running /\ at' \in Nat
    BY <1>1, <1>8 DEF Advance, Goto, Running, IInv, Types
  <2>2. /\ Types' /\ AttemptsAt(h)' /\ dirs'[h] = d
        /\ \A s \in Slots \ {h} : dirs'[s] = dirs[s]
    BY <1>2, <1>7, <2>1, RewriteKeeps DEF IInv
  <2>3. Finished(h)'
    BY <1>1, <1>3, <1>5, <1>7, <1>8, <2>2 DEF Finished, Settled, Measurement
  <2> QED BY <1>1, <1>6, <2>1, <2>2, <2>3, RunEnds
<1>9. CASE policy = "archive"
  <2>1. pc' = "time" /\ at' = at /\ pc' \in Visiting
    BY <1>1, <1>9 DEF Goto, Stay, Visiting
  <2> PICK t : t = pc'
    OBVIOUS
  <2>2. RunFiles(t, d)
    BY <1>3, <1>5, <1>7, <1>9, <2>1 DEF RunFiles
  <2> QED BY <1>1, <1>6, <1>7, <2>1, <2>2, RewriteStays
<1> QED BY <1>8, <1>9 DEF IInv, Types, Policies

LEMMA TimeDeviceStep ==
  ASSUME IInv, TimeDevice
  PROVE  IInv'
<1> PICK h : h = Here
  OBVIOUS
<1> PICK r : r = dirs[h]
  OBVIOUS
<1>1. CASE Raise
  BY <1>1, RaiseStep
<1>2. CASE ~Raise
  <2>1. /\ pc = "time" /\ pc' = "device" /\ pc \in Visiting /\ pc' \in Visiting /\ at' = at
        /\ dirs' = [dirs EXCEPT ![h].device = "torn"]
        /\ UNCHANGED <<policy, commit, kept, started, report>>
    BY <1>2 DEF TimeDevice, Goto, Stay, Visiting
  <2>2. h \in Slots /\ RunFiles("time", r) /\ r \in Dir
    <3>1. h \in Slots /\ RunFiles("time", r) /\ (r # NoDir => r \in Dir)
      BY <2>1, HereTypes
    <3> QED BY <3>1 DEF RunFiles
  <2> PICK d : d = [r EXCEPT !.device = "torn"]
    OBVIOUS
  <2>3. d \in Dir /\ d.attempt = r.attempt /\ d.state = r.state /\ d.result = r.result /\ d.device = "torn"
    BY <2>2 DEF Dir, File
  <2>4. dirs' = [dirs EXCEPT ![h] = d]
    BY <2>1, <2>2 DEF IInv, Types
  <2>5. r # NoDir /\ policy = "archive" /\ r.result = "whole" /\ r.device = "absent" /\ r.state = Measurement
    BY <2>2 DEF RunFiles
  <2>6. ~Finished(h)
    BY <2>5 DEF Finished, Settled
  <2>7. d # NoDir /\ Rewrites(h, d)
    BY <2>1, <2>3, <2>4, <2>5, AbsentAssumption DEF Rewrites
  <2> PICK t : t = pc'
    OBVIOUS
  <2>8. RunFiles(t, d)
    BY <2>1, <2>3, <2>5, <2>7 DEF RunFiles
  <2> QED BY <2>1, <2>6, <2>7, <2>8, RewriteStays
<1> QED BY <1>1, <1>2

LEMMA FillDeviceStep ==
  ASSUME IInv, FillDevice
  PROVE  IInv'
<1> PICK h : h = Here
  OBVIOUS
<1> PICK r : r = dirs[h]
  OBVIOUS
<1>1. /\ pc = "device" /\ pc \in Visiting /\ Advance
      /\ dirs' = [dirs EXCEPT ![h].device = "whole"]
      /\ UNCHANGED <<policy, commit, kept, started, report>>
  BY DEF FillDevice, Visiting, Advance, Goto
<1>2. h \in Slots /\ RunFiles("device", r) /\ r \in Dir /\ AttemptsAt(h)
  <2>1. h \in Slots /\ RunFiles("device", r) /\ (r # NoDir => r \in Dir) /\ AttemptsAt(h)
    BY <1>1, HereTypes
  <2> QED BY <2>1 DEF RunFiles
<1> PICK d : d = [r EXCEPT !.device = "whole"]
  OBVIOUS
<1>3. d \in Dir /\ d.attempt = r.attempt /\ d.state = r.state /\ d.result = r.result /\ d.device = "whole"
  BY <1>2 DEF Dir, File
<1>4. dirs' = [dirs EXCEPT ![h] = d]
  BY <1>1, <1>2 DEF IInv, Types
<1>5. r # NoDir /\ policy = "archive" /\ r.result = "whole" /\ r.device = "torn" /\ r.state = Measurement
  BY <1>2 DEF RunFiles
<1>6. ~Finished(h)
  BY <1>5 DEF Finished
<1>7. d # NoDir /\ Rewrites(h, d)
  BY <1>1, <1>3, <1>4, <1>5, AbsentAssumption DEF Rewrites
<1>8. pc' \in Running /\ at' \in Nat
  BY <1>1 DEF Advance, Goto, Running, IInv, Types
<1>9. /\ Types' /\ AttemptsAt(h)' /\ dirs'[h] = d
      /\ \A s \in Slots \ {h} : dirs'[s] = dirs[s]
  BY <1>2, <1>7, <1>8, RewriteKeeps DEF IInv
<1>10. Finished(h)'
  BY <1>1, <1>3, <1>5, <1>7, <1>9 DEF Finished, Settled, Measurement
<1> QED BY <1>1, <1>6, <1>9, <1>10, RunEnds

\* A run that is not finished is needed by the report, so there is none.
LEMMA NothingPublished ==
  ASSUME IInv, NEW h \in Needed, ~Finished(h)
  PROVE  ~Published
BY DEF IInv, ReportInv

LEMMA RunFailsStep ==
  ASSUME IInv, RunFails
  PROVE  IInv'
<1> PICK h : h = Here
  OBVIOUS
<1> PICK r : r = dirs[h]
  OBVIOUS
<1> PICK state \in {r.state} \cup (IF r.state = COMPILED THEN {REJECTED} ELSE {}) :
      IF policy = "archive" THEN Archive(h, [r EXCEPT !.state = state])
      ELSE dirs' = [dirs EXCEPT ![h] = [r EXCEPT !.state = state]] /\ UNCHANGED kept
  BY DEF RunFails
<1>1. /\ pc = "run" /\ pc \in Visiting /\ pc' = "raised" /\ at' = 1
      /\ UNCHANGED <<policy, commit, started, report>>
  BY DEF RunFails, Visiting
<1>2. h \in Slots /\ h \in Needed /\ RunFiles("run", r) /\ r \in Dir /\ AttemptsAt(h)
  <2>1. h \in Slots /\ h \in Needed /\ RunFiles("run", r) /\ (r # NoDir => r \in Dir) /\ AttemptsAt(h)
    BY <1>1, HereTypes
  <2> QED BY <2>1 DEF RunFiles
<1> PICK d : d = [r EXCEPT !.state = state]
  OBVIOUS
<1>3. d \in Dir /\ d.attempt = r.attempt
  BY <1>2 DEF Dir, RunState, Terminal
<1>4. r # NoDir /\ r.result = "absent"
  BY <1>2 DEF RunFiles
<1>5. ~Finished(h)
  BY <1>4 DEF Finished, Settled
<1>6. /\ Types' /\ AttemptsAt(h)'
      /\ \A s \in Slots \ {h} : dirs'[s] = dirs[s] /\ kept'[s] = kept[s]
  <2>1. CASE policy = "archive"
    <3>1. Archive(h, d) /\ dirs[h] # NoDir /\ d.attempt = dirs[h].attempt /\ started' = started
      BY <1>1, <1>3, <1>4, <2>1
    <3>2. /\ kept' \in [Slots -> Seq(Dir)] /\ dirs' \in [Slots -> Dir \cup {NoDir}]
          /\ \A s \in Slots \ {h} : dirs'[s] = dirs[s] /\ kept'[s] = kept[s]
          /\ AttemptsAt(h)'
      BY <1>2, <1>3, <3>1, ArchiveKeeps DEF IInv
    <3> QED BY <1>1, <3>2 DEF IInv, Types
  <2>2. CASE policy # "archive"
    <3>1. dirs' = [dirs EXCEPT ![h] = d] /\ kept' = kept
      BY <2>2
    <3>2. /\ dirs'[h] = d /\ dirs' \in [Slots -> Dir \cup {NoDir}]
          /\ \A s \in Slots \ {h} : dirs'[s] = dirs[s] /\ kept'[s] = kept[s]
      BY <1>2, <1>3, <3>1 DEF IInv, Types
    <3>3. d # NoDir
      BY <1>3, AbsentAssumption
    <3>4. AttemptsAt(h)'
      BY <1>1, <1>2, <1>3, <1>4, <3>1, <3>2, <3>3 DEF AttemptsAt
    <3> QED BY <1>1, <3>1, <3>2, <3>4 DEF IInv, Types
  <2> QED BY <2>1, <2>2
<1>7. FinishedStay
  BY <1>5, <1>6 DEF FinishedStay
<1>8. ASSUME NEW s \in Slots PROVE AttemptsAt(s)'
  <2>1. CASE s # h
    <3>1. AttemptsAt(s) /\ dirs'[s] = dirs[s] /\ kept'[s] = kept[s] /\ started'[s] = started[s]
      BY <1>1, <1>6, <2>1 DEF IInv
    <3> QED BY <3>1 DEF AttemptsAt
  <2> QED BY <1>6, <2>1
<1>9. ~Published /\ pc' \notin Walking
  BY <1>1, <1>2, <1>5, NothingPublished DEF Walking, Visiting
<1> QED BY <1>1, <1>6, <1>7, <1>8, <1>9, AwayStep

\* A walk that has come to its end has finished the runs of the report.
LEMMA AllFinished ==
  ASSUME IInv, pc = "collect", ~(Interim /\ ProvisionalWinner # Baseline)
  PROVE  (\A s \in Needed : Finished(s)) /\ Needed = Collected
<1>1. /\ Last \in Nat /\ at \in Nat /\ Confirmations \in Nat /\ Last = Rounds * N /\ pc \in Walking
      /\ at = Last + 1 \/ (Confirms /\ at = Last + 2 * Confirmations + 1)
  BY Counts DEF Last, IInv, Types, PlaceInv, Walking
<1>2. \A t \in SearchSlots : Finished(t)
  <2>1. at > Last
    BY <1>1
  <2> QED BY <1>1, <2>1, Searched
<1>3. CASE ~Confirms
  <2>1. Needed = SearchSlots
    BY <1>3 DEF Needed, Confirms
  <2> QED BY <1>2, <2>1 DEF Collected
<1>4. CASE Confirms
  <2>1. ~Interim /\ at = Last + 2 * Confirmations + 1
    BY <1>1, <1>4 DEF Confirms, Interim
  <2>2. \A i \in 1..(2 * Confirmations) : Finished(ConfirmationSlot(i, ProvisionalWinner))
    <3>1. \A i \in 1..(2 * Confirmations) : Last + i < at
      BY <1>1, <2>1
    <3> QED BY <1>1, <3>1 DEF IInv, WalkedInv
  <2>3. \A t \in ConfirmationSlots(ProvisionalWinner) : Finished(t)
    BY <2>2 DEF ConfirmationSlots
  <2> QED BY <1>2, <2>1, <2>3 DEF Needed, Collected
<1> QED BY <1>3, <1>4

LEMMA CollectStep ==
  ASSUME IInv, Collect
  PROVE  IInv'
<1>1. pc = "collect" /\ pc \in Walking
  BY DEF Collect, Walking
<1>2. CASE Raise
  BY <1>2, RaiseStep
<1>3. CASE OneIdentity(Collected) /\ Interim /\ ProvisionalWinner # Baseline
  <2>1. /\ pc' = "visit" /\ UNCHANGED <<policy, commit, at, dirs, kept, report, started>>
    BY <1>3 DEF Collect, Goto, Stay, disk
  <2>2. FinishedStay /\ \A s \in Slots : AttemptsAt(s)'
    BY <2>1, Unmoved
  <2>3. Types' /\ RunInv'
    BY <2>1 DEF IInv, Types, Running, RunInv
  <2>4. WalkedInv'
    BY <1>1, <2>1, <2>2, WalkKept
  <2>5. PlaceInv'
    <3>1. Confirms /\ at = Last + 1 /\ Last \in Nat /\ Confirmations \in Nat /\ Confirmations >= 1
      BY <1>3, Counts DEF Confirms, Interim, Last
    <3>2. Confirms'
      <4>1. at > Last
        BY <3>1
      <4> QED BY <1>1, <2>1, <2>2, <3>1, <4>1, Searched, WinnerStays
    <3>3. at' \in (Last + 1)..(Last + 2 * Confirmations)
      BY <2>1, <3>1
    <3> QED BY <2>1, <3>2, <3>3 DEF PlaceInv, Walking, Visiting
  <2>6. ConfirmInv' /\ ReportInv'
    BY <2>1, <2>2, ConfirmKept, ReportKept
  <2> QED BY <2>2, <2>3, <2>4, <2>5, <2>6 DEF IInv
<1>4. CASE OneIdentity(Collected) /\ ~(Interim /\ ProvisionalWinner # Baseline)
  <2>1. pc' = "report" /\ report' = TornReport /\ UNCHANGED <<policy, commit, at, dirs, kept, started>>
    BY <1>4 DEF Collect, Goto, Stay
  <2>2. FinishedStay /\ \A s \in Slots : AttemptsAt(s)'
    BY <2>1, Unmoved
  <2>3. Types' /\ RunInv'
    BY <2>1 DEF IInv, Types, Running, RunInv, Visiting
  <2>4. WalkedInv'
    BY <1>1, <2>1, <2>2, WalkKept
  <2>5. (\A s \in Needed : Finished(s)) /\ OneIdentity(Needed)
    BY <1>1, <1>4, AllFinished
  <2>6. Needed' = Needed
    <3>1. \A t \in SearchSlots : Finished(t)
      BY <2>5, SlotTypes DEF IInv
    <3> QED BY <2>1, <2>2, <3>1, WinnerStays
  <2>7. \A s \in Needed : Finished(s)'
    BY <2>1, <2>2, <2>5, FinishedKept, SlotTypes DEF IInv
  <2>8. OneIdentity(Needed)'
    BY <2>1, <2>5, <2>6 DEF OneIdentity
  <2>9. PlaceInv'
    BY <2>1, <2>6, <2>7, <2>8 DEF PlaceInv, Walking, Visiting
  <2>10. ConfirmInv'
    BY <2>1, <2>2, ConfirmKept
  <2>11. ReportInv'
    BY <2>1 DEF ReportInv, Published
  <2> QED BY <2>2, <2>3, <2>4, <2>9, <2>10, <2>11 DEF IInv
<1> QED BY <1>2, <1>3, <1>4 DEF Collect

LEMMA WriteReportStep ==
  ASSUME IInv, WriteReport
  PROVE  IInv'
<1>1. /\ pc = "report" /\ pc' = "done" /\ at' = 1 /\ report' = Report
      /\ UNCHANGED <<policy, commit, dirs, kept, started>>
  BY DEF WriteReport, Goto
<1>2. FinishedStay /\ \A s \in Slots : AttemptsAt(s)'
  BY <1>1, Unmoved
<1>3. (\A s \in Needed : Finished(s)) /\ OneIdentity(Needed)
  BY <1>1 DEF IInv, PlaceInv
<1>4. Types'
  BY <1>1 DEF IInv, Types
<1>5. PlaceInv' /\ WalkedInv' /\ RunInv'
  BY <1>1 DEF PlaceInv, WalkedInv, RunInv, Walking, Visiting
<1>6. ConfirmInv'
  BY <1>1, <1>2, ConfirmKept
<1>7. ReportInv'
  <2>1. Needed' = Needed /\ ProvisionalWinner' = ProvisionalWinner
    <3>1. \A t \in SearchSlots : Finished(t)
      BY <1>3, SlotTypes DEF IInv
    <3> QED BY <1>1, <1>2, <3>1, WinnerStays
  <2>2. Winner' = Winner
    BY <1>1, <2>1 DEF Winner, Improves
  <2>3. /\ DOMAIN Report.runs = Needed /\ Report.winner = Winner
        /\ \A s \in Needed : Report.runs[s] = dirs[s]
        /\ policy = "archive" => Report.incomplete = kept
    BY DEF Report
  <2>4. \A s \in Needed : Finished(s)'
    BY <1>1, <1>2, <1>3, FinishedKept, SlotTypes DEF IInv
  <2>5. OneIdentity(Needed)'
    BY <1>1, <1>3, <2>1 DEF OneIdentity
  <2> PICK p : p = Report
    OBVIOUS
  <2>6. report' = p /\ DOMAIN p.runs = Needed' /\ p.winner = Winner'
    BY <1>1, <2>1, <2>2, <2>3
  <2>7. \A s \in Needed : p.runs[s] = dirs'[s]
    BY <1>1, <2>3
  <2>8. policy' = "archive" => p.incomplete = kept'
    BY <1>1, <2>3
  <2> QED BY <2>1, <2>4, <2>5, <2>6, <2>7, <2>8 DEF ReportInv
<1> QED BY <1>2, <1>4, <1>5, <1>6, <1>7 DEF IInv

-----------------------------------------------------------------------------
(* The invariant holds.                                                     *)

LEMMA InitStep ==
  ASSUME Init
  PROVE  IInv
<1>1. NoDir \notin Dir /\ 1 \in 1..MaxCommits
  BY AbsentAssumption, BoundsAssumption
<1>2. Types
  BY <1>1 DEF Init, Types
<1>3. PlaceInv /\ WalkedInv /\ RunInv
  BY DEF Init, PlaceInv, WalkedInv, RunInv, Walking, Visiting
<1>4. ConfirmInv
  BY DEF Init, ConfirmInv
<1>5. ReportInv
  BY DEF Init, ReportInv, Published
<1>6. \A s \in Slots : AttemptsAt(s)
  BY DEF Init, AttemptsAt
<1> QED BY <1>2, <1>3, <1>4, <1>5, <1>6 DEF IInv

LEMMA StutterStep ==
  ASSUME IInv, UNCHANGED vars
  PROVE  IInv'
<1>1. UNCHANGED <<policy, pc, at, commit, dirs, kept, report, started>>
  BY DEF vars, process, disk
<1>2. FinishedStay /\ \A s \in Slots : AttemptsAt(s)'
  BY <1>1, Unmoved
<1>3. CASE pc \in Visiting
  <2> PICK h : h = Here
    OBVIOUS
  <2> PICK t, d : t = pc' /\ d = dirs'[h]
    OBVIOUS
  <2>1. h \in Slots /\ (t # "visit" => RunFiles(t, d))
    BY <1>1, <1>3, HereTypes
  <2>2. Types' /\ AttemptsAt(h)' /\ pc' \in Visiting
    BY <1>1, <1>2, <1>3, <2>1 DEF IInv, Types
  <2> QED BY <1>1, <1>3, <2>1, <2>2, RunStays
<1>4. CASE pc \notin Walking
  <2>1. at = 1 /\ Types'
    BY <1>1, <1>4 DEF IInv, PlaceInv, Types
  <2> QED BY <1>1, <1>2, <1>4, <2>1, AwayStep
<1>5. CASE pc \in {"collect", "report"}
  <2>1. pc \in Walking /\ Types' /\ RunInv'
    BY <1>1, <1>5 DEF Walking, IInv, Types, RunInv, Visiting
  <2>2. WalkedInv' /\ ConfirmInv' /\ ReportInv'
    BY <1>1, <1>2, <2>1, WalkKept, ConfirmKept, ReportKept
  <2>3. \A t \in SearchSlots : Finished(t)
    <3>1. CASE pc = "collect"
      <4>1. at > Last
        BY <3>1, Counts DEF IInv, PlaceInv
      <4> QED BY <2>1, <4>1, Searched
    <3>2. CASE pc = "report"
      BY <3>2, SlotTypes DEF IInv, PlaceInv
    <3> QED BY <1>5, <3>1, <3>2
  <2>4. Confirms' = Confirms /\ Needed' = Needed
    BY <1>1, <1>2, <2>3, WinnerStays
  <2>5. pc = "report" => (\A s \in Needed : Finished(s)') /\ OneIdentity(Needed)'
    <3>1. pc = "report" => (\A s \in Needed : Finished(s)) /\ OneIdentity(Needed) /\ Needed \subseteq Slots
      BY SlotTypes DEF IInv, PlaceInv
    <3>2. OneIdentity(Needed) => OneIdentity(Needed)'
      BY <1>1, <2>4 DEF OneIdentity
    <3> QED BY <1>1, <1>2, <3>1, <3>2, FinishedKept
  <2>6. PlaceInv'
    <3>1. /\ pc' = pc /\ at' = at /\ pc \notin Visiting
          /\ pc = "collect" => at = Last + 1 \/ (Confirms /\ at = Last + 2 * Confirmations + 1)
      BY <1>1, <1>5 DEF IInv, PlaceInv, Visiting
    <3> QED BY <2>1, <2>4, <2>5, <3>1 DEF PlaceInv
  <2> QED BY <1>2, <2>1, <2>2, <2>6 DEF IInv
<1> QED BY <1>3, <1>4, <1>5 DEF Walking

LEMMA NextStep ==
  ASSUME IInv, [Next]_vars
  PROVE  IInv'
<1>1. CASE Next
  BY <1>1, OutsideStep, ContractStep, LoadStep, IncompleteStep, BeginStep, RunStepStep, OpenResultStep,
     FillResultStep, TimeDeviceStep, FillDeviceStep, RunFailsStep, CollectStep, WriteReportStep
     DEF Next, Step
<1> QED BY <1>1, StutterStep

THEOREM Invariance == Spec => []IInv
<1>1. Init => IInv
  BY InitStep
<1>2. IInv /\ [Next]_vars => IInv'
  BY NextStep
<1> QED BY <1>1, <1>2, PTL DEF Spec

-----------------------------------------------------------------------------
(* The properties.                                                          *)

\* However a search is killed, fails and is started again, no attempt at a run
\* is lost: _archive_incomplete_run moves what it finds to a number of its own.
THEOREM KeepsAttempts == Spec => []AttemptsAreKept
<1>1. IInv => AttemptsAreKept
  <2> SUFFICES ASSUME IInv, NEW s \in Slots
               PROVE  LET here == IF dirs[s] = NoDir THEN <<>> ELSE <<dirs[s]>>
                          all  == kept[s] \o here
                      IN /\ Len(all) = started[s]
                         /\ \A i \in DOMAIN all : all[i].attempt = i
                         /\ \A i \in DOMAIN kept[s] : kept[s][i].failed
    BY DEF AttemptsAreKept
  <2> PICK q, d : q = kept[s] /\ d = dirs[s]
    OBVIOUS
  <2>1. /\ q \in Seq(Dir) /\ (d # NoDir => d \in Dir)
        /\ started[s] = Len(q) + (IF d = NoDir THEN 0 ELSE 1)
        /\ d # NoDir => d.attempt = Len(q) + 1
        /\ \A i \in DOMAIN q : q[i].attempt = i /\ q[i].failed
    BY DEF IInv, Types, AttemptsAt
  <2>2. CASE d = NoDir
    <3>1. q \o <<>> = q /\ Len(q) \in Nat
      BY <2>1
    <3>2. Len(q) = started[s]
      BY <2>1, <2>2, <3>1
    <3> QED BY <2>1, <2>2, <3>1, <3>2
  <2>3. CASE d # NoDir
    <3>1. /\ Len(q \o <<d>>) = Len(q) + 1
          /\ \A i \in DOMAIN (q \o <<d>>) :
               \/ i \in DOMAIN q /\ (q \o <<d>>)[i] = q[i]
               \/ i = Len(q) + 1 /\ (q \o <<d>>)[i] = d
      BY <2>1, <2>3
    <3>2. \A i \in DOMAIN (q \o <<d>>) : (q \o <<d>>)[i].attempt = i
      BY <2>1, <2>3, <3>1
    <3>3. Len(q \o <<d>>) = started[s]
      BY <2>1, <2>3, <3>1
    <3> QED BY <2>1, <2>3, <3>2, <3>3
  <2> QED BY <2>2, <2>3
<1> QED BY <1>1, Invariance, PTL

\* A published report can be replayed from the directory for ever after, by
\* whatever processes come: validate_search and verify_rpa_search do that.
THEOREM ReportReplays == Spec => []ReportIsReplayable
<1>1. IInv => ReportIsReplayable
  BY DEF IInv, ReportInv, ReportIsReplayable, Finished
<1> QED BY <1>1, Invariance, PTL

\* The runs of a report come from one commit, whatever commits the search was
\* started from.
THEOREM PublishesOneCommit == Spec => []PublishedIsUniform
<1>1. IInv => PublishedIsUniform
  BY DEF IInv, ReportInv, PublishedIsUniform, OneIdentity
<1> QED BY <1>1, Invariance, PTL

\* The provisional winner is confirmed only after the whole search is settled,
\* and no restart confirms another candidate.
THEOREM ConfirmsTheWinner == Spec => []ConfirmationFollowsSelection
<1>1. IInv => ConfirmationFollowsSelection
  BY DEF IInv, ConfirmInv, ConfirmationFollowsSelection, Confirms, Finished
<1> QED BY <1>1, Invariance, PTL

\* What SettledRunsStay asks of a step.
SettledStay ==
  \A s \in Slots : Settled(s) =>
    dirs'[s] # NoDir /\ [dirs[s] EXCEPT !.device = "absent"] = [dirs'[s] EXCEPT !.device = "absent"]

LEMMA OthersStay ==
  ASSUME Types, NEW h, ~Settled(h), NEW d, dirs' = [dirs EXCEPT ![h] = d]
  PROVE  SettledStay
<1>1. \A s \in Slots : s # h => dirs'[s] = dirs[s]
  BY DEF Types
<1> QED BY <1>1 DEF SettledStay, Settled

LEMMA SettledStep ==
  ASSUME IInv, [Next]_vars
  PROVE  SettledStay
<1> PICK h : h = Here
  OBVIOUS
<1> PICK r : r = dirs[h]
  OBVIOUS
<1>1. CASE dirs' = dirs
  BY <1>1 DEF SettledStay, Settled
<1>2. CASE RpaIncomplete
  <2>1. r.result = "absent" /\ \E d : dirs' = [dirs EXCEPT ![h] = d]
    BY <1>2 DEF RpaIncomplete, Archive
  <2>2. ~Settled(h)
    BY <2>1 DEF Settled
  <2> QED BY <2>1, <2>2, OthersStay DEF IInv
<1>3. CASE BeginRun
  <2>1. r = NoDir /\ \E d : dirs' = [dirs EXCEPT ![h] = d]
    BY <1>3 DEF BeginRun
  <2>2. ~Settled(h)
    BY <2>1 DEF Settled
  <2> QED BY <2>1, <2>2, OthersStay DEF IInv
<1>4. CASE RunStep \/ OpenResult \/ RunFails
  <2>1. pc = "run" /\ pc \in Visiting
    BY <1>4 DEF RunStep, OpenResult, RunFails, Visiting
  <2>2. h \in Slots /\ r.result = "absent"
    BY <2>1, HereTypes DEF RunFiles
  <2>3. \E d : dirs' = [dirs EXCEPT ![h] = d]
    <3>1. CASE RunStep
      <4> PICK timing \in Measurable :
            dirs' = [dirs EXCEPT ![h].state = NextEvent(@), ![h].timing = timing]
        BY <3>1 DEF RunStep
      <4>1. dirs' = [dirs EXCEPT ![h] = [r EXCEPT !.state = NextEvent(r.state), !.timing = timing]]
        BY <2>2 DEF IInv, Types
      <4> QED BY <4>1
    <3>2. CASE OpenResult
      <4>1. dirs' = [dirs EXCEPT ![h] = [r EXCEPT !.result = "torn"]]
        BY <2>2, <3>2 DEF OpenResult, IInv, Types
      <4> QED BY <4>1
    <3>3. CASE RunFails
      BY <3>3 DEF RunFails, Archive
    <3> QED BY <1>4, <3>1, <3>2, <3>3
  <2>4. ~Settled(h)
    BY <2>2 DEF Settled
  <2> QED BY <2>3, <2>4, OthersStay DEF IInv
<1>5. CASE FillResult
  <2>1. pc = "result" /\ pc \in Visiting
    BY <1>5 DEF FillResult, Visiting
  <2>2. h \in Slots /\ r.result = "torn"
    BY <2>1, HereTypes DEF RunFiles
  <2>3. dirs' = [dirs EXCEPT ![h] = [r EXCEPT !.result = "whole"]]
    BY <1>5, <2>2 DEF FillResult, IInv, Types
  <2>4. ~Settled(h)
    BY <2>2 DEF Settled
  <2> QED BY <2>3, <2>4, OthersStay DEF IInv
<1>6. CASE (TimeDevice /\ dirs' # dirs) \/ FillDevice
  <2>1. pc \in {"time", "device"} /\ pc \in Visiting /\ \E f \in File : dirs' = [dirs EXCEPT ![h].device = f]
    BY <1>6 DEF TimeDevice, FillDevice, Raise, disk, Visiting, File
  <2>2. h \in Slots /\ r \in Dir
    BY <2>1, HereTypes DEF RunFiles
  <2> PICK f \in File : dirs' = [dirs EXCEPT ![h].device = f]
    BY <2>1
  <2>3. dirs'[h] = [r EXCEPT !.device = f] /\ \A s \in Slots : s # h => dirs'[s] = dirs[s]
    BY <2>2 DEF IInv, Types
  <2>4. [[r EXCEPT !.device = f] EXCEPT !.device = "absent"] = [r EXCEPT !.device = "absent"]
    BY <2>2 DEF Dir
  <2>5. [r EXCEPT !.device = f] # NoDir
    BY <2>2, AbsentAssumption DEF Dir
  <2> QED BY <2>3, <2>4, <2>5 DEF SettledStay, Settled
<1> QED BY <1>1, <1>2, <1>3, <1>4, <1>5, <1>6
  DEF Next, Step, Start, Kill, OpenContract, FillContract, LoadRefused, MatmulLoad, RpaLoad,
      MatmulIncomplete, Collect, WriteReport, Raise, vars, disk

\* A settled run is evidence: no later process repeats it, moves it or changes
\* it, except that rpa_search.py adds the device timing a kill left out.
THEOREM KeepsSettledRuns == Spec => SettledRunsStay
<1>1. IInv /\ [Next]_vars => [SettledStay]_vars
  BY SettledStep
<1>2. SettledRunsStay <=> [][SettledStay]_vars
  BY DEF SettledRunsStay, SettledStay
<1> QED BY <1>1, <1>2, Invariance, PTL DEF Spec
=============================================================================
