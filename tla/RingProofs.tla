------------------------------ MODULE RingProofs ------------------------------
(***************************************************************************)
(* The safety of the ring for every number of devices and of calls.        *)
(*                                                                         *)
(* Everything a device has done follows from its position: how many copies *)
(* it has started and waited for on each side, how many credits it has     *)
(* granted and taken, how often it has signalled.  The invariant says that *)
(* the semaphores and the copies in flight are the differences of such     *)
(* counts of neighbouring devices, over all calls.  The rest is arithmetic *)
(* of positions: a device is never more than one copy ahead on a side of   *)
(* the neighbour that receives it, and the slots of successive copies      *)
(* alternate.                                                              *)
(*                                                                         *)
(* A second invariant says what lies in memory at those positions: which   *)
(* sum each copy carries and each slot, accumulator and output holds.      *)
(* With it the ring implements the abstract reduce-scatter.                *)
(***************************************************************************)
EXTENDS RingReduceScatter, TLAPS, FunctionTheorems, FiniteSetTheorems, SequenceTheorems

-----------------------------------------------------------------------------
(* What a device has done in its call, by its position.                     *)

Entering == {"enter", "enter_right", "barrier", "second", "second_right", "second_barrier"}
Starting == {"initial_left", "initial_right", "grant_left", "grant_right"}

One(condition) == IF condition THEN 1 ELSE 0

\* The copies a device starts and waits for in a call, on each side.
Count(s) == IF s = left THEN N + 1 ELSE N

StartsAt(o, p, step, s) ==
  IF step \in Entering \cup {"initial_left"} THEN 0
  ELSE IF step = "initial_right" THEN One(s = left)
  ELSE IF s = left THEN o + 1 + One(p = right /\ step # "send")
  ELSE o + One(~(p = left /\ step = "send"))

WaitsAt(o, p, step, s) ==
  IF step \in Entering \cup {"initial_left", "initial_right"} THEN 0
  ELSE IF s = left THEN o + 1 + One(p = right /\ step \in {"release", "drain"})
  ELSE o + One(~(p = left /\ step \notin {"release", "drain"}))

\* Credits granted towards a side, and credits taken to send towards one.
GrantsAt(o, p, step, s) ==
  IF step \in Entering \cup {"initial_left", "initial_right", "grant_left"} THEN 0
  ELSE IF step = "grant_right" THEN One(s = left)
  ELSE IF s = left THEN o + One(p = right \/ step = "drain" \/ o = 0)
  ELSE o + 1 + One(p = right /\ step = "drain")

TakesAt(o, p, step, s) ==
  IF step \in Entering \cup Starting THEN 0
  ELSE IF s = left THEN o + One(p = right /\ step # "send")
  ELSE o + One(p = right /\ o = N - 1) - One(p = left /\ step = "send")

Starts(d, s) == StartsAt(at[d].outer, at[d].phase, at[d].step, s)
Waits(d, s)  == WaitsAt(at[d].outer, at[d].phase, at[d].step, s)
Grants(d, s) == GrantsAt(at[d].outer, at[d].phase, at[d].step, s)
Takes(d, s)  == TakesAt(at[d].outer, at[d].phase, at[d].step, s)

\* The same over all calls.
Base(k, s) == k * Count(s)
S(d, s) == Base(at[d].call, s) + Starts(d, s)
W(d, s) == Base(at[d].call, s) + Waits(d, s)
G(d, s) == Base(at[d].call, Other(s)) + Grants(d, s)
T(d, s) == Base(at[d].call, s) + Takes(d, s)

\* Signals to the neighbour on a side, and waits, at the two barriers.
SignalsFirst(d, s)  == at[d].call + One(at[d].step \notin {"enter"} \cup (IF s = right THEN {"enter_right"} ELSE {}))
WaitsFirst(d)       == at[d].call + One(at[d].step \notin {"enter", "enter_right", "barrier"})
SignalsSecond(d, s) ==
  at[d].call + One(at[d].step \notin {"enter", "enter_right", "barrier", "second"}
                                       \cup (IF s = right THEN {"second_right"} ELSE {}))
WaitsSecond(d)      == at[d].call + One(at[d].step \notin Entering)

-----------------------------------------------------------------------------
(* The invariant.                                                           *)

Shape(d) ==
  LET p == at[d] IN
  /\ p.step \in Entering \cup Starting => p.outer = 0 /\ p.phase = left
  /\ p.step \in {"send", "release"} => ~(p.outer = 0 /\ p.phase = left)
  /\ p.step = "drain" => p.outer = N - 1

Types ==
  /\ at \in [Devices -> [call : Nat, outer : 0..(N - 1), phase : Sides, step : Steps]]
  /\ barrier \in [Devices -> Int] /\ second \in [Devices -> Int]
  /\ capacity \in [Devices -> [Sides -> Int]]
  /\ sent \in [Devices -> [Sides -> Int]]
  /\ received \in [Devices -> [Sides -> Int]]
  /\ started \in [Devices -> Int]
  /\ \A d \in Devices : Shape(d) /\ started[d] = Starts(d, left) + Starts(d, right)

IsCopy(c) ==
  /\ c = [from |-> c.from, side |-> c.side, call |-> c.call, source |-> c.source,
          slot |-> c.slot, read |-> c.read, data |-> c.data]
  /\ c.from \in Devices /\ c.side \in Sides /\ c.read \in BOOLEAN

\* A copy in flight is the last its device started on the side.
Tagged(c) ==
  /\ IsCopy(c)
  /\ c.call = at[c.from].call
  /\ Starts(c.from, c.side) >= 1
  /\ c.slot = (Starts(c.from, c.side) - 1) % 2
  /\ c.source = Input \/ c.source = 1 - c.slot

Flight(d, s) == {c \in copies : c.from = d /\ c.side = s}

\* What a device started and its neighbour has not waited for is on its way
\* or has arrived, and is at most one copy.
Flow(d, s) ==
  LET n == Neighbor(d, s) IN
  \/ S(d, s) = W(n, s) /\ received[n][s] = 0 /\ Flight(d, s) = {}
  \/ S(d, s) = W(n, s) + 1 /\ received[n][s] = 1 /\ Flight(d, s) = {}
  \/ S(d, s) = W(n, s) + 1 /\ received[n][s] = 0 /\ \E c : Flight(d, s) = {c}

\* What it started and has not waited for itself is unread or was counted.
Own(d, s) ==
  \/ S(d, s) = W(d, s) /\ sent[d][s] = 0 /\ \A c \in Flight(d, s) : c.read
  \/ S(d, s) = W(d, s) + 1 /\ sent[d][s] = 1 /\ \A c \in Flight(d, s) : c.read
  \/ S(d, s) = W(d, s) + 1 /\ sent[d][s] = 0 /\ \E c \in Flight(d, s) : ~c.read

Credit(d, s) ==
  /\ capacity[d][s] = G(Neighbor(d, s), Other(s)) - T(d, s)
  /\ capacity[d][s] >= 0

Barriers(d) ==
  LET l == Neighbor(d, left)
      r == Neighbor(d, right) IN
  /\ barrier[d] = SignalsFirst(l, right) + SignalsFirst(r, left) - 2 * WaitsFirst(d)
  /\ SignalsFirst(l, right) >= WaitsFirst(d) /\ SignalsFirst(r, left) >= WaitsFirst(d)
  /\ second[d] = SignalsSecond(l, right) + SignalsSecond(r, left) - 2 * WaitsSecond(d)
  /\ SignalsSecond(l, right) >= WaitsSecond(d) /\ SignalsSecond(r, left) >= WaitsSecond(d)

IInv ==
  /\ Types
  /\ \A c \in copies : Tagged(c)
  /\ \A d \in Devices, s \in Sides : Flow(d, s) /\ Own(d, s) /\ Credit(d, s)
  /\ \A d \in Devices : Barriers(d)

-----------------------------------------------------------------------------
(* The ring, and sums over calls.                                           *)

LEMMA NeighborIs ==
  ASSUME NEW d \in Devices
  PROVE  /\ Neighbor(d, right) = IF d = N - 1 THEN 0 ELSE d + 1
         /\ Neighbor(d, left) = IF d = 0 THEN N - 1 ELSE d - 1
<1>1. N \in Nat /\ N >= 2 /\ d \in Nat /\ d < N
  BY NAssumption DEF Devices
<1>2. \A x \in Nat : x < N => (x + N) % N = x
  BY <1>1
<1>3. (N + N) % N = 0
  BY <1>1
<1> QED BY <1>1, <1>2, <1>3 DEF Neighbor, RingMod, Rem, left, right

LEMMA SidesAre ==
  /\ left \in Sides /\ right \in Sides /\ left # right
  /\ Other(left) = right /\ Other(right) = left
  /\ \A s \in Sides : (s = left \/ s = right) /\ Other(s) \in Sides /\ Other(s) # s /\ Other(Other(s)) = s
BY DEF Sides, left, right, Other

LEMMA RingIs ==
  ASSUME NEW d \in Devices, NEW s \in Sides
  PROVE  /\ Neighbor(d, s) \in Devices /\ Neighbor(d, s) # d
         /\ Neighbor(Neighbor(d, s), Other(s)) = d
         /\ \A e \in Devices : Neighbor(e, s) = Neighbor(d, s) => e = d
<1>1. N \in Nat /\ N >= 2
  BY NAssumption
<1>2. Neighbor(d, left) \in Devices /\ Neighbor(d, right) \in Devices
  BY <1>1, NeighborIs DEF Devices
<1>3. Neighbor(d, left) # d /\ Neighbor(d, right) # d
  BY <1>1, NeighborIs DEF Devices
<1>4. Neighbor(Neighbor(d, left), right) = d /\ Neighbor(Neighbor(d, right), left) = d
  BY <1>1, <1>2, NeighborIs DEF Devices
<1>5. ASSUME NEW e \in Devices PROVE Neighbor(e, left) = Neighbor(d, left) => e = d
  BY <1>1, NeighborIs DEF Devices
<1>6. ASSUME NEW e \in Devices PROVE Neighbor(e, right) = Neighbor(d, right) => e = d
  BY <1>1, NeighborIs DEF Devices
<1>7. CASE s = left
  <2>1. Other(s) = right
    BY <1>7, SidesAre
  <2> QED BY <1>2, <1>3, <1>4, <1>5, <1>7, <2>1
<1>8. CASE s = right
  <2>1. Other(s) = left
    BY <1>8, SidesAre
  <2> QED BY <1>2, <1>3, <1>4, <1>6, <1>8, <2>1
<1> QED BY <1>7, <1>8, SidesAre

LEMMA CountIs == \A s \in Sides : Count(s) \in Nat /\ Count(s) >= 2
BY NAssumption DEF Count

LEMMA BaseIs ==
  ASSUME NEW k \in Nat, NEW s \in Sides
  PROVE  /\ Base(k, s) \in Nat
         /\ Base(k + 1, s) = Base(k, s) + Count(s)
         /\ Base(0, s) = 0
<1>1. Count(s) \in Nat
  BY CountIs
<1> QED BY <1>1 DEF Base

LEMMA Monotone ==
  ASSUME NEW j \in Nat, NEW k \in Nat, NEW c \in Nat, j < k
  PROVE  j * c + c <= k * c
OBVIOUS

\* Totals over calls are ordered as calls are.
LEMMA BaseMonotone ==
  ASSUME NEW j \in Nat, NEW k \in Nat, NEW s \in Sides, j < k
  PROVE  Base(j, s) + Count(s) <= Base(k, s)
BY CountIs, Monotone DEF Base

LEMMA OneIs == /\ \A c \in BOOLEAN : One(c) \in {0, 1}
               /\ One(TRUE) = 1 /\ One(FALSE) = 0
BY DEF One

-----------------------------------------------------------------------------
(* Positions.                                                               *)

LEMMA AtType ==
  ASSUME Types, NEW d \in Devices
  PROVE  /\ at[d].call \in Nat /\ at[d].outer \in 0..(N - 1) /\ at[d].phase \in Sides
         /\ at[d].step \in Steps /\ Shape(d)
BY DEF Types

\* What a position says of the counts, whatever the device.
LEMMA CountsAt ==
  ASSUME NEW o \in 0..(N - 1), NEW p \in Sides, NEW step \in Steps,
         step \in Entering \cup Starting => o = 0 /\ p = left,
         step \in {"send", "release"} => ~(o = 0 /\ p = left),
         step = "drain" => o = N - 1
  PROVE  /\ \A s \in Sides :
              /\ StartsAt(o, p, step, s) \in 0..Count(s)
              /\ WaitsAt(o, p, step, s) \in 0..Count(s)
              /\ GrantsAt(o, p, step, s) \in 0..Count(Other(s))
              /\ TakesAt(o, p, step, s) \in 0..Count(s)
              /\ WaitsAt(o, p, step, s) <= StartsAt(o, p, step, s)
              /\ StartsAt(o, p, step, s) <= WaitsAt(o, p, step, s) + 1
         /\ StartsAt(o, p, step, left) <= WaitsAt(o, p, step, right) + 1
         /\ StartsAt(o, p, step, right) <= WaitsAt(o, p, step, left)
         /\ GrantsAt(o, p, step, right) = N + 1 => WaitsAt(o, p, step, left) = N + 1
         /\ GrantsAt(o, p, step, left) = N => WaitsAt(o, p, step, right) = N
<1>1. N \in Nat /\ N >= 2 /\ o \in Nat /\ o <= N - 1
  BY NAssumption
<1>2. left = 0 /\ right = 1 /\ Sides = {0, 1} /\ p \in {0, 1} /\ Other(0) = 1 /\ Other(1) = 0
  BY DEF left, right, Sides, Other
<1>3. CASE step \in Entering
  BY <1>1, <1>2, <1>3 DEF StartsAt, WaitsAt, GrantsAt, TakesAt, Entering, Starting, Count, One
<1>4. CASE step \in Starting
  BY <1>1, <1>2, <1>4 DEF StartsAt, WaitsAt, GrantsAt, TakesAt, Entering, Starting, Count, One
<1>5. CASE step \in {"send", "load", "store", "finish"}
  BY <1>1, <1>2, <1>5 DEF StartsAt, WaitsAt, GrantsAt, TakesAt, Entering, Starting, Count, One
<1>6. CASE step \in {"release", "drain"}
  BY <1>1, <1>2, <1>6 DEF StartsAt, WaitsAt, GrantsAt, TakesAt, Entering, Starting, Count, One
<1> QED BY <1>3, <1>4, <1>5, <1>6 DEF Steps, Entering, Starting

LEMMA Counts ==
  ASSUME Types, NEW d \in Devices
  PROVE  /\ \A s \in Sides :
              /\ Starts(d, s) \in 0..Count(s) /\ Waits(d, s) \in 0..Count(s)
              /\ Grants(d, s) \in 0..Count(Other(s)) /\ Takes(d, s) \in 0..Count(s)
              /\ Waits(d, s) <= Starts(d, s) /\ Starts(d, s) <= Waits(d, s) + 1
         /\ Starts(d, left) <= Waits(d, right) + 1
         /\ Starts(d, right) <= Waits(d, left)
         /\ Grants(d, right) = N + 1 => Waits(d, left) = N + 1
         /\ Grants(d, left) = N => Waits(d, right) = N
BY AtType, CountsAt DEF Shape, Starts, Waits, Grants, Takes

LEMMA TotalsAreInt ==
  ASSUME Types, NEW d \in Devices, NEW s \in Sides
  PROVE  S(d, s) \in Nat /\ W(d, s) \in Nat /\ G(d, s) \in Nat /\ T(d, s) \in Nat
BY AtType, Counts, BaseIs, CountIs, SidesAre DEF S, W, G, T

\* Comparing totals is comparing calls first.
LEMMA Lexicographic ==
  ASSUME NEW j \in Nat, NEW k \in Nat, NEW s \in Sides,
         NEW a \in 0..Count(s), NEW b \in 0..Count(s)
  PROVE  /\ Base(k, s) + b <= Base(j, s) + a =>
              /\ k <= j \/ (b = 0 /\ a = Count(s))
              /\ k = j => b <= a
         /\ k < j => Base(k, s) + b <= Base(j, s) + a
<1>1. Base(j, s) \in Nat /\ Base(k, s) \in Nat /\ Count(s) \in Nat
  BY BaseIs, CountIs
<1>2. (k < j => Base(k, s) + Count(s) <= Base(j, s)) /\ (j < k => Base(j, s) + Count(s) <= Base(k, s))
  BY BaseMonotone
<1> QED BY <1>1, <1>2

\* A device that moves to a position.
Placed(d, k, o, p, step) ==
  at' = [at EXCEPT ![d] = [call |-> k, outer |-> o, phase |-> p, step |-> step]]

LEMMA GotoPlaces ==
  ASSUME Types, NEW d \in Devices, NEW step, Goto(d, step)
  PROVE  Placed(d, at[d].call, at[d].outer, at[d].phase, step)
<1>1. at[d] \in [call : Nat, outer : 0..(N - 1), phase : Sides, step : Steps]
  BY DEF Types
<1>2. [at[d] EXCEPT !.step = step]
        = [call |-> at[d].call, outer |-> at[d].outer, phase |-> at[d].phase, step |-> step]
  BY <1>1
<1>3. at' = [at EXCEPT ![d] = [at[d] EXCEPT !.step = step]]
  BY DEF Goto
<1> QED BY <1>2, <1>3 DEF Placed

LEMMA AdvancePlaces ==
  ASSUME Types, NEW d \in Devices, Advance(d)
  PROVE  /\ at[d].phase = left => Placed(d, at[d].call, at[d].outer, right, "send")
         /\ at[d].phase = right /\ ~IsLast(d) => Placed(d, at[d].call, at[d].outer + 1, left, "send")
         /\ at[d].phase = right /\ IsLast(d) => Placed(d, at[d].call + 1, 0, left, "enter")
<1>1. left # right
  BY SidesAre
<1>2. CASE at[d].phase = left
  BY <1>1, <1>2 DEF Types, Advance, Placed
<1>3. CASE at[d].phase = right /\ ~IsLast(d)
  BY <1>1, <1>3 DEF Types, Advance, Placed
<1>4. CASE at[d].phase = right /\ IsLast(d)
  BY <1>1, <1>4 DEF Types, Advance, Placed
<1> QED BY <1>2, <1>3, <1>4, AtType, SidesAre

LEMMA PlacedIs ==
  ASSUME Types, NEW d \in Devices, NEW k \in Nat, NEW o \in 0..(N - 1), NEW p \in Sides,
         NEW step \in Steps, Placed(d, k, o, p, step)
  PROVE  /\ at' \in [Devices -> [call : Nat, outer : 0..(N - 1), phase : Sides, step : Steps]]
         /\ at'[d].call = k /\ at'[d].outer = o /\ at'[d].phase = p /\ at'[d].step = step
         /\ \A e \in Devices : e # d => at'[e] = at[e]
BY DEF Types, Placed

-----------------------------------------------------------------------------
(* What each statement does to the counts.                                  *)

\* A step of device d inside its call that starts a copy on the sides st,
\* waits for one on tk, grants a credit towards gr and takes one on ta.
Within(d, st, tk, gr, ta) ==
  /\ at'[d].call = at[d].call
  /\ \A s \in Sides :
       /\ Starts(d, s)' = Starts(d, s) + One(s \in st)
       /\ Waits(d, s)' = Waits(d, s) + One(s \in tk)
       /\ Grants(d, s)' = Grants(d, s) + One(s \in gr)
       /\ Takes(d, s)' = Takes(d, s) + One(s \in ta)

\* The same of the totals, which a device keeps when it leaves its call.
Moves(d, st, tk, gr, ta) ==
  \A e \in Devices, s \in Sides :
    /\ S(e, s)' = S(e, s) + One(e = d /\ s \in st)
    /\ W(e, s)' = W(e, s) + One(e = d /\ s \in tk)
    /\ G(e, s)' = G(e, s) + One(e = d /\ s \in gr)
    /\ T(e, s)' = T(e, s) + One(e = d /\ s \in ta)

Stepped(d) ==
  /\ at' \in [Devices -> [call : Nat, outer : 0..(N - 1), phase : Sides, step : Steps]]
  /\ \A e \in Devices : e # d => at'[e] = at[e]
  /\ Shape(d)'

SignalsSame ==
  \A e \in Devices :
    /\ \A s \in Sides : /\ SignalsFirst(e, s)' = SignalsFirst(e, s)
                        /\ SignalsSecond(e, s)' = SignalsSecond(e, s)
    /\ WaitsFirst(e)' = WaitsFirst(e) /\ WaitsSecond(e)' = WaitsSecond(e)

LEMMA OthersStay ==
  ASSUME Types, NEW d \in Devices, Stepped(d), NEW e \in Devices, e # d
  PROVE  /\ at'[e] = at[e] /\ Shape(e)'
         /\ \A s \in Sides :
              /\ Starts(e, s)' = Starts(e, s) /\ Waits(e, s)' = Waits(e, s)
              /\ Grants(e, s)' = Grants(e, s) /\ Takes(e, s)' = Takes(e, s)
              /\ S(e, s)' = S(e, s) /\ W(e, s)' = W(e, s) /\ G(e, s)' = G(e, s) /\ T(e, s)' = T(e, s)
              /\ SignalsFirst(e, s)' = SignalsFirst(e, s) /\ SignalsSecond(e, s)' = SignalsSecond(e, s)
         /\ WaitsFirst(e)' = WaitsFirst(e) /\ WaitsSecond(e)' = WaitsSecond(e)
<1>1. at'[e] = at[e]
  BY DEF Stepped
<1>2. Shape(e)
  BY DEF Types
<1> QED BY <1>1, <1>2 DEF Shape, Starts, Waits, Grants, Takes, S, W, G, T,
                          SignalsFirst, SignalsSecond, WaitsFirst, WaitsSecond

LEMMA WithinMoves ==
  ASSUME Types, NEW d \in Devices, NEW st, NEW tk, NEW gr, NEW ta,
         Stepped(d), Within(d, st, tk, gr, ta)
  PROVE  Moves(d, st, tk, gr, ta)
<1> SUFFICES ASSUME NEW e \in Devices, NEW s \in Sides
             PROVE  /\ S(e, s)' = S(e, s) + One(e = d /\ s \in st)
                    /\ W(e, s)' = W(e, s) + One(e = d /\ s \in tk)
                    /\ G(e, s)' = G(e, s) + One(e = d /\ s \in gr)
                    /\ T(e, s)' = T(e, s) + One(e = d /\ s \in ta)
  BY DEF Moves
<1>1. S(e, s) \in Nat /\ W(e, s) \in Nat /\ G(e, s) \in Nat /\ T(e, s) \in Nat
  BY TotalsAreInt
<1>2. CASE e # d
  <2>1. S(e, s)' = S(e, s) /\ W(e, s)' = W(e, s) /\ G(e, s)' = G(e, s) /\ T(e, s)' = T(e, s)
    BY <1>2, OthersStay
  <2> QED BY <1>1, <1>2, <2>1 DEF One
<1>3. CASE e = d
  <2>1. /\ Base(at[d].call, s) \in Nat /\ Base(at[d].call, Other(s)) \in Nat
        /\ Starts(d, s) \in Nat /\ Waits(d, s) \in Nat /\ Grants(d, s) \in Nat /\ Takes(d, s) \in Nat
    BY Counts, AtType, BaseIs, CountIs, SidesAre
  <2>2. /\ Base(at[d].call, s)' = Base(at[d].call, s)
        /\ Base(at[d].call, Other(s))' = Base(at[d].call, Other(s))
    BY DEF Within, Base
  <2>3. /\ Starts(d, s)' = Starts(d, s) + One(s \in st)
        /\ Waits(d, s)' = Waits(d, s) + One(s \in tk)
        /\ Grants(d, s)' = Grants(d, s) + One(s \in gr)
        /\ Takes(d, s)' = Takes(d, s) + One(s \in ta)
    BY DEF Within
  <2> QED BY <1>3, <2>1, <2>2, <2>3 DEF S, W, G, T, One
<1> QED BY <1>2, <1>3

LEMMA Barrierlike ==
  ASSUME Types, NEW d \in Devices, NEW step \in Entering \cup {"initial_left"}, Goto(d, step), at[d].step \in Entering
  PROVE  Stepped(d) /\ Within(d, {}, {}, {}, {})
<1>1. /\ at[d].call \in Nat /\ at[d].outer \in 0..(N - 1) /\ at[d].phase \in Sides
      /\ at[d].outer = 0 /\ at[d].phase = left
  BY AtType DEF Shape
<1>2. step \in Steps
  BY DEF Steps, Entering
<1>3. Placed(d, at[d].call, at[d].outer, at[d].phase, step)
  BY GotoPlaces
<1>4. /\ at' \in [Devices -> [call : Nat, outer : 0..(N - 1), phase : Sides, step : Steps]]
      /\ at'[d].call = at[d].call /\ at'[d].outer = 0 /\ at'[d].phase = left /\ at'[d].step = step
      /\ \A e \in Devices : e # d => at'[e] = at[e]
  BY <1>1, <1>2, <1>3, PlacedIs
<1>5. Shape(d)'
  BY <1>4 DEF Shape, Entering
<1>6. ASSUME NEW s \in Sides
      PROVE  /\ Starts(d, s) = 0 /\ Waits(d, s) = 0 /\ Grants(d, s) = 0 /\ Takes(d, s) = 0
             /\ Starts(d, s)' = 0 /\ Waits(d, s)' = 0 /\ Grants(d, s)' = 0 /\ Takes(d, s)' = 0
  <2>1. at[d].step \in Entering \cup {"initial_left"} /\ at'[d].step \in Entering \cup {"initial_left"}
    BY <1>4
  <2> QED BY <2>1 DEF Starts, Waits, Grants, Takes, StartsAt, WaitsAt, GrantsAt, TakesAt, Starting
<1> QED BY <1>4, <1>5, <1>6 DEF Stepped, Within, One

\* How the counts differ between two positions.
Differ(o1, p1, step1, o2, p2, step2, st, tk, gr, ta) ==
  \A s \in Sides :
    /\ StartsAt(o2, p2, step2, s) = StartsAt(o1, p1, step1, s) + One(s \in st)
    /\ WaitsAt(o2, p2, step2, s) = WaitsAt(o1, p1, step1, s) + One(s \in tk)
    /\ GrantsAt(o2, p2, step2, s) = GrantsAt(o1, p1, step1, s) + One(s \in gr)
    /\ TakesAt(o2, p2, step2, s) = TakesAt(o1, p1, step1, s) + One(s \in ta)

LEMMA FirstPositions ==
  /\ Differ(0, left, "initial_left", 0, left, "initial_right", {left}, {}, {}, {})
  /\ Differ(0, left, "initial_right", 0, left, "grant_left", {right}, {left}, {}, {})
  /\ Differ(0, left, "grant_left", 0, left, "grant_right", {}, {}, {left}, {})
  /\ Differ(0, left, "grant_right", 0, left, "load", {}, {}, {right}, {})
  /\ Differ(0, left, "finish", 0, right, "send", {}, {right}, {}, {})
<1>1. N \in Nat /\ N >= 2 /\ left = 0 /\ right = 1 /\ Sides = {0, 1}
  BY NAssumption DEF left, right, Sides
<1> QED BY <1>1 DEF Differ, StartsAt, WaitsAt, GrantsAt, TakesAt, Entering, Starting, One

LEMMA LaterPositions ==
  ASSUME NEW o \in 0..(N - 1), NEW p \in Sides
  PROVE  /\ ~(o = 0 /\ p = left) => Differ(o, p, "send", o, p, "load", {Other(p)}, {}, {}, {Other(p)})
         /\ Differ(o, p, "load", o, p, "store", {}, {}, {}, {})
         /\ Differ(o, p, "store", o, p, "finish", {}, {}, {}, {})
         /\ Differ(o, p, "finish", o, p, "release", {}, {Other(p)}, {}, {})
         /\ o # 0 /\ o # N - 1 => Differ(o, left, "release", o, right, "send", {}, {}, {left}, {})
         /\ o # N - 1 => Differ(o, right, "release", o + 1, left, "send", {}, {}, {right}, {})
         /\ o = N - 1 => Differ(o, p, "release", o, p, "drain", {}, {}, {p}, {})
         /\ o = N - 1 => Differ(o, left, "drain", o, right, "send", {}, {}, {}, {right})
<1>1. N \in Nat /\ N >= 2 /\ left = 0 /\ right = 1 /\ Sides = {0, 1} /\ o \in Nat /\ o <= N - 1
      /\ (p = 0 \/ p = 1) /\ Other(0) = 1 /\ Other(1) = 0
  BY NAssumption DEF left, right, Sides, Other
<1>2. ~(o = 0 /\ p = left) => Differ(o, p, "send", o, p, "load", {Other(p)}, {}, {}, {Other(p)})
  BY <1>1 DEF Differ, StartsAt, WaitsAt, GrantsAt, TakesAt, Entering, Starting, One
<1>3. /\ Differ(o, p, "load", o, p, "store", {}, {}, {}, {})
      /\ Differ(o, p, "store", o, p, "finish", {}, {}, {}, {})
  BY <1>1 DEF Differ, StartsAt, WaitsAt, GrantsAt, TakesAt, Entering, Starting, One
<1>4. Differ(o, p, "finish", o, p, "release", {}, {Other(p)}, {}, {})
  BY <1>1 DEF Differ, StartsAt, WaitsAt, GrantsAt, TakesAt, Entering, Starting, One
<1>5. /\ o # 0 /\ o # N - 1 => Differ(o, left, "release", o, right, "send", {}, {}, {left}, {})
      /\ o # N - 1 => Differ(o, right, "release", o + 1, left, "send", {}, {}, {right}, {})
  BY <1>1 DEF Differ, StartsAt, WaitsAt, GrantsAt, TakesAt, Entering, Starting, One
<1>6. /\ o = N - 1 => Differ(o, p, "release", o, p, "drain", {}, {}, {p}, {})
      /\ o = N - 1 => Differ(o, left, "drain", o, right, "send", {}, {}, {}, {right})
  BY <1>1 DEF Differ, StartsAt, WaitsAt, GrantsAt, TakesAt, Entering, Starting, One
<1> QED BY <1>2, <1>3, <1>4, <1>5, <1>6

LEMMA LastPosition ==
  ASSUME NEW s \in Sides
  PROVE  /\ StartsAt(N - 1, right, "drain", s) = Count(s)
         /\ WaitsAt(N - 1, right, "drain", s) = Count(s)
         /\ GrantsAt(N - 1, right, "drain", s) = Count(Other(s))
         /\ TakesAt(N - 1, right, "drain", s) + One(s = left) = Count(s)
         /\ StartsAt(0, left, "enter", s) = 0 /\ WaitsAt(0, left, "enter", s) = 0
         /\ GrantsAt(0, left, "enter", s) = 0 /\ TakesAt(0, left, "enter", s) = 0
<1>1. N \in Nat /\ N >= 2 /\ left = 0 /\ right = 1 /\ (s = 0 \/ s = 1) /\ Other(0) = 1 /\ Other(1) = 0
  BY NAssumption DEF left, right, Sides, Other
<1> QED BY <1>1 DEF Count, StartsAt, WaitsAt, GrantsAt, TakesAt, Entering, Starting, One

\* A move inside the call and past the second barrier.
LEMMA PlacedWithin ==
  ASSUME Types, NEW d \in Devices, NEW o \in 0..(N - 1), NEW p \in Sides, NEW step \in Steps,
         Placed(d, at[d].call, o, p, step),
         at[d].step \notin Entering, step \notin Entering,
         step \in Starting => o = 0 /\ p = left,
         step \in {"send", "release"} => ~(o = 0 /\ p = left),
         step = "drain" => o = N - 1,
         NEW st, NEW tk, NEW gr, NEW ta,
         Differ(at[d].outer, at[d].phase, at[d].step, o, p, step, st, tk, gr, ta)
  PROVE  Stepped(d) /\ Within(d, st, tk, gr, ta) /\ SignalsSame
<1>1. at[d].call \in Nat
  BY AtType
<1>2. /\ at' \in [Devices -> [call : Nat, outer : 0..(N - 1), phase : Sides, step : Steps]]
      /\ at'[d].call = at[d].call /\ at'[d].outer = o /\ at'[d].phase = p /\ at'[d].step = step
      /\ \A e \in Devices : e # d => at'[e] = at[e]
  BY <1>1, PlacedIs
<1>3. Stepped(d)
  BY <1>2 DEF Stepped, Shape
<1>4. Within(d, st, tk, gr, ta)
  BY <1>2 DEF Within, Differ, Starts, Waits, Grants, Takes
<1>5. ASSUME NEW e \in Devices
      PROVE  /\ \A s \in Sides : /\ SignalsFirst(e, s)' = SignalsFirst(e, s)
                                 /\ SignalsSecond(e, s)' = SignalsSecond(e, s)
             /\ WaitsFirst(e)' = WaitsFirst(e) /\ WaitsSecond(e)' = WaitsSecond(e)
  <2>1. CASE e # d
    BY <1>3, <2>1, OthersStay
  <2>2. CASE e = d
    BY <1>2, <2>2 DEF SignalsFirst, SignalsSecond, WaitsFirst, WaitsSecond, Entering
  <2> QED BY <2>1, <2>2
<1> QED BY <1>3, <1>4, <1>5 DEF SignalsSame

-----------------------------------------------------------------------------
(* A step of a device, as the invariant sees it.                            *)

NewCopy(d, s, source, slot) ==
  [from |-> d, side |-> s, call |-> at[d].call, source |-> source, slot |-> slot,
   read |-> FALSE, data |-> Unread]

Started(d, st) ==
  \/ st = {} /\ copies' = copies
  \/ \E s \in Sides, source \in {0, 1, Input}, slot \in {0, 1} :
       /\ st = {s}
       /\ copies' = copies \cup {NewCopy(d, s, source, slot)}
       /\ S(d, s) = W(Neighbor(d, s), s) /\ S(d, s) = W(d, s)
       /\ slot = Starts(d, s) % 2
       /\ source = Input \/ source = 1 - slot

Acts(d, st, tk, gr, ta) ==
  /\ Stepped(d) /\ Moves(d, st, tk, gr, ta)
  /\ tk \cap st = {}
  /\ \A s \in Sides \cap tk : sent[d][s] >= 1 /\ received[d][s] >= 1
  /\ \A s \in Sides \cap ta : capacity[d][s] >= 1
  /\ \A e \in Devices, s \in Sides :
       /\ sent'[e][s] = sent[e][s] - One(e = d /\ s \in tk)
       /\ received'[e][s] = received[e][s] - One(e = d /\ s \in tk)
       /\ capacity'[e][s] = capacity[e][s] + One(Neighbor(e, s) = d /\ Other(s) \in gr)
                                           - One(e = d /\ s \in ta)
  /\ Started(d, st)

LEMMA VariableTypes ==
  ASSUME Types, NEW e \in Devices, NEW s \in Sides
  PROVE  sent[e][s] \in Int /\ received[e][s] \in Int /\ capacity[e][s] \in Int
           /\ second[e] \in Int /\ barrier[e] \in Int
BY DEF Types

\* The copies in flight after a start.
LEMMA FlightAfter ==
  ASSUME IInv, NEW d \in Devices, NEW st, Started(d, st), NEW e \in Devices, NEW t \in Sides
  PROVE  /\ ~(e = d /\ t \in st) => Flight(e, t)' = Flight(e, t)
         /\ e = d /\ t \in st => Flight(e, t) = {} /\ \E c : Flight(e, t)' = {c} /\ ~c.read
<1>1. CASE st = {} /\ copies' = copies
  BY <1>1 DEF Flight
<1>2. ASSUME NEW s \in Sides, NEW source \in {0, 1, Input}, NEW slot \in {0, 1}, st = {s},
             copies' = copies \cup {NewCopy(d, s, source, slot)}, S(d, s) = W(Neighbor(d, s), s)
      PROVE  /\ ~(e = d /\ t \in st) => Flight(e, t)' = Flight(e, t)
             /\ e = d /\ t \in st => Flight(e, t) = {} /\ \E c : Flight(e, t)' = {c} /\ ~c.read
  <2> DEFINE new == NewCopy(d, s, source, slot)
  <2>1. new.from = d /\ new.side = s /\ ~new.read
    BY DEF NewCopy
  <2>2. ~(e = d /\ t \in st) => Flight(e, t)' = Flight(e, t)
    BY <1>2, <2>1 DEF Flight
  <2>3. Flow(d, s) /\ S(d, s) \in Nat
    BY TotalsAreInt DEF IInv
  <2>4. Flight(d, s) = {}
    BY <1>2, <2>3 DEF Flow
  <2>5. Flight(d, s)' = {new}
    BY <1>2, <2>1, <2>4 DEF Flight
  <2> QED BY <1>2, <2>1, <2>2, <2>4, <2>5
<1> QED BY <1>1, <1>2 DEF Started

LEMMA FlowAfter ==
  ASSUME IInv, NEW d \in Devices, NEW st, NEW tk, NEW gr, NEW ta, Acts(d, st, tk, gr, ta),
         NEW e \in Devices, NEW t \in Sides
  PROVE  Flow(e, t)'
<1> DEFINE n == Neighbor(e, t)
<1>1. n \in Devices /\ n # e
  BY RingIs
<1>2. Types /\ Flow(e, t)
  BY DEF IInv
<1>3. /\ S(e, t) \in Nat /\ W(n, t) \in Nat /\ received[n][t] \in Int
  BY <1>1, <1>2, TotalsAreInt, VariableTypes
<1>4. /\ S(e, t)' = S(e, t) + One(e = d /\ t \in st)
      /\ W(n, t)' = W(n, t) + One(n = d /\ t \in tk)
      /\ received'[n][t] = received[n][t] - One(n = d /\ t \in tk)
  BY <1>1 DEF Acts, Moves
<1>5. /\ ~(e = d /\ t \in st) => Flight(e, t)' = Flight(e, t)
      /\ e = d /\ t \in st => Flight(e, t) = {} /\ \E c : Flight(e, t)' = {c} /\ ~c.read
  <2>1. Started(d, st)
    BY DEF Acts
  <2> QED BY <2>1, FlightAfter
<1>6. CASE e = d /\ t \in st
  <2>1. S(e, t) = W(n, t)
    BY <1>6 DEF Acts, Started
  <2>2. n # d
    BY <1>1, <1>6
  <2>3. S(e, t)' = S(e, t) + 1 /\ W(n, t)' = W(n, t) /\ received'[n][t] = received[n][t]
    BY <1>3, <1>4, <1>6, <2>2 DEF One
  <2>4. received[n][t] = 0
    BY <1>2, <1>3, <2>1 DEF Flow
  <2> QED BY <1>3, <1>5, <1>6, <2>1, <2>3, <2>4 DEF Flow
<1>7. CASE ~(e = d /\ t \in st) /\ n = d /\ t \in tk
  <2>1. received[n][t] >= 1
    BY <1>7 DEF Acts
  <2>2. S(e, t)' = S(e, t) /\ W(n, t)' = W(n, t) + 1 /\ received'[n][t] = received[n][t] - 1
    BY <1>3, <1>4, <1>7 DEF One
  <2> QED BY <1>2, <1>3, <1>5, <1>7, <2>1, <2>2 DEF Flow
<1>8. CASE ~(e = d /\ t \in st) /\ ~(n = d /\ t \in tk)
  <2>1. S(e, t)' = S(e, t) /\ W(n, t)' = W(n, t) /\ received'[n][t] = received[n][t]
    BY <1>3, <1>4, <1>8 DEF One
  <2> QED BY <1>2, <1>3, <1>5, <1>8, <2>1 DEF Flow
<1> QED BY <1>6, <1>7, <1>8

LEMMA OwnAfter ==
  ASSUME IInv, NEW d \in Devices, NEW st, NEW tk, NEW gr, NEW ta, Acts(d, st, tk, gr, ta),
         NEW e \in Devices, NEW t \in Sides
  PROVE  Own(e, t)'
<1>1. Types /\ Own(e, t)
  BY DEF IInv
<1>2. /\ S(e, t) \in Nat /\ W(e, t) \in Nat /\ sent[e][t] \in Int
  BY <1>1, TotalsAreInt, VariableTypes
<1>3. /\ S(e, t)' = S(e, t) + One(e = d /\ t \in st)
      /\ W(e, t)' = W(e, t) + One(e = d /\ t \in tk)
      /\ sent'[e][t] = sent[e][t] - One(e = d /\ t \in tk)
  BY DEF Acts, Moves
<1>4. /\ ~(e = d /\ t \in st) => Flight(e, t)' = Flight(e, t)
      /\ e = d /\ t \in st => \E c : Flight(e, t)' = {c} /\ ~c.read
  <2>1. Started(d, st)
    BY DEF Acts
  <2> QED BY <2>1, FlightAfter
<1>5. CASE e = d /\ t \in st
  <2>1. S(e, t) = W(e, t) /\ t \notin tk
    BY <1>5 DEF Acts, Started
  <2>2. S(e, t)' = S(e, t) + 1 /\ W(e, t)' = W(e, t) /\ sent'[e][t] = sent[e][t]
    BY <1>2, <1>3, <1>5, <2>1 DEF One
  <2>3. sent[e][t] = 0
    BY <1>1, <1>2, <2>1 DEF Own
  <2> QED BY <1>2, <1>4, <1>5, <2>1, <2>2, <2>3 DEF Own
<1>6. CASE e = d /\ t \in tk /\ t \notin st
  <2>1. sent[e][t] >= 1
    BY <1>6 DEF Acts
  <2>2. S(e, t)' = S(e, t) /\ W(e, t)' = W(e, t) + 1 /\ sent'[e][t] = sent[e][t] - 1
    BY <1>2, <1>3, <1>6 DEF One
  <2> QED BY <1>1, <1>2, <1>4, <1>6, <2>1, <2>2 DEF Own
<1>7. CASE ~(e = d /\ t \in st) /\ ~(e = d /\ t \in tk)
  <2>1. S(e, t)' = S(e, t) /\ W(e, t)' = W(e, t) /\ sent'[e][t] = sent[e][t]
    BY <1>2, <1>3, <1>7 DEF One
  <2> QED BY <1>1, <1>2, <1>4, <1>7, <2>1 DEF Own
<1> QED BY <1>5, <1>6, <1>7

LEMMA CreditAfter ==
  ASSUME IInv, NEW d \in Devices, NEW st, NEW tk, NEW gr, NEW ta, Acts(d, st, tk, gr, ta),
         NEW e \in Devices, NEW t \in Sides
  PROVE  Credit(e, t)'
<1> DEFINE n == Neighbor(e, t)
<1>1. n \in Devices /\ n # e /\ Other(t) \in Sides
  BY RingIs, SidesAre
<1>2. Types /\ Credit(e, t)
  BY DEF IInv
<1>3. T(e, t) \in Nat /\ G(n, Other(t)) \in Nat /\ capacity[e][t] \in Int
  BY <1>1, <1>2, TotalsAreInt, VariableTypes
<1>4. /\ T(e, t)' = T(e, t) + One(e = d /\ t \in ta)
      /\ G(n, Other(t))' = G(n, Other(t)) + One(n = d /\ Other(t) \in gr)
      /\ capacity'[e][t] = capacity[e][t] + One(n = d /\ Other(t) \in gr) - One(e = d /\ t \in ta)
  BY <1>1 DEF Acts, Moves
<1>5. e = d /\ t \in ta => capacity[e][t] >= 1
  BY DEF Acts
<1>6. capacity[e][t] = G(n, Other(t)) - T(e, t) /\ capacity[e][t] >= 0
  BY <1>2 DEF Credit
<1>7. capacity'[e][t] = G(n, Other(t))' - T(e, t)' /\ capacity'[e][t] >= 0
  BY <1>3, <1>4, <1>5, <1>6 DEF One
<1> QED BY <1>7 DEF Credit

LEMMA NewCopyIs ==
  ASSUME Types, NEW d \in Devices, NEW s \in Sides, NEW source, NEW slot
  PROVE  LET new == NewCopy(d, s, source, slot) IN
         /\ IsCopy(new) /\ new.from = d /\ new.side = s /\ new.call = at[d].call
         /\ new.slot = slot /\ new.source = source /\ ~new.read
BY DEF NewCopy, IsCopy

LEMMA TagsAfter ==
  ASSUME IInv, NEW d \in Devices, NEW st, NEW tk, NEW gr, NEW ta, Acts(d, st, tk, gr, ta),
         Within(d, st, tk, gr, ta), NEW c \in copies'
  PROVE  Tagged(c)'
<1>1. Types /\ Stepped(d) /\ Started(d, st)
  BY DEF IInv, Acts
<1>2. /\ at'[d].call = at[d].call
      /\ \A s \in Sides : Starts(d, s)' = Starts(d, s) + One(s \in st)
  BY DEF Within
<1>3. CASE c \in copies
  <2>1. Tagged(c) /\ c.from \in Devices /\ c.side \in Sides
    BY <1>3 DEF IInv, Tagged, IsCopy
  <2>2. CASE c.from # d
    <3>1. at'[c.from] = at[c.from] /\ Starts(c.from, c.side)' = Starts(c.from, c.side)
      BY <1>1, <2>1, <2>2, OthersStay
    <3> QED BY <2>1, <3>1 DEF Tagged, IsCopy
  <2>3. CASE c.from = d
    <3>1. c \in Flight(d, c.side)
      BY <1>3, <2>3 DEF Flight
    <3>2. c.side \notin st
      BY <1>1, <2>1, <3>1, FlightAfter
    <3>3. Starts(d, c.side) \in Nat
      BY <1>1, <2>1, Counts, CountIs
    <3>4. at'[d].call = at[d].call /\ Starts(d, c.side)' = Starts(d, c.side)
      BY <1>2, <2>1, <3>2, <3>3 DEF One
    <3> QED BY <2>1, <2>3, <3>4 DEF Tagged, IsCopy
  <2> QED BY <2>2, <2>3
<1>4. CASE c \notin copies
  <2>1. PICK s \in Sides, source \in {0, 1, Input}, slot \in {0, 1} :
           /\ st = {s} /\ c = NewCopy(d, s, source, slot)
           /\ slot = Starts(d, s) % 2
           /\ source = Input \/ source = 1 - slot
    BY <1>1, <1>4 DEF Started
  <2>2. /\ IsCopy(c) /\ c.from = d /\ c.side = s /\ c.call = at[d].call
        /\ c.slot = slot /\ c.source = source
    BY <1>1, <2>1, NewCopyIs
  <2>3. Starts(d, s) \in Nat
    BY <1>1, Counts, CountIs
  <2>4. Starts(d, s)' = Starts(d, s) + 1
    BY <1>2, <2>1, <2>3 DEF One
  <2>5. Starts(d, s)' >= 1 /\ slot = (Starts(d, s)' - 1) % 2
    BY <2>1, <2>3, <2>4
  <2> QED BY <1>2, <2>1, <2>2, <2>5 DEF Tagged, IsCopy
<1> QED BY <1>3, <1>4

\* A device that leaves its call has no copy left.
LEMMA TagsAfterLeaving ==
  ASSUME IInv, NEW d \in Devices, Stepped(d), copies' = copies,
         \A s \in Sides : Flight(d, s) = {}, NEW c \in copies'
  PROVE  Tagged(c)'
<1>1. Tagged(c) /\ c.from \in Devices /\ c.side \in Sides /\ Types
  BY DEF IInv, Tagged, IsCopy
<1>2. c.from # d
  BY <1>1 DEF Flight
<1>3. at'[c.from] = at[c.from] /\ Starts(c.from, c.side)' = Starts(c.from, c.side)
  BY <1>1, <1>2, OthersStay
<1> QED BY <1>1, <1>3 DEF Tagged, IsCopy

LEMMA BarriersAfter ==
  ASSUME IInv, SignalsSame, barrier' = barrier, second' = second, NEW e \in Devices
  PROVE  Barriers(e)'
<1>1. Barriers(e)
  BY DEF IInv
<1>2. Neighbor(e, left) \in Devices /\ Neighbor(e, right) \in Devices /\ left \in Sides /\ right \in Sides
  BY RingIs, SidesAre
<1> QED BY <1>1, <1>2 DEF Barriers, SignalsSame

StartedCounts(e) == started[e] = Starts(e, left) + Starts(e, right)

LEMMA StartedAfter ==
  ASSUME IInv, NEW d \in Devices, NEW st, NEW tk, NEW gr, NEW ta,
         Stepped(d), Within(d, st, tk, gr, ta),
         \/ st = {} /\ started' = started
         \/ \E s \in Sides : st = {s} /\ started' = [started EXCEPT ![d] = @ + 1],
         NEW e \in Devices
  PROVE  StartedCounts(e)' /\ started'[e] \in Int
<1>1. Types /\ started \in [Devices -> Int] /\ StartedCounts(e) /\ StartedCounts(d)
  BY DEF IInv, Types, StartedCounts
<1>2. /\ left \in Sides /\ right \in Sides /\ left # right /\ (\A s \in Sides : s = left \/ s = right)
  BY SidesAre
<1>3. CASE e # d
  <2>1. Starts(e, left)' = Starts(e, left) /\ Starts(e, right)' = Starts(e, right)
    BY <1>1, <1>2, <1>3, OthersStay
  <2>2. started'[e] = started[e]
    BY <1>1, <1>3
  <2> QED BY <1>1, <2>1, <2>2 DEF StartedCounts
<1>4. CASE e = d
  <2>1. /\ Starts(d, left)' = Starts(d, left) + One(left \in st)
        /\ Starts(d, right)' = Starts(d, right) + One(right \in st)
    BY <1>2 DEF Within
  <2>2. Starts(d, left) \in Nat /\ Starts(d, right) \in Nat
    BY <1>1, <1>2, Counts, CountIs
  <2>3. started'[d] = started[d] + One(left \in st) + One(right \in st)
    BY <1>1, <1>2 DEF One
  <2> QED BY <1>1, <1>4, <2>1, <2>2, <2>3 DEF StartedCounts, One
<1> QED BY <1>3, <1>4

-----------------------------------------------------------------------------
(* How far neighbours may be apart.                                         *)

\* A device that has started no copy on a side in its call holds the
\* neighbour there back.
LEMMA HeldBack ==
  ASSUME IInv, NEW d \in Devices, NEW s \in Sides, Starts(d, s) = 0
  PROVE  at[Neighbor(d, s)].call <= at[d].call
<1> DEFINE n == Neighbor(d, s)
<1>1. Types /\ Flow(d, s) /\ n \in Devices
  BY RingIs DEF IInv
<1>2. /\ at[d].call \in Nat /\ at[n].call \in Nat
      /\ Waits(n, s) \in 0..Count(s) /\ Starts(d, s) \in 0..Count(s) /\ Count(s) \in Nat /\ Count(s) >= 2
  BY <1>1, AtType, Counts, CountIs
<1>3. S(d, s) \in Nat /\ W(n, s) \in Nat
  BY <1>1, TotalsAreInt
<1>4. W(n, s) <= S(d, s)
  BY <1>1, <1>3 DEF Flow
<1>5. Base(at[n].call, s) + Waits(n, s) <= Base(at[d].call, s) + Starts(d, s)
  BY <1>4 DEF S, W
<1>6. at[n].call <= at[d].call \/ Starts(d, s) = Count(s)
  BY <1>2, <1>5, Lexicographic
<1> QED BY <1>2, <1>6

\* A device past the second barrier has its neighbours in its call, past
\* their first barrier, or further.
LEMMA Joined ==
  ASSUME IInv, NEW d \in Devices, at[d].step \notin Entering, NEW s \in Sides
  PROVE  LET n == Neighbor(d, s) IN
         /\ at[d].call <= at[n].call
         /\ at[n].call = at[d].call => at[n].step \notin {"enter", "enter_right", "barrier"}
<1> DEFINE l == Neighbor(d, left)
           r == Neighbor(d, right)
<1>1. Types /\ Barriers(d) /\ l \in Devices /\ r \in Devices
  BY RingIs, SidesAre DEF IInv
<1>2. at[d].call \in Nat /\ at[l].call \in Nat /\ at[r].call \in Nat
  BY <1>1, AtType
<1>3. SignalsSecond(l, right) >= WaitsSecond(d) /\ SignalsSecond(r, left) >= WaitsSecond(d)
  BY <1>1 DEF Barriers
<1>4. WaitsSecond(d) = at[d].call + 1
  BY DEF WaitsSecond, One
<1>5. ASSUME NEW n \in {l, r}, NEW t \in Sides, SignalsSecond(n, t) >= at[d].call + 1
      PROVE  /\ at[d].call <= at[n].call
             /\ at[n].call = at[d].call => at[n].step \notin {"enter", "enter_right", "barrier"}
  BY <1>2, <1>5 DEF SignalsSecond, One
<1>6. left \in Sides /\ right \in Sides /\ (s = left \/ s = right)
  BY SidesAre
<1>7. CASE s = left
  BY <1>3, <1>4, <1>5, <1>6, <1>7
<1>8. CASE s = right
  BY <1>3, <1>4, <1>5, <1>6, <1>8
<1> QED BY <1>6, <1>7, <1>8

\* The first copy of a side finds the neighbour in the same call, and everything
\* of the calls before received.
LEMMA FirstIsFree ==
  ASSUME IInv, NEW d \in Devices, at[d].step \notin Entering, NEW s \in Sides, Starts(d, s) = 0
  PROVE  S(d, s) = W(Neighbor(d, s), s)
<1> DEFINE n == Neighbor(d, s)
<1>1. Types /\ Flow(d, s) /\ n \in Devices
  BY RingIs DEF IInv
<1>2. at[d].call \in Nat /\ at[n].call \in Nat
  BY <1>1, AtType
<1>3. at[n].call = at[d].call
  BY <1>2, HeldBack, Joined
<1>4. Base(at[d].call, s) \in Nat /\ Waits(n, s) \in Nat
  BY <1>1, <1>2, BaseIs, Counts, CountIs
<1>5. S(d, s) = Base(at[d].call, s) /\ W(n, s) = Base(at[d].call, s) + Waits(n, s)
  BY <1>3, <1>4 DEF S, W
<1>6. S(d, s) = W(n, s) \/ S(d, s) = W(n, s) + 1
  BY <1>1 DEF Flow
<1> QED BY <1>4, <1>5, <1>6

LEMMA SendCounts ==
  ASSUME Types, NEW d \in Devices, at[d].step = "send"
  PROVE  LET t == at[d].phase IN
         /\ Starts(d, Other(t)) = Waits(d, Other(t))
         /\ t = right => Starts(d, left) = at[d].outer + 1 /\ Waits(d, right) = at[d].outer + 1
         /\ t = left => Starts(d, right) = at[d].outer /\ Waits(d, left) = at[d].outer + 1
<1>1. at[d].outer \in Nat /\ (at[d].phase = 0 \/ at[d].phase = 1)
  BY AtType, NAssumption DEF Sides, left, right
<1> QED BY <1>1 DEF Starts, Waits, StartsAt, WaitsAt, Entering, One, left, right, Other

\* A later copy follows a copy that came in from the neighbour it goes to, and
\* which that neighbour started only after it had received the one before.
LEMMA NextIsFree ==
  ASSUME IInv, NEW d \in Devices, at[d].step = "send"
  PROVE  LET s == Other(at[d].phase) IN S(d, s) = W(Neighbor(d, s), s)
<1> DEFINE t == at[d].phase
           s == Other(t)
           n == Neighbor(d, s)
<1>1. Types /\ t \in Sides /\ s \in Sides /\ Other(s) = t
  BY AtType, SidesAre DEF IInv
<1>2. n \in Devices /\ Neighbor(n, t) = d
  BY <1>1, RingIs
<1>3. Flow(d, s) /\ Flow(n, t)
  BY <1>1, <1>2 DEF IInv
<1>4. /\ S(d, s) \in Nat /\ W(n, s) \in Nat /\ S(n, t) \in Nat /\ W(d, t) \in Nat
      /\ at[d].call \in Nat /\ at[n].call \in Nat /\ at[d].outer \in Nat
  BY <1>1, <1>2, TotalsAreInt, AtType, NAssumption
<1>5. W(n, s) <= S(d, s) /\ W(d, t) <= S(n, t)
  BY <1>2, <1>3, <1>4 DEF Flow
<1>6. at[d].call <= at[n].call
  <2>1. at[d].step \notin Entering
    BY DEF Entering
  <2> QED BY <1>1, <2>1, Joined
<1>7. /\ \A u \in Sides : Starts(n, u) \in 0..Count(u) /\ Waits(n, u) \in 0..Count(u)
                          /\ Starts(d, u) \in 0..Count(u) /\ Waits(d, u) \in 0..Count(u)
      /\ Starts(n, left) <= Waits(n, right) + 1
      /\ Starts(n, right) <= Waits(n, left)
  BY <1>1, <1>2, Counts
<1>8. S(d, s) <= W(n, s)
  <2>1. CASE at[d].call < at[n].call
    <3>1. Starts(d, s) \in 0..Count(s) /\ Waits(n, s) \in 0..Count(s)
      BY <1>1, <1>7
    <3>2. Base(at[d].call, s) + Starts(d, s) <= Base(at[n].call, s) + Waits(n, s)
      BY <1>1, <1>4, <2>1, <3>1, Lexicographic
    <3> QED BY <3>2 DEF S, W
  <2>2. CASE at[d].call = at[n].call
    <3>1. Base(at[d].call, s) \in Nat /\ Base(at[d].call, t) \in Nat /\ Count(s) \in Nat /\ Count(t) \in Nat
      BY <1>1, <1>4, BaseIs, CountIs
    <3>2. Waits(d, t) \in Nat /\ Starts(n, t) \in Nat /\ Waits(n, s) \in Nat /\ Starts(d, s) \in Nat
      BY <1>1, <1>7, <3>1
    <3>3. Waits(d, t) <= Starts(n, t)
      BY <1>5, <2>2, <3>1, <3>2 DEF S, W
    <3>4. CASE t = right
      <4>1. s = left /\ Starts(d, left) = at[d].outer + 1 /\ Waits(d, right) = at[d].outer + 1
        BY <1>1, <3>4, SidesAre, SendCounts
      <4>2. Starts(d, s) <= Waits(n, s)
        BY <1>4, <1>7, <3>2, <3>3, <3>4, <4>1
      <4> QED BY <2>2, <3>1, <3>2, <4>2 DEF S, W
    <3>5. CASE t = left
      <4>1. s = right /\ Starts(d, right) = at[d].outer /\ Waits(d, left) = at[d].outer + 1
        BY <1>1, <3>5, SidesAre, SendCounts
      <4>2. Starts(d, s) <= Waits(n, s)
        BY <1>4, <1>7, <3>2, <3>3, <3>5, <4>1
      <4> QED BY <2>2, <3>1, <3>2, <4>2 DEF S, W
    <3> QED BY <1>1, <3>4, <3>5, SidesAre
  <2> QED BY <1>4, <1>6, <2>1, <2>2
<1> QED BY <1>4, <1>5, <1>8

\* The credits a device takes back before it leaves are granted when its last
\* copies have been received.
LEMMA LastIsReceived ==
  ASSUME IInv, NEW d \in Devices, at[d].step = "drain", at[d].phase = right, capacity[d][left] >= 1,
         NEW s \in Sides
  PROVE  Flight(d, s) = {}
<1> DEFINE n == Neighbor(d, s)
<1>1. Types /\ n \in Devices /\ Flow(d, s) /\ Credit(d, s) /\ Other(s) \in Sides
  BY RingIs, SidesAre DEF IInv
<1>2. at[d].outer = N - 1 /\ N \in Nat
  BY <1>1, AtType, NAssumption DEF Shape
<1>3. Starts(d, s) = Count(s) /\ Takes(d, s) + One(s = left) = Count(s)
  BY <1>2, LastPosition DEF Starts, Takes
<1>4. at[d].call \in Nat /\ at[n].call \in Nat /\ at[d].call <= at[n].call
  <2>1. at[d].step \notin Entering
    BY DEF Entering
  <2> QED BY <1>1, <2>1, Joined, AtType
<1>5. /\ Base(at[d].call, s) \in Nat /\ Base(at[n].call, s) \in Nat /\ Count(s) \in Nat
      /\ Grants(n, Other(s)) \in 0..Count(s) /\ Waits(n, s) \in 0..Count(s) /\ Takes(d, s) \in Nat
  <2>1. Other(Other(s)) = s
    BY SidesAre
  <2> QED BY <1>1, <1>4, <2>1, BaseIs, CountIs, Counts
<1>6. /\ capacity[d][s] = G(n, Other(s)) - T(d, s)
      /\ capacity[d][s] >= One(s = left)
  BY <1>1 DEF Credit, One
<1>7. G(n, Other(s)) = Base(at[n].call, s) + Grants(n, Other(s))
  <2>1. Other(Other(s)) = s
    BY SidesAre
  <2> QED BY <2>1 DEF G
<1>8. Base(at[d].call, s) + Count(s) <= Base(at[n].call, s) + Grants(n, Other(s))
  BY <1>3, <1>5, <1>6, <1>7 DEF T, One
<1>9. S(d, s) <= W(n, s)
  <2>1. CASE at[d].call = at[n].call
    <3>1. Grants(n, Other(s)) = Count(s)
      BY <1>5, <1>8, <2>1
    <3>2. Waits(n, s) = Count(s)
      BY <1>1, <3>1, Counts, SidesAre DEF Count
    <3> QED BY <1>3, <1>5, <2>1, <3>2 DEF S, W
  <2>2. CASE at[d].call < at[n].call
    <3>1. Base(at[d].call, s) + Count(s) <= Base(at[n].call, s)
      BY <1>4, <2>2, BaseMonotone
    <3> QED BY <1>3, <1>5, <3>1 DEF S, W
  <2> QED BY <1>4, <2>1, <2>2
<1>10. S(d, s) \in Nat /\ W(n, s) \in Nat
  BY <1>1, TotalsAreInt
<1> QED BY <1>1, <1>9, <1>10 DEF Flow

-----------------------------------------------------------------------------
(* The statements, one by one.                                              *)

LEMMA CellIs ==
  ASSUME NEW f \in [Devices -> [Sides -> Int]], NEW d \in Devices, NEW s \in Sides, NEW v \in Int
  PROVE  LET g == [f EXCEPT ![d][s] = v] IN
         /\ g \in [Devices -> [Sides -> Int]]
         /\ g[d][s] = v
         /\ \A e \in Devices, t \in Sides : ~(e = d /\ t = s) => g[e][t] = f[e][t]
<1> DEFINE g == [f EXCEPT ![d][s] = v]
<1>1. f[d] \in [Sides -> Int]
  OBVIOUS
<1>2. [f[d] EXCEPT ![s] = v] \in [Sides -> Int]
  BY <1>1
<1>3. g = [f EXCEPT ![d] = [f[d] EXCEPT ![s] = v]]
  OBVIOUS
<1>4. g \in [Devices -> [Sides -> Int]] /\ g[d] = [f[d] EXCEPT ![s] = v]
  BY <1>2, <1>3
<1>5. \A e \in Devices : e # d => g[e] = f[e]
  BY <1>3
<1>6. g[d][s] = v /\ \A t \in Sides : t # s => g[d][t] = f[d][t]
  BY <1>1, <1>4
<1> QED BY <1>4, <1>5, <1>6

VariablesTyped ==
  /\ barrier \in [Devices -> Int] /\ second \in [Devices -> Int]
  /\ capacity \in [Devices -> [Sides -> Int]]
  /\ sent \in [Devices -> [Sides -> Int]]
  /\ received \in [Devices -> [Sides -> Int]]
  /\ started \in [Devices -> Int]

LEMMA TakeCompletedIs ==
  ASSUME Types, NEW d \in Devices, NEW s \in Sides, TakeCompleted(d, s)
  PROVE  /\ sent' \in [Devices -> [Sides -> Int]] /\ received' \in [Devices -> [Sides -> Int]]
         /\ \A e \in Devices, t \in Sides :
              /\ sent'[e][t] = sent[e][t] - One(e = d /\ t \in {s})
              /\ received'[e][t] = received[e][t] - One(e = d /\ t \in {s})
<1>1. sent \in [Devices -> [Sides -> Int]] /\ received \in [Devices -> [Sides -> Int]]
  BY DEF Types
<1>2. sent[d][s] - 1 \in Int /\ received[d][s] - 1 \in Int
  BY <1>1
<1>3. /\ sent' = [sent EXCEPT ![d][s] = sent[d][s] - 1]
      /\ received' = [received EXCEPT ![d][s] = received[d][s] - 1]
  BY <1>1 DEF TakeCompleted
<1>4. /\ sent' \in [Devices -> [Sides -> Int]] /\ sent'[d][s] = sent[d][s] - 1
      /\ \A e \in Devices, t \in Sides : ~(e = d /\ t = s) => sent'[e][t] = sent[e][t]
  BY <1>1, <1>2, <1>3, CellIs
<1>5. /\ received' \in [Devices -> [Sides -> Int]] /\ received'[d][s] = received[d][s] - 1
      /\ \A e \in Devices, t \in Sides : ~(e = d /\ t = s) => received'[e][t] = received[e][t]
  BY <1>1, <1>2, <1>3, CellIs
<1>6. \A e \in Devices, t \in Sides : sent[e][t] \in Int /\ received[e][t] \in Int
  BY <1>1
<1> QED BY <1>4, <1>5, <1>6 DEF One

LEMMA TakeCapacityIs ==
  ASSUME Types, NEW d \in Devices, NEW s \in Sides, TakeCapacity(d, s)
  PROVE  /\ capacity' \in [Devices -> [Sides -> Int]]
         /\ capacity[d][s] >= 1
         /\ \A e \in Devices, t \in Sides :
              capacity'[e][t] = capacity[e][t] + One(Neighbor(e, t) = d /\ Other(t) \in {})
                                               - One(e = d /\ t \in {s})
<1>1. capacity \in [Devices -> [Sides -> Int]]
  BY DEF Types
<1>2. capacity' = [capacity EXCEPT ![d][s] = capacity[d][s] - 1] /\ capacity[d][s] - 1 \in Int
  BY <1>1 DEF TakeCapacity
<1>3. /\ capacity' \in [Devices -> [Sides -> Int]] /\ capacity'[d][s] = capacity[d][s] - 1
      /\ \A e \in Devices, t \in Sides : ~(e = d /\ t = s) => capacity'[e][t] = capacity[e][t]
  BY <1>1, <1>2, CellIs
<1>4. \A e \in Devices, t \in Sides : capacity[e][t] \in Int
  BY <1>1
<1> QED BY <1>3, <1>4 DEF TakeCapacity, One

LEMMA SignalCapacityIs ==
  ASSUME Types, NEW d \in Devices, NEW s \in Sides, SignalCapacity(d, s)
  PROVE  /\ capacity' \in [Devices -> [Sides -> Int]]
         /\ \A e \in Devices, t \in Sides :
              capacity'[e][t] = capacity[e][t] + One(Neighbor(e, t) = d /\ Other(t) \in {s})
                                               - One(e = d /\ t \in {})
<1> DEFINE n == Neighbor(d, s)
           o == Other(s)
<1>1. capacity \in [Devices -> [Sides -> Int]] /\ n \in Devices /\ o \in Sides
  BY RingIs, SidesAre DEF Types
<1>2. capacity' = [capacity EXCEPT ![n][o] = capacity[n][o] + 1] /\ capacity[n][o] + 1 \in Int
  BY <1>1 DEF SignalCapacity
<1>3. /\ capacity' \in [Devices -> [Sides -> Int]] /\ capacity'[n][o] = capacity[n][o] + 1
      /\ \A e \in Devices, t \in Sides : ~(e = n /\ t = o) => capacity'[e][t] = capacity[e][t]
  BY <1>1, <1>2, CellIs
<1>4. \A e \in Devices, t \in Sides : capacity[e][t] \in Int
  BY <1>1
<1>5. ASSUME NEW e \in Devices, NEW t \in Sides
      PROVE  (Neighbor(e, t) = d /\ Other(t) \in {s}) <=> (e = n /\ t = o)
  <2>1. ASSUME e = n, t = o PROVE Neighbor(e, t) = d /\ Other(t) = s
    BY <2>1, RingIs, SidesAre
  <2>2. ASSUME Neighbor(e, t) = d, Other(t) = s PROVE e = n /\ t = o
    <3>1. t = o /\ Other(t) = s
      BY <2>2, SidesAre
    <3>2. Neighbor(Neighbor(e, t), Other(t)) = e
      BY RingIs
    <3> QED BY <2>2, <3>1, <3>2
  <2> QED BY <2>1, <2>2
<1> QED BY <1>3, <1>4, <1>5 DEF One

\* A step whose every effect is in Acts and Within.
Ordinary(d, st, tk, gr, ta) ==
  /\ Acts(d, st, tk, gr, ta) /\ Within(d, st, tk, gr, ta) /\ SignalsSame
  /\ barrier' = barrier /\ second' = second /\ VariablesTyped'
  /\ \/ st = {} /\ started' = started
     \/ \E s \in Sides : st = {s} /\ started' = [started EXCEPT ![d] = @ + 1]

LEMMA OrdinaryStep ==
  ASSUME IInv, NEW d \in Devices, NEW st, NEW tk, NEW gr, NEW ta, Ordinary(d, st, tk, gr, ta)
  PROVE  IInv'
<1>1. /\ Acts(d, st, tk, gr, ta) /\ Within(d, st, tk, gr, ta) /\ Stepped(d) /\ Types
      /\ SignalsSame /\ barrier' = barrier /\ second' = second /\ VariablesTyped'
      /\ \/ st = {} /\ started' = started
         \/ \E s \in Sides : st = {s} /\ started' = [started EXCEPT ![d] = @ + 1]
  BY DEF Ordinary, Acts, IInv
<1>2. \A c \in copies' : Tagged(c)'
  BY <1>1, TagsAfter
<1>3. \A e \in Devices, t \in Sides : Flow(e, t)' /\ Own(e, t)' /\ Credit(e, t)'
  BY <1>1, FlowAfter, OwnAfter, CreditAfter
<1>4. \A e \in Devices : Barriers(e)'
  BY <1>1, BarriersAfter
<1>5. Types'
  <2>1. \A e \in Devices : StartedCounts(e)'
    BY <1>1, StartedAfter
  <2>2. \A e \in Devices : Shape(e)'
    BY <1>1, OthersStay DEF Stepped
  <2>3. at' \in [Devices -> [call : Nat, outer : 0..(N - 1), phase : Sides, step : Steps]]
    BY <1>1 DEF Stepped
  <2> QED BY <1>1, <2>1, <2>2, <2>3 DEF Types, VariablesTyped, StartedCounts
<1> QED BY <1>2, <1>3, <1>4, <1>5 DEF IInv

LEMMA NoCompletion ==
  ASSUME Types, NEW d \in Devices, sent' = sent, received' = received
  PROVE  \A e \in Devices, s \in Sides :
           /\ sent'[e][s] = sent[e][s] - One(e = d /\ s \in {})
           /\ received'[e][s] = received[e][s] - One(e = d /\ s \in {})
BY VariableTypes DEF One

LEMMA NoCredit ==
  ASSUME Types, NEW d \in Devices, capacity' = capacity
  PROVE  \A e \in Devices, s \in Sides :
           capacity'[e][s] = capacity[e][s] + One(Neighbor(e, s) = d /\ Other(s) \in {})
                                            - One(e = d /\ s \in {})
BY VariableTypes DEF One

LEMMA VariablesAreTyped == ASSUME Types PROVE VariablesTyped
BY DEF Types, VariablesTyped

LEMMA OneMoreIsTyped ==
  ASSUME VariablesTyped, NEW d \in Devices, started' = [started EXCEPT ![d] = @ + 1],
         sent' \in [Devices -> [Sides -> Int]], received' \in [Devices -> [Sides -> Int]],
         capacity' \in [Devices -> [Sides -> Int]], barrier' = barrier, second' = second
  PROVE  VariablesTyped'
<1>1. started \in [Devices -> Int] /\ barrier \in [Devices -> Int] /\ second \in [Devices -> Int]
  BY DEF VariablesTyped
<1>2. started' = [started EXCEPT ![d] = started[d] + 1] /\ started[d] + 1 \in Int
  BY <1>1
<1>3. started' \in [Devices -> Int]
  BY <1>1, <1>2
<1> QED BY <1>1, <1>3 DEF VariablesTyped

LEMMA FirstCopy ==
  ASSUME IInv, NEW d \in Devices, StartInitialLeft(d)
  PROVE  IInv'
<1>1. Types /\ VariablesTyped /\ at[d].step = "initial_left" /\ left \in Sides
  BY VariablesAreTyped, SidesAre DEF IInv, StartInitialLeft, At
<1>2. at[d].outer = 0 /\ at[d].phase = left /\ 0 \in 0..(N - 1)
  BY <1>1, AtType, NAssumption DEF Shape, Starting
<1>3. Placed(d, at[d].call, 0, left, "initial_right")
  BY <1>1, <1>2, GotoPlaces DEF StartInitialLeft
<1>4. Stepped(d) /\ Within(d, {left}, {}, {}, {}) /\ SignalsSame
  <2>1. "initial_right" \in Steps /\ at[d].step \notin Entering /\ "initial_right" \notin Entering
    BY <1>1 DEF Steps, Entering
  <2>2. Differ(at[d].outer, at[d].phase, at[d].step, 0, left, "initial_right", {left}, {}, {}, {})
    BY <1>1, <1>2, FirstPositions
  <2> QED BY <1>1, <1>2, <1>3, <2>1, <2>2, PlacedWithin
<1>5. /\ sent' = sent /\ received' = received /\ capacity' = capacity
      /\ barrier' = barrier /\ second' = second
      /\ started' = [started EXCEPT ![d] = @ + 1]
      /\ copies' = copies \cup {NewCopy(d, left, Input, 0)}
  BY DEF StartInitialLeft, StartCopy, counters, NewCopy, WorkingSlot
<1>6. Started(d, {left})
  <2>1. Starts(d, left) = 0 /\ Waits(d, left) = 0
    BY <1>1 DEF Starts, StartsAt, Waits, WaitsAt
  <2>2. S(d, left) = W(Neighbor(d, left), left)
    <3>1. at[d].step \notin Entering
      BY <1>1 DEF Entering
    <3> QED BY <1>1, <2>1, <3>1, FirstIsFree
  <2>3. S(d, left) = W(d, left)
    BY <2>1 DEF S, W
  <2>4. Input \in {0, 1, Input} /\ 0 \in {0, 1} /\ 0 = Starts(d, left) % 2
    BY <2>1
  <2> QED BY <1>1, <1>5, <2>2, <2>3, <2>4 DEF Started
<1>7. Acts(d, {left}, {}, {}, {})
  BY <1>1, <1>4, <1>5, <1>6, WithinMoves, NoCompletion, NoCredit DEF Acts
<1>8. VariablesTyped'
  BY <1>1, <1>5 DEF VariablesTyped
<1> QED BY <1>1, <1>4, <1>5, <1>7, <1>8, OrdinaryStep DEF Ordinary

LEMMA SecondCopy ==
  ASSUME IInv, NEW d \in Devices, StartInitialRight(d)
  PROVE  IInv'
<1>1. /\ Types /\ VariablesTyped /\ at[d].step = "initial_right"
      /\ left \in Sides /\ right \in Sides /\ left # right
  BY VariablesAreTyped, SidesAre DEF IInv, StartInitialRight, At
<1>2. at[d].outer = 0 /\ at[d].phase = left /\ 0 \in 0..(N - 1)
  BY <1>1, AtType, NAssumption DEF Shape, Starting
<1>3. Placed(d, at[d].call, 0, left, "grant_left")
  BY <1>1, <1>2, GotoPlaces DEF StartInitialRight
<1>4. Stepped(d) /\ Within(d, {right}, {left}, {}, {}) /\ SignalsSame
  <2>1. "grant_left" \in Steps /\ at[d].step \notin Entering /\ "grant_left" \notin Entering
    BY <1>1 DEF Steps, Entering
  <2>2. Differ(at[d].outer, at[d].phase, at[d].step, 0, left, "grant_left", {right}, {left}, {}, {})
    BY <1>1, <1>2, FirstPositions
  <2> QED BY <1>1, <1>2, <1>3, <2>1, <2>2, PlacedWithin
<1>5. /\ TakeCompleted(d, left) /\ capacity' = capacity
      /\ barrier' = barrier /\ second' = second
      /\ started' = [started EXCEPT ![d] = @ + 1]
      /\ copies' = copies \cup {NewCopy(d, right, Input, 0)}
      /\ sent[d][left] >= 1 /\ received[d][left] >= 1
  BY DEF StartInitialRight, StartCopy, NewCopy, WorkingSlot, Completed
<1>6. Started(d, {right})
  <2>1. Starts(d, right) = 0 /\ Waits(d, right) = 0
    BY <1>1 DEF Starts, StartsAt, Waits, WaitsAt, Entering, One, left, right
  <2>2. S(d, right) = W(Neighbor(d, right), right)
    <3>1. at[d].step \notin Entering
      BY <1>1 DEF Entering
    <3> QED BY <1>1, <2>1, <3>1, FirstIsFree
  <2>3. S(d, right) = W(d, right)
    BY <2>1 DEF S, W
  <2>4. Input \in {0, 1, Input} /\ 0 \in {0, 1} /\ 0 = Starts(d, right) % 2
    BY <2>1
  <2> QED BY <1>1, <1>5, <2>2, <2>3, <2>4 DEF Started
<1>7. /\ sent' \in [Devices -> [Sides -> Int]] /\ received' \in [Devices -> [Sides -> Int]]
      /\ \A e \in Devices, t \in Sides :
           /\ sent'[e][t] = sent[e][t] - One(e = d /\ t \in {left})
           /\ received'[e][t] = received[e][t] - One(e = d /\ t \in {left})
  BY <1>1, <1>5, TakeCompletedIs
<1>8. Acts(d, {right}, {left}, {}, {})
  <2>1. {left} \cap {right} = {} /\ (\A s \in Sides \cap {left} : s = left) /\ Sides \cap {} = {}
    BY <1>1
  <2>2. Moves(d, {right}, {left}, {}, {})
    BY <1>1, <1>4, WithinMoves
  <2>3. \A e \in Devices, s \in Sides :
          capacity'[e][s] = capacity[e][s] + One(Neighbor(e, s) = d /\ Other(s) \in {})
                                           - One(e = d /\ s \in {})
    BY <1>1, <1>5, NoCredit
  <2>4. \A s \in Sides \cap {left} : sent[d][s] >= 1 /\ received[d][s] >= 1
    BY <1>5, <2>1
  <2>5. \A s \in Sides \cap {} : capacity[d][s] >= 1
    OBVIOUS
  <2>6. \A e \in Devices, s \in Sides :
          /\ sent'[e][s] = sent[e][s] - One(e = d /\ s \in {left})
          /\ received'[e][s] = received[e][s] - One(e = d /\ s \in {left})
          /\ capacity'[e][s] = capacity[e][s] + One(Neighbor(e, s) = d /\ Other(s) \in {})
                                           - One(e = d /\ s \in {})
    BY <1>7, <2>3
  <2> QED BY <1>4, <1>6, <2>1, <2>2, <2>4, <2>5, <2>6 DEF Acts
<1>9. VariablesTyped'
  <2>1. capacity' \in [Devices -> [Sides -> Int]]
    BY <1>1, <1>5 DEF VariablesTyped
  <2> QED BY <1>1, <1>5, <1>7, <2>1, OneMoreIsTyped
<1>10. Ordinary(d, {right}, {left}, {}, {})
  <2>1. \E s \in Sides : {right} = {s} /\ started' = [started EXCEPT ![d] = @ + 1]
    BY <1>1, <1>5
  <2> QED BY <1>4, <1>5, <1>8, <1>9, <2>1 DEF Ordinary
<1> QED BY <1>10, OrdinaryStep

LEMMA FirstCredit ==
  ASSUME IInv, NEW d \in Devices, GrantCapacity(d)
  PROVE  IInv'
<1>1. /\ Types /\ VariablesTyped /\ left \in Sides /\ right \in Sides
      /\ sent' = sent /\ received' = received /\ barrier' = barrier /\ second' = second
      /\ copies' = copies /\ started' = started
  BY VariablesAreTyped, SidesAre DEF IInv, GrantCapacity
<1>2. ASSUME NEW s \in Sides, NEW step \in {"grant_right", "load"}, SignalCapacity(d, s), Goto(d, step),
             Differ(0, left, at[d].step, 0, left, step, {}, {}, {s}, {}),
             at[d].step \in {"grant_left", "grant_right"}
      PROVE  IInv'
  <2>1. at[d].outer = 0 /\ at[d].phase = left /\ 0 \in 0..(N - 1)
    BY <1>1, <1>2, AtType, NAssumption DEF Shape, Starting
  <2>2. Placed(d, at[d].call, 0, left, step)
    BY <1>1, <1>2, <2>1, GotoPlaces
  <2>3. Stepped(d) /\ Within(d, {}, {}, {s}, {}) /\ SignalsSame
    <3>1. step \in Steps /\ at[d].step \notin Entering /\ step \notin Entering
          /\ step \notin {"send", "release", "drain"}
      BY <1>2 DEF Steps, Entering
    <3> QED BY <1>1, <1>2, <2>1, <2>2, <3>1, PlacedWithin
  <2>4. /\ capacity' \in [Devices -> [Sides -> Int]]
        /\ \A e \in Devices, t \in Sides :
             capacity'[e][t] = capacity[e][t] + One(Neighbor(e, t) = d /\ Other(t) \in {s})
                                              - One(e = d /\ t \in {})
    BY <1>1, <1>2, SignalCapacityIs
  <2>5. Acts(d, {}, {}, {s}, {})
    BY <1>1, <2>3, <2>4, WithinMoves, NoCompletion DEF Acts, Started
  <2>6. VariablesTyped'
    BY <1>1, <2>4 DEF VariablesTyped
  <2> QED BY <1>1, <2>3, <2>5, <2>6, OrdinaryStep DEF Ordinary
<1>3. CASE At(d, "grant_left") /\ SignalCapacity(d, left) /\ Goto(d, "grant_right")
  BY <1>1, <1>2, <1>3, FirstPositions DEF At
<1>4. CASE At(d, "grant_right") /\ SignalCapacity(d, right) /\ Goto(d, "load")
  BY <1>1, <1>2, <1>4, FirstPositions DEF At
<1> QED BY <1>3, <1>4 DEF GrantCapacity

\* _send.
LEMMA NextCopy ==
  ASSUME IInv, NEW d \in Devices, Send(d)
  PROVE  IInv'
<1> DEFINE p == at[d].phase
           o == at[d].outer
           s == Other(p)
<1>1. /\ Types /\ VariablesTyped /\ at[d].step = "send" /\ p \in Sides /\ s \in Sides /\ s # p
      /\ o \in 0..(N - 1) /\ ~(o = 0 /\ p = left)
  BY VariablesAreTyped, SidesAre, AtType DEF IInv, Send, At, Shape
<1>2. Placed(d, at[d].call, o, p, "load")
  BY <1>1, GotoPlaces DEF Send
<1>3. Stepped(d) /\ Within(d, {s}, {}, {}, {s}) /\ SignalsSame
  <2>1. "load" \in Steps /\ at[d].step \notin Entering /\ "load" \notin Entering \cup Starting
        /\ "load" \notin {"send", "release", "drain"}
    BY <1>1 DEF Steps, Entering, Starting
  <2>2. Differ(o, p, at[d].step, o, p, "load", {s}, {}, {}, {s})
    BY <1>1, LaterPositions
  <2> QED BY <1>1, <1>2, <2>1, <2>2, PlacedWithin
<1>4. /\ TakeCapacity(d, s) /\ sent' = sent /\ received' = received
      /\ barrier' = barrier /\ second' = second
      /\ started' = [started EXCEPT ![d] = @ + 1]
      /\ copies' = copies \cup {NewCopy(d, s, CopySource(s, o), CopyTarget(s, o))}
  BY DEF Send, StartCopy, NewCopy
<1>5. Started(d, {s})
  <2>1. Starts(d, s) = Waits(d, s)
        /\ (p = right => Starts(d, left) = o + 1) /\ (p = left => Starts(d, right) = o)
    BY <1>1, SendCounts
  <2>2. S(d, s) = W(Neighbor(d, s), s)
    BY <1>1, NextIsFree
  <2>3. S(d, s) = W(d, s)
    BY <2>1 DEF S, W
  <2>4. /\ CopySource(s, o) \in {0, 1} /\ CopyTarget(s, o) \in {0, 1}
        /\ CopySource(s, o) = 1 - CopyTarget(s, o)
        /\ CopyTarget(s, o) = Starts(d, s) % 2
    <3>1. o \in Nat /\ (o % 2 = 0 \/ o % 2 = 1) /\ (o + 1) % 2 = 1 - (o % 2)
      BY <1>1, NAssumption
    <3>2. CASE p = right
      <4>1. s = left /\ s # right /\ Starts(d, s) = o + 1
        BY <2>1, <3>2, SidesAre
      <4> QED BY <3>1, <4>1 DEF CopySource, CopyTarget, WorkingSlot
    <3>3. CASE p = left
      <4>1. s = right /\ Starts(d, s) = o
        BY <2>1, <3>3, SidesAre
      <4> QED BY <3>1, <4>1 DEF CopySource, CopyTarget, ReceivingSlot, WorkingSlot
    <3> QED BY <1>1, <3>2, <3>3, SidesAre
  <2> QED BY <1>1, <1>4, <2>2, <2>3, <2>4 DEF Started
<1>6. /\ capacity' \in [Devices -> [Sides -> Int]] /\ capacity[d][s] >= 1
      /\ \A e \in Devices, t \in Sides :
           capacity'[e][t] = capacity[e][t] + One(Neighbor(e, t) = d /\ Other(t) \in {})
                                            - One(e = d /\ t \in {s})
  BY <1>1, <1>4, TakeCapacityIs
<1>7. Acts(d, {s}, {}, {}, {s})
  <2>1. Moves(d, {s}, {}, {}, {s})
    BY <1>1, <1>3, WithinMoves
  <2>2. {} \cap {s} = {} /\ Sides \cap {} = {} /\ \A t \in Sides \cap {s} : capacity[d][t] >= 1
    BY <1>6
  <2>3. \A e \in Devices, t \in Sides :
          /\ sent'[e][t] = sent[e][t] - One(e = d /\ t \in {})
          /\ received'[e][t] = received[e][t] - One(e = d /\ t \in {})
          /\ capacity'[e][t] = capacity[e][t] + One(Neighbor(e, t) = d /\ Other(t) \in {})
                                              - One(e = d /\ t \in {s})
    BY <1>1, <1>4, <1>6, NoCompletion
  <2> QED BY <1>3, <1>5, <2>1, <2>2, <2>3 DEF Acts
<1>8. VariablesTyped'
  <2>1. sent' \in [Devices -> [Sides -> Int]] /\ received' \in [Devices -> [Sides -> Int]]
    BY <1>1, <1>4 DEF VariablesTyped
  <2> QED BY <1>1, <1>4, <1>6, <2>1, OneMoreIsTyped
<1>9. Ordinary(d, {s}, {}, {}, {s})
  <2>1. \E t \in Sides : {s} = {t} /\ started' = [started EXCEPT ![d] = @ + 1]
    BY <1>1, <1>4
  <2> QED BY <1>3, <1>4, <1>7, <1>8, <2>1 DEF Ordinary
<1> QED BY <1>9, OrdinaryStep

\* The local copies and the accumulation.
LEMMA LocalWork ==
  ASSUME IInv, NEW d \in Devices, Load(d) \/ Store(d)
  PROVE  IInv'
<1> DEFINE p == at[d].phase
           o == at[d].outer
<1>1. Types /\ VariablesTyped /\ p \in Sides /\ o \in 0..(N - 1)
  BY VariablesAreTyped, AtType DEF IInv
<1>2. PICK step \in {"store", "finish"} :
        Goto(d, step) /\ Differ(o, p, at[d].step, o, p, step, {}, {}, {}, {})
        /\ at[d].step \in {"load", "store"}
  BY <1>1, LaterPositions DEF Load, Store, At
<1>3. /\ sent' = sent /\ received' = received /\ capacity' = capacity /\ barrier' = barrier
      /\ second' = second /\ started' = started /\ copies' = copies
  BY DEF Load, Store, counters
<1>4. Placed(d, at[d].call, o, p, step)
  BY <1>1, <1>2, GotoPlaces
<1>5. Stepped(d) /\ Within(d, {}, {}, {}, {}) /\ SignalsSame
  <2>1. step \in Steps /\ at[d].step \notin Entering /\ step \notin Entering \cup Starting
        /\ step \notin {"send", "release", "drain"}
    BY <1>2 DEF Steps, Entering, Starting
  <2> QED BY <1>1, <1>2, <1>4, <2>1, PlacedWithin
<1>6. Acts(d, {}, {}, {}, {})
  BY <1>1, <1>3, <1>5, WithinMoves, NoCompletion, NoCredit DEF Acts, Started
<1>7. VariablesTyped'
  BY <1>1, <1>3 DEF VariablesTyped
<1> QED BY <1>3, <1>5, <1>6, <1>7, OrdinaryStep DEF Ordinary

\* _finish_initial_right and the wait of _finish_send.
LEMMA CopyDone ==
  ASSUME IInv, NEW d \in Devices, Finish(d)
  PROVE  IInv'
<1> DEFINE p == at[d].phase
           o == at[d].outer
           s == Other(p)
<1>1. /\ Types /\ VariablesTyped /\ at[d].step = "finish" /\ p \in Sides /\ s \in Sides
      /\ o \in 0..(N - 1) /\ left \in Sides /\ right \in Sides /\ right # left
      /\ Other(left) = right /\ (0 \in 0..(N - 1))
  BY VariablesAreTyped, SidesAre, AtType, NAssumption DEF IInv, Finish, At
<1>2. Stepped(d) /\ Within(d, {}, {s}, {}, {}) /\ SignalsSame
  <2>1. at[d].step \notin Entering /\ {"send", "release"} \subseteq Steps
        /\ "send" \notin Entering \cup Starting /\ "release" \notin Entering \cup Starting
    BY <1>1 DEF Steps, Entering, Starting
  <2>2. CASE IsStart(d)
    <3>1. o = 0 /\ p = left /\ s = right /\ Advance(d)
      BY <1>1, <2>2 DEF IsStart, Finish
    <3>2. Placed(d, at[d].call, 0, right, "send")
      BY <1>1, <3>1, AdvancePlaces
    <3>3. Differ(o, p, at[d].step, 0, right, "send", {}, {s}, {}, {})
      BY <1>1, <3>1, FirstPositions
    <3> QED BY <1>1, <2>1, <3>2, <3>3, PlacedWithin
  <2>3. CASE ~IsStart(d)
    <3>1. ~(o = 0 /\ p = left) /\ Goto(d, "release")
      BY <1>1, <2>3 DEF IsStart, Finish
    <3>2. Placed(d, at[d].call, o, p, "release")
      BY <1>1, <3>1, GotoPlaces
    <3>3. Differ(o, p, at[d].step, o, p, "release", {}, {s}, {}, {})
      BY <1>1, LaterPositions
    <3> QED BY <1>1, <2>1, <3>1, <3>2, <3>3, PlacedWithin
  <2> QED BY <2>2, <2>3
<1>3. /\ TakeCompleted(d, s) /\ capacity' = capacity /\ barrier' = barrier
      /\ second' = second /\ started' = started /\ copies' = copies
      /\ sent[d][s] >= 1 /\ received[d][s] >= 1
  BY DEF Finish, Completed
<1>4. /\ sent' \in [Devices -> [Sides -> Int]] /\ received' \in [Devices -> [Sides -> Int]]
      /\ \A e \in Devices, t \in Sides :
           /\ sent'[e][t] = sent[e][t] - One(e = d /\ t \in {s})
           /\ received'[e][t] = received[e][t] - One(e = d /\ t \in {s})
  BY <1>1, <1>3, TakeCompletedIs
<1>5. Acts(d, {}, {s}, {}, {})
  <2>1. Moves(d, {}, {s}, {}, {})
    BY <1>1, <1>2, WithinMoves
  <2>2. {s} \cap {} = {} /\ Sides \cap {} = {}
        /\ \A t \in Sides \cap {s} : sent[d][t] >= 1 /\ received[d][t] >= 1
    BY <1>3
  <2>3. \A e \in Devices, t \in Sides :
          /\ sent'[e][t] = sent[e][t] - One(e = d /\ t \in {s})
          /\ received'[e][t] = received[e][t] - One(e = d /\ t \in {s})
          /\ capacity'[e][t] = capacity[e][t] + One(Neighbor(e, t) = d /\ Other(t) \in {})
                                              - One(e = d /\ t \in {})
    BY <1>1, <1>3, <1>4, NoCredit
  <2> QED BY <1>2, <1>3, <2>1, <2>2, <2>3 DEF Acts, Started
<1>6. VariablesTyped'
  BY <1>1, <1>3, <1>4 DEF VariablesTyped
<1>7. Ordinary(d, {}, {s}, {}, {})
  BY <1>2, <1>3, <1>5, <1>6 DEF Ordinary
<1> QED BY <1>7, OrdinaryStep

\* _finish_send: the credit for the slot just received from.
LEMMA NextCredit ==
  ASSUME IInv, NEW d \in Devices, Release(d)
  PROVE  IInv'
<1> DEFINE p == at[d].phase
           o == at[d].outer
<1>1. /\ Types /\ VariablesTyped /\ at[d].step = "release" /\ p \in Sides
      /\ o \in 0..(N - 1) /\ ~(o = 0 /\ p = left) /\ right \in Sides /\ left \in Sides
      /\ (p = left \/ p = right)
  BY VariablesAreTyped, SidesAre, AtType DEF IInv, Release, At, Shape
<1>2. Stepped(d) /\ Within(d, {}, {}, {p}, {}) /\ SignalsSame
  <2>1. at[d].step \notin Entering /\ {"send", "drain"} \subseteq Steps
        /\ "send" \notin Entering \cup Starting /\ "drain" \notin Entering \cup Starting
    BY <1>1 DEF Steps, Entering, Starting
  <2>2. CASE IsLast(d)
    <3>1. o = N - 1 /\ Goto(d, "drain")
      BY <2>2 DEF IsLast, Release
    <3>2. Placed(d, at[d].call, o, p, "drain")
      BY <1>1, <3>1, GotoPlaces
    <3>3. Differ(o, p, at[d].step, o, p, "drain", {}, {}, {p}, {})
      BY <1>1, <3>1, LaterPositions
    <3> QED BY <1>1, <2>1, <3>1, <3>2, <3>3, PlacedWithin
  <2>3. CASE ~IsLast(d) /\ p = left
    <3>1. o # 0 /\ o # N - 1 /\ Advance(d)
      BY <1>1, <2>3 DEF IsLast, Release
    <3>2. Placed(d, at[d].call, o, right, "send")
      BY <1>1, <2>3, <3>1, AdvancePlaces
    <3>3. Differ(o, left, "release", o, right, "send", {}, {}, {left}, {})
      BY <1>1, <3>1, LaterPositions
    <3>4. Differ(o, p, at[d].step, o, right, "send", {}, {}, {p}, {})
      BY <1>1, <2>3, <3>3
    <3>5. ~(o = 0 /\ right = left)
      BY <3>1
    <3> QED BY <1>1, <2>1, <3>1, <3>2, <3>4, <3>5, PlacedWithin
  <2>4. CASE ~IsLast(d) /\ p = right
    <3>1. o # N - 1 /\ Advance(d) /\ o + 1 \in 0..(N - 1) /\ o + 1 # 0
      BY <1>1, <2>4, NAssumption DEF IsLast, Release
    <3>2. Placed(d, at[d].call, o + 1, left, "send")
      BY <1>1, <2>4, <3>1, AdvancePlaces
    <3>3. Differ(o, right, "release", o + 1, left, "send", {}, {}, {right}, {})
      BY <1>1, <3>1, LaterPositions
    <3>4. Differ(o, p, at[d].step, o + 1, left, "send", {}, {}, {p}, {})
      BY <1>1, <2>4, <3>3
    <3> QED BY <1>1, <2>1, <3>1, <3>2, <3>4, PlacedWithin
  <2> QED BY <1>1, <2>2, <2>3, <2>4
<1>3. /\ SignalCapacity(d, p) /\ sent' = sent /\ received' = received /\ barrier' = barrier
      /\ second' = second /\ started' = started /\ copies' = copies
  BY DEF Release
<1>4. /\ capacity' \in [Devices -> [Sides -> Int]]
      /\ \A e \in Devices, t \in Sides :
           capacity'[e][t] = capacity[e][t] + One(Neighbor(e, t) = d /\ Other(t) \in {p})
                                            - One(e = d /\ t \in {})
  BY <1>1, <1>3, SignalCapacityIs
<1>5. Acts(d, {}, {}, {p}, {})
  <2>1. Moves(d, {}, {}, {p}, {})
    BY <1>1, <1>2, WithinMoves
  <2>2. \A e \in Devices, t \in Sides :
          /\ sent'[e][t] = sent[e][t] - One(e = d /\ t \in {})
          /\ received'[e][t] = received[e][t] - One(e = d /\ t \in {})
          /\ capacity'[e][t] = capacity[e][t] + One(Neighbor(e, t) = d /\ Other(t) \in {p})
                                              - One(e = d /\ t \in {})
    BY <1>1, <1>3, <1>4, NoCompletion
  <2> QED BY <1>2, <1>3, <2>1, <2>2 DEF Acts, Started
<1>6. VariablesTyped'
  BY <1>1, <1>3, <1>4 DEF VariablesTyped
<1>7. Ordinary(d, {}, {}, {p}, {})
  BY <1>2, <1>3, <1>5, <1>6 DEF Ordinary
<1> QED BY <1>7, OrdinaryStep

\* _store_result of the left phase.
LEMMA FirstHalfStored ==
  ASSUME IInv, NEW d \in Devices, Drain(d), at[d].phase = left
  PROVE  IInv'
<1> DEFINE o == at[d].outer
<1>1. /\ Types /\ VariablesTyped /\ at[d].step = "drain" /\ o \in 0..(N - 1) /\ o = N - 1
      /\ right \in Sides /\ left \in Sides /\ left # right /\ Other(left) = right
  BY VariablesAreTyped, SidesAre, AtType DEF IInv, Drain, At, Shape
<1>2. Stepped(d) /\ Within(d, {}, {}, {}, {right}) /\ SignalsSame
  <2>1. at[d].step \notin Entering /\ "send" \in Steps /\ "send" \notin Entering \cup Starting
    BY <1>1 DEF Steps, Entering, Starting
  <2>2. Placed(d, at[d].call, o, right, "send")
    BY <1>1, AdvancePlaces DEF Drain
  <2>3. Differ(o, left, "drain", o, right, "send", {}, {}, {}, {right})
    BY <1>1, LaterPositions
  <2>4. ~(o = 0 /\ right = left)
    BY <1>1
  <2>5. Differ(o, at[d].phase, at[d].step, o, right, "send", {}, {}, {}, {right})
    BY <1>1, <2>3
  <2> QED BY <1>1, <2>1, <2>2, <2>4, <2>5, PlacedWithin
<1>3. /\ TakeCapacity(d, right) /\ sent' = sent /\ received' = received /\ barrier' = barrier
      /\ second' = second /\ copies' = copies
      /\ started' = [started EXCEPT ![d] = IF at[d].phase = right THEN 0 ELSE @]
  BY <1>1 DEF Drain
<1>4. started' = started
  BY <1>1, <1>3 DEF VariablesTyped
<1>5. /\ capacity' \in [Devices -> [Sides -> Int]] /\ capacity[d][right] >= 1
      /\ \A e \in Devices, t \in Sides :
           capacity'[e][t] = capacity[e][t] + One(Neighbor(e, t) = d /\ Other(t) \in {})
                                            - One(e = d /\ t \in {right})
  BY <1>1, <1>3, TakeCapacityIs
<1>6. Acts(d, {}, {}, {}, {right})
  <2>1. Moves(d, {}, {}, {}, {right})
    BY <1>1, <1>2, WithinMoves
  <2>2. Sides \cap {} = {} /\ \A t \in Sides \cap {right} : capacity[d][t] >= 1
    BY <1>5
  <2>3. \A e \in Devices, t \in Sides :
          /\ sent'[e][t] = sent[e][t] - One(e = d /\ t \in {})
          /\ received'[e][t] = received[e][t] - One(e = d /\ t \in {})
          /\ capacity'[e][t] = capacity[e][t] + One(Neighbor(e, t) = d /\ Other(t) \in {})
                                              - One(e = d /\ t \in {right})
    BY <1>1, <1>3, <1>5, NoCompletion
  <2> QED BY <1>2, <1>3, <2>1, <2>2, <2>3 DEF Acts, Started
<1>7. VariablesTyped'
  BY <1>1, <1>3, <1>4, <1>5 DEF VariablesTyped
<1>8. Ordinary(d, {}, {}, {}, {right})
  BY <1>2, <1>3, <1>4, <1>6, <1>7 DEF Ordinary
<1> QED BY <1>8, OrdinaryStep

\* _store_result of the right phase, after which the device leaves its call.
LEMMA SecondHalfStored ==
  ASSUME IInv, NEW d \in Devices, Drain(d), at[d].phase = right
  PROVE  IInv'
<1> DEFINE k == at[d].call
<1>1. /\ Types /\ VariablesTyped /\ at[d].step = "drain" /\ at[d].outer = N - 1 /\ k \in Nat
      /\ right \in Sides /\ left \in Sides /\ left # right /\ Other(right) = left
  BY VariablesAreTyped, SidesAre, AtType DEF IInv, Drain, At, Shape
<1>2. /\ at' \in [Devices -> [call : Nat, outer : 0..(N - 1), phase : Sides, step : Steps]]
      /\ at'[d].call = k + 1 /\ at'[d].outer = 0 /\ at'[d].phase = left /\ at'[d].step = "enter"
      /\ \A e \in Devices : e # d => at'[e] = at[e]
  <2>1. Placed(d, k + 1, 0, left, "enter")
    <3>1. Advance(d) /\ IsLast(d)
      BY <1>1 DEF Drain, IsLast
    <3> QED BY <1>1, <3>1, AdvancePlaces
  <2>2. k + 1 \in Nat /\ 0 \in 0..(N - 1) /\ "enter" \in Steps
    BY <1>1, NAssumption DEF Steps
  <2> QED BY <1>1, <2>1, <2>2, PlacedIs
<1>3. Stepped(d)
  BY <1>2 DEF Stepped, Shape, Entering
<1>4. ASSUME NEW s \in Sides
      PROVE  /\ Starts(d, s) = Count(s) /\ Waits(d, s) = Count(s)
             /\ Grants(d, s) = Count(Other(s)) /\ Takes(d, s) + One(s = left) = Count(s)
             /\ Starts(d, s)' = 0 /\ Waits(d, s)' = 0 /\ Grants(d, s)' = 0 /\ Takes(d, s)' = 0
  BY <1>1, <1>2, LastPosition DEF Starts, Waits, Grants, Takes
<1>5. Moves(d, {}, {}, {}, {left})
  <2> SUFFICES ASSUME NEW e \in Devices, NEW s \in Sides
               PROVE  /\ S(e, s)' = S(e, s) + One(e = d /\ s \in {})
                      /\ W(e, s)' = W(e, s) + One(e = d /\ s \in {})
                      /\ G(e, s)' = G(e, s) + One(e = d /\ s \in {})
                      /\ T(e, s)' = T(e, s) + One(e = d /\ s \in {left})
    BY DEF Moves
  <2>1. S(e, s) \in Nat /\ W(e, s) \in Nat /\ G(e, s) \in Nat /\ T(e, s) \in Nat
    BY <1>1, TotalsAreInt
  <2>2. CASE e # d
    <3>1. S(e, s)' = S(e, s) /\ W(e, s)' = W(e, s) /\ G(e, s)' = G(e, s) /\ T(e, s)' = T(e, s)
      BY <1>1, <1>3, <2>2, OthersStay
    <3> QED BY <2>1, <2>2, <3>1 DEF One
  <2>3. CASE e = d
    <3>1. /\ Base(k, s) \in Nat /\ Base(k, Other(s)) \in Nat /\ Takes(d, s) \in Nat
          /\ Base(k + 1, s) = Base(k, s) + Count(s)
          /\ Base(k + 1, Other(s)) = Base(k, Other(s)) + Count(Other(s))
          /\ Count(s) \in Nat /\ Count(Other(s)) \in Nat
      BY <1>1, BaseIs, CountIs, SidesAre, Counts
    <3>2. /\ Base(at[d].call, s)' = Base(k + 1, s)
          /\ Base(at[d].call, Other(s))' = Base(k + 1, Other(s))
      BY <1>2 DEF Base, Count
    <3>3. S(d, s)' = S(d, s) /\ W(d, s)' = W(d, s)
      BY <1>4, <3>1, <3>2 DEF S, W
    <3>4. G(d, s)' = G(d, s)
      BY <1>4, <3>1, <3>2 DEF G
    <3>5. T(d, s)' = T(d, s) + One(s = left)
      BY <1>4, <3>1, <3>2 DEF T, One
    <3> QED BY <2>1, <2>3, <3>3, <3>4, <3>5 DEF One
  <2> QED BY <2>2, <2>3
<1>6. SignalsSame
  <2> SUFFICES ASSUME NEW e \in Devices
               PROVE  /\ \A s \in Sides : /\ SignalsFirst(e, s)' = SignalsFirst(e, s)
                                          /\ SignalsSecond(e, s)' = SignalsSecond(e, s)
                      /\ WaitsFirst(e)' = WaitsFirst(e) /\ WaitsSecond(e)' = WaitsSecond(e)
    BY DEF SignalsSame
  <2>1. CASE e # d
    BY <1>1, <1>3, <2>1, OthersStay
  <2>2. CASE e = d
    BY <1>1, <1>2, <2>2 DEF SignalsFirst, SignalsSecond, WaitsFirst, WaitsSecond, Entering, One
  <2> QED BY <2>1, <2>2
<1>7. /\ TakeCapacity(d, left) /\ sent' = sent /\ received' = received /\ barrier' = barrier
      /\ second' = second /\ copies' = copies
      /\ started' = [started EXCEPT ![d] = 0]
  BY <1>1 DEF Drain
<1>8. /\ capacity' \in [Devices -> [Sides -> Int]] /\ capacity[d][left] >= 1
      /\ \A e \in Devices, t \in Sides :
           capacity'[e][t] = capacity[e][t] + One(Neighbor(e, t) = d /\ Other(t) \in {})
                                            - One(e = d /\ t \in {left})
  BY <1>1, <1>7, TakeCapacityIs
<1>9. Acts(d, {}, {}, {}, {left})
  <2>1. Sides \cap {} = {} /\ \A t \in Sides \cap {left} : capacity[d][t] >= 1
    BY <1>8
  <2>2. \A e \in Devices, t \in Sides :
          /\ sent'[e][t] = sent[e][t] - One(e = d /\ t \in {})
          /\ received'[e][t] = received[e][t] - One(e = d /\ t \in {})
          /\ capacity'[e][t] = capacity[e][t] + One(Neighbor(e, t) = d /\ Other(t) \in {})
                                              - One(e = d /\ t \in {left})
    BY <1>1, <1>7, <1>8, NoCompletion
  <2> QED BY <1>3, <1>5, <1>7, <2>1, <2>2 DEF Acts, Started
<1>10. \A c \in copies' : Tagged(c)'
  <2>1. \A s \in Sides : Flight(d, s) = {}
    BY <1>1, <1>8, LastIsReceived
  <2> QED BY <1>3, <1>7, <2>1, TagsAfterLeaving
<1>11. \A e \in Devices, t \in Sides : Flow(e, t)' /\ Own(e, t)' /\ Credit(e, t)'
  BY <1>9, FlowAfter, OwnAfter, CreditAfter
<1>12. \A e \in Devices : Barriers(e)'
  BY <1>6, <1>7, BarriersAfter
<1>13. Types'
  <2>1. \A e \in Devices : Shape(e)' /\ StartedCounts(e)'
    <3> SUFFICES ASSUME NEW e \in Devices PROVE Shape(e)' /\ StartedCounts(e)'
      OBVIOUS
    <3>1. CASE e # d
      <4>1. Shape(e)' /\ Starts(e, left)' = Starts(e, left) /\ Starts(e, right)' = Starts(e, right)
        BY <1>1, <1>3, <3>1, OthersStay
      <4>2. started'[e] = started[e] /\ started[e] = Starts(e, left) + Starts(e, right)
        BY <1>1, <1>7, <3>1 DEF Types
      <4> QED BY <4>1, <4>2 DEF StartedCounts
    <3>2. CASE e = d
      <4>1. started'[d] = 0
        BY <1>1, <1>7 DEF VariablesTyped
      <4>2. Starts(d, left)' = 0 /\ Starts(d, right)' = 0
        BY <1>1, <1>4
      <4>3. StartedCounts(d)'
        BY <4>1, <4>2 DEF StartedCounts
      <4> QED BY <1>3, <3>2, <4>3 DEF Stepped
    <3> QED BY <3>1, <3>2
  <2>2. VariablesTyped'
    <3>1. started \in [Devices -> Int] /\ 0 \in Int
      BY <1>1 DEF VariablesTyped
    <3>2. started' \in [Devices -> Int]
      BY <1>7, <3>1
    <3> QED BY <1>1, <1>7, <1>8, <3>2 DEF VariablesTyped
  <2>3. at' \in [Devices -> [call : Nat, outer : 0..(N - 1), phase : Sides, step : Steps]]
    BY <1>2
  <2> QED BY <2>1, <2>2, <2>3 DEF Types, VariablesTyped, StartedCounts
<1> QED BY <1>10, <1>11, <1>12, <1>13 DEF IInv

-----------------------------------------------------------------------------
(* The two barriers.                                                        *)

LEMMA SignalsAreInt ==
  ASSUME Types, NEW e \in Devices, NEW s \in Sides
  PROVE  /\ SignalsFirst(e, s) \in Nat /\ SignalsSecond(e, s) \in Nat
         /\ WaitsFirst(e) \in Nat /\ WaitsSecond(e) \in Nat
         /\ SignalsFirst(e, s) <= at[e].call + 1 /\ SignalsSecond(e, s) <= at[e].call + 1
         /\ barrier[e] \in Int /\ second[e] \in Int
<1>1. at[e].call \in Nat
  BY AtType
<1>2. barrier[e] \in Int /\ second[e] \in Int
  BY DEF Types
<1> QED BY <1>1, <1>2 DEF SignalsFirst, SignalsSecond, WaitsFirst, WaitsSecond, One

\* A step of device d that signals its neighbours on the sides first and
\* next, at the two barriers, and passes them if it is in one and two.
Rings(d, first, next, one, two) ==
  \A e \in Devices :
    /\ \A s \in Sides :
         /\ SignalsFirst(e, s)' = SignalsFirst(e, s) + One(e = d /\ s \in first)
         /\ SignalsSecond(e, s)' = SignalsSecond(e, s) + One(e = d /\ s \in next)
    /\ WaitsFirst(e)' = WaitsFirst(e) + One(e \in one)
    /\ WaitsSecond(e)' = WaitsSecond(e) + One(e \in two)

LEMMA BarriersAfterRing ==
  ASSUME IInv, NEW d \in Devices, NEW first, NEW next, NEW one, NEW two,
         Rings(d, first, next, one, two),
         \A e \in Devices :
           /\ barrier'[e] = barrier[e] + One(Neighbor(e, left) = d /\ right \in first)
                                       + One(Neighbor(e, right) = d /\ left \in first) - 2 * One(e \in one)
           /\ second'[e] = second[e] + One(Neighbor(e, left) = d /\ right \in next)
                                     + One(Neighbor(e, right) = d /\ left \in next) - 2 * One(e \in two),
         \A e \in Devices \cap one : /\ SignalsFirst(Neighbor(e, left), right) >= WaitsFirst(e) + 1
                                     /\ SignalsFirst(Neighbor(e, right), left) >= WaitsFirst(e) + 1,
         \A e \in Devices \cap two : /\ SignalsSecond(Neighbor(e, left), right) >= WaitsSecond(e) + 1
                                     /\ SignalsSecond(Neighbor(e, right), left) >= WaitsSecond(e) + 1,
         NEW e \in Devices
  PROVE  Barriers(e)'
<1> DEFINE l == Neighbor(e, left)
           r == Neighbor(e, right)
<1>1. Types /\ Barriers(e) /\ left \in Sides /\ right \in Sides /\ l \in Devices /\ r \in Devices
  BY RingIs, SidesAre DEF IInv
<1>2. /\ SignalsFirst(l, right) \in Nat /\ SignalsFirst(r, left) \in Nat /\ WaitsFirst(e) \in Nat
      /\ SignalsSecond(l, right) \in Nat /\ SignalsSecond(r, left) \in Nat /\ WaitsSecond(e) \in Nat
      /\ barrier[e] \in Int /\ second[e] \in Int
  BY <1>1, SignalsAreInt
<1>3. /\ SignalsFirst(l, right)' = SignalsFirst(l, right) + One(l = d /\ right \in first)
      /\ SignalsFirst(r, left)' = SignalsFirst(r, left) + One(r = d /\ left \in first)
      /\ WaitsFirst(e)' = WaitsFirst(e) + One(e \in one)
      /\ SignalsSecond(l, right)' = SignalsSecond(l, right) + One(l = d /\ right \in next)
      /\ SignalsSecond(r, left)' = SignalsSecond(r, left) + One(r = d /\ left \in next)
      /\ WaitsSecond(e)' = WaitsSecond(e) + One(e \in two)
  BY <1>1 DEF Rings
<1>4. /\ barrier'[e] = barrier[e] + One(l = d /\ right \in first) + One(r = d /\ left \in first)
                       - 2 * One(e \in one)
      /\ second'[e] = second[e] + One(l = d /\ right \in next) + One(r = d /\ left \in next)
                      - 2 * One(e \in two)
  OBVIOUS
<1>5. /\ One(l = d /\ right \in first) \in {0, 1} /\ One(r = d /\ left \in first) \in {0, 1}
      /\ One(l = d /\ right \in next) \in {0, 1} /\ One(r = d /\ left \in next) \in {0, 1}
      /\ One(e \in one) \in {0, 1} /\ One(e \in two) \in {0, 1}
  BY DEF One
<1>6. /\ barrier[e] = SignalsFirst(l, right) + SignalsFirst(r, left) - 2 * WaitsFirst(e)
      /\ SignalsFirst(l, right) >= WaitsFirst(e) + One(e \in one)
      /\ SignalsFirst(r, left) >= WaitsFirst(e) + One(e \in one)
      /\ second[e] = SignalsSecond(l, right) + SignalsSecond(r, left) - 2 * WaitsSecond(e)
      /\ SignalsSecond(l, right) >= WaitsSecond(e) + One(e \in two)
      /\ SignalsSecond(r, left) >= WaitsSecond(e) + One(e \in two)
  BY <1>1, <1>2 DEF Barriers, One
<1>7. /\ barrier'[e] = SignalsFirst(l, right)' + SignalsFirst(r, left)' - 2 * WaitsFirst(e)'
      /\ SignalsFirst(l, right)' >= WaitsFirst(e)' /\ SignalsFirst(r, left)' >= WaitsFirst(e)'
  <2>1. SignalsFirst(l, right)' >= WaitsFirst(e)' /\ SignalsFirst(r, left)' >= WaitsFirst(e)'
    BY <1>2, <1>3, <1>5, <1>6
  <2>2. barrier'[e] = SignalsFirst(l, right)' + SignalsFirst(r, left)' - 2 * WaitsFirst(e)'
    BY <1>2, <1>3, <1>4, <1>5, <1>6, SMTT(60)
  <2> QED BY <2>1, <2>2
<1>8. /\ second'[e] = SignalsSecond(l, right)' + SignalsSecond(r, left)' - 2 * WaitsSecond(e)'
      /\ SignalsSecond(l, right)' >= WaitsSecond(e)' /\ SignalsSecond(r, left)' >= WaitsSecond(e)'
  BY <1>2, <1>3, <1>4, <1>5, <1>6
<1> QED BY <1>7, <1>8 DEF Barriers

\* The signals of one device changed by a step on the way in.
LEMMA RingsAre ==
  ASSUME Types, NEW d \in Devices, Stepped(d), at'[d].call = at[d].call
  PROVE  /\ at[d].step = "enter" /\ at'[d].step = "enter_right" => Rings(d, {left}, {}, {}, {})
         /\ at[d].step = "enter_right" /\ at'[d].step = "barrier" => Rings(d, {right}, {}, {}, {})
         /\ at[d].step = "barrier" /\ at'[d].step = "second" => Rings(d, {}, {}, {d}, {})
         /\ at[d].step = "second" /\ at'[d].step = "second_right" => Rings(d, {}, {left}, {}, {})
         /\ at[d].step = "second_right" /\ at'[d].step = "second_barrier" => Rings(d, {}, {right}, {}, {})
         /\ at[d].step = "second_barrier" /\ at'[d].step = "initial_left" => Rings(d, {}, {}, {}, {d})
<1>1. at[d].call \in Nat /\ left = 0 /\ right = 1 /\ Sides = {0, 1}
  BY AtType DEF left, right, Sides
<1>2. ASSUME NEW first, NEW next, NEW one, NEW two,
             \A s \in Sides :
               /\ SignalsFirst(d, s)' = SignalsFirst(d, s) + One(s \in first)
               /\ SignalsSecond(d, s)' = SignalsSecond(d, s) + One(s \in next),
             \A e \in one \cup two : e = d,
             WaitsFirst(d)' = WaitsFirst(d) + One(d \in one),
             WaitsSecond(d)' = WaitsSecond(d) + One(d \in two)
      PROVE  Rings(d, first, next, one, two)
  <2> SUFFICES ASSUME NEW e \in Devices
               PROVE  /\ \A s \in Sides :
                           /\ SignalsFirst(e, s)' = SignalsFirst(e, s) + One(e = d /\ s \in first)
                           /\ SignalsSecond(e, s)' = SignalsSecond(e, s) + One(e = d /\ s \in next)
                      /\ WaitsFirst(e)' = WaitsFirst(e) + One(e \in one)
                      /\ WaitsSecond(e)' = WaitsSecond(e) + One(e \in two)
    BY DEF Rings
  <2>1. \A s \in Sides : SignalsFirst(e, s) \in Nat /\ SignalsSecond(e, s) \in Nat
                         /\ WaitsFirst(e) \in Nat /\ WaitsSecond(e) \in Nat
    BY SignalsAreInt
  <2>2. CASE e # d
    <3>1. /\ \A s \in Sides : SignalsFirst(e, s)' = SignalsFirst(e, s) /\ SignalsSecond(e, s)' = SignalsSecond(e, s)
          /\ WaitsFirst(e)' = WaitsFirst(e) /\ WaitsSecond(e)' = WaitsSecond(e)
      BY <2>2, OthersStay
    <3> QED BY <1>2, <2>1, <2>2, <3>1, SidesAre DEF One
  <2>3. CASE e = d
    BY <1>2, <2>3 DEF One
  <2> QED BY <2>2, <2>3
<1>3. ASSUME at[d].step = "enter", at'[d].step = "enter_right" PROVE Rings(d, {left}, {}, {}, {})
  <2>1. \A s \in Sides :
          /\ SignalsFirst(d, s)' = SignalsFirst(d, s) + One(s \in {left})
          /\ SignalsSecond(d, s)' = SignalsSecond(d, s) + One(s \in {})
    BY <1>1, <1>3 DEF SignalsFirst, SignalsSecond, One
  <2>2. /\ WaitsFirst(d)' = WaitsFirst(d) + One(d \in {})
        /\ WaitsSecond(d)' = WaitsSecond(d) + One(d \in {})
    BY <1>1, <1>3 DEF WaitsFirst, WaitsSecond, Entering, One
  <2> QED BY <1>2, <2>1, <2>2
<1>4. ASSUME at[d].step = "enter_right", at'[d].step = "barrier" PROVE Rings(d, {right}, {}, {}, {})
  <2>1. \A s \in Sides :
          /\ SignalsFirst(d, s)' = SignalsFirst(d, s) + One(s \in {right})
          /\ SignalsSecond(d, s)' = SignalsSecond(d, s) + One(s \in {})
    BY <1>1, <1>4 DEF SignalsFirst, SignalsSecond, One
  <2>2. /\ WaitsFirst(d)' = WaitsFirst(d) + One(d \in {})
        /\ WaitsSecond(d)' = WaitsSecond(d) + One(d \in {})
    BY <1>1, <1>4 DEF WaitsFirst, WaitsSecond, Entering, One
  <2> QED BY <1>2, <2>1, <2>2
<1>5. ASSUME at[d].step = "barrier", at'[d].step = "second" PROVE Rings(d, {}, {}, {d}, {})
  <2>1. \A s \in Sides :
          /\ SignalsFirst(d, s)' = SignalsFirst(d, s) + One(s \in {})
          /\ SignalsSecond(d, s)' = SignalsSecond(d, s) + One(s \in {})
    BY <1>1, <1>5 DEF SignalsFirst, SignalsSecond, One
  <2>2. /\ WaitsFirst(d)' = WaitsFirst(d) + One(d \in {d})
        /\ WaitsSecond(d)' = WaitsSecond(d) + One(d \in {})
    BY <1>1, <1>5 DEF WaitsFirst, WaitsSecond, Entering, One
  <2> QED BY <1>2, <2>1, <2>2
<1>6. ASSUME at[d].step = "second", at'[d].step = "second_right" PROVE Rings(d, {}, {left}, {}, {})
  <2>1. \A s \in Sides :
          /\ SignalsFirst(d, s)' = SignalsFirst(d, s) + One(s \in {})
          /\ SignalsSecond(d, s)' = SignalsSecond(d, s) + One(s \in {left})
    BY <1>1, <1>6 DEF SignalsFirst, SignalsSecond, One
  <2>2. /\ WaitsFirst(d)' = WaitsFirst(d) + One(d \in {})
        /\ WaitsSecond(d)' = WaitsSecond(d) + One(d \in {})
    BY <1>1, <1>6 DEF WaitsFirst, WaitsSecond, Entering, One
  <2> QED BY <1>2, <2>1, <2>2
<1>7. ASSUME at[d].step = "second_right", at'[d].step = "second_barrier" PROVE Rings(d, {}, {right}, {}, {})
  <2>1. \A s \in Sides :
          /\ SignalsFirst(d, s)' = SignalsFirst(d, s) + One(s \in {})
          /\ SignalsSecond(d, s)' = SignalsSecond(d, s) + One(s \in {right})
    BY <1>1, <1>7 DEF SignalsFirst, SignalsSecond, One
  <2>2. /\ WaitsFirst(d)' = WaitsFirst(d) + One(d \in {})
        /\ WaitsSecond(d)' = WaitsSecond(d) + One(d \in {})
    BY <1>1, <1>7 DEF WaitsFirst, WaitsSecond, Entering, One
  <2> QED BY <1>2, <2>1, <2>2
<1>8. ASSUME at[d].step = "second_barrier", at'[d].step = "initial_left" PROVE Rings(d, {}, {}, {}, {d})
  <2>1. \A s \in Sides :
          /\ SignalsFirst(d, s)' = SignalsFirst(d, s) + One(s \in {})
          /\ SignalsSecond(d, s)' = SignalsSecond(d, s) + One(s \in {})
    BY <1>1, <1>8 DEF SignalsFirst, SignalsSecond, One
  <2>2. /\ WaitsFirst(d)' = WaitsFirst(d) + One(d \in {})
        /\ WaitsSecond(d)' = WaitsSecond(d) + One(d \in {d})
    BY <1>1, <1>8 DEF WaitsFirst, WaitsSecond, Entering, One
  <2> QED BY <1>2, <2>1, <2>2
<1> QED BY <1>3, <1>4, <1>5, <1>6, <1>7, <1>8

LEMMA EnteringStep ==
  ASSUME IInv, NEW d \in Devices, NEW step \in Entering \cup {"initial_left"}, Goto(d, step),
         at[d].step \in Entering, copies' = copies, started' = started, capacity' = capacity,
         sent' = sent, received' = received,
         barrier' \in [Devices -> Int], second' \in [Devices -> Int],
         \A e \in Devices : Barriers(e)'
  PROVE  IInv'
<1>1. Types /\ VariablesTyped
  BY VariablesAreTyped DEF IInv
<1>2. Stepped(d) /\ Within(d, {}, {}, {}, {})
  BY <1>1, Barrierlike
<1>3. Acts(d, {}, {}, {}, {})
  BY <1>1, <1>2, WithinMoves, NoCompletion, NoCredit DEF Acts, Started
<1>4. \A c \in copies' : Tagged(c)'
  BY <1>2, <1>3, TagsAfter
<1>5. \A e \in Devices, t \in Sides : Flow(e, t)' /\ Own(e, t)' /\ Credit(e, t)'
  BY <1>3, FlowAfter, OwnAfter, CreditAfter
<1>6. Types'
  <2>1. \A e \in Devices : StartedCounts(e)'
    BY <1>2, StartedAfter
  <2>2. \A e \in Devices : Shape(e)'
    BY <1>1, <1>2, OthersStay DEF Stepped
  <2>3. at' \in [Devices -> [call : Nat, outer : 0..(N - 1), phase : Sides, step : Steps]]
    BY <1>2 DEF Stepped
  <2>4. VariablesTyped'
    BY <1>1 DEF VariablesTyped
  <2> QED BY <2>1, <2>2, <2>3, <2>4 DEF Types, VariablesTyped, StartedCounts
<1> QED BY <1>4, <1>5, <1>6 DEF IInv

LEMMA Bumped ==
  ASSUME NEW f \in [Devices -> Int], NEW d \in Devices, NEW v \in Int
  PROVE  LET g == [f EXCEPT ![d] = v] IN
         /\ g \in [Devices -> Int] /\ g[d] = v /\ \A e \in Devices : e # d => g[e] = f[e]
OBVIOUS

\* A signal to one neighbour.
LEMMA OneSignal ==
  ASSUME NEW f \in [Devices -> Int], NEW g, NEW d \in Devices, NEW s \in Sides,
         g[Neighbor(d, s)] = f[Neighbor(d, s)] + 1,
         \A e \in Devices : e # Neighbor(d, s) => g[e] = f[e]
  PROVE  \A e \in Devices :
           g[e] = f[e] + One(Neighbor(e, left) = d /\ right \in {s})
                       + One(Neighbor(e, right) = d /\ left \in {s})
<1> DEFINE n == Neighbor(d, s)
<1>1. n \in Devices
  BY RingIs
<1>2. g[n] = f[n] + 1 /\ \A e \in Devices : e # n => g[e] = f[e]
  OBVIOUS
<1>3. \A e \in Devices, t \in Sides : Neighbor(e, t) = d /\ Other(t) = s <=> e = n /\ t = Other(s)
  <2> SUFFICES ASSUME NEW e \in Devices, NEW t \in Sides
               PROVE  Neighbor(e, t) = d /\ Other(t) = s <=> e = n /\ t = Other(s)
    OBVIOUS
  <2>1. ASSUME e = n, t = Other(s) PROVE Neighbor(e, t) = d /\ Other(t) = s
    BY <2>1, RingIs, SidesAre
  <2>2. ASSUME Neighbor(e, t) = d, Other(t) = s PROVE e = n /\ t = Other(s)
    <3>1. t = Other(s) /\ Neighbor(Neighbor(e, t), Other(t)) = e
      BY <2>2, RingIs, SidesAre
    <3> QED BY <2>2, <3>1
  <2> QED BY <2>1, <2>2
<1>4. left \in Sides /\ right \in Sides /\ left # right /\ Other(left) = right /\ Other(right) = left
      /\ (s = left \/ s = right)
  BY SidesAre
<1>5. ASSUME NEW e \in Devices
      PROVE  g[e] = f[e] + One(Neighbor(e, left) = d /\ right \in {s})
                         + One(Neighbor(e, right) = d /\ left \in {s})
  <2>1. f[e] \in Int
    OBVIOUS
  <2>2. CASE s = left
    <3>1. Neighbor(e, right) = d <=> e = n
      BY <1>3, <1>4, <2>2
    <3> QED BY <1>2, <1>4, <2>1, <2>2, <3>1 DEF One
  <2>3. CASE s = right
    <3>1. Neighbor(e, left) = d <=> e = n
      BY <1>3, <1>4, <2>3
    <3> QED BY <1>2, <1>4, <2>1, <2>3, <3>1 DEF One
  <2> QED BY <1>4, <2>2, <2>3
<1> QED BY <1>5

LEMMA NoSignal ==
  ASSUME NEW f \in [Devices -> Int], NEW d \in Devices, NEW e \in Devices
  PROVE  f[e] = f[e] + One(Neighbor(e, left) = d /\ right \in {})
                     + One(Neighbor(e, right) = d /\ left \in {}) - 2 * One(e \in {})
BY DEF One

\* _ring_barrier's signals at the first barrier.
LEMMA FirstSignals ==
  ASSUME IInv, NEW d \in Devices, SignalBarrier(d)
  PROVE  IInv'
<1>1. /\ Types /\ left \in Sides /\ right \in Sides
      /\ barrier \in [Devices -> Int] /\ second \in [Devices -> Int]
      /\ second' = second /\ capacity' = capacity /\ sent' = sent /\ received' = received
      /\ copies' = copies /\ started' = started
  BY SidesAre DEF IInv, Types, SignalBarrier
<1>2. ASSUME NEW s \in Sides, NEW step \in {"enter_right", "barrier"}, Goto(d, step),
             at[d].step \in Entering, Stepped(d) => Rings(d, {s}, {}, {}, {}),
             barrier' = [barrier EXCEPT ![Neighbor(d, s)] = @ + 1]
      PROVE  IInv'
  <2>1. step \in Entering
    BY DEF Entering
  <2>2. Stepped(d)
    BY <1>1, <1>2, <2>1, Barrierlike
  <2>3. /\ barrier' \in [Devices -> Int]
        /\ \A e \in Devices :
             barrier'[e] = barrier[e] + One(Neighbor(e, left) = d /\ right \in {s})
                                      + One(Neighbor(e, right) = d /\ left \in {s})
    <3> DEFINE n == Neighbor(d, s)
    <3>1. barrier \in [Devices -> Int] /\ n \in Devices /\ barrier[n] + 1 \in Int
      BY <1>1, RingIs
    <3>2. barrier' = [barrier EXCEPT ![n] = barrier[n] + 1]
      BY <1>2
    <3>3. barrier' \in [Devices -> Int] /\ barrier'[n] = barrier[n] + 1 /\ \A e \in Devices : e # n => barrier'[e] = barrier[e]
      BY <3>1, <3>2, Bumped
    <3> QED BY <3>1, <3>3, OneSignal
  <2>4. \A e \in Devices :
          /\ barrier'[e] = barrier[e] + One(Neighbor(e, left) = d /\ right \in {s})
                                      + One(Neighbor(e, right) = d /\ left \in {s}) - 2 * One(e \in {})
          /\ second'[e] = second[e] + One(Neighbor(e, left) = d /\ right \in {})
                                    + One(Neighbor(e, right) = d /\ left \in {}) - 2 * One(e \in {})
    BY <1>1, <2>3, NoSignal DEF One
  <2>5. \A e \in Devices : Barriers(e)'
    BY <1>2, <2>2, <2>4, BarriersAfterRing
  <2> QED BY <1>1, <1>2, <2>1, <2>3, <2>5, EnteringStep
<1>3. ASSUME NEW step, Goto(d, step) PROVE at'[d].call = at[d].call /\ at'[d].step = step
  BY <1>1, <1>3 DEF Goto, Types
<1>4. CASE At(d, "enter") /\ barrier' = [barrier EXCEPT ![Neighbor(d, left)] = @ + 1] /\ Goto(d, "enter_right")
  <2>1. at[d].step \in Entering /\ (Stepped(d) => Rings(d, {left}, {}, {}, {}))
    BY <1>1, <1>3, <1>4, RingsAre DEF At, Entering
  <2> QED BY <1>1, <1>2, <1>4, <2>1
<1>5. CASE At(d, "enter_right") /\ barrier' = [barrier EXCEPT ![Neighbor(d, right)] = @ + 1] /\ Goto(d, "barrier")
  <2>1. at[d].step \in Entering /\ (Stepped(d) => Rings(d, {right}, {}, {}, {}))
    BY <1>1, <1>3, <1>5, RingsAre DEF At, Entering
  <2> QED BY <1>1, <1>2, <1>5, <2>1
<1> QED BY <1>4, <1>5 DEF SignalBarrier

\* The same at the second barrier.
LEMMA SecondSignals ==
  ASSUME IInv, NEW d \in Devices, SignalSecond(d)
  PROVE  IInv'
<1>1. /\ Types /\ left \in Sides /\ right \in Sides
      /\ barrier \in [Devices -> Int] /\ second \in [Devices -> Int]
      /\ barrier' = barrier /\ capacity' = capacity /\ sent' = sent /\ received' = received
      /\ copies' = copies /\ started' = started
  BY SidesAre DEF IInv, Types, SignalSecond
<1>2. ASSUME NEW s \in Sides, NEW step \in {"second_right", "second_barrier"}, Goto(d, step),
             at[d].step \in Entering, Stepped(d) => Rings(d, {}, {s}, {}, {}),
             second' = [second EXCEPT ![Neighbor(d, s)] = @ + 1]
      PROVE  IInv'
  <2>1. step \in Entering
    BY DEF Entering
  <2>2. Stepped(d)
    BY <1>1, <1>2, <2>1, Barrierlike
  <2>3. /\ second' \in [Devices -> Int]
        /\ \A e \in Devices :
             second'[e] = second[e] + One(Neighbor(e, left) = d /\ right \in {s})
                                    + One(Neighbor(e, right) = d /\ left \in {s})
    <3> DEFINE n == Neighbor(d, s)
    <3>1. second \in [Devices -> Int] /\ n \in Devices /\ second[n] + 1 \in Int
      BY <1>1, RingIs
    <3>2. second' = [second EXCEPT ![n] = second[n] + 1]
      BY <1>2
    <3>3. second' \in [Devices -> Int] /\ second'[n] = second[n] + 1 /\ \A e \in Devices : e # n => second'[e] = second[e]
      BY <3>1, <3>2, Bumped
    <3> QED BY <3>1, <3>3, OneSignal
  <2>4. \A e \in Devices :
          /\ barrier'[e] = barrier[e] + One(Neighbor(e, left) = d /\ right \in {})
                                      + One(Neighbor(e, right) = d /\ left \in {}) - 2 * One(e \in {})
          /\ second'[e] = second[e] + One(Neighbor(e, left) = d /\ right \in {s})
                                    + One(Neighbor(e, right) = d /\ left \in {s}) - 2 * One(e \in {})
    BY <1>1, <2>3, NoSignal DEF One
  <2>5. \A e \in Devices : Barriers(e)'
    BY <1>2, <2>2, <2>4, BarriersAfterRing
  <2> QED BY <1>1, <1>2, <2>1, <2>3, <2>5, EnteringStep
<1>3. ASSUME NEW step, Goto(d, step) PROVE at'[d].call = at[d].call /\ at'[d].step = step
  BY <1>1, <1>3 DEF Goto, Types
<1>4. CASE At(d, "second") /\ second' = [second EXCEPT ![Neighbor(d, left)] = @ + 1] /\ Goto(d, "second_right")
  <2>1. at[d].step \in Entering /\ (Stepped(d) => Rings(d, {}, {left}, {}, {}))
    BY <1>1, <1>3, <1>4, RingsAre DEF At, Entering
  <2> QED BY <1>1, <1>2, <1>4, <2>1
<1>5. CASE At(d, "second_right") /\ second' = [second EXCEPT ![Neighbor(d, right)] = @ + 1] /\ Goto(d, "second_barrier")
  <2>1. at[d].step \in Entering /\ (Stepped(d) => Rings(d, {}, {right}, {}, {}))
    BY <1>1, <1>3, <1>5, RingsAre DEF At, Entering
  <2> QED BY <1>1, <1>2, <1>5, <2>1
<1> QED BY <1>4, <1>5 DEF SignalSecond

\* A device that waits at a barrier has not started a copy: its neighbours are
\* at most in its call, and two signals are one of each.
LEMMA FirstPassed ==
  ASSUME IInv, NEW d \in Devices, WaitBarrier(d)
  PROVE  IInv'
<1> DEFINE l == Neighbor(d, left)
           r == Neighbor(d, right)
<1>1. /\ Types /\ left \in Sides /\ right \in Sides /\ l \in Devices /\ r \in Devices
      /\ barrier \in [Devices -> Int] /\ second \in [Devices -> Int] /\ barrier[d] \in Int
      /\ second' = second /\ capacity' = capacity /\ sent' = sent /\ received' = received
      /\ copies' = copies /\ started' = started /\ barrier[d] >= 2 /\ Goto(d, "second")
      /\ barrier' = [barrier EXCEPT ![d] = @ - 2]
      /\ at[d].step = "barrier" /\ at[d].step \in Entering /\ "second" \in Entering
  BY SidesAre, RingIs DEF IInv, Types, WaitBarrier, At, Entering
<1>2. Stepped(d) /\ at'[d].call = at[d].call /\ at'[d].step = "second"
  <2>1. Stepped(d)
    BY <1>1, Barrierlike
  <2> QED BY <1>1, <2>1 DEF Goto, Types
<1>3. Rings(d, {}, {}, {d}, {})
  BY <1>1, <1>2, RingsAre
<1>4. barrier' \in [Devices -> Int] /\ barrier'[d] = barrier[d] - 2
      /\ \A e \in Devices : e # d => barrier'[e] = barrier[e]
  <2>1. barrier' = [barrier EXCEPT ![d] = barrier[d] - 2] /\ barrier[d] - 2 \in Int
    BY <1>1
  <2> QED BY <1>1, <2>1, Bumped
<1>5. \A e \in Devices \cap {d} : /\ SignalsFirst(Neighbor(e, left), right) >= WaitsFirst(e) + 1
                                  /\ SignalsFirst(Neighbor(e, right), left) >= WaitsFirst(e) + 1
  <2>1. Starts(d, left) = 0 /\ Starts(d, right) = 0
    BY <1>1 DEF Starts, StartsAt
  <2>2. at[l].call <= at[d].call /\ at[r].call <= at[d].call
    BY <1>1, <2>1, HeldBack
  <2>3. at[d].call \in Nat /\ at[l].call \in Nat /\ at[r].call \in Nat /\ WaitsFirst(d) = at[d].call
    BY <1>1, AtType DEF WaitsFirst, One
  <2>4. /\ SignalsFirst(l, right) \in Nat /\ SignalsFirst(r, left) \in Nat
        /\ SignalsFirst(l, right) <= at[l].call + 1 /\ SignalsFirst(r, left) <= at[r].call + 1
    BY <1>1, SignalsAreInt
  <2>5. barrier[d] = SignalsFirst(l, right) + SignalsFirst(r, left) - 2 * WaitsFirst(d)
    BY DEF IInv, Barriers
  <2> QED BY <1>1, <2>2, <2>3, <2>4, <2>5
<1>6. \A e \in Devices :
        /\ barrier'[e] = barrier[e] + One(Neighbor(e, left) = d /\ right \in {})
                                    + One(Neighbor(e, right) = d /\ left \in {}) - 2 * One(e \in {d})
        /\ second'[e] = second[e] + One(Neighbor(e, left) = d /\ right \in {})
                                  + One(Neighbor(e, right) = d /\ left \in {}) - 2 * One(e \in {})
  BY <1>1, <1>4, NoSignal DEF One
<1>7. \A e \in Devices : Barriers(e)'
  BY <1>3, <1>5, <1>6, BarriersAfterRing
<1> QED BY <1>1, <1>4, <1>7, EnteringStep

LEMMA SecondPassed ==
  ASSUME IInv, NEW d \in Devices, WaitSecond(d)
  PROVE  IInv'
<1> DEFINE l == Neighbor(d, left)
           r == Neighbor(d, right)
<1>1. /\ Types /\ left \in Sides /\ right \in Sides /\ l \in Devices /\ r \in Devices
      /\ barrier \in [Devices -> Int] /\ second \in [Devices -> Int] /\ second[d] \in Int
      /\ barrier' = barrier /\ capacity' = capacity /\ sent' = sent /\ received' = received
      /\ copies' = copies /\ started' = started /\ second[d] >= 2 /\ Goto(d, "initial_left")
      /\ second' = [second EXCEPT ![d] = @ - 2]
      /\ at[d].step = "second_barrier" /\ at[d].step \in Entering
  BY SidesAre, RingIs DEF IInv, Types, WaitSecond, At, Entering
<1>2. Stepped(d) /\ at'[d].call = at[d].call /\ at'[d].step = "initial_left"
  <2>1. Stepped(d)
    BY <1>1, Barrierlike
  <2> QED BY <1>1, <2>1 DEF Goto, Types
<1>3. Rings(d, {}, {}, {}, {d})
  BY <1>1, <1>2, RingsAre
<1>4. second' \in [Devices -> Int] /\ second'[d] = second[d] - 2
      /\ \A e \in Devices : e # d => second'[e] = second[e]
  <2>1. second' = [second EXCEPT ![d] = second[d] - 2] /\ second[d] - 2 \in Int
    BY <1>1
  <2> QED BY <1>1, <2>1, Bumped
<1>5. \A e \in Devices \cap {d} : /\ SignalsSecond(Neighbor(e, left), right) >= WaitsSecond(e) + 1
                                  /\ SignalsSecond(Neighbor(e, right), left) >= WaitsSecond(e) + 1
  <2>1. Starts(d, left) = 0 /\ Starts(d, right) = 0
    BY <1>1 DEF Starts, StartsAt
  <2>2. at[l].call <= at[d].call /\ at[r].call <= at[d].call
    BY <1>1, <2>1, HeldBack
  <2>3. at[d].call \in Nat /\ at[l].call \in Nat /\ at[r].call \in Nat /\ WaitsSecond(d) = at[d].call
    BY <1>1, AtType DEF WaitsSecond, One
  <2>4. /\ SignalsSecond(l, right) \in Nat /\ SignalsSecond(r, left) \in Nat
        /\ SignalsSecond(l, right) <= at[l].call + 1 /\ SignalsSecond(r, left) <= at[r].call + 1
    BY <1>1, SignalsAreInt
  <2>5. second[d] = SignalsSecond(l, right) + SignalsSecond(r, left) - 2 * WaitsSecond(d)
    BY DEF IInv, Barriers
  <2> QED BY <1>1, <2>2, <2>3, <2>4, <2>5
<1>6. \A e \in Devices :
        /\ barrier'[e] = barrier[e] + One(Neighbor(e, left) = d /\ right \in {})
                                    + One(Neighbor(e, right) = d /\ left \in {}) - 2 * One(e \in {})
        /\ second'[e] = second[e] + One(Neighbor(e, left) = d /\ right \in {})
                                  + One(Neighbor(e, right) = d /\ left \in {}) - 2 * One(e \in {d})
  BY <1>1, <1>4, NoSignal DEF One
<1>7. \A e \in Devices : Barriers(e)'
  BY <1>3, <1>5, <1>6, BarriersAfterRing
<1> QED BY <1>1, <1>4, <1>7, EnteringStep

-----------------------------------------------------------------------------
(* The DMA engines.                                                         *)

LEMMA NothingMoves ==
  ASSUME at' = at
  PROVE  /\ \A e, s : /\ Starts(e, s)' = Starts(e, s) /\ S(e, s)' = S(e, s) /\ W(e, s)' = W(e, s)
                      /\ G(e, s)' = G(e, s) /\ T(e, s)' = T(e, s)
         /\ \A e : Shape(e)' <=> Shape(e)
         /\ SignalsSame
BY DEF Starts, Waits, Grants, Takes, S, W, G, T, Shape, SignalsSame, SignalsFirst, SignalsSecond,
       WaitsFirst, WaitsSecond

\* A copy in flight is the only one of its device on its side, and its neighbour
\* waits for it.
LEMMA CopyIs ==
  ASSUME IInv, NEW c \in copies
  PROVE  /\ Tagged(c) /\ c.from \in Devices /\ c.side \in Sides
         /\ Flight(c.from, c.side) = {c}
         /\ S(c.from, c.side) = W(Neighbor(c.from, c.side), c.side) + 1
         /\ received[Neighbor(c.from, c.side)][c.side] = 0
<1>1. Tagged(c) /\ c.from \in Devices /\ c.side \in Sides
  BY DEF IInv, Tagged, IsCopy
<1>2. Flow(c.from, c.side)
  BY <1>1 DEF IInv
<1>3. c \in Flight(c.from, c.side)
  BY DEF Flight
<1> QED BY <1>1, <1>2, <1>3 DEF Flow

LEMMA SourceRead ==
  ASSUME IInv, NEW c \in copies, ReadSource(c)
  PROVE  IInv'
<1> DEFINE d == c.from
           s == c.side
<1>1. /\ Types /\ VariablesTyped /\ d \in Devices /\ s \in Sides /\ Tagged(c) /\ ~c.read
      /\ Flight(d, s) = {c} /\ S(d, s) = W(Neighbor(d, s), s) + 1 /\ received[Neighbor(d, s)][s] = 0
  BY CopyIs, VariablesAreTyped DEF IInv, ReadSource
<1>2. /\ at' = at /\ barrier' = barrier /\ second' = second /\ capacity' = capacity
      /\ received' = received /\ started' = started
      /\ sent' = [sent EXCEPT ![d][s] = @ + 1]
  BY DEF ReadSource
<1>3. PICK value : copies' = (copies \ {c}) \cup {[c EXCEPT !.read = TRUE, !.data = value]}
  BY DEF ReadSource
<1> DEFINE r == [c EXCEPT !.read = TRUE, !.data = value]
<1>4. IsCopy(r) /\ r.from = d /\ r.side = s /\ r.read /\ r.call = c.call /\ r.slot = c.slot
      /\ r.source = c.source
  <2>1. c = [from |-> c.from, side |-> c.side, call |-> c.call, source |-> c.source,
             slot |-> c.slot, read |-> c.read, data |-> c.data]
    BY <1>1 DEF Tagged, IsCopy
  <2>2. PICK f, side, k, source, slot, read, data :
           c = [from |-> f, side |-> side, call |-> k, source |-> source, slot |-> slot,
                read |-> read, data |-> data]
    BY <2>1
  <2>3. r = [from |-> f, side |-> side, call |-> k, source |-> source, slot |-> slot,
             read |-> TRUE, data |-> value]
    <3> DEFINE R == [from : {f}, side : {side}, call : {k}, source : {source}, slot : {slot},
                     read : {read, TRUE}, data : {data, value}]
    <3>1. c \in R
      BY <2>2
    <3>2. r \in R
      BY <3>1
    <3>3. r.read = TRUE /\ r.data = value
      BY <3>1
    <3> HIDE DEF r
    <3>4. r = [from |-> r.from, side |-> r.side, call |-> r.call, source |-> r.source,
               slot |-> r.slot, read |-> r.read, data |-> r.data]
          /\ r.from = f /\ r.side = side /\ r.call = k /\ r.source = source /\ r.slot = slot
      BY <3>2
    <3> QED BY <3>3, <3>4
  <2>4. /\ c.from = f /\ c.side = side /\ c.call = k /\ c.source = source /\ c.slot = slot
        /\ r.from = f /\ r.side = side /\ r.call = k /\ r.source = source /\ r.slot = slot
        /\ r.read = TRUE /\ r.data = value
    BY <2>2, <2>3
  <2>5. r = [from |-> r.from, side |-> r.side, call |-> r.call, source |-> r.source,
             slot |-> r.slot, read |-> r.read, data |-> r.data]
    BY <2>3, <2>4
  <2> HIDE DEF r
  <2> QED BY <1>1, <2>4, <2>5 DEF IsCopy
<1>5. copies' = (copies \ {c}) \cup {r}
  BY <1>3
<1> HIDE DEF r
<1>6. Flight(d, s)' = {r}
  BY <1>1, <1>4, <1>5 DEF Flight
<1>7. ASSUME NEW e \in Devices, NEW t \in Sides, ~(e = d /\ t = s)
      PROVE  Flight(e, t)' = Flight(e, t)
  BY <1>4, <1>5, <1>7 DEF Flight
<1>8. /\ sent' \in [Devices -> [Sides -> Int]] /\ sent'[d][s] = sent[d][s] + 1
      /\ \A e \in Devices, t \in Sides : ~(e = d /\ t = s) => sent'[e][t] = sent[e][t]
  <2>1. sent \in [Devices -> [Sides -> Int]] /\ sent[d][s] + 1 \in Int
    BY <1>1 DEF VariablesTyped
  <2>2. sent' = [sent EXCEPT ![d][s] = sent[d][s] + 1]
    BY <1>2, <2>1
  <2> QED BY <1>1, <2>1, <2>2, CellIs
<1>9. \A e \in Devices, t \in Sides : Flow(e, t)'
  <2> SUFFICES ASSUME NEW e \in Devices, NEW t \in Sides PROVE Flow(e, t)'
    OBVIOUS
  <2>1. Flow(e, t)
    BY DEF IInv
  <2>2. S(e, t)' = S(e, t) /\ W(Neighbor(e, t), t)' = W(Neighbor(e, t), t)
        /\ received'[Neighbor(e, t)][t] = received[Neighbor(e, t)][t]
    BY <1>2, NothingMoves
  <2>3. CASE e = d /\ t = s
    BY <1>1, <1>6, <2>2, <2>3 DEF Flow
  <2>4. CASE ~(e = d /\ t = s)
    <3>1. Flight(e, t)' = Flight(e, t)
      BY <1>7, <2>4
    <3> QED BY <2>1, <2>2, <3>1 DEF Flow
  <2> QED BY <2>3, <2>4
<1>10. \A e \in Devices, t \in Sides : Own(e, t)'
  <2> SUFFICES ASSUME NEW e \in Devices, NEW t \in Sides PROVE Own(e, t)'
    OBVIOUS
  <2>1. Own(e, t)
    BY DEF IInv
  <2>2. S(e, t)' = S(e, t) /\ W(e, t)' = W(e, t)
    BY <1>2, NothingMoves
  <2>3. CASE e = d /\ t = s
    <3>1. S(d, s) = W(d, s) + 1 /\ sent[d][s] = 0
      BY <1>1, <2>1, <2>3 DEF Own
    <3>2. sent'[d][s] = 1 /\ \A x \in Flight(d, s)' : x.read
      BY <1>4, <1>6, <1>8, <3>1
    <3> QED BY <2>2, <2>3, <3>1, <3>2 DEF Own
  <2>4. CASE ~(e = d /\ t = s)
    <3>1. Flight(e, t)' = Flight(e, t) /\ sent'[e][t] = sent[e][t]
      BY <1>7, <1>8, <2>4
    <3> QED BY <2>1, <2>2, <3>1 DEF Own
  <2> QED BY <2>3, <2>4
<1>11. \A e \in Devices, t \in Sides : Credit(e, t)'
  <2> SUFFICES ASSUME NEW e \in Devices, NEW t \in Sides PROVE Credit(e, t)'
    OBVIOUS
  <2>1. Credit(e, t) /\ T(e, t)' = T(e, t) /\ G(Neighbor(e, t), Other(t))' = G(Neighbor(e, t), Other(t))
    BY <1>2, NothingMoves DEF IInv
  <2> QED BY <1>2, <2>1 DEF Credit
<1>12. \A x \in copies' : Tagged(x)'
  <2> SUFFICES ASSUME NEW x \in copies' PROVE Tagged(x)'
    OBVIOUS
  <2>1. Starts(x.from, x.side)' = Starts(x.from, x.side)
    BY <1>2, NothingMoves
  <2>2. CASE x \in copies
    <3>1. Tagged(x)
      BY <2>2 DEF IInv
    <3> QED BY <1>2, <2>1, <3>1 DEF Tagged, IsCopy
  <2>3. CASE x = r
    BY <1>1, <1>2, <1>4, <2>1, <2>3 DEF Tagged, IsCopy
  <2> QED BY <1>5, <2>2, <2>3
<1>13. \A e \in Devices : Barriers(e)'
  BY <1>2, NothingMoves, BarriersAfter
<1>14. Types'
  <2>1. \A e \in Devices : Shape(e)' /\ (started[e] = Starts(e, left) + Starts(e, right))'
    BY <1>1, <1>2, NothingMoves DEF Types
  <2> QED BY <1>1, <1>2, <1>8, <2>1 DEF Types
<1> QED BY <1>9, <1>10, <1>11, <1>12, <1>13, <1>14 DEF IInv

LEMMA Landed ==
  ASSUME IInv, NEW c \in copies, Land(c)
  PROVE  IInv'
<1> DEFINE d == c.from
           s == c.side
           n == Neighbor(d, s)
<1>1. /\ Types /\ VariablesTyped /\ d \in Devices /\ s \in Sides /\ Tagged(c) /\ c.read
      /\ Flight(d, s) = {c} /\ S(d, s) = W(n, s) + 1 /\ received[n][s] = 0
  BY CopyIs, VariablesAreTyped DEF IInv, Land
<1>2. /\ at' = at /\ barrier' = barrier /\ second' = second /\ capacity' = capacity
      /\ sent' = sent /\ started' = started /\ copies' = copies \ {c}
      /\ received' = [received EXCEPT ![n][s] = @ + 1]
  BY DEF Land
<1>3. n \in Devices /\ \A e \in Devices : Neighbor(e, s) = n => e = d
  BY <1>1, RingIs
<1>4. Flight(d, s)' = {}
  BY <1>1, <1>2 DEF Flight
<1>5. ASSUME NEW e \in Devices, NEW t \in Sides, ~(e = d /\ t = s)
      PROVE  Flight(e, t)' = Flight(e, t)
  BY <1>2, <1>5 DEF Flight
<1>6. /\ received' \in [Devices -> [Sides -> Int]] /\ received'[n][s] = received[n][s] + 1
      /\ \A e \in Devices, t \in Sides : ~(e = n /\ t = s) => received'[e][t] = received[e][t]
  <2>1. received \in [Devices -> [Sides -> Int]] /\ received[n][s] + 1 \in Int
    BY <1>1, <1>3 DEF VariablesTyped
  <2>2. received' = [received EXCEPT ![n][s] = received[n][s] + 1]
    BY <1>2, <2>1
  <2> QED BY <1>1, <1>3, <2>1, <2>2, CellIs
<1>7. \A e \in Devices, t \in Sides : Flow(e, t)'
  <2> SUFFICES ASSUME NEW e \in Devices, NEW t \in Sides PROVE Flow(e, t)'
    OBVIOUS
  <2>1. Flow(e, t) /\ Neighbor(e, t) \in Devices
    BY RingIs DEF IInv
  <2>2. S(e, t)' = S(e, t) /\ W(Neighbor(e, t), t)' = W(Neighbor(e, t), t)
    BY <1>2, NothingMoves
  <2>3. CASE e = d /\ t = s
    <3>1. received'[n][s] = 1
      BY <1>1, <1>6
    <3> QED BY <1>1, <1>4, <2>2, <2>3, <3>1 DEF Flow
  <2>4. CASE ~(e = d /\ t = s)
    <3>1. Flight(e, t)' = Flight(e, t)
      BY <1>5, <2>4
    <3>2. received'[Neighbor(e, t)][t] = received[Neighbor(e, t)][t]
      BY <1>3, <1>6, <2>1, <2>4
    <3> QED BY <2>1, <2>2, <3>1, <3>2 DEF Flow
  <2> QED BY <2>3, <2>4
<1>8. \A e \in Devices, t \in Sides : Own(e, t)'
  <2> SUFFICES ASSUME NEW e \in Devices, NEW t \in Sides PROVE Own(e, t)'
    OBVIOUS
  <2>1. Own(e, t)
    BY DEF IInv
  <2>2. S(e, t)' = S(e, t) /\ W(e, t)' = W(e, t)
    BY <1>2, NothingMoves
  <2>3. CASE e = d /\ t = s
    BY <1>1, <1>2, <1>4, <2>1, <2>2, <2>3 DEF Own
  <2>4. CASE ~(e = d /\ t = s)
    <3>1. Flight(e, t)' = Flight(e, t)
      BY <1>5, <2>4
    <3> QED BY <1>2, <2>1, <2>2, <3>1 DEF Own
  <2> QED BY <2>3, <2>4
<1>9. \A e \in Devices, t \in Sides : Credit(e, t)'
  <2> SUFFICES ASSUME NEW e \in Devices, NEW t \in Sides PROVE Credit(e, t)'
    OBVIOUS
  <2>1. Credit(e, t) /\ T(e, t)' = T(e, t) /\ G(Neighbor(e, t), Other(t))' = G(Neighbor(e, t), Other(t))
    BY <1>2, NothingMoves DEF IInv
  <2> QED BY <1>2, <2>1 DEF Credit
<1>10. \A x \in copies' : Tagged(x)'
  <2> SUFFICES ASSUME NEW x \in copies' PROVE Tagged(x)'
    OBVIOUS
  <2>1. Starts(x.from, x.side)' = Starts(x.from, x.side) /\ Tagged(x)
    BY <1>2, NothingMoves DEF IInv
  <2> QED BY <1>2, <2>1 DEF Tagged, IsCopy
<1>11. \A e \in Devices : Barriers(e)'
  BY <1>2, NothingMoves, BarriersAfter
<1>12. Types'
  <2>1. \A e \in Devices : Shape(e)' /\ (started[e] = Starts(e, left) + Starts(e, right))'
    BY <1>1, <1>2, NothingMoves DEF Types
  <2> QED BY <1>1, <1>2, <1>6, <2>1 DEF Types
<1> QED BY <1>7, <1>8, <1>9, <1>10, <1>11, <1>12 DEF IInv

-----------------------------------------------------------------------------
(* The invariant holds.                                                     *)

LEMMA Initially == Init => IInv
<1> SUFFICES ASSUME Init PROVE IInv
  OBVIOUS
<1>1. \A d \in Devices : at[d] = [call |-> 0, outer |-> 0, phase |-> left, step |-> "enter"]
  BY DEF Init
<1>2. ASSUME NEW d \in Devices, NEW s \in Sides
      PROVE  /\ Starts(d, s) = 0 /\ Waits(d, s) = 0 /\ Grants(d, s) = 0 /\ Takes(d, s) = 0
             /\ S(d, s) = 0 /\ W(d, s) = 0 /\ G(d, s) = 0 /\ T(d, s) = 0
             /\ SignalsFirst(d, s) = 0 /\ SignalsSecond(d, s) = 0 /\ WaitsFirst(d) = 0 /\ WaitsSecond(d) = 0
  <2>1. Starts(d, s) = 0 /\ Waits(d, s) = 0 /\ Grants(d, s) = 0 /\ Takes(d, s) = 0
    BY <1>1, LastPosition DEF Starts, Waits, Grants, Takes
  <2>2. Base(at[d].call, s) = 0 /\ Base(at[d].call, Other(s)) = 0
    BY <1>1, BaseIs, SidesAre
  <2>3. SignalsFirst(d, s) = 0 /\ SignalsSecond(d, s) = 0 /\ WaitsFirst(d) = 0 /\ WaitsSecond(d) = 0
    BY <1>1 DEF SignalsFirst, SignalsSecond, WaitsFirst, WaitsSecond, Entering, One
  <2> QED BY <2>1, <2>2, <2>3 DEF S, W, G, T
<1>3. left \in Sides /\ right \in Sides /\ 0 \in 0..(N - 1) /\ "enter" \in Steps
  BY SidesAre, NAssumption DEF Steps
<1>4. Types
  <2>1. at \in [Devices -> [call : Nat, outer : 0..(N - 1), phase : Sides, step : Steps]]
    BY <1>3 DEF Init
  <2>2. VariablesTyped
    BY DEF Init, VariablesTyped
  <2>3. \A d \in Devices : Shape(d)
    BY <1>1 DEF Shape
  <2>4. \A d \in Devices : started[d] = Starts(d, left) + Starts(d, right)
    BY <1>2, <1>3 DEF Init
  <2> QED BY <2>1, <2>2, <2>3, <2>4 DEF Types, VariablesTyped
<1>5. copies = {} /\ \A d, s : Flight(d, s) = {}
  BY DEF Init, Flight
<1>6. ASSUME NEW d \in Devices, NEW s \in Sides
      PROVE  Flow(d, s) /\ Own(d, s) /\ Credit(d, s)
  <2>1. Neighbor(d, s) \in Devices /\ Other(s) \in Sides
    BY RingIs, SidesAre
  <2>2. received[Neighbor(d, s)][s] = 0 /\ sent[d][s] = 0 /\ capacity[d][s] = 0
    BY <2>1 DEF Init
  <2>3. S(d, s) = 0 /\ W(d, s) = 0 /\ W(Neighbor(d, s), s) = 0 /\ T(d, s) = 0
        /\ G(Neighbor(d, s), Other(s)) = 0
    BY <1>2, <2>1
  <2> QED BY <1>5, <2>2, <2>3 DEF Flow, Own, Credit
<1>7. ASSUME NEW d \in Devices PROVE Barriers(d)
  <2>1. Neighbor(d, left) \in Devices /\ Neighbor(d, right) \in Devices
    BY <1>3, RingIs
  <2>2. barrier[d] = 0 /\ second[d] = 0
    BY DEF Init
  <2> QED BY <1>2, <1>3, <2>1, <2>2 DEF Barriers
<1> QED BY <1>4, <1>5, <1>6, <1>7 DEF IInv

LEMMA Stutters == IInv /\ UNCHANGED vars => IInv'
<1> SUFFICES ASSUME IInv, UNCHANGED vars PROVE IInv'
  OBVIOUS
<1>1. /\ at' = at /\ barrier' = barrier /\ second' = second /\ capacity' = capacity /\ sent' = sent
      /\ received' = received /\ copies' = copies /\ started' = started
  BY DEF vars
<1>2. \A e, t : /\ Starts(e, t)' = Starts(e, t) /\ S(e, t)' = S(e, t) /\ W(e, t)' = W(e, t)
                /\ G(e, t)' = G(e, t) /\ T(e, t)' = T(e, t)
  BY <1>1, NothingMoves
<1>3. Types'
  <2>1. \A e \in Devices : Shape(e)' /\ (started[e] = Starts(e, left) + Starts(e, right))'
    BY <1>1, NothingMoves DEF IInv, Types
  <2> QED BY <1>1, <2>1 DEF IInv, Types
<1>4. \A c \in copies' : Tagged(c)'
  <2> SUFFICES ASSUME NEW c \in copies' PROVE Tagged(c)'
    OBVIOUS
  <2>1. Tagged(c) /\ Starts(c.from, c.side)' = Starts(c.from, c.side)
    BY <1>1, <1>2 DEF IInv
  <2> QED BY <1>1, <2>1 DEF Tagged, IsCopy
<1>5. ASSUME NEW e \in Devices, NEW t \in Sides PROVE Flow(e, t)' /\ Own(e, t)' /\ Credit(e, t)'
  <2>1. Flow(e, t) /\ Own(e, t) /\ Credit(e, t) /\ Flight(e, t)' = Flight(e, t)
    BY <1>1 DEF IInv, Flight
  <2>2. Flow(e, t)'
    BY <1>1, <1>2, <2>1 DEF Flow
  <2>3. Own(e, t)'
    BY <1>1, <1>2, <2>1 DEF Own
  <2>4. Credit(e, t)'
    BY <1>1, <1>2, <2>1 DEF Credit
  <2> QED BY <2>2, <2>3, <2>4
<1>6. \A e \in Devices : Barriers(e)'
  BY <1>1, NothingMoves, BarriersAfter
<1> QED BY <1>3, <1>4, <1>5, <1>6 DEF IInv

LEMMA StepKeeps == IInv /\ [Next]_vars => IInv'
<1> SUFFICES ASSUME IInv, [Next]_vars PROVE IInv'
  OBVIOUS
<1>1. ASSUME NEW d \in Devices, Step(d) PROVE IInv'
  <2>1. CASE Drain(d)
    <3>1. at[d].phase = left \/ at[d].phase = right
      BY AtType, SidesAre DEF IInv
    <3> QED BY <2>1, <3>1, FirstHalfStored, SecondHalfStored
  <2> QED BY <1>1, <2>1, FirstSignals, FirstPassed, SecondSignals, SecondPassed, FirstCopy, SecondCopy,
             FirstCredit, NextCopy, LocalWork, CopyDone, NextCredit DEF Step
<1>2. ASSUME NEW c \in copies, ReadSource(c) \/ Land(c) PROVE IInv'
  BY <1>2, SourceRead, Landed
<1> QED BY <1>1, <1>2, Stutters DEF Next

\* The counts of every device match its neighbours', in every reachable state.
THEOREM Invariance == Spec => []IInv
BY Initially, StepKeeps, PTL DEF Spec

-----------------------------------------------------------------------------
(* What the invariant is for.                                               *)

LEMMA IndexOf ==
  ASSUME Types, NEW d \in Devices, NEW n \in Devices, NEW s \in Sides, at[n].call = at[d].call
  PROVE  /\ S(d, s) = S(n, s) => Starts(d, s) = Starts(n, s)
         /\ S(d, s) = W(n, s) + 1 => Starts(d, s) = Waits(n, s) + 1
<1>1. /\ Base(at[d].call, s) \in Nat /\ Starts(d, s) \in Nat /\ Starts(n, s) \in Nat /\ Waits(n, s) \in Nat
  BY AtType, BaseIs, CountIs, Counts
<1> QED BY <1>1 DEF S, W

\* The sender of a copy and its receiver are in the same call.
LEMMA SameCall ==
  ASSUME IInv, NEW c \in copies
  PROVE  LET n == Neighbor(c.from, c.side) IN
         /\ n \in Devices /\ at[n].call = at[c.from].call /\ c.call = at[c.from].call
         /\ at[n].step \notin {"enter", "enter_right", "barrier"}
<1> DEFINE d == c.from
           s == c.side
           n == Neighbor(d, s)
<1>1. /\ Types /\ d \in Devices /\ s \in Sides /\ Tagged(c) /\ S(d, s) = W(n, s) + 1
  BY CopyIs DEF IInv
<1>2. n \in Devices /\ at[d].call \in Nat /\ at[n].call \in Nat
  BY <1>1, RingIs, AtType
<1>3. at[d].step \notin Entering
  BY <1>1 DEF Tagged, Starts, StartsAt
<1>4. at[d].call <= at[n].call
      /\ (at[n].call = at[d].call => at[n].step \notin {"enter", "enter_right", "barrier"})
  BY <1>1, <1>3, Joined
<1>5. ~(at[d].call < at[n].call)
  <2> SUFFICES ASSUME at[d].call < at[n].call PROVE FALSE
    OBVIOUS
  <2>1. /\ Base(at[d].call, s) \in Nat /\ Base(at[n].call, s) \in Nat /\ Count(s) \in Nat
        /\ Starts(d, s) \in 0..Count(s) /\ Waits(n, s) \in 0..Count(s)
    BY <1>1, <1>2, BaseIs, CountIs, Counts
  <2>2. Base(at[d].call, s) + Count(s) <= Base(at[n].call, s)
    BY <1>1, <1>2, BaseMonotone
  <2>3. Base(at[d].call, s) + Starts(d, s) = Base(at[n].call, s) + Waits(n, s) + 1
    BY <1>1 DEF S, W
  <2> QED BY <2>1, <2>2, <2>3
<1> QED BY <1>1, <1>2, <1>4, <1>5 DEF Tagged

\* A device that is about to enter holds both neighbours before their first copy
\* of the call, and has everything of the calls before.
LEMMA AtEntry ==
  ASSUME IInv, NEW d \in Devices, at[d].step = "enter", NEW s \in Sides
  PROVE  LET n == Neighbor(d, s) IN
         /\ n \in Devices
         /\ at[n].call <= at[d].call /\ (at[n].call = at[d].call => at[n].step \in Entering)
         /\ S(n, Other(s)) <= Base(at[d].call, Other(s))
         /\ G(n, Other(s)) <= Base(at[d].call, s)
<1> DEFINE n == Neighbor(d, s)
           o == Other(s)
           k == at[d].call
<1>1. Types /\ n \in Devices /\ o \in Sides /\ Neighbor(n, o) = d /\ Other(o) = s
  BY RingIs, SidesAre DEF IInv
<1>2. k \in Nat /\ at[n].call \in Nat /\ Starts(d, s) = 0
  BY <1>1, AtType DEF Starts, StartsAt, Entering
<1>3. at[n].call <= k
  BY <1>2, HeldBack
<1>4. at[n].call = k => at[n].step \in Entering
  <2> SUFFICES ASSUME at[n].step \notin Entering PROVE at[n].call # k
    OBVIOUS
  <2>1. at[Neighbor(n, o)].call = at[n].call => at[Neighbor(n, o)].step \notin {"enter", "enter_right", "barrier"}
    BY <1>1, Joined
  <2> QED BY <1>1, <2>1
<1>5. /\ Base(at[n].call, o) \in Nat /\ Base(at[n].call, s) \in Nat /\ Base(k, o) \in Nat /\ Base(k, s) \in Nat
      /\ Starts(n, o) \in 0..Count(o) /\ Grants(n, o) \in 0..Count(s)
      /\ Count(o) \in Nat /\ Count(s) \in Nat
  BY <1>1, <1>2, BaseIs, CountIs, Counts
<1>6. S(n, o) = Base(at[n].call, o) + Starts(n, o) /\ G(n, o) = Base(at[n].call, s) + Grants(n, o)
  BY <1>1 DEF S, G
<1>7. CASE at[n].call = k
  <2>1. Starts(n, o) = 0 /\ Grants(n, o) = 0
    BY <1>4, <1>7 DEF Starts, StartsAt, Grants, GrantsAt
  <2> QED BY <1>1, <1>3, <1>4, <1>5, <1>7, <1>6, <2>1
<1>8. CASE at[n].call < k
  <2>1. Base(at[n].call, o) + Count(o) <= Base(k, o) /\ Base(at[n].call, s) + Count(s) <= Base(k, s)
    BY <1>1, <1>2, <1>8, BaseMonotone
  <2>2. S(n, o) <= Base(k, o)
    BY <1>5, <1>6, <2>1
  <2>3. G(n, o) <= Base(k, s)
    BY <1>5, <1>6, <2>1
  <2>4. at[n].call # k
    BY <1>2, <1>8
  <2> QED BY <1>1, <1>3, <2>2, <2>3, <2>4
<1> QED BY <1>2, <1>3, <1>7, <1>8

LEMMA CountsExactly == IInv => ExactCopyCount
<1> SUFFICES ASSUME IInv, NEW d \in Devices, at[d].step = "drain", at[d].phase = right
             PROVE  started[d] = RemoteHalfOutputCopyCount
  BY DEF ExactCopyCount
<1>1. Types /\ Shape(d) /\ started[d] = Starts(d, left) + Starts(d, right) /\ left # right
      /\ left \in Sides /\ right \in Sides
  BY SidesAre DEF IInv, Types
<1>2. at[d].outer = N - 1
  BY <1>1 DEF Shape
<1>3. Starts(d, left) = N + 1 /\ Starts(d, right) = N
  BY <1>1, <1>2, LastPosition DEF Starts, Count
<1> QED BY <1>1, <1>3, NAssumption DEF RemoteHalfOutputCopyCount

LEMMA LandsInside == IInv => CopiesLandInsideTheCall
BY SameCall DEF CopiesLandInsideTheCall

LEMMA Drained == IInv => DrainedOnReturn
<1> SUFFICES ASSUME IInv, NEW d \in Devices, at[d].step = "enter"
             PROVE  /\ second[d] = 0
                    /\ \A s \in Sides : capacity[d][s] = 0 /\ sent[d][s] = 0 /\ received[d][s] = 0
                    /\ \A c \in copies : c.from # d
  BY DEF DrainedOnReturn
<1> DEFINE k == at[d].call
<1>1. Types /\ k \in Nat /\ left \in Sides /\ right \in Sides /\ left # right
      /\ Other(left) = right /\ Other(right) = left
  BY AtType, SidesAre DEF IInv
<1>2. ASSUME NEW s \in Sides PROVE Starts(d, s) = 0 /\ Waits(d, s) = 0 /\ Takes(d, s) = 0
  BY DEF Starts, StartsAt, Waits, WaitsAt, Takes, TakesAt, Entering
<1>3. ASSUME NEW s \in Sides
      PROVE  SignalsSecond(Neighbor(d, s), Other(s)) <= k
  <2> DEFINE n == Neighbor(d, s)
             o == Other(s)
  <2>1. n \in Devices /\ o \in Sides /\ Neighbor(n, o) = d /\ (o = left \/ o = right) /\ Other(o) = s
    BY RingIs, SidesAre
  <2>2. at[n].call \in Nat /\ at[n].call <= k
    BY <1>1, <2>1, AtType, AtEntry
  <2>3. CASE at[n].call < k
    BY <1>1, <2>2, <2>3 DEF SignalsSecond, One
  <2>4. CASE at[n].call = k
    <3>1. WaitsFirst(n) <= SignalsFirst(d, s)
      <4>1. Barriers(n)
        BY <2>1 DEF IInv
      <4>2. SignalsFirst(Neighbor(n, left), right) >= WaitsFirst(n)
            /\ SignalsFirst(Neighbor(n, right), left) >= WaitsFirst(n)
        BY <4>1 DEF Barriers
      <4>3. SignalsFirst(d, s) \in Nat /\ WaitsFirst(n) \in Nat
        BY <1>1, <2>1, SignalsAreInt
      <4>4. CASE o = left
        BY <1>1, <2>1, <4>2, <4>3, <4>4
      <4>5. CASE o = right
        BY <1>1, <2>1, <4>2, <4>3, <4>5
      <4> QED BY <2>1, <4>4, <4>5
    <3>2. SignalsFirst(d, s) = k
      BY <1>1 DEF SignalsFirst, One
    <3>3. at[n].step \in {"enter", "enter_right", "barrier"}
      BY <1>1, <2>4, <3>1, <3>2 DEF WaitsFirst, One
    <3> QED BY <1>1, <2>4, <3>3 DEF SignalsSecond, One
  <2> QED BY <1>1, <2>2, <2>3, <2>4
<1>4. second[d] = 0
  <2> DEFINE l == Neighbor(d, left)
             r == Neighbor(d, right)
  <2>1. /\ second[d] = SignalsSecond(l, right) + SignalsSecond(r, left) - 2 * WaitsSecond(d)
        /\ SignalsSecond(l, right) >= WaitsSecond(d) /\ SignalsSecond(r, left) >= WaitsSecond(d)
    BY DEF IInv, Barriers
  <2>2. WaitsSecond(d) = k
    BY <1>1 DEF WaitsSecond, Entering, One
  <2>3. SignalsSecond(l, right) <= k /\ SignalsSecond(r, left) <= k
    BY <1>1, <1>3
  <2>4. SignalsSecond(l, right) \in Nat /\ SignalsSecond(r, left) \in Nat
    BY <1>1, RingIs, SignalsAreInt
  <2> QED BY <1>1, <2>1, <2>2, <2>3, <2>4
<1>5. ASSUME NEW s \in Sides
      PROVE  capacity[d][s] = 0 /\ sent[d][s] = 0 /\ received[d][s] = 0
  <2> DEFINE n == Neighbor(d, s)
             o == Other(s)
             m == Neighbor(d, o)
  <2>1. n \in Devices /\ o \in Sides /\ Other(o) = s /\ m \in Devices /\ Neighbor(m, s) = d
    BY RingIs, SidesAre
  <2>2. Base(k, s) \in Nat /\ S(d, s) = Base(k, s) /\ W(d, s) = Base(k, s) /\ T(d, s) = Base(k, s)
    BY <1>1, <1>2, BaseIs DEF S, W, T
  <2>3. capacity[d][s] = 0
    <3>1. capacity[d][s] = G(n, o) - T(d, s) /\ capacity[d][s] >= 0
      BY DEF IInv, Credit
    <3>2. G(n, o) <= Base(k, s) /\ G(n, o) \in Nat
      BY <1>1, <2>1, AtEntry, TotalsAreInt
    <3> QED BY <2>2, <3>1, <3>2
  <2>4. sent[d][s] = 0
    <3>1. Own(d, s)
      BY DEF IInv
    <3> QED BY <2>2, <3>1 DEF Own
  <2>5. received[d][s] = 0
    <3>1. Flow(m, s)
      BY <2>1 DEF IInv
    <3>2. S(m, s) <= Base(k, s) /\ S(m, s) \in Nat
      BY <1>1, <2>1, AtEntry, TotalsAreInt
    <3> QED BY <2>1, <2>2, <3>1, <3>2 DEF Flow
  <2> QED BY <2>3, <2>4, <2>5
<1>6. ASSUME NEW c \in copies PROVE c.from # d
  <2>1. Tagged(c) /\ c.side \in Sides
    BY CopyIs
  <2> QED BY <1>2, <2>1 DEF Tagged
<1> QED BY <1>4, <1>5, <1>6

LEMMA NoRace == IInv => NoDataRace
<1> SUFFICES ASSUME IInv PROVE NoDataRace
  OBVIOUS
<1>1. Types
  BY DEF IInv
<1>2. ASSUME NEW c \in copies, NEW e \in copies PROVE Writing(c) \notin Reading(e)
  <2> SUFFICES ASSUME Writing(c) \in Reading(e) PROVE FALSE
    OBVIOUS
  <2> DEFINE d == c.from
             s == c.side
             n == Neighbor(d, s)
  <2>1. ~e.read /\ e.source # Input /\ e.from = n /\ e.side = s /\ e.source = c.slot
    BY DEF Writing, Reading, Place
  <2>2. /\ Tagged(c) /\ d \in Devices /\ s \in Sides /\ S(d, s) = W(n, s) + 1
        /\ Tagged(e) /\ e \in Flight(n, s)
    BY <2>1, CopyIs
  <2>3. n \in Devices /\ at[n].call = at[d].call
    BY SameCall
  <2>4. S(n, s) = W(n, s) + 1
    <3>1. Own(n, s)
      BY <2>2, <2>3 DEF IInv
    <3> QED BY <2>1, <2>2, <3>1 DEF Own
  <2>5. Starts(d, s) = Starts(n, s) /\ Starts(d, s) \in Nat
    BY <1>1, <2>2, <2>3, <2>4, IndexOf, Counts, CountIs
  <2>6. c.slot = (Starts(d, s) - 1) % 2 /\ e.slot = (Starts(n, s) - 1) % 2 /\ Starts(d, s) >= 1
        /\ e.source = 1 - e.slot
    BY <2>1, <2>2 DEF Tagged
  <2> QED BY <2>1, <2>5, <2>6
<1>3. ASSUME NEW c \in copies, NEW e \in copies, Writing(c) = Writing(e) PROVE c = e
  <2>1. /\ c.from \in Devices /\ e.from \in Devices /\ c.side \in Sides
        /\ Flight(c.from, c.side) = {c} /\ Flight(e.from, e.side) = {e}
    BY CopyIs
  <2>2. Neighbor(c.from, c.side) = Neighbor(e.from, e.side) /\ c.side = e.side
    BY <1>3 DEF Writing, Place
  <2>3. c.from = e.from
    BY <2>1, <2>2, RingIs
  <2> QED BY <2>1, <2>2, <2>3
<1>4. ASSUME NEW d \in Devices, at[d].step \in {"load", "store"}
      PROVE  LET p == at[d].phase IN
             /\ p \in Sides /\ Waits(d, p) = at[d].outer + 1 /\ Starts(d, p) = at[d].outer + 1
             /\ at[d].outer \in Nat
  <2>1. at[d].outer \in 0..(N - 1) /\ at[d].phase \in Sides
    BY <1>1, AtType
  <2>2. at[d].outer \in Nat /\ (at[d].phase = left \/ at[d].phase = right) /\ at[d].phase \in Sides
    <3>1. at[d].outer \in Nat
      BY <2>1, NAssumption
    <3>2. at[d].phase = left \/ at[d].phase = right
      BY <2>1 DEF Sides
    <3> QED BY <2>1, <3>1, <3>2
  <2>3. left # right
    BY SidesAre
  <2> QED BY <1>4, <2>2, <2>3 DEF Waits, WaitsAt, Starts, StartsAt, Entering, One
<1>5. ASSUME NEW d \in Devices, NEW c \in copies, At(d, "load") \/ At(d, "store")
      PROVE  Writing(c) # Working(d)
  <2> SUFFICES ASSUME Writing(c) = Working(d) PROVE FALSE
    OBVIOUS
  <2> DEFINE p == at[d].phase
  <2>1. Neighbor(c.from, c.side) = d /\ c.side = p /\ c.slot = WorkingSlot(at[d].outer)
    BY DEF Writing, Working, Place
  <2>2. /\ Tagged(c) /\ c.from \in Devices /\ p \in Sides /\ S(c.from, p) = W(d, p) + 1
        /\ at[d].call = at[c.from].call
    BY <2>1, CopyIs, SameCall
  <2>3. Starts(c.from, p) = Waits(d, p) + 1
    BY <1>1, <2>2, IndexOf
  <2>4. Waits(d, p) = at[d].outer + 1 /\ at[d].outer \in Nat
    BY <1>4, <1>5 DEF At
  <2>5. c.slot = (at[d].outer + 1) % 2
    BY <2>1, <2>2, <2>3, <2>4 DEF Tagged
  <2> QED BY <2>1, <2>4, <2>5 DEF WorkingSlot
<1>6. ASSUME NEW d \in Devices, NEW c \in copies, At(d, "store") PROVE Working(d) \notin Reading(c)
  <2> SUFFICES ASSUME Working(d) \in Reading(c) PROVE FALSE
    OBVIOUS
  <2> DEFINE p == at[d].phase
  <2>1. ~c.read /\ c.from = d /\ c.side = p
    BY DEF Working, Reading, Place
  <2>2. p \in Sides /\ Waits(d, p) = Starts(d, p)
    BY <1>4, <1>6 DEF At
  <2>3. c \in Flight(d, p)
    BY <2>1 DEF Flight
  <2>4. S(d, p) = W(d, p) + 1
    <3>1. Own(d, p)
      BY <2>2 DEF IInv
    <3> QED BY <2>1, <2>3, <3>1 DEF Own
  <2>5. S(d, p) = W(d, p) /\ W(d, p) \in Nat
    BY <1>1, <2>2, TotalsAreInt DEF S, W
  <2> QED BY <2>4, <2>5
<1> QED BY <1>2, <1>3, <1>5, <1>6 DEF NoDataRace

\* A call starts exactly 2N+1 remote copies on every device, as the plan counts.
THEOREM CopiesAreCounted == Spec => []ExactCopyCount
BY Invariance, CountsExactly, PTL

\* A remote copy only writes into a device that is inside the same call and
\* past its first barrier.
THEOREM CopiesStayInside == Spec => []CopiesLandInsideTheCall
BY Invariance, LandsInside, PTL

\* A device that is outside a call has left nothing on its semaphores.
THEOREM ReturnsDrained == Spec => []DrainedOnReturn
BY Invariance, Drained, PTL

\* No half of the scratch buffer is read or written while a copy writes it.
THEOREM RacesAreExcluded == Spec => []NoDataRace
BY Invariance, NoRace, PTL

-----------------------------------------------------------------------------
(* The sums that travel round the ring.                                     *)

\* The device i steps against the direction in which half h travels.
Back(d, h, i) ==
  IF h = left THEN (IF d + i < N THEN d + i ELSE d + i - N)
              ELSE (IF d - i >= 0 THEN d - i ELSE d - i + N)

\* What reaches device d on half h with n contributions in it.
Sum(k, d, h, n) == [i \in 1..n |-> <<k, Back(d, h, n + 1 - i), Back(d, h, n)>>]

LEMMA BackIs ==
  ASSUME NEW d \in Devices, NEW h \in Sides
  PROVE  /\ \A i \in 0..N : Back(d, h, i) \in Devices
         /\ Back(d, h, 0) = d /\ Back(d, h, N) = d
         /\ Back(d, h, 1) = Neighbor(d, Other(h))
         /\ \A i \in 0..(N - 1) : Back(Neighbor(d, h), h, i + 1) = Back(d, h, i)
         /\ \A i \in 1..N, j \in 1..N : Back(d, h, i) = Back(d, h, j) => i = j
         /\ \A e \in Devices : \E i \in 1..N : Back(d, h, i) = e
<1>1. N \in Nat /\ N >= 2 /\ d \in Nat /\ d < N /\ left = 0 /\ right = 1 /\ (h = 0 \/ h = 1)
      /\ Other(0) = 1 /\ Other(1) = 0
  BY NAssumption DEF Devices, Sides, left, right, Other
<1>2. /\ Neighbor(d, 1) = IF d = N - 1 THEN 0 ELSE d + 1
      /\ Neighbor(d, 0) = IF d = 0 THEN N - 1 ELSE d - 1
  BY <1>1, NeighborIs
<1>3. \A i \in 0..N : Back(d, h, i) \in Devices
  BY <1>1 DEF Back, Devices
<1>4. Back(d, h, 0) = d /\ Back(d, h, N) = d
  BY <1>1 DEF Back
<1>5. Back(d, h, 1) = Neighbor(d, Other(h))
  BY <1>1, <1>2 DEF Back
<1>6. \A i \in 0..(N - 1) : Back(Neighbor(d, h), h, i + 1) = Back(d, h, i)
  BY <1>1, <1>2 DEF Back
<1>7. \A i \in 1..N, j \in 1..N : Back(d, h, i) = Back(d, h, j) => i = j
  BY <1>1 DEF Back
<1>8. ASSUME NEW e \in Devices PROVE \E i \in 1..N : Back(d, h, i) = e
  <2>1. e \in Nat /\ e < N
    BY <1>1 DEF Devices
  <2> DEFINE j == IF h = left THEN e - d ELSE d - e
             i == IF j <= 0 THEN j + N ELSE j
  <2>2. i \in 1..N /\ Back(d, h, i) = e
    BY <1>1, <2>1 DEF Back
  <2> QED BY <2>2
<1> QED BY <1>3, <1>4, <1>5, <1>6, <1>7, <1>8

\* The chunk added at an outer step is that of the sum which is there.
LEMMA SourceIs ==
  ASSUME NEW d \in Devices, NEW h \in Sides, NEW o \in 0..(N - 1)
  PROVE  Source(d, h, o) = Back(d, h, o + 1)
<1>1. N \in Nat /\ N >= 2 /\ d \in Nat /\ d < N /\ o \in Nat /\ o < N /\ left = 0 /\ (h = 0 \/ h = 1)
  BY NAssumption DEF Devices, Sides, left, right
<1>2. \A x \in Nat : x < N => x % N = x /\ (x + N) % N = x /\ (x + N + N) % N = x
  BY <1>1
<1>3. CASE h = 0
  <2>1. Source(d, h, o) = (d + o + 1 + N) % N
    BY <1>1, <1>3 DEF Source, RingMod, Rem
  <2>2. CASE d + o + 1 < N
    BY <1>1, <1>2, <1>3, <2>1, <2>2 DEF Back
  <2>3. CASE d + o + 1 >= N
    <3> DEFINE x == d + o + 1 - N
    <3>1. x \in Nat /\ x < N /\ d + o + 1 + N = x + N + N
      BY <1>1, <2>3
    <3>2. (x + N + N) % N = x
      BY <1>2, <3>1
    <3> QED BY <1>1, <1>3, <2>1, <2>3, <3>1, <3>2 DEF Back
  <2> QED BY <1>1, <2>2, <2>3
<1>4. CASE h = 1
  <2>1. Source(d, h, o) = (d - o - 1 + N) % N
    BY <1>1, <1>4 DEF Source, RingMod, Rem
  <2>2. CASE d - o - 1 >= 0
    <3> DEFINE x == d - o - 1
    <3>1. x \in Nat /\ x < N /\ d - o - 1 + N = x + N
      BY <1>1, <2>2
    <3>2. (x + N) % N = x
      BY <1>2, <3>1
    <3> QED BY <1>1, <1>4, <2>1, <2>2, <3>1, <3>2 DEF Back
  <2>3. CASE d - o - 1 < 0
    <3> DEFINE x == d - o - 1 + N
    <3>1. x \in Nat /\ x < N
      BY <1>1, <2>3
    <3>2. x % N = x
      BY <1>2, <3>1
    <3> QED BY <1>1, <1>4, <2>1, <2>3, <3>1, <3>2 DEF Back
  <2> QED BY <1>1, <2>2, <2>3
<1> QED BY <1>1, <1>3, <1>4

LEMMA SumIs ==
  ASSUME NEW k, NEW d, NEW h, NEW n \in Nat
  PROVE  /\ DOMAIN Sum(k, d, h, n) = 1..n
         /\ Len(Sum(k, d, h, n)) = n
         /\ \A i \in 1..n : Sum(k, d, h, n)[i] = <<k, Back(d, h, n + 1 - i), Back(d, h, n)>>
<1> DEFINE Triples == {<<k, Back(d, h, n + 1 - i), Back(d, h, n)>> : i \in 1..n}
<1>1. Sum(k, d, h, n) \in [1..n -> Triples]
  BY DEF Sum
<1> QED BY <1>1 DEF Sum

LEMMA SumIsSeq ==
  ASSUME NEW k, NEW d \in Devices, NEW h \in Sides, NEW n \in 1..N
  PROVE  Sum(k, d, h, n) \in Seq({k} \X Devices \X Devices)
<1> DEFINE Triples == {k} \X Devices \X Devices
<1>1. N \in Nat /\ n \in Nat /\ n \in 0..N /\ \A i \in 1..n : n + 1 - i \in 0..N
  BY NAssumption
<1>2. \A i \in 0..N : Back(d, h, i) \in Devices
  BY BackIs
<1>3. \A i \in 1..n : <<k, Back(d, h, n + 1 - i), Back(d, h, n)>> \in Triples
  BY <1>1, <1>2
<1>4. Sum(k, d, h, n) \in [1..n -> Triples]
  BY <1>3 DEF Sum
<1> QED BY <1>1, <1>4

\* A device adds its own contribution and passes the sum on.
LEMMA SumGrows ==
  ASSUME NEW k, NEW d \in Devices, NEW h \in Sides, NEW n \in 1..(N - 1)
  PROVE  Sum(k, d, h, n) \o Contribution(k, d, Back(d, h, n)) = Sum(k, Neighbor(d, h), h, n + 1)
<1> DEFINE m == Neighbor(d, h)
           A == Sum(k, d, h, n)
           B == Contribution(k, d, Back(d, h, n))
           C == Sum(k, m, h, n + 1)
           Triples == {k} \X Devices \X Devices
<1>1. N \in Nat /\ N >= 2 /\ n \in Nat /\ n >= 1 /\ n < N /\ m \in Devices /\ n \in 1..N /\ n + 1 \in 1..N
  BY NAssumption, RingIs
<1>2. \A i \in 0..(N - 1) : Back(m, h, i + 1) = Back(d, h, i)
  BY BackIs
<1>3. /\ A \in Seq(Triples) /\ Len(A) = n
      /\ \A i \in 1..n : A[i] = <<k, Back(d, h, n + 1 - i), Back(d, h, n)>>
  BY <1>1, SumIs, SumIsSeq
<1>4. /\ C \in Seq(Triples) /\ Len(C) = n + 1
      /\ \A i \in 1..(n + 1) : C[i] = <<k, Back(m, h, n + 1 + 1 - i), Back(m, h, n + 1)>>
  BY <1>1, SumIs, SumIsSeq
<1>5. B \in Seq(Triples) /\ Len(B) = 1 /\ B[1] = <<k, d, Back(d, h, n)>>
  <2>1. n \in 0..N
    BY <1>1
  <2>2. Back(d, h, n) \in Devices
    BY <2>1, BackIs
  <2> QED BY <2>2 DEF Contribution
<1> HIDE DEF A, B, C, Triples
<1>6. /\ A \o B \in Seq(Triples) /\ Len(A \o B) = n + 1
      /\ \A i \in 1..(n + 1) : (A \o B)[i] = IF i <= n THEN A[i] ELSE B[i - n]
  <2>1. A \in Seq(Triples) /\ B \in Seq(Triples)
    BY <1>3, <1>5
  <2>2. /\ A \o B \in Seq(Triples) /\ Len(A \o B) = Len(A) + Len(B)
        /\ \A i \in 1..(Len(A) + Len(B)) : (A \o B)[i] = IF i <= Len(A) THEN A[i] ELSE B[i - Len(A)]
    BY <2>1, ConcatProperties
  <2> QED BY <1>3, <1>5, <2>2
<1>7. ASSUME NEW i \in 1..(n + 1) PROVE (A \o B)[i] = C[i]
  <2>1. Back(m, h, n + 1) = Back(d, h, n)
    BY <1>1, <1>2
  <2>2. Back(m, h, n + 1 + 1 - i) = Back(d, h, n + 1 - i)
    <3>1. n + 1 - i \in 0..(N - 1) /\ (n + 1 - i) + 1 = n + 1 + 1 - i
      BY <1>1
    <3> QED BY <1>2, <3>1
  <2>3. C[i] = <<k, Back(d, h, n + 1 - i), Back(d, h, n)>>
    BY <1>4, <2>1, <2>2
  <2>4. CASE i <= n
    <3>1. i \in 1..n
      BY <1>1, <2>4
    <3> QED BY <1>3, <1>6, <2>3, <2>4, <3>1
  <2>5. CASE ~(i <= n)
    <3>1. i = n + 1 /\ i - n = 1 /\ n + 1 - i = 0
      BY <1>1, <2>5
    <3>2. Back(d, h, 0) = d
      BY BackIs
    <3>3. (A \o B)[i] = <<k, d, Back(d, h, n)>>
      BY <1>5, <1>6, <2>5, <3>1
    <3> QED BY <2>3, <3>1, <3>2, <3>3
  <2> QED BY <2>4, <2>5
<1>8. A \o B = C
  BY <1>1, <1>4, <1>6, <1>7, SeqEqual
<1> QED BY <1>8 DEF A, B, C

LEMMA SumFirst ==
  ASSUME NEW k, NEW d \in Devices, NEW h \in Sides
  PROVE  Contribution(k, d, d) = Sum(k, Neighbor(d, h), h, 1)
<1> DEFINE m == Neighbor(d, h)
<1>1. Back(m, h, 1) = d
  <2>1. 0 \in 0..(N - 1)
    BY NAssumption
  <2>2. Back(m, h, 0 + 1) = Back(d, h, 0) /\ Back(d, h, 0) = d
    BY <2>1, BackIs
  <2> QED BY <2>2
<1>2. Sum(k, m, h, 1) = [i \in 1..1 |-> <<k, Back(m, h, 1 + 1 - i), Back(m, h, 1)>>]
  BY DEF Sum
<1>3. \A i \in 1..1 : <<k, Back(m, h, 1 + 1 - i), Back(m, h, 1)>> = <<k, d, d>>
  <2>1. \A i \in 1..1 : 1 + 1 - i = 1
    OBVIOUS
  <2> QED BY <1>1, <2>1
<1>4. Sum(k, m, h, 1) = [i \in 1..1 |-> <<k, d, d>>]
  BY <1>2, <1>3
<1> QED BY <1>4 DEF Contribution

\* The sum that has come round holds the contribution of every device once.
LEMMA SumComplete ==
  ASSUME NEW k, NEW d \in Devices, NEW h \in Sides
  PROVE  Terms(Sum(k, d, h, N)) = {<<k, e, d>> : e \in Devices}
<1> DEFINE f == Sum(k, d, h, N)
           X == {<<k, e, d>> : e \in Devices}
           terms == {f[i] : i \in DOMAIN f}
<1>1. N \in Nat /\ N >= 2
  BY NAssumption
<1>2. Back(d, h, N) = d
  BY BackIs
<1>3. DOMAIN f = 1..N /\ Len(f) = N /\ \A i \in 1..N : f[i] = <<k, Back(d, h, N + 1 - i), d>>
  <2>1. N \in 1..N
    BY <1>1
  <2> QED BY <1>2, <2>1, SumIs
<1>4. \A i \in 1..N : N + 1 - i \in 1..N /\ N + 1 - (N + 1 - i) = i
  BY <1>1
<1>5. \A i \in 1..N : f[i] \in X
  <2>1. \A i \in 1..N : N + 1 - i \in 0..N
    BY <1>1
  <2>2. \A i \in 1..N : Back(d, h, N + 1 - i) \in Devices
    BY <2>1, BackIs
  <2> QED BY <1>3, <2>2
<1>6. \A x \in X : \E i \in 1..N : f[i] = x
  <2> SUFFICES ASSUME NEW e \in Devices PROVE \E i \in 1..N : f[i] = <<k, e, d>>
    OBVIOUS
  <2>1. PICK j \in 1..N : Back(d, h, j) = e
    BY BackIs
  <2>2. N + 1 - j \in 1..N /\ f[N + 1 - j] = <<k, e, d>>
    BY <1>3, <1>4, <2>1
  <2> QED BY <2>2
<1>7. terms = X
  BY <1>3, <1>5, <1>6
<1>8. \A i \in 1..N, j \in 1..N : f[i] = f[j] => i = j
  <2> SUFFICES ASSUME NEW i \in 1..N, NEW j \in 1..N, f[i] = f[j] PROVE i = j
    OBVIOUS
  <2>1. Back(d, h, N + 1 - i) = Back(d, h, N + 1 - j)
    BY <1>3
  <2>2. N + 1 - i = N + 1 - j
    BY <1>4, <2>1, BackIs
  <2> QED BY <1>1, <2>2
<1>9. f \in Bijection(1..N, X)
  <2>1. f \in [1..N -> X]
    <3>1. f = [i \in 1..N |-> f[i]]
      BY DEF Sum
    <3> QED BY <1>5, <3>1
  <2> QED BY <1>6, <1>8, <2>1, Fun_IsInj, Fun_IsSurj DEF Bijection
<1>10. Cardinality(X) = N
  <2>1. IsFiniteSet(1..N) /\ Cardinality(1..N) = N
    BY <1>1, FS_Interval
  <2>2. ExistsBijection(1..N, X)
    BY <1>9 DEF ExistsBijection
  <2> QED BY <2>1, <2>2, FS_Bijection
<1> QED BY <1>3, <1>7, <1>10 DEF Terms

-----------------------------------------------------------------------------
(* What the memory holds, by the positions of the devices.                  *)

\* The blocks of a half that a device has stored in its call.
StoresAt(o, p, step, h) ==
  IF step \in Entering \cup Starting THEN 0
  ELSE o + One((p = right /\ h = left) \/ (p = h /\ step \in {"finish", "release", "drain"}))

Stores(d, h) == StoresAt(at[d].outer, at[d].phase, at[d].step, h)

\* The j-th copy a device starts on a side carries the sum of j contributions;
\* the last one on the left is only there to be waited for.
Carries(c) ==
  LET d == c.from
      j == Starts(d, c.side)
      v == Sum(c.call, Neighbor(d, c.side), c.side, j)
  IN
  /\ c.source = Input <=> j = 1
  /\ j <= N /\ c.read => c.data = v
  /\ j <= N /\ ~c.read /\ c.source # Input => scratch[d][c.source][c.side] = v

\* A block that has come in lies in its slot until the device stores over it.
Arrived(d, h) ==
  \A j \in 1..N :
    Stores(d, h) < j /\ j <= Waits(d, h) + received[d][h] =>
      scratch[d][(j - 1) % 2][h] = Sum(at[d].call, d, h, j)

\* A block that has been stored lies there until the next copy starts.
Stored(d, h) ==
  LET m == Stores(d, h) IN
  m \in 1..(N - 1) /\ Starts(d, h) = m =>
    scratch[d][(m - 1) % 2][h] = Sum(at[d].call, Neighbor(d, h), h, m + 1)

Added(d) ==
  LET p == at[d] IN
  /\ p.step = "store" /\ ~IsLast(d) =>
       acc[d] = Sum(p.call, Neighbor(d, p.phase), p.phase, p.outer + 2)
  /\ p.step \in {"store", "finish", "release", "drain"} /\ IsLast(d) =>
       acc[d] = Sum(p.call, d, p.phase, N)

Written(d) ==
  LET p == at[d] IN
  /\ IsLast(d) /\ p.phase = right => output[d][left] = Sum(p.call, d, left, N)
  /\ p.step = "enter" /\ p.call > 0 => \A h \in Sides : output[d][h] = Sum(p.call - 1, d, h, N)

\* The copies a device has waited for are news of the devices they passed.
Heard(d) ==
  \A i \in 1..N : Entered(Back(d, left, i)) >= at[d].call + One(i <= Waits(d, left))

MemoryShape ==
  /\ DOMAIN scratch = Devices /\ DOMAIN acc = Devices /\ DOMAIN output = Devices
  /\ \A d \in Devices :
       /\ DOMAIN scratch[d] = {0, 1} /\ DOMAIN output[d] = Sides
       /\ \A slot \in {0, 1} : DOMAIN scratch[d][slot] = Sides

DInv ==
  /\ MemoryShape
  /\ \A c \in copies : Carries(c)
  /\ \A d \in Devices, h \in Sides : Arrived(d, h) /\ Stored(d, h)
  /\ \A d \in Devices : Added(d) /\ Written(d) /\ Heard(d)

LEMMA StoresAre ==
  ASSUME NEW o \in 0..(N - 1), NEW p \in Sides, NEW h \in Sides
  PROVE  /\ StoresAt(o, p, "load", h) = StoresAt(o, p, "send", h)
         /\ StoresAt(o, p, "store", h) = StoresAt(o, p, "load", h)
         /\ StoresAt(o, p, "finish", h) = StoresAt(o, p, "store", h) + One(h = p)
         /\ StoresAt(o, p, "release", h) = StoresAt(o, p, "finish", h)
         /\ StoresAt(o, p, "drain", h) = StoresAt(o, p, "finish", h)
         /\ StoresAt(o, right, "send", h) = StoresAt(o, left, "finish", h)
         /\ StoresAt(o + 1, left, "send", h) = StoresAt(o, right, "finish", h)
         /\ \A step \in Entering \cup Starting : StoresAt(o, p, step, h) = 0
         /\ StoresAt(0, left, "load", h) = 0
<1>1. N \in Nat /\ N >= 2 /\ left = 0 /\ right = 1 /\ o \in Nat /\ o <= N - 1
      /\ (p = 0 \/ p = 1) /\ (h = 0 \/ h = 1)
  BY NAssumption DEF left, right, Sides
<1> QED BY <1>1 DEF StoresAt, Entering, Starting, One

\* Stores against starts and waits.
LEMMA StoresBetween ==
  ASSUME Types, NEW d \in Devices, NEW h \in Sides
  PROVE  /\ Stores(d, h) \in 0..N /\ Stores(d, h) <= Waits(d, h) /\ Waits(d, h) <= Stores(d, h) + 1
         /\ Starts(d, h) = Stores(d, h) /\ Starts(d, h) >= 1 => Waits(d, h) = Stores(d, h)
<1>1. N \in Nat /\ N >= 2 /\ left = 0 /\ right = 1 /\ at[d].outer \in Nat /\ at[d].outer <= N - 1
      /\ (at[d].phase = 0 \/ at[d].phase = 1) /\ (h = 0 \/ h = 1) /\ at[d].step \in Steps /\ Shape(d)
  BY NAssumption, AtType DEF left, right, Sides
<1>2. CASE at[d].step \in Entering
  BY <1>1, <1>2 DEF Stores, StoresAt, Starts, StartsAt, Waits, WaitsAt, Entering, One
<1>3. CASE at[d].step \in Starting
  BY <1>1, <1>3 DEF Stores, StoresAt, Starts, StartsAt, Waits, WaitsAt, Entering, Starting, Shape, One
<1>4. CASE at[d].step \in {"send", "load", "store", "finish"}
  BY <1>1, <1>4 DEF Stores, StoresAt, Starts, StartsAt, Waits, WaitsAt, Entering, Starting, Shape, One
<1>5. CASE at[d].step \in {"release", "drain"}
  BY <1>1, <1>5 DEF Stores, StoresAt, Starts, StartsAt, Waits, WaitsAt, Entering, Starting, Shape, One
<1> QED BY <1>1, <1>2, <1>3, <1>4, <1>5 DEF Steps, Entering, Starting

\* What the core works on has come in and is not stored yet.
LEMMA WorkIs ==
  ASSUME Types, NEW d \in Devices, at[d].step \in {"load", "store"}
  PROVE  LET p == at[d].phase IN
         /\ p \in Sides /\ Stores(d, p) = at[d].outer /\ Waits(d, p) = at[d].outer + 1
         /\ Starts(d, p) = at[d].outer + 1
         /\ at[d].outer \in Nat /\ at[d].outer < N
<1>1. N \in Nat /\ N >= 2 /\ left = 0 /\ right = 1 /\ at[d].outer \in Nat /\ at[d].outer <= N - 1
      /\ (at[d].phase = 0 \/ at[d].phase = 1) /\ at[d].phase \in Sides
  BY NAssumption, AtType DEF left, right, Sides
<1> QED BY <1>1 DEF Stores, StoresAt, Starts, StartsAt, Waits, WaitsAt, Entering, Starting, One

-----------------------------------------------------------------------------
(* What a step leaves as it was.                                            *)

LEMMA ArrivedHolds ==
  ASSUME NEW d \in Devices, NEW h \in Sides, Arrived(d, h),
         at'[d].call = at[d].call, Stores(d, h)' = Stores(d, h),
         Waits(d, h)' + received'[d][h] = Waits(d, h) + received[d][h],
         \A slot \in {0, 1} : scratch'[d][slot][h] = scratch[d][slot][h]
  PROVE  Arrived(d, h)'
<1> SUFFICES ASSUME NEW j \in 1..N, Stores(d, h)' < j, j <= Waits(d, h)' + received'[d][h]
             PROVE  scratch'[d][(j - 1) % 2][h] = Sum(at'[d].call, d, h, j)
  BY DEF Arrived
<1>1. (j - 1) % 2 \in {0, 1}
  BY NAssumption
<1>2. scratch[d][(j - 1) % 2][h] = Sum(at[d].call, d, h, j)
  BY DEF Arrived
<1> QED BY <1>1, <1>2

LEMMA HalfHolds ==
  ASSUME NEW d \in Devices, NEW h \in Sides, Arrived(d, h), Stored(d, h),
         at'[d].call = at[d].call, Stores(d, h)' = Stores(d, h), Starts(d, h)' = Starts(d, h),
         Waits(d, h)' + received'[d][h] = Waits(d, h) + received[d][h],
         Stores(d, h) \in Nat,
         \A slot \in {0, 1} : scratch'[d][slot][h] = scratch[d][slot][h]
  PROVE  Arrived(d, h)' /\ Stored(d, h)'
<1>1. Arrived(d, h)'
  BY ArrivedHolds
<1>2. Stored(d, h)'
  <2> DEFINE m == Stores(d, h)
  <2> SUFFICES ASSUME m \in 1..(N - 1), Starts(d, h) = m
               PROVE  scratch'[d][(m - 1) % 2][h] = Sum(at'[d].call, Neighbor(d, h), h, m + 1)
    BY DEF Stored
  <2>1. (m - 1) % 2 \in {0, 1}
    BY NAssumption
  <2>2. scratch[d][(m - 1) % 2][h] = Sum(at[d].call, Neighbor(d, h), h, m + 1)
    BY DEF Stored
  <2> QED BY <2>1, <2>2
<1> QED BY <1>1, <1>2

LEMMA CopyHolds ==
  ASSUME NEW c, Carries(c), Starts(c.from, c.side)' = Starts(c.from, c.side),
         ~c.read /\ c.source # Input => scratch'[c.from][c.source][c.side] = scratch[c.from][c.source][c.side]
  PROVE  Carries(c)'
BY DEF Carries

\* What a step of device d leaves alone.
Untouched(d) ==
  /\ Stepped(d) /\ MemoryShape'
  /\ \A e \in Devices : e # d =>
       /\ scratch'[e] = scratch[e] /\ acc'[e] = acc[e] /\ output'[e] = output[e]
       /\ \A h \in Sides : received'[e][h] = received[e][h]

LEMMA OthersHold ==
  ASSUME IInv, DInv, NEW d \in Devices, Untouched(d), NEW e \in Devices, e # d
  PROVE  /\ \A h \in Sides : Arrived(e, h)' /\ Stored(e, h)'
         /\ Added(e)' /\ Written(e)'
         /\ \A c \in copies : c.from = e => Carries(c)'
<1>1. Types /\ Stepped(d) /\ scratch'[e] = scratch[e] /\ acc'[e] = acc[e] /\ output'[e] = output[e]
      /\ \A h \in Sides : received'[e][h] = received[e][h]
  BY DEF IInv, Untouched
<1>2. /\ at'[e] = at[e]
      /\ \A s \in Sides : Starts(e, s)' = Starts(e, s) /\ Waits(e, s)' = Waits(e, s)
  BY <1>1, OthersStay
<1>3. \A h : Stores(e, h)' = Stores(e, h)
  BY <1>2 DEF Stores
<1>4. ASSUME NEW h \in Sides PROVE Arrived(e, h)' /\ Stored(e, h)'
  <2>1. Stores(e, h) \in Nat
    BY <1>1, StoresBetween, NAssumption
  <2>2. Arrived(e, h) /\ Stored(e, h)
    BY DEF DInv
  <2> QED BY <1>1, <1>2, <1>3, <2>1, <2>2, HalfHolds
<1>5. Added(e)'
  <2>1. Added(e)
    BY DEF DInv
  <2> QED BY <1>1, <1>2, <2>1 DEF Added, IsLast
<1>6. Written(e)'
  <2>1. Written(e)
    BY DEF DInv
  <2> QED BY <1>1, <1>2, <2>1 DEF Written, IsLast
<1>7. ASSUME NEW c \in copies, c.from = e PROVE Carries(c)'
  <2>1. Carries(c) /\ c.side \in Sides
    BY DEF DInv, IInv, Tagged, IsCopy
  <2> QED BY <1>1, <1>2, <1>7, <2>1, CopyHolds
<1> QED BY <1>4, <1>5, <1>6, <1>7

-----------------------------------------------------------------------------
(* News of the other devices.                                               *)

LEMMA EnteredIs ==
  ASSUME Types, NEW e \in Devices
  PROVE  Entered(e) \in Nat /\ at[e].call <= Entered(e) /\ Entered(e) <= at[e].call + 1
         /\ (at[e].step # "enter" => Entered(e) = at[e].call + 1)
BY AtType DEF Entered

\* A copy that came in tells of the neighbour, and of all the neighbour knows.
LEMMA NewsComesIn ==
  ASSUME IInv, DInv, NEW d \in Devices, NEW j \in 1..N,
         S(Neighbor(d, right), left) >= Base(at[d].call, left) + j
  PROVE  Entered(Back(d, left, j)) >= at[d].call + 1
<1> DEFINE e == Neighbor(d, right)
           k == at[d].call
<1>1. Types /\ e \in Devices /\ left \in Sides /\ right \in Sides /\ Other(left) = right
      /\ N \in Nat /\ N >= 2 /\ j \in Nat /\ j >= 1 /\ j <= N
  BY RingIs, SidesAre, NAssumption DEF IInv
<1>2. k \in Nat /\ at[e].call \in Nat
  BY <1>1, AtType
<1>3. /\ Starts(e, left) \in 0..Count(left) /\ Waits(e, left) \in Nat /\ Starts(e, left) \in Nat
      /\ Starts(e, left) <= Waits(e, left) + 1
      /\ Base(k, left) \in Nat /\ Count(left) \in Nat
  BY <1>1, <1>2, Counts, BaseIs, CountIs
<1>4. S(e, left) = Base(at[e].call, left) + Starts(e, left)
  BY DEF S
<1>5. k <= at[e].call /\ (k = at[e].call => j <= Starts(e, left))
  <2>1. CASE at[e].call < k
    <3>1. Base(at[e].call, left) + Count(left) <= Base(k, left) /\ Base(at[e].call, left) \in Nat
      BY <1>1, <1>2, <2>1, BaseMonotone, BaseIs
    <3> QED BY <1>1, <1>3, <1>4, <3>1
  <2>2. CASE at[e].call = k
    BY <1>1, <1>2, <1>3, <1>4, <2>2
  <2> QED BY <1>2, <2>1, <2>2
<1>6. CASE j = 1
  <2>1. Back(d, left, 1) = e
    BY <1>1, BackIs
  <2>2. k = at[e].call => at[e].step # "enter"
    <3>1. at[e].step = "enter" => Starts(e, left) = 0
      BY DEF Starts, StartsAt, Entering
    <3> QED BY <1>3, <1>5, <1>6, <3>1
  <2>3. Entered(e) \in Nat /\ at[e].call <= Entered(e) /\ (at[e].step # "enter" => Entered(e) = at[e].call + 1)
    BY <1>1, EnteredIs
  <2> QED BY <1>2, <1>5, <1>6, <2>1, <2>2, <2>3
<1>7. CASE j > 1
  <2> DEFINE i == j - 1
  <2>1. i \in 1..N /\ i \in 0..(N - 1) /\ i + 1 = j
    BY <1>1, <1>7
  <2>2. Back(d, left, j) = Back(e, left, i)
    <3>1. Neighbor(e, left) = d
      BY <1>1, RingIs, SidesAre
    <3>2. \A x \in 0..(N - 1) : Back(Neighbor(e, left), left, x + 1) = Back(e, left, x)
      BY <1>1, BackIs
    <3> QED BY <2>1, <3>1, <3>2
  <2>3. Entered(Back(e, left, i)) >= at[e].call + One(i <= Waits(e, left))
    <3>1. Heard(e)
      BY <1>1 DEF DInv
    <3> QED BY <2>1, <3>1 DEF Heard
  <2>4. Entered(Back(e, left, i)) \in Nat
    <3>1. i \in 0..N
      BY <1>1, <2>1
    <3> QED BY <1>1, <3>1, BackIs, EnteredIs
  <2>5. k = at[e].call => i <= Waits(e, left)
    BY <1>1, <1>3, <1>5
  <2> QED BY <1>2, <1>5, <2>2, <2>3, <2>4, <2>5 DEF One
<1> QED BY <1>1, <1>6, <1>7

LEMMA HeardHolds ==
  ASSUME NEW e \in Devices, at'[e].call \in Nat,
         \A x \in Devices : Entered(x)' >= Entered(x) /\ Entered(x) \in Nat /\ Entered(x)' \in Nat,
         \A i \in 1..N : Entered(Back(e, left, i)) >= at'[e].call + One(i <= Waits(e, left)')
  PROVE  Heard(e)'
<1> SUFFICES ASSUME NEW i \in 1..N
             PROVE  (Entered(Back(e, left, i)) >= at[e].call + One(i <= Waits(e, left)))'
  BY DEF Heard
<1>1. PICK y \in Devices : y = Back(e, left, i)
  <2>1. i \in 0..N
    BY NAssumption
  <2> QED BY <2>1, SidesAre, BackIs
<1>2. Entered(y) >= at'[e].call + One(i <= Waits(e, left)')
  BY <1>1
<1>3. at'[e].call + One(i <= Waits(e, left)') \in Nat
  BY DEF One
<1>4. Entered(y)' >= at'[e].call + One(i <= Waits(e, left)')
  BY <1>2, <1>3
<1> QED BY <1>1, <1>4

\* Devices only enter, and one that takes a copy in has news of one more.
LEMMA HeardAfter ==
  ASSUME IInv, IInv', DInv, NEW d \in Devices, Stepped(d),
         at'[d].call = at[d].call, Waits(d, left)' \in {Waits(d, left), Waits(d, left) + 1},
         at'[d].step # "enter", NEW e \in Devices
  PROVE  Heard(e)'
<1>1. Types /\ left \in Sides /\ right \in Sides /\ N \in Nat /\ N >= 2
  BY SidesAre, NAssumption DEF IInv
<1>2. ASSUME NEW x \in Devices PROVE Entered(x)' >= Entered(x) /\ Entered(x) \in Nat /\ Entered(x)' \in Nat
  <2>1. CASE x = d
    BY <1>1, <2>1, AtType DEF Entered
  <2>2. CASE x # d
    <3>1. at'[x] = at[x]
      BY <2>2 DEF Stepped
    <3> QED BY <1>1, <3>1, AtType DEF Entered
  <2> QED BY <2>1, <2>2
<1>3. at'[e].call \in Nat
  BY DEF Stepped
<1>4. Heard(e)
  BY DEF DInv
<1>5. CASE e # d
  <2>1. at'[e] = at[e] /\ Waits(e, left)' = Waits(e, left)
    BY <1>1, <1>5, OthersStay
  <2>2. \A i \in 1..N : Entered(Back(e, left, i)) >= at'[e].call + One(i <= Waits(e, left)')
    BY <1>4, <2>1 DEF Heard
  <2> QED BY <1>2, <1>3, <2>2, HeardHolds
<1>6. CASE e = d
  <2>1. ASSUME NEW i \in 1..N PROVE Entered(Back(d, left, i)) >= at'[d].call + One(i <= Waits(d, left)')
    <3>1. Entered(Back(d, left, i)) >= at[d].call + One(i <= Waits(d, left))
      BY <1>4, <1>6 DEF Heard
    <3>2. Waits(d, left) \in Nat /\ Waits(d, left)' \in Nat
      BY <1>1, Counts, CountIs
    <3>3. CASE (i <= Waits(d, left)') => (i <= Waits(d, left))
      <4>1. Entered(Back(d, left, i)) \in Nat /\ at[d].call \in Nat
        <5>1. i \in 0..N
          BY <1>1
        <5> QED BY <1>1, <5>1, BackIs, EnteredIs, AtType
      <4> QED BY <3>1, <3>3, <4>1 DEF One
    <3>4. CASE i <= Waits(d, left)' /\ ~(i <= Waits(d, left))
      <4> DEFINE n == Neighbor(d, right)
      <4>1. n \in Devices /\ n # d /\ Neighbor(n, left) = d
        BY <1>1, RingIs, SidesAre
      <4>2. S(n, left)' = S(n, left)
        BY <1>1, <4>1, OthersStay
      <4>3. W(d, left)' = Base(at[d].call, left) + Waits(d, left)'
        BY DEF W, Base
      <4>4. Base(at[d].call, left) \in Nat
        BY <1>1, AtType, BaseIs
      <4>5. S(n, left)' \in Nat /\ W(d, left)' \in Nat
        BY <1>1, <3>2, <4>1, <4>2, <4>3, <4>4, TotalsAreInt
      <4>6. S(n, left)' >= W(d, left)'
        <5>1. Flow(n, left)'
          BY <1>1, <4>1 DEF IInv
        <5>2. \/ S(n, left)' = W(d, left)'
              \/ S(n, left)' = W(d, left)' + 1
          BY <4>1, <5>1 DEF Flow
        <5> QED BY <4>5, <5>2
      <4>7. S(n, left) >= Base(at[d].call, left) + i
        BY <3>2, <3>4, <4>2, <4>5, <4>6, <4>3, <4>4
      <4>8. Entered(Back(d, left, i)) >= at[d].call + 1
        BY <4>7, NewsComesIn
      <4> QED BY <3>4, <4>8 DEF One
    <3> QED BY <3>3, <3>4
  <2> QED BY <1>2, <1>3, <1>6, <2>1, HeardHolds
<1> QED BY <1>5, <1>6

-----------------------------------------------------------------------------
(* Steps inside a call.                                                     *)

\* Copies started, waited for and blocks stored by a step of d in its call.
Shifted(d, st, tk, wr) ==
  /\ at'[d].call = at[d].call
  /\ \A h \in Sides :
       /\ Starts(d, h)' = Starts(d, h) + One(h \in st)
       /\ Waits(d, h)' = Waits(d, h) + One(h \in tk)
       /\ Stores(d, h)' = Stores(d, h) + One(h \in wr)

LEMMA ShiftIs ==
  ASSUME Types, NEW d \in Devices, NEW o \in 0..(N - 1), NEW p \in Sides, NEW step \in Steps,
         Placed(d, at[d].call, o, p, step),
         step \in Entering \cup Starting => o = 0 /\ p = left,
         step \in {"send", "release"} => ~(o = 0 /\ p = left),
         step = "drain" => o = N - 1,
         NEW st, NEW tk, NEW gr, NEW ta, NEW wr,
         Differ(at[d].outer, at[d].phase, at[d].step, o, p, step, st, tk, gr, ta),
         \A h \in Sides : StoresAt(o, p, step, h) = Stores(d, h) + One(h \in wr)
  PROVE  /\ Stepped(d) /\ Shifted(d, st, tk, wr)
         /\ at'[d].call = at[d].call /\ at'[d].outer = o /\ at'[d].phase = p /\ at'[d].step = step
<1>1. at[d].call \in Nat
  BY AtType
<1>2. /\ at' \in [Devices -> [call : Nat, outer : 0..(N - 1), phase : Sides, step : Steps]]
      /\ at'[d].call = at[d].call /\ at'[d].outer = o /\ at'[d].phase = p /\ at'[d].step = step
      /\ \A e \in Devices : e # d => at'[e] = at[e]
  BY <1>1, PlacedIs
<1>3. Stepped(d)
  BY <1>2 DEF Stepped, Shape
<1>4. Shifted(d, st, tk, wr)
  BY <1>2 DEF Shifted, Differ, Starts, Waits, Stores
<1> QED BY <1>2, <1>3, <1>4

\* A step inside a call that is right for its own device.
LEMMA Inside ==
  ASSUME IInv, IInv', DInv, NEW d \in Devices, NEW st, NEW tk, NEW wr,
         Untouched(d), Shifted(d, st, tk, wr), at'[d].step # "enter",
         \A h \in Sides : Arrived(d, h)' /\ Stored(d, h)',
         Added(d)', Written(d)',
         \A c \in copies' : c \in copies \/ c.from = d,
         \A c \in copies' : c.from = d => Carries(c)'
  PROVE  DInv'
<1>1. left \in Sides /\ Types
  BY SidesAre DEF IInv
<1>2. Waits(d, left)' \in {Waits(d, left), Waits(d, left) + 1}
  <2>1. Waits(d, left)' = Waits(d, left) + One(left \in tk) /\ Waits(d, left) \in Nat
    BY <1>1, Counts, CountIs DEF Shifted
  <2> QED BY <2>1 DEF One
<1>3. \A e \in Devices : Heard(e)'
  <2>1. Stepped(d) /\ at'[d].call = at[d].call
    BY DEF Untouched, Shifted
  <2> QED BY <1>2, <2>1, HeardAfter
<1>4. ASSUME NEW e \in Devices
      PROVE  (\A h \in Sides : Arrived(e, h)' /\ Stored(e, h)') /\ Added(e)' /\ Written(e)'
  BY OthersHold
<1>5. ASSUME NEW c \in copies' PROVE Carries(c)'
  <2>1. CASE c.from = d
    BY <2>1
  <2>2. CASE c.from # d
    <3>1. c \in copies /\ c.from \in Devices
      BY <2>2 DEF IInv, Tagged, IsCopy
    <3> QED BY <2>2, <3>1, OthersHold
  <2> QED BY <2>1, <2>2
<1>6. MemoryShape'
  BY DEF Untouched
<1> QED BY <1>3, <1>4, <1>5, <1>6 DEF DInv

\* A step that leaves the blocks of its device where they are.
LEMMA Quiet ==
  ASSUME IInv, IInv', DInv, NEW d \in Devices, NEW tk,
         Untouched(d), Shifted(d, {}, tk, {}), at'[d].step # "enter",
         scratch' = scratch, copies' = copies,
         \A h \in Sides : received'[d][h] = received[d][h] - One(h \in tk),
         Added(d)', Written(d)'
  PROVE  DInv'
<1>1. Types
  BY DEF IInv
<1>2. ASSUME NEW h \in Sides
      PROVE  /\ Starts(d, h)' = Starts(d, h) /\ Stores(d, h)' = Stores(d, h)
             /\ Waits(d, h)' + received'[d][h] = Waits(d, h) + received[d][h]
             /\ Stores(d, h) \in Nat
  <2>1. Starts(d, h) \in Nat /\ Waits(d, h) \in Nat /\ Stores(d, h) \in Nat /\ received[d][h] \in Int
    BY <1>1, Counts, CountIs, StoresBetween, VariableTypes, NAssumption
  <2>2. /\ Starts(d, h)' = Starts(d, h) + One(h \in {}) /\ Stores(d, h)' = Stores(d, h) + One(h \in {})
        /\ Waits(d, h)' = Waits(d, h) + One(h \in tk)
    BY DEF Shifted
  <2> QED BY <2>1, <2>2 DEF One
<1>3. ASSUME NEW h \in Sides PROVE Arrived(d, h)' /\ Stored(d, h)'
  <2>1. Arrived(d, h) /\ Stored(d, h) /\ at'[d].call = at[d].call
    BY DEF DInv, Shifted
  <2> QED BY <1>2, <2>1, HalfHolds
<1>4. ASSUME NEW c \in copies, c.from = d PROVE Carries(c)'
  <2>1. Carries(c) /\ c.side \in Sides
    BY DEF DInv, IInv, Tagged, IsCopy
  <2> QED BY <1>2, <1>4, <2>1, CopyHolds
<1> QED BY <1>3, <1>4, Inside

\* The same, by the place the step leads to.
LEMMA QuietPlace ==
  ASSUME IInv, IInv', DInv, NEW d \in Devices,
         NEW o \in 0..(N - 1), NEW p \in Sides, NEW step \in Steps \ {"enter", "store"},
         Placed(d, at[d].call, o, p, step),
         step \in Entering \cup Starting => o = 0 /\ p = left,
         step \in {"send", "release"} => ~(o = 0 /\ p = left),
         step = "drain" => o = N - 1,
         NEW tk, NEW gr, NEW ta,
         Differ(at[d].outer, at[d].phase, at[d].step, o, p, step, {}, tk, gr, ta),
         \A h \in Sides : StoresAt(o, p, step, h) = Stores(d, h),
         UNCHANGED <<scratch, acc, output, copies>>,
         \A e \in Devices, h \in Sides : received'[e][h] = received[e][h] - One(e = d /\ h \in tk),
         step \in {"finish", "release", "drain"} /\ o = N - 1 =>
           at[d].step \in {"finish", "release"} /\ at[d].outer = o /\ at[d].phase = p,
         o = N - 1 /\ p = right => at[d].outer = o /\ at[d].phase = p
  PROVE  DInv'
<1>1. Types /\ \A h \in Sides : Stores(d, h) \in Nat
  BY StoresBetween, NAssumption DEF IInv
<1>2. \A h \in Sides : StoresAt(o, p, step, h) = Stores(d, h) + One(h \in {})
  BY <1>1 DEF One
<1>3. /\ Stepped(d) /\ Shifted(d, {}, tk, {})
      /\ at'[d].call = at[d].call /\ at'[d].outer = o /\ at'[d].phase = p /\ at'[d].step = step
  BY <1>1, <1>2, ShiftIs
<1>4. Untouched(d)
  <2>1. MemoryShape'
    BY DEF DInv, MemoryShape
  <2>2. \A e \in Devices, h \in Sides : e # d => received'[e][h] = received[e][h]
    <3>1. \A e \in Devices, h \in Sides : received[e][h] \in Int
      BY <1>1, VariableTypes
    <3> QED BY <3>1 DEF One
  <2> QED BY <1>3, <2>1, <2>2 DEF Untouched
<1>5. Added(d)'
  <2>1. Added(d)
    BY DEF DInv
  <2> QED BY <1>3, <2>1 DEF Added, IsLast
<1>6. Written(d)'
  <2>1. Written(d)
    BY DEF DInv
  <2> QED BY <1>3, <2>1 DEF Written, IsLast
<1>7. \A h \in Sides : received'[d][h] = received[d][h] - One(h \in tk)
  OBVIOUS
<1> QED BY <1>3, <1>4, <1>5, <1>6, <1>7, Quiet

LEMMA EnteringPositions ==
  ASSUME NEW a \in Entering \cup {"initial_left"}, NEW b \in Entering \cup {"initial_left"}
  PROVE  Differ(0, left, a, 0, left, b, {}, {}, {}, {})
BY DEF Differ, StartsAt, WaitsAt, GrantsAt, TakesAt, Starting, One

\* The barriers.
LEMMA EnteringKeeps ==
  ASSUME IInv, IInv', DInv, NEW d \in Devices, at[d].step \in Entering,
         NEW step \in Entering \cup {"initial_left"}, step # "enter", Goto(d, step),
         UNCHANGED <<scratch, acc, output, copies, received>>
  PROVE  DInv'
<1>1. Types /\ at[d].outer = 0 /\ at[d].phase = left /\ left \in Sides /\ left # right
      /\ N \in Nat /\ N >= 2 /\ 0 \in 0..(N - 1)
  BY AtType, SidesAre, NAssumption DEF IInv, Shape
<1>2. Placed(d, at[d].call, 0, left, step)
  BY <1>1, GotoPlaces
<1>3. Differ(at[d].outer, at[d].phase, at[d].step, 0, left, step, {}, {}, {}, {})
  BY <1>1, EnteringPositions
<1>4. \A h \in Sides : StoresAt(0, left, step, h) = Stores(d, h)
  BY <1>1 DEF Stores, StoresAt, Starting
<1>5. \A e \in Devices, h \in Sides : received'[e][h] = received[e][h] - One(e = d /\ h \in {})
  <2>1. \A e \in Devices, h \in Sides : received[e][h] \in Int
    BY <1>1, VariableTypes
  <2> QED BY <2>1 DEF One
<1>6. step \in Steps \ {"enter", "store"} /\ step \notin {"send", "release", "drain", "finish"}
  BY DEF Steps, Entering
<1>7. 0 # N - 1
  BY <1>1
<1> QED BY <1>1, <1>2, <1>3, <1>4, <1>5, <1>6, <1>7, QuietPlace

LEMMA NoneReceived ==
  ASSUME Types, NEW d \in Devices, UNCHANGED received, NEW e \in Devices, NEW h \in Sides
  PROVE  received'[e][h] = received[e][h] - One(e = d /\ h \in {})
BY VariableTypes DEF One

\* The credits at the start of a call.
LEMMA GrantKeeps ==
  ASSUME IInv, IInv', DInv, NEW d \in Devices, GrantCapacity(d)
  PROVE  DInv'
<1>1. /\ Types /\ at[d].step \in {"grant_left", "grant_right"} /\ at[d].outer = 0 /\ at[d].phase = left
      /\ left \in Sides /\ left # right /\ N \in Nat /\ N >= 2 /\ 0 \in 0..(N - 1) /\ 0 # N - 1
      /\ UNCHANGED <<scratch, acc, output, copies, received>>
  <2>1. at[d].step \in {"grant_left", "grant_right"} /\ UNCHANGED <<scratch, acc, output, copies, received>>
    BY DEF GrantCapacity, At, memory
  <2>2. Shape(d) /\ Types
    BY AtType DEF IInv
  <2>3. N \in Nat /\ N >= 2 /\ 0 \in 0..(N - 1) /\ 0 # N - 1
    BY NAssumption
  <2> QED BY <2>1, <2>2, <2>3, SidesAre DEF Shape, Starting
<1>2. \A e \in Devices, h \in Sides : received'[e][h] = received[e][h] - One(e = d /\ h \in {})
  BY <1>1, NoneReceived
<1>3. \A step \in Starting \cup {"load"}, h \in Sides : StoresAt(0, left, step, h) = 0
  BY <1>1, StoresAre
<1>4. \A h \in Sides : Stores(d, h) = 0
  BY <1>1, <1>3 DEF Stores, Starting
<1>5. CASE at[d].step = "grant_left"
  <2>1. Placed(d, at[d].call, 0, left, "grant_right")
    BY <1>1, <1>5, GotoPlaces DEF GrantCapacity, At
  <2>2. Differ(at[d].outer, at[d].phase, at[d].step, 0, left, "grant_right", {}, {}, {left}, {})
    BY <1>1, <1>5, FirstPositions
  <2>3. "grant_right" \in Steps \ {"enter", "store"} /\ "grant_right" \in Starting
    BY DEF Steps, Starting
  <2> QED BY <1>1, <1>2, <1>3, <1>4, <2>1, <2>2, <2>3, QuietPlace
<1>6. CASE at[d].step = "grant_right"
  <2>1. Placed(d, at[d].call, 0, left, "load")
    BY <1>1, <1>6, GotoPlaces DEF GrantCapacity, At
  <2>2. Differ(at[d].outer, at[d].phase, at[d].step, 0, left, "load", {}, {}, {right}, {})
    BY <1>1, <1>6, FirstPositions
  <2>3. "load" \in Steps \ {"enter", "store"} /\ "load" \notin Entering \cup Starting
    BY DEF Steps, Entering, Starting
  <2> QED BY <1>1, <1>2, <1>3, <1>4, <2>1, <2>2, <2>3, QuietPlace
<1> QED BY <1>1, <1>5, <1>6

\* The wait for the copy of a grid step.
LEMMA FinishKeeps ==
  ASSUME IInv, IInv', DInv, NEW d \in Devices, Finish(d)
  PROVE  DInv'
<1> DEFINE o == at[d].outer
           p == at[d].phase
<1>1. /\ Types /\ at[d].step = "finish" /\ o \in 0..(N - 1) /\ o \in Nat /\ p \in Sides /\ (p = left \/ p = right)
      /\ left \in Sides /\ right \in Sides /\ left # right /\ N \in Nat /\ N >= 2 /\ 0 # N - 1
      /\ Other(left) = right /\ Other(p) \in Sides
      /\ TakeCompleted(d, Other(p)) /\ UNCHANGED <<scratch, acc, output, copies>>
  <2>1. at[d].step = "finish" /\ TakeCompleted(d, Other(p)) /\ UNCHANGED <<scratch, acc, output, copies>>
    BY DEF Finish, At, memory
  <2>2. Types /\ o \in 0..(N - 1) /\ p \in Sides
    BY AtType DEF IInv
  <2> QED BY <2>1, <2>2, SidesAre, NAssumption
<1>2. PICK tk : tk = {Other(p)}
  OBVIOUS
<1>3. \A e \in Devices, h \in Sides : received'[e][h] = received[e][h] - One(e = d /\ h \in tk)
  BY <1>1, <1>2, TakeCompletedIs
<1>4. CASE IsStart(d)
  <2>1. o = 0 /\ p = left
    BY <1>4 DEF IsStart
  <2>2. Placed(d, at[d].call, 0, right, "send")
    BY <1>1, <1>4, <2>1, AdvancePlaces DEF Finish
  <2>3. Differ(at[d].outer, at[d].phase, at[d].step, 0, right, "send", {}, tk, {}, {})
    BY <1>1, <1>2, <2>1, FirstPositions
  <2>4. \A h \in Sides : StoresAt(0, right, "send", h) = Stores(d, h)
    BY <1>1, <2>1, StoresAre DEF Stores
  <2>5. "send" \in Steps \ {"enter", "store"} /\ "send" \notin Entering \cup Starting
    BY DEF Steps, Entering, Starting
  <2>6. PICK q \in 0..(N - 1) : q = 0 /\ q # N - 1
    BY <1>1
  <2>7. /\ "send" \in Entering \cup Starting => q = 0 /\ right = left
        /\ "send" \in {"send", "release"} => ~(q = 0 /\ right = left)
        /\ "send" = "drain" => q = N - 1
    BY <1>1, <2>5
  <2>8. /\ "send" \in {"finish", "release", "drain"} /\ q = N - 1 =>
           at[d].step \in {"finish", "release"} /\ at[d].outer = q /\ at[d].phase = right
        /\ q = N - 1 /\ right = right => at[d].outer = q /\ at[d].phase = right
    BY <1>1, <2>6
  <2>9. right \in Sides /\ UNCHANGED <<scratch, acc, output, copies>>
    BY <1>1
  <2>10. Placed(d, at[d].call, q, right, "send") /\ Differ(at[d].outer, at[d].phase, at[d].step, q, right, "send", {}, tk, {}, {})
         /\ \A h \in Sides : StoresAt(q, right, "send", h) = Stores(d, h)
    BY <2>2, <2>3, <2>4, <2>6
  <2> QED BY ONLY IInv, IInv', DInv, <1>3, <2>5, <2>7, <2>8, <2>9, <2>10, QuietPlace
<1>5. CASE ~IsStart(d)
  <2>1. PICK q \in 0..(N - 1), r \in Sides : q = o /\ r = p
    BY <1>1
  <2>2. ~(q = 0 /\ r = left)
    BY <1>5, <2>1 DEF IsStart
  <2>3. /\ Placed(d, at[d].call, q, r, "release")
        /\ Differ(at[d].outer, at[d].phase, at[d].step, q, r, "release", {}, tk, {}, {})
    BY <1>1, <1>2, <1>5, <2>1, GotoPlaces, LaterPositions DEF Finish
  <2>4. \A h \in Sides : StoresAt(q, r, "release", h) = Stores(d, h)
    BY <1>1, <2>1, StoresAre DEF Stores
  <2>5. "release" \in Steps \ {"enter", "store"} /\ "release" \notin Entering \cup Starting
    BY DEF Steps, Entering, Starting
  <2>6. /\ "release" \in Entering \cup Starting => q = 0 /\ r = left
        /\ "release" \in {"send", "release"} => ~(q = 0 /\ r = left)
        /\ "release" = "drain" => q = N - 1
    BY <2>2, <2>5
  <2>7. /\ "release" \in {"finish", "release", "drain"} /\ q = N - 1 =>
           at[d].step \in {"finish", "release"} /\ at[d].outer = q /\ at[d].phase = r
        /\ q = N - 1 /\ r = right => at[d].outer = q /\ at[d].phase = r
    BY <1>1, <2>1
  <2>8. UNCHANGED <<scratch, acc, output, copies>>
    BY <1>1
  <2> QED BY ONLY IInv, IInv', DInv, <1>3, <2>3, <2>4, <2>5, <2>6, <2>7, <2>8, QuietPlace
<1> QED BY <1>4, <1>5

\* The credit at the end of a grid step.
LEMMA ReleaseKeeps ==
  ASSUME IInv, IInv', DInv, NEW d \in Devices, Release(d)
  PROVE  DInv'
<1> DEFINE o == at[d].outer
           p == at[d].phase
<1>1. /\ Types /\ at[d].step = "release" /\ o \in 0..(N - 1) /\ o \in Nat /\ p \in Sides /\ (p = left \/ p = right)
      /\ left \in Sides /\ right \in Sides /\ left # right /\ N \in Nat /\ N >= 2 /\ ~(o = 0 /\ p = left)
      /\ UNCHANGED <<scratch, acc, output, copies, received>>
  <2>1. at[d].step = "release" /\ UNCHANGED <<scratch, acc, output, copies, received>>
    BY DEF Release, At, memory
  <2>2. Types /\ o \in 0..(N - 1) /\ p \in Sides /\ Shape(d)
    BY AtType DEF IInv
  <2> QED BY <2>1, <2>2, SidesAre, NAssumption DEF Shape
<1>2. \A e \in Devices, h \in Sides : received'[e][h] = received[e][h] - One(e = d /\ h \in {})
  BY <1>1, NoneReceived
<1>3. CASE o = N - 1
  <2>1. Placed(d, at[d].call, o, p, "drain")
    BY <1>1, <1>3, GotoPlaces DEF Release, IsLast
  <2>2. Differ(at[d].outer, at[d].phase, at[d].step, o, p, "drain", {}, {}, {p}, {})
    BY <1>1, <1>3, LaterPositions
  <2>3. \A h \in Sides : StoresAt(o, p, "drain", h) = Stores(d, h)
    BY <1>1, StoresAre DEF Stores
  <2>4. "drain" \in Steps \ {"enter", "store"} /\ "drain" \notin Entering \cup Starting
    BY DEF Steps, Entering, Starting
  <2> QED BY <1>1, <1>2, <1>3, <2>1, <2>2, <2>3, <2>4, QuietPlace
<1>4. CASE o # N - 1 /\ p = left
  <2>1. Placed(d, at[d].call, o, right, "send")
    BY <1>1, <1>4, AdvancePlaces DEF Release, IsLast
  <2>2. Differ(at[d].outer, at[d].phase, at[d].step, o, right, "send", {}, {}, {left}, {})
    BY <1>1, <1>4, LaterPositions
  <2>3. \A h \in Sides : StoresAt(o, right, "send", h) = Stores(d, h)
    BY <1>1, <1>4, StoresAre DEF Stores
  <2>4. "send" \in Steps \ {"enter", "store"} /\ "send" \notin Entering \cup Starting
    BY DEF Steps, Entering, Starting
  <2> QED BY <1>1, <1>2, <1>4, <2>1, <2>2, <2>3, <2>4, QuietPlace
<1>5. CASE o # N - 1 /\ p = right
  <2>1. PICK q \in 0..(N - 1) : q = o + 1 /\ q # 0
    BY <1>1, <1>5
  <2>2. Placed(d, at[d].call, q, left, "send")
    BY <1>1, <1>5, <2>1, AdvancePlaces DEF Release, IsLast
  <2>3. Differ(at[d].outer, at[d].phase, at[d].step, q, left, "send", {}, {}, {right}, {})
    BY <1>1, <1>5, <2>1, LaterPositions
  <2>4. \A h \in Sides : StoresAt(q, left, "send", h) = Stores(d, h)
    BY <1>1, <1>5, <2>1, StoresAre DEF Stores
  <2>5. "send" \in Steps \ {"enter", "store"} /\ "send" \notin Entering \cup Starting
    BY DEF Steps, Entering, Starting
  <2>6. "send" \in Entering \cup Starting => q = 0 /\ left = left
    BY <2>5
  <2>7. "send" \in {"send", "release"} => ~(q = 0 /\ left = left)
    BY <2>1
  <2>8. "send" = "drain" => q = N - 1
    OBVIOUS
  <2>9. /\ "send" \in {"finish", "release", "drain"} /\ q = N - 1 =>
           at[d].step \in {"finish", "release"} /\ at[d].outer = q /\ at[d].phase = left
        /\ q = N - 1 /\ left = right => at[d].outer = q /\ at[d].phase = left
    BY <1>1
  <2>10. UNCHANGED <<scratch, acc, output, copies>>
    BY <1>1
  <2> QED BY ONLY IInv, IInv', DInv, <1>1, <1>2, <2>2, <2>3, <2>4, <2>5, <2>6, <2>7, <2>8, <2>9, <2>10, QuietPlace
<1> QED BY <1>1, <1>3, <1>4, <1>5

\* A step that starts a copy of what the device has stored last.
LEMMA StartKeeps ==
  ASSUME IInv, IInv', DInv, NEW d \in Devices, NEW s \in Sides, NEW tk,
         Untouched(d), Shifted(d, {s}, tk, {}), at'[d].step # "enter",
         NEW source \in {0, 1, Input}, NEW slot \in {0, 1},
         copies' = copies \cup {NewCopy(d, s, source, slot)}, scratch' = scratch,
         \A h \in Sides : received'[d][h] = received[d][h] - One(h \in tk),
         \A c \in copies : ~(c.from = d /\ c.side = s),
         Stores(d, s) = Starts(d, s), source = Input <=> Starts(d, s) = 0,
         Added(d)', Written(d)'
  PROVE  DInv'
<1>1. Types
  BY DEF IInv
<1>2. ASSUME NEW h \in Sides
      PROVE  /\ Stores(d, h)' = Stores(d, h)
             /\ Waits(d, h)' + received'[d][h] = Waits(d, h) + received[d][h]
             /\ Stores(d, h) \in Nat /\ Starts(d, h) \in Nat
             /\ Starts(d, h)' = IF h = s THEN Starts(d, h) + 1 ELSE Starts(d, h)
  <2>1. Starts(d, h) \in Nat /\ Waits(d, h) \in Nat /\ Stores(d, h) \in Nat /\ received[d][h] \in Int
    BY <1>1, Counts, CountIs, StoresBetween, VariableTypes, NAssumption
  <2>2. /\ Starts(d, h)' = Starts(d, h) + One(h \in {s}) /\ Stores(d, h)' = Stores(d, h) + One(h \in {})
        /\ Waits(d, h)' = Waits(d, h) + One(h \in tk)
    BY DEF Shifted
  <2> QED BY <2>1, <2>2 DEF One
<1>3. at'[d].call = at[d].call /\ \A h \in Sides : Arrived(d, h) /\ Stored(d, h)
  BY DEF DInv, Shifted
<1>4. ASSUME NEW h \in Sides PROVE Arrived(d, h)' /\ Stored(d, h)'
  <2>1. CASE h # s
    BY <1>2, <1>3, <2>1, HalfHolds
  <2>2. CASE h = s
    <3>1. Arrived(d, h)'
      BY <1>2, <1>3, ArrivedHolds
    <3>2. Starts(d, h)' # Stores(d, h)'
      BY <1>2, <2>2
    <3> QED BY <3>1, <3>2 DEF Stored
  <2> QED BY <2>1, <2>2
<1>5. PICK new : new = NewCopy(d, s, source, slot)
  OBVIOUS
<1>6. /\ new.from = d /\ new.side = s /\ new.call = at[d].call /\ new.slot = slot /\ new.source = source
      /\ ~new.read
  BY <1>1, <1>5, NewCopyIs
<1>7. Carries(new)'
  <2> DEFINE m == Starts(d, s)
  <2>1. m \in Nat /\ Starts(d, s)' = m + 1 /\ N \in Nat
    BY <1>2, NAssumption
  <2>2. ASSUME m + 1 <= N, source # Input
        PROVE  scratch'[d][source][s] = Sum(at[d].call, Neighbor(d, s), s, m + 1)
    <3>1. m \in 1..(N - 1)
      BY <2>1, <2>2
    <3>2. scratch[d][(m - 1) % 2][s] = Sum(at[d].call, Neighbor(d, s), s, m + 1)
      BY <1>3, <3>1 DEF Stored
    <3>3. slot = (m + 1 - 1) % 2 /\ source = 1 - slot
      <4>1. Tagged(new)'
        BY <1>5 DEF IInv
      <4>2. new.slot = (Starts(new.from, new.side)' - 1) % 2 /\ (new.source = Input \/ new.source = 1 - new.slot)
        BY <4>1 DEF Tagged
      <4> QED BY <1>6, <2>1, <2>2, <4>2
    <3>4. source = (m - 1) % 2
      BY <2>1, <3>1, <3>3
    <3> QED BY <3>2, <3>4
  <2>3. source = Input <=> m + 1 = 1
    BY <2>1
  <2> QED BY <1>6, <2>1, <2>2, <2>3 DEF Carries
<1>8. ASSUME NEW c \in copies', c.from = d PROVE Carries(c)'
  <2>1. CASE c \in copies
    <3>1. Carries(c) /\ c.side \in Sides /\ c.side # s
      BY <1>8, <2>1 DEF DInv, IInv, Tagged, IsCopy
    <3>2. Starts(d, c.side)' = Starts(d, c.side)
      BY <1>2, <3>1
    <3> QED BY <1>8, <3>1, <3>2, CopyHolds
  <2>2. CASE c \notin copies
    BY <1>7, <1>5, <2>2
  <2> QED BY <2>1, <2>2
<1>9. \A c \in copies' : c \in copies \/ c.from = d
  BY <1>6, <1>5
<1> QED BY <1>4, <1>8, <1>9, Inside

LEMMA FirstStart ==
  ASSUME IInv, NEW d \in Devices, NEW s \in Sides, Starts(d, s) = 0, NEW c \in copies
  PROVE  ~(c.from = d /\ c.side = s)
<1>1. Tagged(c)
  BY DEF IInv
<1> QED BY <1>1 DEF Tagged

\* The two halves of the input.
LEMMA InitialLeftKeeps ==
  ASSUME IInv, IInv', DInv, NEW d \in Devices, StartInitialLeft(d)
  PROVE  DInv'
<1>1. /\ Types /\ at[d].step = "initial_left" /\ at[d].outer = 0 /\ at[d].phase = left
      /\ left \in Sides /\ N \in Nat /\ N >= 2 /\ 0 \in 0..(N - 1) /\ 0 # N - 1
  <2>1. at[d].step = "initial_left"
    BY DEF StartInitialLeft, At
  <2>2. Shape(d) /\ Types
    BY AtType DEF IInv
  <2>3. N \in Nat /\ N >= 2 /\ 0 \in 0..(N - 1) /\ 0 # N - 1
    BY NAssumption
  <2> QED BY <2>1, <2>2, <2>3, SidesAre DEF Shape, Starting
<1>2. Placed(d, at[d].call, 0, left, "initial_right")
  BY <1>1, GotoPlaces DEF StartInitialLeft
<1>3. \A step \in Starting, h \in Sides : StoresAt(0, left, step, h) = 0
  BY <1>1, StoresAre
<1>4. Stores(d, left) = 0 /\ Starts(d, left) = 0
  BY <1>1, <1>3 DEF Stores, Starts, StartsAt, Starting
<1>5. /\ Stepped(d) /\ Shifted(d, {left}, {}, {})
      /\ at'[d].outer = 0 /\ at'[d].phase = left /\ at'[d].step = "initial_right"
  <2>1. Differ(at[d].outer, at[d].phase, at[d].step, 0, left, "initial_right", {left}, {}, {}, {})
    BY <1>1, FirstPositions
  <2>2. \A h \in Sides : StoresAt(0, left, "initial_right", h) = Stores(d, h) + One(h \in {})
    BY <1>1, <1>3 DEF Stores, Starting, One
  <2>3. "initial_right" \in Steps /\ "initial_right" \in Starting
    BY DEF Steps, Starting
  <2> QED BY <1>1, <1>2, <2>1, <2>2, <2>3, ShiftIs
<1>6. Untouched(d)
  BY <1>5 DEF Untouched, StartInitialLeft, counters, DInv, MemoryShape
<1>7. Added(d)' /\ Written(d)'
  BY <1>1, <1>5 DEF Added, Written, IsLast
<1>8. /\ copies' = copies \cup {NewCopy(d, left, Input, WorkingSlot(0))} /\ scratch' = scratch
      /\ WorkingSlot(0) \in {0, 1}
  BY DEF StartInitialLeft, StartCopy, NewCopy, WorkingSlot
<1>9. \A h \in Sides : received'[d][h] = received[d][h] - One(h \in {})
  BY <1>1, VariableTypes DEF StartInitialLeft, counters, One
<1> QED BY <1>1, <1>4, <1>5, <1>6, <1>7, <1>8, <1>9, FirstStart, StartKeeps

LEMMA InitialRightKeeps ==
  ASSUME IInv, IInv', DInv, NEW d \in Devices, StartInitialRight(d)
  PROVE  DInv'
<1>1. /\ Types /\ at[d].step = "initial_right" /\ at[d].outer = 0 /\ at[d].phase = left
      /\ left \in Sides /\ right \in Sides /\ left # right /\ N \in Nat /\ N >= 2
      /\ 0 \in 0..(N - 1) /\ 0 # N - 1
  <2>1. at[d].step = "initial_right"
    BY DEF StartInitialRight, At
  <2>2. Shape(d) /\ Types
    BY AtType DEF IInv
  <2>3. N \in Nat /\ N >= 2 /\ 0 \in 0..(N - 1) /\ 0 # N - 1
    BY NAssumption
  <2> QED BY <2>1, <2>2, <2>3, SidesAre DEF Shape, Starting
<1>2. Placed(d, at[d].call, 0, left, "grant_left")
  BY <1>1, GotoPlaces DEF StartInitialRight
<1>3. \A step \in Starting, h \in Sides : StoresAt(0, left, step, h) = 0
  BY <1>1, StoresAre
<1>4. Stores(d, right) = 0 /\ Starts(d, right) = 0
  BY <1>1, <1>3 DEF Stores, Starts, StartsAt, Starting, Entering, One
<1>5. /\ Stepped(d) /\ Shifted(d, {right}, {left}, {})
      /\ at'[d].outer = 0 /\ at'[d].phase = left /\ at'[d].step = "grant_left"
  <2>1. Differ(at[d].outer, at[d].phase, at[d].step, 0, left, "grant_left", {right}, {left}, {}, {})
    BY <1>1, FirstPositions
  <2>2. \A h \in Sides : StoresAt(0, left, "grant_left", h) = Stores(d, h) + One(h \in {})
    BY <1>1, <1>3 DEF Stores, Starting, One
  <2>3. "grant_left" \in Steps /\ "grant_left" \in Starting
    BY DEF Steps, Starting
  <2> QED BY <1>1, <1>2, <2>1, <2>2, <2>3, ShiftIs
<1>6. \A e \in Devices, h \in Sides : received'[e][h] = received[e][h] - One(e = d /\ h \in {left})
  BY <1>1, TakeCompletedIs DEF StartInitialRight
<1>7. UNCHANGED <<scratch, acc, output>>
  BY DEF StartInitialRight, memory
<1>8. Untouched(d)
  <2>1. \A e \in Devices, h \in Sides : e # d => received'[e][h] = received[e][h]
    BY <1>1, <1>6, VariableTypes DEF One
  <2> QED BY <1>5, <1>7, <2>1 DEF Untouched, DInv, MemoryShape
<1>9. Added(d)' /\ Written(d)'
  BY <1>1, <1>5 DEF Added, Written, IsLast
<1>10. /\ copies' = copies \cup {NewCopy(d, right, Input, WorkingSlot(0))} /\ scratch' = scratch
       /\ WorkingSlot(0) \in {0, 1}
  BY <1>7 DEF StartInitialRight, StartCopy, NewCopy, WorkingSlot
<1>11. \A h \in Sides : received'[d][h] = received[d][h] - One(h \in {left})
  BY <1>6
<1> QED BY <1>1, <1>4, <1>5, <1>8, <1>9, <1>10, <1>11, FirstStart, StartKeeps

\* _send.
LEMMA SendKeeps ==
  ASSUME IInv, IInv', DInv, NEW d \in Devices, Send(d)
  PROVE  DInv'
<1>1. /\ Types /\ at[d].step = "send" /\ at[d].outer \in 0..(N - 1) /\ at[d].outer \in Nat /\ at[d].phase \in Sides
      /\ ~(at[d].outer = 0 /\ at[d].phase = left) /\ N \in Nat /\ N >= 2
  <2>1. at[d].step = "send"
    BY DEF Send, At
  <2>2. Shape(d) /\ Types /\ at[d].outer \in 0..(N - 1) /\ at[d].phase \in Sides
    BY AtType DEF IInv
  <2> QED BY <2>1, <2>2, NAssumption DEF Shape
<1>2. PICK o \in 0..(N - 1), p \in Sides, s \in Sides : o = at[d].outer /\ p = at[d].phase /\ s = Other(p)
  BY <1>1, SidesAre
<1>3. Placed(d, at[d].call, o, p, "load")
  BY <1>1, <1>2, GotoPlaces DEF Send
<1>4. Stores(d, s) = Starts(d, s) /\ Starts(d, s) >= 1 /\ Starts(d, s) \in Nat
  <2>1. left = 0 /\ right = 1 /\ (p = 0 \/ p = 1) /\ Other(0) = 1 /\ Other(1) = 0
    BY <1>2 DEF left, right, Sides, Other
  <2> QED BY <1>1, <1>2, <2>1 DEF Stores, StoresAt, Starts, StartsAt, Entering, Starting, One
<1>5. /\ Stepped(d) /\ Shifted(d, {s}, {}, {})
      /\ at'[d].call = at[d].call /\ at'[d].outer = o /\ at'[d].phase = p /\ at'[d].step = "load"
  <2>1. Differ(at[d].outer, at[d].phase, at[d].step, o, p, "load", {s}, {}, {}, {s})
    BY <1>1, <1>2, LaterPositions
  <2>2. \A h \in Sides : StoresAt(o, p, "load", h) = Stores(d, h) + One(h \in {})
    <3>1. \A h \in Sides : Stores(d, h) \in Nat
      BY <1>1, StoresBetween
    <3> QED BY <1>1, <1>2, <3>1, StoresAre DEF Stores, One
  <2>3. "load" \in Steps /\ "load" \notin Entering \cup Starting
    BY DEF Steps, Entering, Starting
  <2>4. "load" \notin {"send", "release"} /\ "load" # "drain"
    OBVIOUS
  <2> QED BY ONLY <1>1, <1>3, <2>1, <2>2, <2>3, <2>4, ShiftIs, SMTT(30)
<1>6. UNCHANGED <<scratch, acc, output, received>>
  BY DEF Send, memory
<1>7. Untouched(d)
  BY <1>5, <1>6 DEF Untouched, DInv, MemoryShape
<1>8. Added(d)' /\ Written(d)'
  <2>1. Added(d) /\ Written(d)
    BY DEF DInv
  <2> QED BY <1>1, <1>2, <1>5, <1>6, <2>1 DEF Added, Written, IsLast
<1>9. PICK source \in {0, 1, Input}, slot \in {0, 1} :
        source # Input /\ copies' = copies \cup {NewCopy(d, s, source, slot)}
  <2>1. o % 2 \in {0, 1}
    BY <1>1, <1>2
  <2>2. CopySource(s, o) \in {0, 1} /\ CopyTarget(s, o) \in {0, 1}
    BY <2>1 DEF CopySource, CopyTarget, ReceivingSlot, WorkingSlot
  <2>3. copies' = copies \cup {NewCopy(d, s, CopySource(s, o), CopyTarget(s, o))}
    BY <1>2 DEF Send, StartCopy, NewCopy
  <2>4. \A x \in {0, 1} : x # Input
    BY DEF Input
  <2> QED BY <2>2, <2>3, <2>4
<1>10. \A c \in copies : ~(c.from = d /\ c.side = s)
  <2>1. S(d, s) = W(Neighbor(d, s), s)
    BY <1>1, <1>2, NextIsFree
  <2>2. W(Neighbor(d, s), s) \in Nat
    BY <1>1, RingIs, TotalsAreInt
  <2>3. \A c \in copies : S(c.from, c.side) = W(Neighbor(c.from, c.side), c.side) + 1
    BY CopyIs
  <2> QED BY <2>1, <2>2, <2>3
<1>11. \A h \in Sides : received'[d][h] = received[d][h] - One(h \in {})
  BY <1>1, <1>6, VariableTypes DEF One
<1>12. source = Input <=> Starts(d, s) = 0
  BY <1>4, <1>9
<1> QED BY <1>4, <1>5, <1>6, <1>7, <1>8, <1>9, <1>10, <1>11, <1>12, StartKeeps

\* local_copy and _accumulate.
LEMMA LoadKeeps ==
  ASSUME IInv, IInv', DInv, NEW d \in Devices, Load(d)
  PROVE  DInv'
<1>1. Types /\ at[d].step = "load" /\ N \in Nat /\ N >= 2
  BY NAssumption DEF Load, At, IInv
<1>2. PICK o \in 0..(N - 1), p \in Sides : o = at[d].outer /\ p = at[d].phase
  BY <1>1, AtType
<1>3. PICK k : k = at[d].call
  OBVIOUS
<1>4. /\ Stepped(d) /\ Shifted(d, {}, {}, {})
      /\ at'[d].call = k /\ at'[d].outer = o /\ at'[d].phase = p /\ at'[d].step = "store"
  <2>1. Placed(d, at[d].call, o, p, "store")
    BY <1>1, <1>2, GotoPlaces DEF Load
  <2>2. Differ(at[d].outer, at[d].phase, at[d].step, o, p, "store", {}, {}, {}, {})
    BY <1>1, <1>2, LaterPositions
  <2>3. \A h \in Sides : StoresAt(o, p, "store", h) = Stores(d, h) + One(h \in {})
    <3>1. \A h \in Sides : Stores(d, h) \in Nat
      BY <1>1, StoresBetween
    <3> QED BY <1>1, <1>2, <3>1, StoresAre DEF Stores, One
  <2>4. /\ "store" \in Steps /\ "store" \notin Entering \cup Starting
        /\ "store" \notin {"send", "release"} /\ "store" # "drain"
    BY DEF Steps, Entering, Starting
  <2> QED BY ONLY <1>1, <1>3, <2>1, <2>2, <2>3, <2>4, ShiftIs
<1>5. UNCHANGED <<scratch, output, copies, received>>
  BY DEF Load, counters
<1>6. DOMAIN acc = Devices
  BY DEF DInv, MemoryShape
<1>7. DOMAIN acc' = Devices /\ \A e \in Devices : e # d => acc'[e] = acc[e]
  BY <1>6 DEF Load
<1>8. Untouched(d)
  BY <1>4, <1>5, <1>7 DEF Untouched, DInv, MemoryShape
<1>9. o \in Nat /\ o < N /\ Stores(d, p) = o /\ Waits(d, p) = o + 1
  BY <1>1, <1>2, WorkIs
<1>10. received[d][p] \in Int /\ received[d][p] >= 0
  <2>1. Neighbor(d, Other(p)) \in Devices /\ Neighbor(Neighbor(d, Other(p)), p) = d
    BY RingIs, SidesAre
  <2>2. Flow(Neighbor(d, Other(p)), p)
    BY <2>1 DEF IInv
  <2> QED BY <2>1, <2>2 DEF Flow
<1>11. scratch[d][WorkingSlot(o)][p] = Sum(k, d, p, o + 1)
  <2>1. Arrived(d, p)
    BY DEF DInv
  <2>2. o + 1 \in 1..N /\ o + 1 - 1 = o /\ o < o + 1 /\ o + 1 <= Waits(d, p) + received[d][p]
    BY <1>1, <1>9, <1>10
  <2>3. scratch[d][(o + 1 - 1) % 2][p] = Sum(at[d].call, d, p, o + 1)
    BY <1>9, <2>1, <2>2 DEF Arrived
  <2> QED BY <1>3, <2>2, <2>3 DEF WorkingSlot
<1>12. acc'[d] = IF o = N - 1 THEN Sum(k, d, p, N) ELSE Sum(k, Neighbor(d, p), p, o + 2)
  <2>1. acc'[d] = IF o = N - 1 THEN scratch[d][WorkingSlot(o)][p]
                  ELSE scratch[d][WorkingSlot(o)][p] \o Contribution(k, d, Source(d, p, o))
    BY <1>2, <1>3, <1>6 DEF Load, IsLast
  <2>2. CASE o = N - 1
    BY <1>1, <1>9, <1>11, <2>1, <2>2
  <2>3. CASE o # N - 1
    <3>1. o + 1 \in 1..(N - 1) /\ o + 1 + 1 = o + 2
      BY <1>1, <1>9, <2>3
    <3>2. Source(d, p, o) = Back(d, p, o + 1)
      BY SourceIs
    <3>3. Sum(k, d, p, o + 1) \o Contribution(k, d, Back(d, p, o + 1)) = Sum(k, Neighbor(d, p), p, o + 1 + 1)
      BY <3>1, SumGrows
    <3> QED BY <1>11, <2>1, <2>3, <3>1, <3>2, <3>3
  <2> QED BY <2>2, <2>3
<1>13. Added(d)'
  BY <1>4, <1>12 DEF Added, IsLast
<1>14. Written(d)'
  <2>1. Written(d)
    BY DEF DInv
  <2> QED BY <1>2, <1>3, <1>4, <1>5, <2>1 DEF Written, IsLast
<1>15. \A h \in Sides : received'[d][h] = received[d][h] - One(h \in {})
  BY <1>1, <1>5, VariableTypes DEF One
<1> QED BY <1>4, <1>5, <1>8, <1>13, <1>14, <1>15, Quiet

Puts(d, slot, h, v) == scratch' = [scratch EXCEPT ![d][slot][h] = v]

LEMMA ScratchCell ==
  ASSUME MemoryShape, NEW d \in Devices, NEW slot \in {0, 1}, NEW h \in Sides, NEW v, Puts(d, slot, h, v)
  PROVE  /\ DOMAIN scratch' = Devices
         /\ \A e \in Devices : /\ DOMAIN scratch'[e] = {0, 1}
                               /\ \A i \in {0, 1} : DOMAIN scratch'[e][i] = Sides
         /\ scratch'[d][slot][h] = v
         /\ \A e \in Devices : e # d => scratch'[e] = scratch[e]
         /\ \A i \in {0, 1}, t \in Sides : ~(i = slot /\ t = h) => scratch'[d][i][t] = scratch[d][i][t]
<1>1. DOMAIN scratch = Devices /\ \A e \in Devices : DOMAIN scratch[e] = {0, 1}
      /\ \A i \in {0, 1} : DOMAIN scratch[e][i] = Sides
  BY DEF MemoryShape
<1> DEFINE row == [scratch[d][slot] EXCEPT ![h] = v]
           rows == [scratch[d] EXCEPT ![slot] = row]
<1>2. DOMAIN row = Sides /\ row[h] = v /\ \A t \in Sides : t # h => row[t] = scratch[d][slot][t]
  BY <1>1
<1>3. DOMAIN rows = {0, 1} /\ rows[slot] = row /\ \A i \in {0, 1} : i # slot => rows[i] = scratch[d][i]
  BY <1>1
<1>4. scratch' = [scratch EXCEPT ![d] = rows]
  BY <1>1 DEF Puts
<1> HIDE DEF rows
<1>5. DOMAIN scratch' = Devices /\ scratch'[d] = rows /\ \A e \in Devices : e # d => scratch'[e] = scratch[e]
  BY <1>1, <1>4
<1> HIDE DEF row
<1> QED BY <1>1, <1>2, <1>3, <1>5

\* local_store.
LEMMA StoreKeeps ==
  ASSUME IInv, IInv', DInv, NEW d \in Devices, Store(d)
  PROVE  DInv'
<1>1. Types /\ at[d].step = "store" /\ At(d, "store") /\ N \in Nat /\ N >= 2
  BY NAssumption DEF Store, At, IInv
<1>2. PICK o \in 0..(N - 1), p \in Sides : o = at[d].outer /\ p = at[d].phase
  BY <1>1, AtType
<1>3. PICK k : k = at[d].call
  OBVIOUS
<1>4. /\ Stepped(d) /\ Shifted(d, {}, {}, {p})
      /\ at'[d].call = k /\ at'[d].outer = o /\ at'[d].phase = p /\ at'[d].step = "finish"
  <2>1. Placed(d, at[d].call, o, p, "finish")
    BY <1>1, <1>2, GotoPlaces DEF Store
  <2>2. Differ(at[d].outer, at[d].phase, at[d].step, o, p, "finish", {}, {}, {}, {})
    BY <1>1, <1>2, LaterPositions
  <2>3. \A h \in Sides : StoresAt(o, p, "finish", h) = Stores(d, h) + One(h \in {p})
    <3>1. \A h \in Sides : One(h \in {p}) = One(h = p)
      BY DEF One
    <3> QED BY <1>1, <1>2, <3>1, StoresAre DEF Stores
  <2>4. /\ "finish" \in Steps /\ "finish" \notin Entering \cup Starting
        /\ "finish" \notin {"send", "release"} /\ "finish" # "drain"
    BY DEF Steps, Entering, Starting
  <2> QED BY ONLY <1>1, <1>3, <2>1, <2>2, <2>3, <2>4, ShiftIs
<1>5. UNCHANGED <<acc, output, copies, received>>
  BY DEF Store, counters
<1>6. o \in Nat /\ o < N /\ Stores(d, p) = o /\ Waits(d, p) = o + 1 /\ Starts(d, p) = o + 1
  BY <1>1, <1>2, WorkIs
<1>7. PICK slot \in {0, 1} : slot = WorkingSlot(o) /\ slot = o % 2
  BY <1>6 DEF WorkingSlot
<1>8. MemoryShape /\ scratch' = [scratch EXCEPT ![d][slot][p] = acc[d]]
  BY <1>2, <1>7 DEF Store, DInv
<1>9. /\ DOMAIN scratch' = Devices
      /\ \A e \in Devices : /\ DOMAIN scratch'[e] = {0, 1}
                            /\ \A i \in {0, 1} : DOMAIN scratch'[e][i] = Sides
      /\ scratch'[d][slot][p] = acc[d]
      /\ \A e \in Devices : e # d => scratch'[e] = scratch[e]
      /\ \A i \in {0, 1}, t \in Sides : ~(i = slot /\ t = p) => scratch'[d][i][t] = scratch[d][i][t]
  <2>1. PICK v : v = acc[d]
    OBVIOUS
  <2>2. Puts(d, slot, p, v)
    BY <1>8, <2>1 DEF Puts
  <2>3. /\ DOMAIN scratch' = Devices
        /\ \A e \in Devices : /\ DOMAIN scratch'[e] = {0, 1}
                              /\ \A i \in {0, 1} : DOMAIN scratch'[e][i] = Sides
        /\ scratch'[d][slot][p] = v
        /\ \A e \in Devices : e # d => scratch'[e] = scratch[e]
        /\ \A i \in {0, 1}, t \in Sides : ~(i = slot /\ t = p) => scratch'[d][i][t] = scratch[d][i][t]
    BY ONLY <1>8, <2>2, d \in Devices, slot \in {0, 1}, p \in Sides, ScratchCell
  <2> QED BY <2>1, <2>3
<1>10. Untouched(d)
  <2>1. MemoryShape'
    BY <1>5, <1>8, <1>9 DEF MemoryShape
  <2> QED BY <1>4, <1>5, <1>9, <2>1 DEF Untouched
<1>11. ASSUME NEW h \in Sides
       PROVE  /\ Starts(d, h)' = Starts(d, h) /\ Waits(d, h)' = Waits(d, h)
              /\ Stores(d, h)' = IF h = p THEN o + 1 ELSE Stores(d, h)
              /\ Stores(d, h) \in Nat /\ Arrived(d, h) /\ Stored(d, h)
              /\ received[d][h] \in {0, 1}
  <2>1. Starts(d, h) \in Nat /\ Waits(d, h) \in Nat /\ Stores(d, h) \in Nat
    BY <1>1, Counts, CountIs, StoresBetween, NAssumption
  <2>2. /\ Starts(d, h)' = Starts(d, h) + One(h \in {}) /\ Stores(d, h)' = Stores(d, h) + One(h \in {p})
        /\ Waits(d, h)' = Waits(d, h) + One(h \in {})
    BY <1>4 DEF Shifted
  <2>3. received[d][h] \in {0, 1}
    <3>1. Neighbor(d, Other(h)) \in Devices /\ Neighbor(Neighbor(d, Other(h)), h) = d
      BY RingIs, SidesAre
    <3>2. Flow(Neighbor(d, Other(h)), h)
      BY <3>1 DEF IInv
    <3> QED BY <3>1, <3>2 DEF Flow
  <2>4. Arrived(d, h) /\ Stored(d, h)
    BY DEF DInv
  <2> QED BY <1>6, <2>1, <2>2, <2>3, <2>4 DEF One
<1>12. ASSUME NEW h \in Sides, h # p PROVE Arrived(d, h)' /\ Stored(d, h)'
  <2>1. /\ Arrived(d, h) /\ Stored(d, h) /\ Stores(d, h) \in Nat
        /\ Starts(d, h)' = Starts(d, h) /\ Stores(d, h)' = Stores(d, h)
        /\ Waits(d, h)' + received'[d][h] = Waits(d, h) + received[d][h]
    BY <1>5, <1>11, <1>12
  <2>2. at'[d].call = at[d].call /\ \A i \in {0, 1} : scratch'[d][i][h] = scratch[d][i][h]
    BY <1>3, <1>4, <1>9, <1>12
  <2> QED BY ONLY <2>1, <2>2, HalfHolds
<1>13. Arrived(d, p)'
  <2> SUFFICES ASSUME NEW j \in 1..N, o + 1 < j, j <= Waits(d, p) + received[d][p]
               PROVE  scratch'[d][(j - 1) % 2][p] = Sum(k, d, p, j)
    BY <1>4, <1>5, <1>11 DEF Arrived
  <2>1. j = o + 2 /\ j - 1 = o + 1 /\ j \in Nat
    BY <1>6, <1>11
  <2>2. (j - 1) % 2 \in {0, 1} /\ (j - 1) % 2 # slot
    BY <1>6, <1>7, <2>1
  <2>3. scratch[d][(j - 1) % 2][p] = Sum(k, d, p, j)
    BY <1>3, <1>6, <1>11 DEF Arrived
  <2> QED BY <1>9, <2>2, <2>3
<1>14. Stored(d, p)'
  <2> SUFFICES ASSUME o + 1 \in 1..(N - 1)
               PROVE  scratch'[d][(o + 1 - 1) % 2][p] = Sum(k, Neighbor(d, p), p, o + 1 + 1)
    BY <1>4, <1>11 DEF Stored
  <2>1. Added(d) /\ o # N - 1
    BY <1>1, <1>6 DEF DInv
  <2>2. acc[d] = Sum(k, Neighbor(d, p), p, o + 2)
    BY <1>1, <1>2, <1>3, <2>1 DEF Added, IsLast
  <2>3. o + 1 - 1 = o /\ o + 1 + 1 = o + 2
    BY <1>6
  <2> QED BY <1>7, <1>9, <2>2, <2>3
<1>15. ASSUME NEW c \in copies', c.from = d PROVE Carries(c)'
  <2>1. c \in copies /\ Carries(c) /\ Tagged(c) /\ c.side \in Sides
    BY <1>5 DEF DInv, IInv, Tagged, IsCopy
  <2>2. Starts(c.from, c.side)' = Starts(c.from, c.side)
    BY <1>11, <1>15, <2>1
  <2>3. ~c.read /\ c.source # Input => scratch'[c.from][c.source][c.side] = scratch[c.from][c.source][c.side]
    <3> SUFFICES ASSUME ~c.read, c.source # Input
                 PROVE  scratch'[c.from][c.source][c.side] = scratch[c.from][c.source][c.side]
      OBVIOUS
    <3>1. Working(d) \notin Reading(c)
      BY <1>1, <2>1, NoRace DEF NoDataRace
    <3>2. Working(d) = Place(d, slot, p)
      BY <1>2, <1>7 DEF Working
    <3>3. ~(c.source = slot /\ c.side = p)
      BY <1>15, <3>1, <3>2 DEF Reading, Place
    <3>4. c.source \in {0, 1}
      <4>1. Starts(c.from, c.side) \in Nat
        BY <1>1, <1>15, <2>1, Counts, CountIs
      <4> QED BY <2>1, <4>1 DEF Tagged
    <3> QED BY <1>9, <1>15, <2>1, <3>3, <3>4
  <2> QED BY <2>1, <2>2, <2>3, CopyHolds
<1>16. Added(d)'
  <2>1. Added(d)
    BY DEF DInv
  <2> QED BY <1>1, <1>2, <1>3, <1>4, <1>5, <2>1 DEF Added, IsLast
<1>17. Written(d)'
  <2>1. Written(d)
    BY DEF DInv
  <2> QED BY <1>2, <1>3, <1>4, <1>5, <2>1 DEF Written, IsLast
<1>18. at'[d].step # "enter" /\ \A c \in copies' : c \in copies \/ c.from = d
  BY <1>4, <1>5
<1>19. \A h \in Sides : Arrived(d, h)' /\ Stored(d, h)'
  <2> SUFFICES ASSUME NEW h \in Sides PROVE Arrived(d, h)' /\ Stored(d, h)'
    OBVIOUS
  <2> QED BY <1>12, <1>13, <1>14
<1> QED BY <1>4, <1>10, <1>15, <1>16, <1>17, <1>18, <1>19, Inside

Shows(d, h, v) == output' = [output EXCEPT ![d][h] = v]

LEMMA OutputCell ==
  ASSUME MemoryShape, NEW d \in Devices, NEW h \in Sides, NEW v, Shows(d, h, v)
  PROVE  /\ DOMAIN output' = Devices /\ \A e \in Devices : DOMAIN output'[e] = Sides
         /\ output'[d][h] = v
         /\ \A e \in Devices : e # d => output'[e] = output[e]
         /\ \A t \in Sides : t # h => output'[d][t] = output[d][t]
<1>1. DOMAIN output = Devices /\ \A e \in Devices : DOMAIN output[e] = Sides
  BY DEF MemoryShape
<1> DEFINE row == [output[d] EXCEPT ![h] = v]
<1>2. DOMAIN row = Sides /\ row[h] = v /\ \A t \in Sides : t # h => row[t] = output[d][t]
  BY <1>1
<1>3. output' = [output EXCEPT ![d] = row]
  BY <1>1 DEF Shows
<1> HIDE DEF row
<1> QED BY <1>1, <1>2, <1>3

\* _store_result of the half that is done first.
LEMMA FirstDrainKeeps ==
  ASSUME IInv, IInv', DInv, NEW d \in Devices, Drain(d), at[d].phase = left
  PROVE  DInv'
<1>1. /\ Types /\ at[d].step = "drain" /\ at[d].outer = N - 1 /\ N \in Nat /\ N >= 2 /\ N - 1 \in 0..(N - 1)
      /\ left \in Sides /\ right \in Sides /\ left # right
  <2>1. at[d].step = "drain"
    BY DEF Drain, At
  <2>2. Shape(d) /\ Types
    BY AtType DEF IInv
  <2> QED BY <2>1, <2>2, SidesAre, NAssumption DEF Shape
<1>2. PICK o \in 0..(N - 1) : o = N - 1 /\ o = at[d].outer /\ ~(o = 0 /\ right = left)
  BY <1>1
<1>3. PICK k : k = at[d].call
  OBVIOUS
<1>4. /\ Stepped(d) /\ Shifted(d, {}, {}, {})
      /\ at'[d].call = k /\ at'[d].outer = o /\ at'[d].phase = right /\ at'[d].step = "send"
  <2>1. Placed(d, at[d].call, o, right, "send")
    BY <1>1, <1>2, AdvancePlaces DEF Drain
  <2>2. Differ(at[d].outer, at[d].phase, at[d].step, o, right, "send", {}, {}, {}, {right})
    BY <1>1, <1>2, LaterPositions
  <2>3. \A h \in Sides : StoresAt(o, right, "send", h) = Stores(d, h) + One(h \in {})
    <3>1. \A h \in Sides : Stores(d, h) \in Nat
      BY <1>1, StoresBetween
    <3> QED BY <1>1, <1>2, <3>1, StoresAre DEF Stores, One
  <2>4. /\ "send" \in Steps /\ "send" \notin Entering \cup Starting /\ "send" # "drain"
    BY DEF Steps, Entering, Starting
  <2> QED BY ONLY <1>1, <1>2, <1>3, <2>1, <2>2, <2>3, <2>4, ShiftIs
<1>5. UNCHANGED <<scratch, acc, copies, received>>
  BY DEF Drain
<1>6. PICK v : v = acc[d]
  OBVIOUS
<1>7. MemoryShape /\ Shows(d, left, v)
  BY <1>6 DEF Drain, Shows, DInv
<1>8. /\ DOMAIN output' = Devices /\ \A e \in Devices : DOMAIN output'[e] = Sides
      /\ output'[d][left] = v
      /\ \A e \in Devices : e # d => output'[e] = output[e]
  BY <1>1, <1>7, OutputCell
<1>9. Untouched(d)
  <2>1. MemoryShape'
    BY <1>5, <1>7, <1>8 DEF MemoryShape
  <2> QED BY <1>4, <1>5, <1>8, <2>1 DEF Untouched
<1>10. Added(d)'
  BY <1>4 DEF Added
<1>11. Written(d)'
  <2>1. Added(d)
    BY DEF DInv
  <2>2. v = Sum(k, d, left, N)
    BY <1>1, <1>3, <1>6, <2>1 DEF Added, IsLast
  <2> QED BY <1>4, <1>8, <2>2 DEF Written, IsLast
<1>12. \A h \in Sides : received'[d][h] = received[d][h] - One(h \in {})
  BY <1>1, <1>5, VariableTypes DEF One
<1> QED BY <1>4, <1>5, <1>9, <1>10, <1>11, <1>12, Quiet

\* _store_result of the other half: the device leaves its call.
LEMMA SecondDrainKeeps ==
  ASSUME IInv, IInv', DInv, NEW d \in Devices, Drain(d), at[d].phase = right
  PROVE  DInv'
<1>1. /\ Types /\ at[d].step = "drain" /\ at[d].outer = N - 1 /\ N \in Nat /\ N >= 2 /\ N - 1 \in 0..(N - 1)
      /\ left \in Sides /\ right \in Sides /\ left # right /\ (\A h \in Sides : h = left \/ h = right)
      /\ 0 \in 0..(N - 1) /\ 0 # N - 1 /\ IsLast(d)
  <2>1. at[d].step = "drain"
    BY DEF Drain, At
  <2>2. Shape(d) /\ Types
    BY AtType DEF IInv
  <2> QED BY <2>1, <2>2, SidesAre, NAssumption DEF Shape, IsLast
<1>2. PICK k \in Nat : k = at[d].call
  BY <1>1, AtType
<1>3. PICK n \in Nat : n = k + 1
  OBVIOUS
<1>4. /\ Stepped(d)
      /\ at'[d].call = n /\ at'[d].outer = 0 /\ at'[d].phase = left /\ at'[d].step = "enter"
  <2>1. Placed(d, n, 0, left, "enter")
    BY <1>1, <1>2, <1>3, AdvancePlaces DEF Drain
  <2>2. "enter" \in Steps
    BY DEF Steps
  <2>3. /\ at' \in [Devices -> [call : Nat, outer : 0..(N - 1), phase : Sides, step : Steps]]
        /\ at'[d].call = n /\ at'[d].outer = 0 /\ at'[d].phase = left /\ at'[d].step = "enter"
        /\ \A e \in Devices : e # d => at'[e] = at[e]
    BY <1>1, <2>1, <2>2, PlacedIs
  <2> QED BY <2>3 DEF Stepped, Shape
<1>5. UNCHANGED <<scratch, acc, copies, received>>
  BY DEF Drain
<1>6. PICK v : v = acc[d]
  OBVIOUS
<1>7. MemoryShape /\ Shows(d, right, v)
  BY <1>1, <1>6 DEF Drain, Shows, DInv
<1>8. /\ DOMAIN output' = Devices /\ \A e \in Devices : DOMAIN output'[e] = Sides
      /\ output'[d][right] = v /\ output'[d][left] = output[d][left]
      /\ \A e \in Devices : e # d => output'[e] = output[e]
  BY <1>1, <1>7, OutputCell
<1>9. Untouched(d)
  <2>1. MemoryShape'
    BY <1>5, <1>7, <1>8 DEF MemoryShape
  <2> QED BY <1>4, <1>5, <1>8, <2>1 DEF Untouched
<1>10. \A h \in Sides : Starts(d, h)' = 0 /\ Waits(d, h)' = 0 /\ Stores(d, h)' = 0
  BY <1>4 DEF Starts, StartsAt, Waits, WaitsAt, Stores, StoresAt, Entering
<1>11. /\ \A h \in Sides : received'[d][h] = 0
       /\ \A c \in copies' : c.from # d
  <2>1. DrainedOnReturn'
    BY Drained, PTL
  <2> QED BY <1>4, <2>1 DEF DrainedOnReturn
<1>12. \A h \in Sides : Arrived(d, h)' /\ Stored(d, h)'
  <2> SUFFICES ASSUME NEW h \in Sides PROVE Arrived(d, h)' /\ Stored(d, h)'
    OBVIOUS
  <2>1. Arrived(d, h)'
    <3> SUFFICES ASSUME NEW j \in 1..N, 0 < j, j <= 0 + 0 PROVE FALSE
      BY <1>10, <1>11 DEF Arrived
    <3> QED OBVIOUS
  <2>2. Stored(d, h)'
    BY <1>10 DEF Stored
  <2> QED BY <2>1, <2>2
<1>13. Added(d)'
  BY <1>4 DEF Added
<1>14. Written(d)'
  <2>1. Added(d) /\ Written(d)
    BY DEF DInv
  <2>2. v = Sum(k, d, right, N) /\ output[d][left] = Sum(k, d, left, N)
    BY <1>1, <1>2, <1>6, <2>1 DEF Added, Written
  <2>3. n - 1 = k
    BY <1>3
  <2> QED BY <1>1, <1>4, <1>8, <2>2, <2>3 DEF Written, IsLast
<1>15. \A x \in Devices : Entered(x)' >= Entered(x) /\ Entered(x) \in Nat /\ Entered(x)' \in Nat
  <2> SUFFICES ASSUME NEW x \in Devices
               PROVE  Entered(x)' >= Entered(x) /\ Entered(x) \in Nat /\ Entered(x)' \in Nat
    OBVIOUS
  <2>1. CASE x = d
    BY <1>1, <1>2, <1>3, <1>4, <2>1 DEF Entered
  <2>2. CASE x # d
    <3>1. at'[x] = at[x]
      BY <1>4, <2>2 DEF Stepped
    <3> QED BY <1>1, <3>1, AtType DEF Entered
  <2> QED BY <2>1, <2>2
<1>16. ASSUME NEW e \in Devices PROVE Heard(e)'
  <2>1. Heard(e)
    BY DEF DInv
  <2>2. at'[e].call \in Nat
    BY <1>4 DEF Stepped
  <2>3. CASE e # d
    <3>1. at'[e] = at[e] /\ Waits(e, left)' = Waits(e, left)
      BY <1>1, <1>4, <2>3, OthersStay
    <3>2. \A i \in 1..N : Entered(Back(e, left, i)) >= at'[e].call + One(i <= Waits(e, left)')
      BY <2>1, <3>1 DEF Heard
    <3> QED BY <1>15, <2>2, <3>2, HeardHolds
  <2>4. CASE e = d
    <3>1. Waits(d, left) = N + 1
      BY <1>1, LastPosition DEF Waits, Count
    <3>2. ASSUME NEW i \in 1..N PROVE Entered(Back(d, left, i)) >= at'[d].call + One(i <= Waits(d, left)')
      <4>1. Entered(Back(d, left, i)) >= k + One(i <= N + 1)
        BY <1>2, <2>1, <2>4, <3>1 DEF Heard
      <4>2. i <= N + 1 /\ ~(i <= 0)
        BY <1>1
      <4>3. One(i <= N + 1) = 1 /\ One(i <= Waits(d, left)') = 0
        BY <1>1, <1>10, <4>2 DEF One
      <4> QED BY <1>3, <1>4, <4>1, <4>3
    <3> QED BY <1>15, <2>2, <2>4, <3>2, HeardHolds
  <2> QED BY <2>3, <2>4
<1>17. ASSUME NEW e \in Devices
       PROVE  (\A h \in Sides : Arrived(e, h)' /\ Stored(e, h)') /\ Added(e)' /\ Written(e)'
  BY <1>9, <1>12, <1>13, <1>14, OthersHold
<1>18. ASSUME NEW c \in copies' PROVE Carries(c)'
  <2>1. c.from # d /\ c \in copies
    BY <1>5, <1>11
  <2>2. c.from \in Devices
    BY <2>1 DEF IInv, Tagged, IsCopy
  <2> QED BY <1>9, <2>1, <2>2, OthersHold
<1>19. MemoryShape'
  BY <1>9 DEF Untouched
<1> QED BY <1>16, <1>17, <1>18, <1>19 DEF DInv

-----------------------------------------------------------------------------
(* The DMA engines.                                                         *)

\* What the cores know does not change while they do not move.
LEMMA CoresHold ==
  ASSUME IInv, DInv, at' = at, acc' = acc, output' = output, NEW d \in Devices
  PROVE  Added(d)' /\ Written(d)' /\ Heard(d)'
<1>1. Added(d) /\ Written(d) /\ Heard(d) /\ Types
  BY DEF DInv, IInv
<1>2. Added(d)' /\ Written(d)'
  BY <1>1 DEF Added, Written, IsLast
<1>3. \A x \in Devices : Entered(x)' >= Entered(x) /\ Entered(x) \in Nat /\ Entered(x)' \in Nat
  <2> SUFFICES ASSUME NEW x \in Devices
               PROVE  Entered(x)' >= Entered(x) /\ Entered(x) \in Nat /\ Entered(x)' \in Nat
    OBVIOUS
  <2>1. Entered(x)' = Entered(x)
    BY DEF Entered
  <2>2. Entered(x) \in Nat
    BY <1>1, EnteredIs
  <2> QED BY <2>1, <2>2
<1>4. \A i \in 1..N : Entered(Back(d, left, i)) >= at'[d].call + One(i <= Waits(d, left)')
  <2>1. Waits(d, left)' = Waits(d, left)
    BY DEF Waits
  <2> QED BY <1>1, <2>1 DEF Heard
<1>5. at'[d].call \in Nat
  BY <1>1, AtType
<1>6. Heard(d)'
  BY <1>3, <1>4, <1>5, HeardHolds
<1> QED BY <1>2, <1>6

LEMMA HalfStands ==
  ASSUME IInv, DInv, at' = at, NEW d \in Devices, NEW h \in Sides, received'[d][h] = received[d][h],
         \A slot \in {0, 1} : scratch'[d][slot][h] = scratch[d][slot][h]
  PROVE  Arrived(d, h)' /\ Stored(d, h)'
<1>1. Arrived(d, h) /\ Stored(d, h) /\ Types
  BY DEF DInv, IInv
<1>2. Stores(d, h)' = Stores(d, h) /\ Starts(d, h)' = Starts(d, h) /\ Waits(d, h)' = Waits(d, h)
  BY DEF Stores, Starts, Waits
<1>3. Stores(d, h) \in Nat /\ at'[d].call = at[d].call
  BY <1>1, StoresBetween, NAssumption
<1>4. Waits(d, h)' + received'[d][h] = Waits(d, h) + received[d][h]
  BY <1>2
<1> QED BY ONLY <1>1, <1>2, <1>3, <1>4, HalfHolds,
       \A slot \in {0, 1} : scratch'[d][slot][h] = scratch[d][slot][h]

\* A copy reads the sum that its device has just finished.
LEMMA ReadKeeps ==
  ASSUME IInv, IInv', DInv, NEW c \in copies, ReadSource(c)
  PROVE  DInv'
<1>1. /\ at' = at /\ acc' = acc /\ output' = output /\ scratch' = scratch /\ received' = received
      /\ ~c.read
  BY DEF ReadSource, memory
<1>2. \A d \in Devices : Added(d)' /\ Written(d)' /\ Heard(d)'
  BY <1>1, CoresHold
<1>3. \A d \in Devices, h \in Sides : Arrived(d, h)' /\ Stored(d, h)'
  BY <1>1, HalfStands
<1>4. PICK value : value = IF c.source = Input THEN Contribution(c.call, c.from, c.from)
                            ELSE scratch[c.from][c.source][c.side]
  OBVIOUS
<1>5. PICK r : r = [c EXCEPT !.read = TRUE, !.data = value]
  OBVIOUS
<1>6. copies' = (copies \ {c}) \cup {r}
  BY <1>4, <1>5 DEF ReadSource
<1>7. /\ Tagged(c) /\ IsCopy(c) /\ Carries(c) /\ c.from \in Devices /\ c.side \in Sides
  BY CopyIs DEF DInv, Tagged
<1>8. /\ r.from = c.from /\ r.side = c.side /\ r.call = c.call /\ r.source = c.source
      /\ r.read = TRUE /\ r.data = value
  BY <1>5, <1>7 DEF IsCopy
<1>9. Carries(r)'
  <2> DEFINE d == c.from
             s == c.side
             j == Starts(d, s)
  <2>1. Starts(d, s)' = j
    BY <1>1 DEF Starts
  <2>2. c.source = Input <=> j = 1
    BY <1>7 DEF Carries
  <2>3. j <= N => value = Sum(c.call, Neighbor(d, s), s, j)
    <3>1. CASE c.source = Input
      <4>1. value = Contribution(c.call, d, d) /\ j = 1
        BY <1>4, <2>2, <3>1
      <4> QED BY <1>7, <4>1, SumFirst
    <3>2. CASE c.source # Input
      BY <1>1, <1>4, <1>7, <3>2 DEF Carries
    <3> QED BY <3>1, <3>2
  <2> QED BY <1>8, <2>1, <2>2, <2>3 DEF Carries
<1>10. ASSUME NEW e \in copies PROVE Carries(e)'
  <2>1. Carries(e) /\ Starts(e.from, e.side)' = Starts(e.from, e.side)
    BY <1>1 DEF DInv, Starts
  <2> QED BY <1>1, <2>1, CopyHolds
<1>11. \A e \in copies' : Carries(e)'
  BY <1>6, <1>9, <1>10
<1>12. MemoryShape'
  BY <1>1 DEF DInv, MemoryShape
<1> QED BY <1>2, <1>3, <1>11, <1>12 DEF DInv

LEMMA DataStutters ==
  ASSUME IInv, DInv, UNCHANGED vars
  PROVE  DInv'
<1>1. /\ at' = at /\ acc' = acc /\ output' = output /\ scratch' = scratch /\ received' = received
      /\ copies' = copies
  BY DEF vars
<1>2. \A d \in Devices : Added(d)' /\ Written(d)' /\ Heard(d)'
  BY <1>1, CoresHold
<1>3. \A d \in Devices, h \in Sides : Arrived(d, h)' /\ Stored(d, h)'
  BY <1>1, HalfStands
<1>4. ASSUME NEW e \in copies' PROVE Carries(e)'
  <2>1. Carries(e) /\ Starts(e.from, e.side)' = Starts(e.from, e.side)
    BY <1>1 DEF DInv, Starts
  <2> QED BY <1>1, <2>1, CopyHolds
<1>5. MemoryShape'
  BY <1>1 DEF DInv, MemoryShape
<1> QED BY <1>2, <1>3, <1>4, <1>5 DEF DInv

\* A copy writes the slot of the block after the ones its receiver has.
LEMMA LandKeeps ==
  ASSUME IInv, IInv', DInv, NEW c \in copies, Land(c)
  PROVE  DInv'
<1>1. /\ at' = at /\ acc' = acc /\ output' = output /\ copies' = copies \ {c} /\ c.read /\ Types
  BY DEF Land, IInv
<1>2. PICK d \in Devices, s \in Sides : d = c.from /\ s = c.side
  BY CopyIs
<1>3. PICK n \in Devices : n = Neighbor(d, s)
  BY RingIs
<1>4. PICK v, k : v = c.data /\ k = at[n].call
  OBVIOUS
<1>5. PICK w \in Nat : w = Waits(n, s)
  BY <1>1, Counts, CountIs
<1>6. Starts(d, s) = w + 1 /\ c.call = k /\ received[n][s] = 0 /\ Tagged(c) /\ Carries(c)
  <2>1. /\ S(d, s) = W(n, s) + 1 /\ at[n].call = at[d].call
    BY <1>2, <1>3, CopyIs, SameCall
  <2> QED BY <1>1, <1>2, <1>3, <1>4, <1>5, <2>1, CopyIs, SameCall, IndexOf DEF DInv
<1>7. PICK slot \in {0, 1} : slot = c.slot /\ slot = w % 2
  BY <1>2, <1>6 DEF Tagged
<1>8. w + 1 <= N => v = Sum(k, n, s, w + 1)
  BY <1>1, <1>2, <1>3, <1>4, <1>6 DEF Carries
<1>9. /\ DOMAIN scratch' = Devices
      /\ \A e \in Devices : /\ DOMAIN scratch'[e] = {0, 1}
                            /\ \A i \in {0, 1} : DOMAIN scratch'[e][i] = Sides
      /\ scratch'[n][slot][s] = v
      /\ \A e \in Devices : e # n => scratch'[e] = scratch[e]
      /\ \A i \in {0, 1}, t \in Sides : ~(i = slot /\ t = s) => scratch'[n][i][t] = scratch[n][i][t]
  <2>1. Puts(n, slot, s, v) /\ MemoryShape
    BY <1>2, <1>3, <1>4, <1>7 DEF Land, Puts, DInv
  <2> QED BY ONLY <2>1, n \in Devices, slot \in {0, 1}, s \in Sides, ScratchCell
<1>10. received' = [received EXCEPT ![n][s] = @ + 1]
  BY <1>2, <1>3 DEF Land
<1>11. received'[n][s] = 1 /\ \A e \in Devices, t \in Sides : ~(e = n /\ t = s) => received'[e][t] = received[e][t]
  <2>1. received \in [Devices -> [Sides -> Int]]
    BY <1>1 DEF Types
  <2> QED BY <1>6, <1>10, <2>1
<1>12. /\ Stores(n, s)' = Stores(n, s) /\ Starts(n, s)' = Starts(n, s) /\ Waits(n, s)' = w
       /\ at'[n].call = k /\ Stores(n, s) \in Nat
       /\ Stores(n, s) <= w /\ w <= Stores(n, s) + 1
       /\ (Starts(n, s) = Stores(n, s) /\ Starts(n, s) >= 1 => w = Stores(n, s))
  <2>1. Stores(n, s)' = Stores(n, s) /\ Starts(n, s)' = Starts(n, s) /\ Waits(n, s)' = w /\ at'[n].call = k
    BY <1>1, <1>4, <1>5 DEF Stores, Starts, Waits
  <2> QED BY <1>1, <1>5, <2>1, StoresBetween, NAssumption
<1>13. Arrived(n, s)'
  <2> SUFFICES ASSUME NEW i \in 1..N, Stores(n, s) < i, i <= w + 1
               PROVE  scratch'[n][(i - 1) % 2][s] = Sum(k, n, s, i)
    BY <1>11, <1>12 DEF Arrived
  <2>1. i \in Nat /\ (i = w + 1 \/ i = w) /\ i <= N
    BY <1>12, NAssumption
  <2>2. CASE i = w + 1
    BY <1>7, <1>8, <1>9, <2>1, <2>2
  <2>3. CASE i = w
    <3>1. scratch[n][(i - 1) % 2][s] = Sum(k, n, s, i)
      <4>1. Arrived(n, s) /\ i <= Waits(n, s) + received[n][s]
        BY <1>5, <1>6, <2>3 DEF DInv
      <4> QED BY <1>4, <4>1 DEF Arrived
    <3>2. (i - 1) % 2 \in {0, 1} /\ (i - 1) % 2 # slot
      BY <1>7, <2>1, <2>3
    <3> QED BY <1>9, <3>1, <3>2
  <2> QED BY <2>1, <2>2, <2>3
<1>14. Stored(n, s)'
  <2> DEFINE m == Stores(n, s)
  <2> SUFFICES ASSUME m \in 1..(N - 1), Starts(n, s) = m
               PROVE  scratch'[n][(m - 1) % 2][s] = Sum(k, Neighbor(n, s), s, m + 1)
    BY <1>12 DEF Stored
  <2>1. m = w /\ m \in Nat /\ m >= 1
    BY <1>12, NAssumption
  <2>2. scratch[n][(m - 1) % 2][s] = Sum(k, Neighbor(n, s), s, m + 1)
    <3>1. Stored(n, s)
      BY DEF DInv
    <3> QED BY <1>4, <3>1 DEF Stored
  <2>3. (m - 1) % 2 \in {0, 1} /\ (m - 1) % 2 # slot
    BY <1>7, <2>1
  <2> QED BY <1>9, <2>2, <2>3
<1>15. ASSUME NEW e \in Devices, NEW t \in Sides PROVE Arrived(e, t)' /\ Stored(e, t)'
  <2>1. CASE e = n /\ t = s
    BY <1>13, <1>14, <2>1
  <2>2. CASE ~(e = n /\ t = s)
    <3>1. received'[e][t] = received[e][t] /\ \A i \in {0, 1} : scratch'[e][i][t] = scratch[e][i][t]
      BY <1>9, <1>11, <2>2
    <3> QED BY <1>1, <3>1, HalfStands
  <2> QED BY <2>1, <2>2
<1>16. ASSUME NEW e \in copies' PROVE Carries(e)'
  <2>1. e \in copies /\ Carries(e) /\ Starts(e.from, e.side)' = Starts(e.from, e.side)
    BY <1>1 DEF DInv, Starts
  <2>2. ~e.read /\ e.source # Input => scratch'[e.from][e.source][e.side] = scratch[e.from][e.source][e.side]
    <3> SUFFICES ASSUME ~e.read, e.source # Input
                 PROVE  scratch'[e.from][e.source][e.side] = scratch[e.from][e.source][e.side]
      OBVIOUS
    <3>1. Writing(c) \notin Reading(e) /\ Writing(c) = Place(n, slot, s)
      BY <1>2, <1>3, <1>7, <2>1, NoRace DEF NoDataRace, Writing
    <3>2. ~(e.from = n /\ e.source = slot /\ e.side = s)
      BY <3>1 DEF Reading, Place
    <3>3. e.from \in Devices /\ e.side \in Sides /\ Tagged(e) /\ Starts(e.from, e.side) \in Nat
      BY <1>1, <2>1, CopyIs, Counts, CountIs
    <3>4. e.source \in {0, 1}
      BY <3>3 DEF Tagged
    <3> QED BY <1>9, <3>2, <3>3, <3>4
  <2> QED BY <2>1, <2>2, CopyHolds
<1>17. MemoryShape'
  BY <1>1, <1>9 DEF DInv, MemoryShape
<1>18. \A e \in Devices : Added(e)' /\ Written(e)' /\ Heard(e)'
  BY <1>1, CoresHold
<1> QED BY <1>15, <1>16, <1>17, <1>18 DEF DInv

LEMMA DataInitially == Init => DInv
<1> SUFFICES ASSUME Init PROVE DInv
  OBVIOUS
<1>1. \A d \in Devices : at[d] = [call |-> 0, outer |-> 0, phase |-> left, step |-> "enter"]
  BY DEF Init
<1>2. copies = {} /\ N \in Nat /\ N >= 2 /\ Types
  BY Initially, NAssumption DEF Init, IInv
<1>3. MemoryShape
  BY DEF Init, MemoryShape
<1>4. ASSUME NEW d \in Devices, NEW h \in Sides PROVE Arrived(d, h) /\ Stored(d, h)
  <2>1. Stores(d, h) = 0 /\ Waits(d, h) = 0 /\ received[d][h] = 0
    BY <1>1 DEF Stores, StoresAt, Waits, WaitsAt, Entering, Init
  <2>2. \A j \in 1..N : ~(j <= 0 + 0)
    BY <1>2
  <2> QED BY <1>2, <2>1, <2>2 DEF Arrived, Stored
<1>5. ASSUME NEW d \in Devices PROVE Added(d) /\ Written(d) /\ Heard(d)
  <2>1. Added(d)
    BY <1>1 DEF Added
  <2>2. Written(d)
    BY <1>1, <1>2 DEF Written, IsLast
  <2>3. Heard(d)
    <3> SUFFICES ASSUME NEW i \in 1..N PROVE Entered(Back(d, left, i)) >= at[d].call + One(i <= Waits(d, left))
      BY DEF Heard
    <3>1. Waits(d, left) = 0 /\ ~(i <= 0) /\ i \in 0..N /\ left \in Sides
      BY <1>1, <1>2, SidesAre DEF Waits, WaitsAt, Entering
    <3>2. Entered(Back(d, left, i)) \in Nat
      BY <1>2, <3>1, BackIs, EnteredIs
    <3> QED BY <1>1, <3>1, <3>2 DEF One
  <2> QED BY <2>1, <2>2, <2>3
<1> QED BY <1>2, <1>3, <1>4, <1>5 DEF DInv

LEMMA DataKeeps == IInv /\ DInv /\ [Next]_vars => DInv'
<1> SUFFICES ASSUME IInv, DInv, [Next]_vars PROVE DInv'
  OBVIOUS
<1>1. IInv'
  BY StepKeeps
<1>2. ASSUME NEW d \in Devices, Step(d) PROVE DInv'
  <2>1. CASE SignalBarrier(d) \/ WaitBarrier(d) \/ SignalSecond(d) \/ WaitSecond(d)
    <3>1. /\ at[d].step \in Entering
          /\ \E step \in (Entering \cup {"initial_left"}) \ {"enter"} : Goto(d, step)
          /\ UNCHANGED <<scratch, acc, output, copies, received>>
      BY <2>1 DEF SignalBarrier, WaitBarrier, SignalSecond, WaitSecond, At, Entering, memory
    <3> QED BY <1>1, <3>1, EnteringKeeps
  <2>2. CASE Drain(d)
    <3>1. at[d].phase = left \/ at[d].phase = right
      BY AtType, SidesAre DEF IInv
    <3> QED BY <1>1, <2>2, <3>1, FirstDrainKeeps, SecondDrainKeeps
  <2> QED BY <1>1, <1>2, <2>1, <2>2, InitialLeftKeeps, InitialRightKeeps, GrantKeeps, SendKeeps, LoadKeeps,
             StoreKeeps, FinishKeeps, ReleaseKeeps DEF Step
<1>3. ASSUME NEW c \in copies, ReadSource(c) \/ Land(c) PROVE DInv'
  BY <1>1, <1>3, ReadKeeps, LandKeeps
<1> QED BY <1>2, <1>3, DataStutters DEF Next

\* Every block that travels, lies in memory or has been written out is the sum
\* its place and the devices' positions call for.
THEOREM DataInvariance == Spec => []DInv
BY Initially, StepKeeps, DataInitially, DataKeeps, PTL DEF Spec

-----------------------------------------------------------------------------
(* The reduce-scatter.                                                      *)

\* What the program that calls the collective sees of a device.
Shown(d) == IF at[d].step = "enter" /\ at[d].call > 0
            THEN [h \in Sides |-> Terms(output[d][h])]
            ELSE [h \in Sides |-> {}]

ShownEntered  == [d \in Devices |-> Entered(d)]
ShownReturned == [d \in Devices |-> Returned(d)]
ShownResult   == [d \in Devices |-> Shown(d)]

LEMMA PromiseIs ==
  /\ Promise!Init <=> /\ ShownEntered = [d \in Devices |-> 0]
                      /\ ShownReturned = [d \in Devices |-> 0]
                      /\ ShownResult = [d \in Devices |-> [h \in Sides |-> {}]]
  /\ Promise!Next <=> \E d \in Devices :
       \/ /\ ShownEntered[d] = ShownReturned[d]
          /\ ShownEntered[d] < Calls
          /\ ShownEntered' = [ShownEntered EXCEPT ![d] = @ + 1]
          /\ ShownResult' = [ShownResult EXCEPT ![d] = [h \in Sides |-> {}]]
          /\ UNCHANGED ShownReturned
       \/ /\ ShownReturned[d] < ShownEntered[d]
          /\ \A e \in Devices : ShownEntered[e] >= ShownEntered[d]
          /\ ShownReturned' = [ShownReturned EXCEPT ![d] = @ + 1]
          /\ ShownResult' = [ShownResult EXCEPT ![d] = [h \in Sides |-> {<<ShownReturned[d], e, d>> : e \in Devices}]]
          /\ UNCHANGED ShownEntered
<1>1. Promise!Devices = Devices /\ Promise!Halves = Sides
  BY DEF Promise!Devices, Promise!Halves, Devices, Sides, left, right
<1>2. Promise!Nothing = [h \in Sides |-> {}]
      /\ \A d, k : Promise!Reduced(d, k) = [h \in Sides |-> {<<k, e, d>> : e \in Devices}]
  BY <1>1 DEF Promise!Nothing, Promise!Reduced
<1> QED BY <1>1, <1>2 DEF Promise!Init, Promise!Next, Promise!Enter, Promise!Return,
           ShownEntered, ShownReturned, ShownResult, Shown

LEMMA PromiseInitially == Init => Promise!Init
<1> SUFFICES ASSUME Init PROVE Promise!Init
  OBVIOUS
<1>1. \A d \in Devices : at[d] = [call |-> 0, outer |-> 0, phase |-> left, step |-> "enter"]
  BY DEF Init
<1>2. \A d \in Devices : Entered(d) = 0 /\ Returned(d) = 0 /\ Shown(d) = [h \in Sides |-> {}]
  BY <1>1 DEF Entered, Returned, Shown
<1> QED BY <1>2, PromiseIs DEF ShownEntered, ShownReturned, ShownResult

\* A device that stays outside its call keeps its output, and inside it shows none.
LEMMA ShownStays ==
  ASSUME NEW d \in Devices, Entered(d)' = Entered(d), at'[d].call = at[d].call,
         at'[d].step = "enter" <=> at[d].step = "enter",
         at[d].step = "enter" => output'[d] = output[d]
  PROVE  Entered(d)' = Entered(d) /\ Returned(d)' = Returned(d) /\ Shown(d)' = Shown(d)
BY DEF Returned, Shown

\* A step of device d shows on device d only.
OnlyShows(d) ==
  \A e \in Devices : e # d => Entered(e)' = Entered(e) /\ Returned(e)' = Returned(e) /\ Shown(e)' = Shown(e)

LEMMA OthersShowTheSame ==
  ASSUME NEW d \in Devices, \A e \in Devices : e # d => at'[e] = at[e] /\ output'[e] = output[e]
  PROVE  OnlyShows(d)
BY DEF OnlyShows, Entered, Returned, Shown

LEMMA EnterShows ==
  ASSUME IInv, NEW d \in Devices, At(d, "enter"), Goto(d, "enter_right"), UNCHANGED output
  PROVE  Promise!Next
<1>1. Types /\ at[d].step = "enter" /\ at[d].call < Calls /\ at[d].call \in Nat /\ "enter_right" \in Steps
      /\ at[d].outer \in 0..(N - 1) /\ at[d].phase \in Sides
  BY AtType DEF IInv, At, Steps
<1>2. /\ at'[d].call = at[d].call /\ at'[d].step = "enter_right"
      /\ \A e \in Devices : e # d => at'[e] = at[e]
  BY <1>1, GotoPlaces, PlacedIs
<1>3. OnlyShows(d)
  BY <1>2, OthersShowTheSame
<1>4. /\ Entered(d) = at[d].call /\ Returned(d) = at[d].call
      /\ Entered(d)' = Entered(d) + 1 /\ Returned(d)' = Returned(d) /\ Shown(d)' = [h \in Sides |-> {}]
  BY <1>1, <1>2 DEF Entered, Returned, Shown
<1>5. ShownEntered[d] = ShownReturned[d] /\ ShownEntered[d] < Calls
  BY <1>1, <1>4 DEF ShownEntered, ShownReturned
<1>6. ShownEntered' = [ShownEntered EXCEPT ![d] = @ + 1]
  BY <1>3, <1>4 DEF ShownEntered, OnlyShows
<1>7. ShownResult' = [ShownResult EXCEPT ![d] = [h \in Sides |-> {}]]
  BY <1>3, <1>4 DEF ShownResult, OnlyShows
<1>8. UNCHANGED ShownReturned
  BY <1>3, <1>4 DEF ShownReturned, OnlyShows
<1> QED BY <1>5, <1>6, <1>7, <1>8, PromiseIs

\* The last half is written out after the news of every device has come round.
LEMMA ReturnShows ==
  ASSUME IInv, IInv', DInv, DInv', NEW d \in Devices, Drain(d), at[d].phase = right
  PROVE  Promise!Next
<1>1. /\ Types /\ at[d].step = "drain" /\ at[d].outer = N - 1 /\ at[d].call \in Nat /\ N \in Nat /\ N >= 2
      /\ left \in Sides /\ IsLast(d) /\ "enter" \in Steps /\ 0 \in 0..(N - 1)
  <2>1. at[d].step = "drain"
    BY DEF Drain, At
  <2>2. Shape(d) /\ Types /\ at[d].call \in Nat
    BY AtType DEF IInv
  <2> QED BY <2>1, <2>2, SidesAre, NAssumption DEF Shape, IsLast, Steps
<1>2. PICK k \in Nat : k = at[d].call
  BY <1>1
<1>3. /\ at'[d].call = k + 1 /\ at'[d].step = "enter"
      /\ \A e \in Devices : e # d => at'[e] = at[e]
  <2>1. Placed(d, k + 1, 0, left, "enter")
    BY <1>1, <1>2, AdvancePlaces DEF Drain
  <2> QED BY <1>1, <2>1, PlacedIs
<1>4. \A e \in Devices : e # d => output'[e] = output[e]
  BY DEF Drain, DInv, MemoryShape
<1>5. OnlyShows(d)
  BY <1>3, <1>4, OthersShowTheSame
<1>6. Waits(d, left) = N + 1
  BY <1>1, LastPosition DEF Waits, Count
<1>7. ASSUME NEW e \in Devices PROVE Entered(e) >= k + 1
  <2>1. PICK i \in 1..N : Back(d, left, i) = e
    BY <1>1, BackIs
  <2>2. Entered(e) >= k + One(i <= N + 1)
    BY <1>2, <1>6, <2>1 DEF DInv, Heard
  <2>3. i <= N + 1
    BY <1>1
  <2> QED BY <2>2, <2>3 DEF One
<1>8. Shown(d)' = [h \in Sides |-> {<<k, e, d>> : e \in Devices}]
  <2>1. \A h \in Sides : output'[d][h] = Sum(k, d, h, N)
    <3>1. Written(d)' /\ k + 1 > 0 /\ k + 1 - 1 = k
      BY <1>2 DEF DInv
    <3> QED BY <1>3, <3>1 DEF Written
  <2>2. \A h \in Sides : Terms(output'[d][h]) = {<<k, e, d>> : e \in Devices}
    BY <2>1, SumComplete
  <2>3. Shown(d)' = [h \in Sides |-> Terms(output'[d][h])]
    BY <1>2, <1>3 DEF Shown, Terms
  <2> QED BY <2>2, <2>3
<1>9. /\ Entered(d) = k + 1 /\ Returned(d) = k
      /\ Entered(d)' = Entered(d) /\ Returned(d)' = Returned(d) + 1
  BY <1>1, <1>2, <1>3 DEF Entered, Returned
<1>10. ShownReturned[d] < ShownEntered[d] /\ \A e \in Devices : ShownEntered[e] >= ShownEntered[d]
  BY <1>2, <1>7, <1>9 DEF ShownEntered, ShownReturned
<1>11. ShownReturned' = [ShownReturned EXCEPT ![d] = @ + 1]
  BY <1>5, <1>9 DEF ShownReturned, OnlyShows
<1>12. ShownResult' = [ShownResult EXCEPT ![d] = [h \in Sides |-> {<<ShownReturned[d], e, d>> : e \in Devices}]]
  <2>1. ShownReturned[d] = k
    BY <1>9 DEF ShownReturned
  <2>2. ShownResult' = [ShownResult EXCEPT ![d] = [h \in Sides |-> {<<k, e, d>> : e \in Devices}]]
    BY <1>5, <1>8 DEF ShownResult, OnlyShows
  <2> QED BY <2>1, <2>2
<1>13. UNCHANGED ShownEntered
  BY <1>5, <1>9 DEF ShownEntered, OnlyShows
<1> QED BY <1>10, <1>11, <1>12, <1>13, PromiseIs

\* A step inside a call does not show.
LEMMA InsideIsHidden ==
  ASSUME NEW d \in Devices, at[d].step # "enter", at'[d].step # "enter", at'[d].call = at[d].call,
         \A e \in Devices : e # d => at'[e] = at[e] /\ output'[e] = output[e]
  PROVE  UNCHANGED <<ShownEntered, ShownReturned, ShownResult>>
<1>1. OnlyShows(d)
  BY OthersShowTheSame
<1>2. Entered(d)' = Entered(d) /\ Returned(d)' = Returned(d) /\ Shown(d)' = Shown(d)
  BY DEF Entered, Returned, Shown
<1> QED BY <1>1, <1>2 DEF OnlyShows, ShownEntered, ShownReturned, ShownResult

LEMMA CoreShows ==
  ASSUME IInv, IInv', DInv, DInv', NEW d \in Devices, Step(d)
  PROVE  Promise!Next \/ UNCHANGED <<ShownEntered, ShownReturned, ShownResult>>
<1>1. /\ Types /\ at[d].outer \in 0..(N - 1) /\ at[d].phase \in Sides /\ at[d].call \in Nat
      /\ (at[d].phase = left \/ at[d].phase = right) /\ left \in Sides /\ right \in Sides
      /\ at[d].outer \in Nat /\ N \in Nat
  <2>1. Types /\ at[d].outer \in 0..(N - 1) /\ at[d].phase \in Sides /\ at[d].call \in Nat
    BY AtType DEF IInv
  <2> QED BY <2>1, SidesAre, NAssumption
<1>2. CASE At(d, "enter")
  <2>1. Goto(d, "enter_right") /\ UNCHANGED output
    BY <1>2 DEF Step, SignalBarrier, WaitBarrier, SignalSecond, WaitSecond, StartInitialLeft,
       StartInitialRight, GrantCapacity, Send, Load, Store, Finish, Release, Drain, At, memory
  <2> QED BY <1>2, <2>1, EnterShows
<1>3. CASE Drain(d) /\ at[d].phase = right
  BY <1>3, ReturnShows
<1>4. CASE ~At(d, "enter") /\ ~(Drain(d) /\ at[d].phase = right)
  <2>1. at[d].step # "enter"
    BY <1>4 DEF Step, SignalBarrier, WaitBarrier, SignalSecond, WaitSecond, StartInitialLeft,
       StartInitialRight, GrantCapacity, Send, Load, Store, Finish, Release, Drain, At
  <2>2. \A e \in Devices : e # d => output'[e] = output[e]
    BY DEF Step, SignalBarrier, WaitBarrier, SignalSecond, WaitSecond, StartInitialLeft,
       StartInitialRight, GrantCapacity, Send, Load, Store, Finish, Release, Drain, memory, counters,
       DInv, MemoryShape
  <2>3. \E o \in 0..(N - 1), p \in Sides, step \in Steps \ {"enter"} : Placed(d, at[d].call, o, p, step)
    <3>1. CASE \E step \in Steps \ {"enter"} : Goto(d, step)
      BY <1>1, <3>1, GotoPlaces
    <3>2. CASE Advance(d) /\ ~(at[d].phase = right /\ IsLast(d))
      <4>1. "send" \in Steps \ {"enter"}
        BY DEF Steps
      <4>2. CASE at[d].phase = left
        BY <1>1, <3>2, <4>1, <4>2, AdvancePlaces
      <4>3. CASE at[d].phase = right /\ ~IsLast(d)
        <5>1. at[d].outer + 1 \in 0..(N - 1)
          BY <1>1, <4>3 DEF IsLast
        <5> QED BY <1>1, <3>2, <4>1, <4>3, <5>1, AdvancePlaces
      <4> QED BY <1>1, <3>2, <4>2, <4>3
    <3>3. CASE SignalBarrier(d) \/ WaitBarrier(d) \/ SignalSecond(d) \/ WaitSecond(d) \/ StartInitialLeft(d)
               \/ StartInitialRight(d) \/ GrantCapacity(d) \/ Send(d) \/ Load(d) \/ Store(d)
      <4>1. \E step \in Steps \ {"enter"} : Goto(d, step)
        BY <3>3 DEF SignalBarrier, WaitBarrier, SignalSecond, WaitSecond, StartInitialLeft,
           StartInitialRight, GrantCapacity, Send, Load, Store, Steps
      <4> QED BY <3>1, <4>1
    <3>4. CASE Finish(d)
      <4>1. CASE IsStart(d)
        <5>1. Advance(d) /\ at[d].phase = left
          BY <3>4, <4>1 DEF Finish, IsStart
        <5> QED BY <3>2, <5>1, SidesAre
      <4>2. CASE ~IsStart(d)
        <5>1. Goto(d, "release") /\ "release" \in Steps \ {"enter"}
          BY <3>4, <4>2 DEF Finish, Steps
        <5> QED BY <3>1, <5>1
      <4> QED BY <4>1, <4>2
    <3>5. CASE Release(d)
      <4>1. CASE IsLast(d)
        <5>1. Goto(d, "drain") /\ "drain" \in Steps \ {"enter"}
          BY <3>5, <4>1 DEF Release, Steps
        <5> QED BY <3>1, <5>1
      <4>2. CASE ~IsLast(d)
        <5>1. Advance(d)
          BY <3>5, <4>2 DEF Release
        <5> QED BY <3>2, <4>2, <5>1
      <4> QED BY <4>1, <4>2
    <3>6. CASE Drain(d)
      <4>1. Advance(d) /\ at[d].phase # right
        BY <1>4, <3>6 DEF Drain
      <4> QED BY <3>2, <4>1
    <3> QED BY <3>3, <3>4, <3>5, <3>6 DEF Step
  <2>4. /\ at'[d].call = at[d].call /\ at'[d].step # "enter"
        /\ \A e \in Devices : e # d => at'[e] = at[e]
    BY <1>1, <2>3, PlacedIs
  <2> QED BY <2>1, <2>2, <2>4, InsideIsHidden
<1> QED BY <1>2, <1>3, <1>4

LEMMA RingShows ==
  IInv /\ DInv /\ [Next]_vars =>
    Promise!Next \/ UNCHANGED <<ShownEntered, ShownReturned, ShownResult>>
<1> SUFFICES ASSUME IInv, DInv, [Next]_vars
             PROVE  Promise!Next \/ UNCHANGED <<ShownEntered, ShownReturned, ShownResult>>
  OBVIOUS
<1>1. IInv' /\ DInv'
  BY StepKeeps, DataKeeps
<1>2. ASSUME at' = at, output' = output PROVE UNCHANGED <<ShownEntered, ShownReturned, ShownResult>>
  BY <1>2 DEF ShownEntered, ShownReturned, ShownResult, Entered, Returned, Shown
<1>3. ASSUME NEW c \in copies, ReadSource(c) \/ Land(c)
      PROVE  UNCHANGED <<ShownEntered, ShownReturned, ShownResult>>
  BY <1>2, <1>3 DEF ReadSource, Land, memory
<1>4. CASE UNCHANGED vars
  BY <1>2, <1>4 DEF vars
<1> QED BY <1>1, <1>3, <1>4, CoreShows DEF Next

\* The kernel is a reduce-scatter for every number of devices and of calls: a
\* device returns only after every device has entered, and its output then
\* holds every device's contribution to its chunk in that call exactly once.
THEOREM RingImplementsReduceScatter == Spec => ImplementsReduceScatter
<1>1. IInv /\ DInv /\ [Next]_vars => [Promise!Next]_<<ShownEntered, ShownReturned, ShownResult>>
  BY RingShows
<1>2. Spec => [](IInv /\ DInv)
  BY Invariance, DataInvariance, PTL
<1>3. IInv /\ DInv /\ [Next]_vars =>
        [Promise!Next]_<<[d \in Devices |-> Entered(d)], [d \in Devices |-> Returned(d)],
                         [d \in Devices |->
                           IF at[d].step = "enter" /\ at[d].call > 0
                           THEN [h \in Sides |-> Terms(output[d][h])]
                           ELSE [h \in Sides |-> {}]]>>
  BY <1>1 DEF ShownEntered, ShownReturned, ShownResult, Shown
<1> QED BY <1>2, <1>3, PromiseInitially, PTL DEF Spec, ImplementsReduceScatter, Promise!Spec


-----------------------------------------------------------------------------
(* The counts a semaphore ever holds, and the types.                        *)

SemaphoresBounded ==
  \A d \in Devices :
    /\ barrier[d] \in 0..2 /\ second[d] \in 0..2
    /\ \A s \in Sides : capacity[d][s] \in 0..2 /\ sent[d][s] \in 0..1 /\ received[d][s] \in 0..1

\* A neighbour is at most one signal ahead of what a device has awaited.
LEMMA SignalsAhead ==
  ASSUME IInv, NEW d \in Devices, NEW s \in Sides
  PROVE  LET n == Neighbor(d, s) IN
         /\ SignalsFirst(n, Other(s)) <= WaitsFirst(d) + 1
         /\ SignalsSecond(n, Other(s)) <= WaitsSecond(d) + 1
<1> PICK n, t : n = Neighbor(d, s) /\ t = Other(s)
  OBVIOUS
<1>1. n \in Devices /\ t \in Sides /\ Neighbor(n, t) = d /\ Other(t) = s /\ (t = left \/ t = right)
  BY RingIs, SidesAre
<1>2. Types /\ Barriers(n)
  BY <1>1 DEF IInv
<1>3. SignalsFirst(d, s) >= WaitsFirst(n) /\ SignalsSecond(d, s) >= WaitsSecond(n)
  BY <1>1, <1>2, SidesAre DEF Barriers
<1>4. /\ at[d].call \in Nat /\ at[n].call \in Nat
      /\ at[d].step \in Steps /\ at[n].step \in Steps
  BY <1>1, <1>2, AtType
<1>5. SignalsFirst(n, t) <= WaitsFirst(d) + 1
  <2>1. WaitsSecond(n) >= at[n].call /\ SignalsFirst(n, t) <= at[n].call + 1
    BY <1>4 DEF WaitsSecond, SignalsFirst, One
  <2>2. SignalsSecond(d, s) <= WaitsFirst(d)
    BY <1>4 DEF SignalsSecond, WaitsFirst, One
  <2>3. SignalsSecond(d, s) \in Int /\ WaitsFirst(d) \in Int /\ WaitsSecond(n) \in Int /\ SignalsFirst(n, t) \in Int
    BY <1>4 DEF SignalsSecond, WaitsFirst, WaitsSecond, SignalsFirst, One
  <2> QED BY ONLY <1>3, <1>4, <2>1, <2>2, <2>3
<1>6. SignalsSecond(n, t) <= WaitsSecond(d) + 1
  <2>1. WaitsFirst(n) >= SignalsSecond(n, t)
    BY <1>4 DEF WaitsFirst, SignalsSecond, One
  <2>2. SignalsFirst(d, s) <= WaitsSecond(d) + 1
    BY <1>4 DEF SignalsFirst, WaitsSecond, One
  <2>3. SignalsSecond(n, t) \in Int /\ WaitsFirst(n) \in Int /\ WaitsSecond(d) \in Int /\ SignalsFirst(d, s) \in Int
    BY <1>4 DEF SignalsSecond, WaitsFirst, WaitsSecond, SignalsFirst, One
  <2> QED BY ONLY <1>3, <2>1, <2>2, <2>3
<1> QED BY <1>1, <1>5, <1>6

\* A device has granted at most one credit more than the copies it received,
\* and has taken all but one of those that it needed for the copies it started.
LEMMA CreditsAhead ==
  ASSUME Types, NEW d \in Devices, NEW s \in Sides
  PROVE  Grants(d, Other(s)) <= Waits(d, s) + 1 /\ Starts(d, s) <= Takes(d, s) + 1
<1>1. /\ at[d].outer \in 0..(N - 1) /\ at[d].phase \in Sides /\ Shape(d) /\ N \in Nat /\ N >= 2
  BY AtType, NAssumption
<1> PICK o, p, step : o = at[d].outer /\ p = at[d].phase /\ step = at[d].step
  OBVIOUS
<1>2. o \in Nat /\ (p = 0 \/ p = 1) /\ left = 0 /\ right = 1 /\ (s = 0 \/ s = 1) /\ Other(s) = 1 - s
      /\ (step \in Entering \cup Starting => o = 0 /\ p = left)
  BY <1>1 DEF Sides, left, right, Other, Shape
<1>3. GrantsAt(o, p, step, Other(s)) <= WaitsAt(o, p, step, s) + 1
  BY <1>2 DEF GrantsAt, WaitsAt, One, Starting
<1>4. StartsAt(o, p, step, s) <= TakesAt(o, p, step, s) + 1
  <2>1. CASE step \in Entering \cup Starting
    <3>1. TakesAt(o, p, step, s) = 0
      BY <2>1 DEF TakesAt
    <3>2. CASE step \in Entering \cup {"initial_left"}
      BY <3>1, <3>2 DEF StartsAt
    <3>3. CASE step \notin Entering \cup {"initial_left"} /\ step = "initial_right"
      BY <3>1, <3>3 DEF StartsAt, One
    <3>4. CASE step \notin Entering \cup {"initial_left", "initial_right"}
      <4>1. step # "send" /\ o = 0 /\ p = 0
        BY <1>2, <2>1, <3>4 DEF Starting
      <4>2. StartsAt(o, p, step, s) = IF s = left THEN o + 1 + One(p = right /\ step # "send")
                                      ELSE o + One(~(p = left /\ step = "send"))
        BY <3>4 DEF StartsAt
      <4> QED BY <1>2, <3>1, <4>1, <4>2 DEF One
    <3> QED BY <3>2, <3>3, <3>4
  <2>2. CASE step \notin Entering \cup Starting
    <3>1. TakesAt(o, p, step, s) = IF s = left THEN o + One(p = right /\ step # "send")
                                   ELSE o + One(p = right /\ o = N - 1) - One(p = left /\ step = "send")
      BY <2>2 DEF TakesAt
    <3>2. StartsAt(o, p, step, s) = IF s = left THEN o + 1 + One(p = right /\ step # "send")
                                    ELSE o + One(~(p = left /\ step = "send"))
      BY <2>2 DEF StartsAt, Starting
    <3> QED BY <1>2, <3>1, <3>2 DEF One
  <2> QED BY <2>1, <2>2
<1> QED BY <1>3, <1>4 DEF Grants, Waits, Starts, Takes

LEMMA Bounded == IInv => SemaphoresBounded
<1> SUFFICES ASSUME IInv, NEW d \in Devices
             PROVE  /\ barrier[d] \in 0..2 /\ second[d] \in 0..2
                    /\ \A s \in Sides : /\ capacity[d][s] \in 0..2
                                        /\ sent[d][s] \in 0..1 /\ received[d][s] \in 0..1
  BY DEF SemaphoresBounded
<1>1. Types /\ Barriers(d)
  BY DEF IInv
<1>2. barrier[d] \in 0..2 /\ second[d] \in 0..2
  <2> DEFINE l == Neighbor(d, left)
             r == Neighbor(d, right)
  <2>1. /\ SignalsFirst(l, right) <= WaitsFirst(d) + 1 /\ SignalsSecond(l, right) <= WaitsSecond(d) + 1
        /\ SignalsFirst(r, left) <= WaitsFirst(d) + 1 /\ SignalsSecond(r, left) <= WaitsSecond(d) + 1
    BY SignalsAhead, SidesAre
  <2>2. /\ SignalsFirst(l, right) \in Int /\ SignalsSecond(l, right) \in Int
        /\ SignalsFirst(r, left) \in Int /\ SignalsSecond(r, left) \in Int
        /\ WaitsFirst(d) \in Int /\ WaitsSecond(d) \in Int
    <3>1. l \in Devices /\ r \in Devices
      BY RingIs, SidesAre
    <3>2. at[l].call \in Nat /\ at[r].call \in Nat /\ at[d].call \in Nat
      BY <1>1, <3>1, AtType
    <3> QED BY <3>2 DEF SignalsFirst, SignalsSecond, WaitsFirst, WaitsSecond, One
  <2>3. /\ barrier[d] = SignalsFirst(l, right) + SignalsFirst(r, left) - 2 * WaitsFirst(d)
        /\ SignalsFirst(l, right) >= WaitsFirst(d) /\ SignalsFirst(r, left) >= WaitsFirst(d)
        /\ second[d] = SignalsSecond(l, right) + SignalsSecond(r, left) - 2 * WaitsSecond(d)
        /\ SignalsSecond(l, right) >= WaitsSecond(d) /\ SignalsSecond(r, left) >= WaitsSecond(d)
    BY <1>1 DEF Barriers
  <2> HIDE DEF l, r
  <2>4. barrier[d] \in Int /\ second[d] \in Int
    BY ONLY <2>2, <2>3
  <2>5. \A a, b, w \in Int : a <= w + 1 /\ b <= w + 1 /\ a >= w /\ b >= w => a + b - 2 * w \in 0..2
    OBVIOUS
  <2> QED BY ONLY <2>1, <2>2, <2>3, <2>4, <2>5
<1>3. ASSUME NEW s \in Sides PROVE capacity[d][s] \in 0..2
  <2> PICK n, t : n = Neighbor(d, s) /\ t = Other(s)
    OBVIOUS
  <2>1. n \in Devices /\ t \in Sides /\ Other(t) = s
    BY RingIs, SidesAre
  <2>2. Credit(d, s) /\ Flow(d, s)
    BY DEF IInv
  <2>3. capacity[d][s] = G(n, t) - T(d, s) /\ capacity[d][s] >= 0
    BY <2>2 DEF Credit
  <2>4. G(n, t) \in Nat /\ W(n, s) \in Nat /\ S(d, s) \in Nat /\ T(d, s) \in Nat
    BY <1>1, <2>1, TotalsAreInt
  <2>5. W(n, s) <= S(d, s)
    BY <2>2, <2>4 DEF Flow
  <2>6. G(n, t) <= W(n, s) + 1
    <3>1. Grants(n, t) <= Waits(n, s) + 1
      BY <1>1, <2>1, CreditsAhead
    <3>2. /\ Base(at[n].call, s) \in Nat /\ Grants(n, t) \in Nat /\ Waits(n, s) \in Nat
      <4>1. at[n].call \in Nat /\ Count(s) \in Nat /\ Count(Other(t)) \in Nat
        BY <1>1, <2>1, AtType, CountIs
      <4> QED BY <1>1, <2>1, <4>1, BaseIs, Counts
    <3>3. G(n, t) = Base(at[n].call, s) + Grants(n, t) /\ W(n, s) = Base(at[n].call, s) + Waits(n, s)
      BY <2>1 DEF G, W
    <3> QED BY ONLY <3>1, <3>2, <3>3
  <2>7. S(d, s) <= T(d, s) + 1
    <3>1. Starts(d, s) <= Takes(d, s) + 1
      BY <1>1, CreditsAhead
    <3>2. Base(at[d].call, s) \in Nat /\ Starts(d, s) \in Nat /\ Takes(d, s) \in Nat
      <4>1. at[d].call \in Nat /\ Count(s) \in Nat
        BY <1>1, AtType, CountIs
      <4> QED BY <1>1, <4>1, BaseIs, Counts
    <3> QED BY ONLY <3>1, <3>2 DEF S, T
  <2> QED BY ONLY <2>3, <2>4, <2>5, <2>6, <2>7
<1>4. ASSUME NEW s \in Sides PROVE sent[d][s] \in 0..1
  BY DEF IInv, Own
<1>5. ASSUME NEW s \in Sides PROVE received[d][s] \in 0..1
  <2> PICK n, t : n = Neighbor(d, Other(s)) /\ t = Other(s)
    OBVIOUS
  <2>1. n \in Devices /\ Neighbor(n, s) = d
    BY RingIs, SidesAre
  <2>2. Flow(n, s)
    BY <2>1 DEF IInv
  <2> QED BY <2>1, <2>2 DEF Flow
<1> QED BY <1>2, <1>3, <1>4, <1>5
\* No device makes more calls than the program has.
Calling == \A d \in Devices : at[d].call <= Calls /\ (at[d].step # "enter" => at[d].call < Calls)

MemoryTyped ==
  \A d \in Devices, h \in Sides :
    /\ \A slot \in {0, 1} : scratch[d][slot][h] \in Blocks
    /\ acc[d] \in Blocks /\ output[d][h] \in Blocks

\* The data of a copy are blocks, too.
BlocksInv == Calling /\ MemoryTyped /\ \A c \in copies : c.data \in Blocks

LEMMA BlocksAre ==
  /\ Zeros \in Blocks /\ Unread \in Blocks /\ Garbage \in Blocks
  /\ \A k \in 0..(Calls - 1), d \in Devices, e \in Devices : Contribution(k, d, e) \in Blocks
  /\ \A b, c \in Blocks : b \o c \in Blocks
<1> PICK Part : Part = (0..(Calls - 1)) \X (0..N) \X (0..N)
  OBVIOUS
<1>1. Blocks = Seq(Part) /\ N \in Nat /\ N >= 2 /\ Calls \in Nat /\ Calls >= 1
  BY NAssumption, CallsAssumption DEF Blocks
<1>2. <<0, N, N>> \in Part
  BY <1>1
<1>3. \A k \in 0..(Calls - 1), d \in Devices, e \in Devices : <<k, d, e>> \in Part
  BY <1>1 DEF Devices
<1>4. \A x \in Part : << x >> \in Seq(Part)
  OBVIOUS
<1>5. << >> \in Seq(Part) /\ \A b, c \in Seq(Part) : b \o c \in Seq(Part)
  OBVIOUS
<1>6. Zeros \in Blocks /\ Unread \in Blocks
  BY <1>1, <1>5 DEF Zeros, Unread
<1>7. Garbage \in Blocks
  BY <1>1, <1>2, <1>4 DEF Garbage
<1>8. \A k \in 0..(Calls - 1), d \in Devices, e \in Devices : Contribution(k, d, e) \in Blocks
  BY <1>1, <1>3, <1>4 DEF Contribution
<1> QED BY <1>1, <1>5, <1>6, <1>7, <1>8

LEMMA SourceInRing ==
  ASSUME NEW d \in Devices, NEW h \in Sides, NEW o \in 0..(N - 1)
  PROVE  Source(d, h, o) \in Devices
<1>1. o + 1 \in 0..N
  BY NAssumption
<1>2. Source(d, h, o) = Back(d, h, o + 1)
  BY SourceIs
<1> QED BY <1>1, <1>2, BackIs

LEMMA CallingKept ==
  ASSUME Types, Calling, NEW d \in Devices, at[d].call < Calls,
         (\E step : Goto(d, step)) \/ Advance(d)
  PROVE  Calling'
<1>1. at[d].call \in Nat /\ Calls \in Nat /\ (at[d].phase = left \/ at[d].phase = right)
  BY AtType, CallsAssumption, SidesAre
<1>2. \E k : \E o, p, next : /\ Placed(d, k, o, p, next)
                             /\ k = at[d].call \/ (k = at[d].call + 1 /\ next = "enter")
  <2> PICK k : k = at[d].call
    OBVIOUS
  <2>1. ASSUME NEW next, Goto(d, next) PROVE Placed(d, k, at[d].outer, at[d].phase, next)
    BY <2>1, GotoPlaces
  <2>2. CASE Advance(d)
    <3>1. \/ Placed(d, k, at[d].outer, right, "send") \/ Placed(d, k, at[d].outer + 1, left, "send")
          \/ Placed(d, k + 1, 0, left, "enter")
      BY <1>1, <2>2, AdvancePlaces
    <3> QED BY <3>1, Zenon
  <2> QED BY <2>1, <2>2, Zenon
<1> PICK k, o, p, next : /\ Placed(d, k, o, p, next)
                         /\ k = at[d].call \/ (k = at[d].call + 1 /\ next = "enter")
  BY <1>2
<1>3. /\ at'[d] = [call |-> k, outer |-> o, phase |-> p, step |-> next]
      /\ \A e \in Devices : e # d => at'[e] = at[e]
  BY DEF Placed, Types
<1>4. at'[d].call = k /\ at'[d].step = next
  BY <1>3
<1>5. k <= Calls /\ (next # "enter" => k < Calls)
  BY <1>1 DEF Calling
<1> QED BY <1>3, <1>4, <1>5 DEF Calling

\* A step that writes no block, and starts a copy at most.
LEMMA NoBlock ==
  ASSUME BlocksInv, UNCHANGED memory,
         \A c \in copies' : c \in copies \/ c.data = Unread
  PROVE  MemoryTyped' /\ \A c \in copies' : c.data \in Blocks
BY BlocksAre DEF BlocksInv, MemoryTyped, memory

LEMMA BlocksStep == IInv /\ DInv /\ BlocksInv /\ [Next]_vars => BlocksInv'
<1> SUFFICES ASSUME IInv, DInv, BlocksInv, [Next]_vars PROVE BlocksInv'
  OBVIOUS
<1>1. Types /\ Calling /\ MemoryTyped /\ MemoryShape /\ (\A c \in copies : c.data \in Blocks)
  BY DEF IInv, DInv, BlocksInv
<1>2. CASE UNCHANGED vars
  BY <1>1, <1>2 DEF BlocksInv, Calling, MemoryTyped, vars
<1>3. ASSUME NEW d \in Devices, Step(d) PROVE BlocksInv'
  <2>1. at[d].call < Calls /\ ((\E step : Goto(d, step)) \/ Advance(d))
    BY <1>3 DEF Step, SignalBarrier, WaitBarrier, SignalSecond, WaitSecond, StartInitialLeft,
       StartInitialRight, GrantCapacity, Send, Load, Store, Finish, Release, Drain, At
  <2>2. Calling'
    BY <1>1, <2>1, CallingKept
  <2>3. /\ at[d].call \in 0..(Calls - 1) /\ at[d].outer \in 0..(N - 1) /\ at[d].phase \in Sides
        /\ N \in Nat /\ N >= 2
    BY <1>1, <2>1, AtType, CallsAssumption, NAssumption
  <2> SUFFICES MemoryTyped' /\ \A c \in copies' : c.data \in Blocks
    BY <2>2 DEF BlocksInv
  <2>4. CASE \/ SignalBarrier(d) \/ WaitBarrier(d) \/ SignalSecond(d) \/ WaitSecond(d)
             \/ GrantCapacity(d) \/ Finish(d) \/ Release(d)
    <3>1. UNCHANGED <<memory, copies>>
      BY <2>4 DEF SignalBarrier, WaitBarrier, SignalSecond, WaitSecond, GrantCapacity, Finish, Release
    <3> QED BY <3>1, NoBlock
  <2>5. CASE StartInitialRight(d) \/ Send(d)
    <3>1. UNCHANGED memory /\ \E s, source, slot : StartCopy(d, s, source, slot)
      BY <2>5 DEF StartInitialRight, Send
    <3>2. \A c \in copies' : c \in copies \/ c.data = Unread
      BY <3>1 DEF StartCopy
    <3> QED BY <3>1, <3>2, NoBlock
  <2>6. CASE StartInitialLeft(d)
    <3>1. \A c \in copies' : c \in copies \/ c.data = Unread
      BY <2>6 DEF StartInitialLeft, StartCopy
    <3>2. UNCHANGED scratch /\ acc' = [acc EXCEPT ![d] = Zeros]
          /\ output' = [output EXCEPT ![d] = [h \in Sides |-> Zeros]]
      BY <2>6 DEF StartInitialLeft
    <3>3. \A e \in Devices, h \in Sides : acc'[e] \in Blocks /\ output'[e][h] \in Blocks
      BY <1>1, <3>2, BlocksAre DEF MemoryTyped, MemoryShape
    <3> QED BY <1>1, <3>1, <3>2, <3>3, BlocksAre DEF MemoryTyped
  <2>7. CASE Load(d)
    <3> PICK block, own : /\ block = scratch[d][WorkingSlot(at[d].outer)][at[d].phase]
                          /\ own = Contribution(at[d].call, d, Source(d, at[d].phase, at[d].outer))
      OBVIOUS
    <3>1. WorkingSlot(at[d].outer) \in {0, 1}
      BY <2>3 DEF WorkingSlot
    <3>2. block \in Blocks
      BY <1>1, <2>3, <3>1 DEF MemoryTyped
    <3>3. own \in Blocks
      <4>1. Source(d, at[d].phase, at[d].outer) \in Devices
        BY <2>3, SourceInRing
      <4> QED BY <2>3, <4>1, BlocksAre
    <3>4. block \o own \in Blocks
      BY <3>2, <3>3, BlocksAre
    <3>5. PICK v \in Blocks : acc' = [acc EXCEPT ![d] = v]
      BY <2>7, <3>2, <3>4 DEF Load
    <3>6. UNCHANGED <<scratch, output, copies>>
      BY <2>7 DEF Load
    <3>7. \A e \in Devices : acc'[e] \in Blocks
      BY <1>1, <3>5, SidesAre DEF MemoryTyped, MemoryShape
    <3> QED BY <1>1, <3>6, <3>7 DEF MemoryTyped
  <2>8. CASE Store(d)
    <3>1. WorkingSlot(at[d].outer) \in {0, 1}
      BY <2>3 DEF WorkingSlot
    <3>2. Puts(d, WorkingSlot(at[d].outer), at[d].phase, acc[d]) /\ UNCHANGED <<acc, output, copies>>
      BY <2>8 DEF Store, Puts
    <3>3. acc[d] \in Blocks
      BY <1>1, SidesAre DEF MemoryTyped
    <3>4. \A e \in Devices, slot \in {0, 1}, h \in Sides : scratch'[e][slot][h] \in Blocks
      <4> PICK i, t, v : i = WorkingSlot(at[d].outer) /\ t = at[d].phase /\ v = acc[d]
        OBVIOUS
      <4>1. /\ scratch'[d][i][t] = v
            /\ \A e \in Devices : e # d => scratch'[e] = scratch[e]
            /\ \A j \in {0, 1}, u \in Sides : ~(j = i /\ u = t) => scratch'[d][j][u] = scratch[d][j][u]
        BY <1>1, <2>3, <3>1, <3>2, ScratchCell
      <4> QED BY <1>1, <3>3, <4>1 DEF MemoryTyped
    <3> QED BY <1>1, <3>2, <3>4 DEF MemoryTyped
  <2>9. CASE Drain(d)
    <3>1. Shows(d, at[d].phase, acc[d]) /\ UNCHANGED <<scratch, acc, copies>>
      BY <2>9 DEF Drain, Shows
    <3>2. acc[d] \in Blocks
      BY <1>1, SidesAre DEF MemoryTyped
    <3>3. \A e \in Devices, h \in Sides : output'[e][h] \in Blocks
      <4> PICK t, v : t = at[d].phase /\ v = acc[d]
        OBVIOUS
      <4>1. /\ output'[d][t] = v
            /\ \A e \in Devices : e # d => output'[e] = output[e]
            /\ \A u \in Sides : u # t => output'[d][u] = output[d][u]
        BY <1>1, <2>3, <3>1, OutputCell
      <4> QED BY <1>1, <3>2, <4>1 DEF MemoryTyped
    <3> QED BY <1>1, <3>1, <3>3 DEF MemoryTyped
  <2> QED BY <1>3, <2>4, <2>5, <2>6, <2>7, <2>8, <2>9 DEF Step
<1>4. ASSUME NEW c \in copies, ReadSource(c) PROVE BlocksInv'
  <2>1. Tagged(c) /\ IsCopy(c) /\ c.from \in Devices /\ c.side \in Sides
    BY CopyIs DEF Tagged
  <2> PICK value : value = IF c.source = Input THEN Contribution(c.call, c.from, c.from)
                           ELSE scratch[c.from][c.source][c.side]
    OBVIOUS
  <2> PICK r : r = [c EXCEPT !.read = TRUE, !.data = value]
    OBVIOUS
  <2>2. copies' = (copies \ {c}) \cup {r} /\ UNCHANGED <<at, memory>>
    BY <1>4 DEF ReadSource
  <2>3. r.data = value
    BY <2>1 DEF IsCopy
  <2>4. value \in Blocks
    <3>1. CASE c.source = Input
      <4>1. c.call = at[c.from].call /\ at[c.from].step # "enter"
        BY <2>1 DEF Tagged, Starts, StartsAt, Entering
      <4>2. c.call \in 0..(Calls - 1)
        BY <1>1, <2>1, <4>1, AtType, CallsAssumption DEF Calling
      <4> QED BY <2>1, <3>1, <4>2, BlocksAre
    <3>2. CASE c.source # Input
      <4>1. c.source \in {0, 1}
        <5>1. Starts(c.from, c.side) \in Int
          BY <1>1, <2>1, Counts, CountIs
        <5> QED BY <2>1, <3>2, <5>1 DEF Tagged
      <4> QED BY <1>1, <2>1, <3>2, <4>1 DEF MemoryTyped
    <3> QED BY <3>1, <3>2
  <2>5. Calling' /\ MemoryTyped'
    BY <1>1, <2>2 DEF Calling, MemoryTyped, memory
  <2> QED BY <1>1, <2>2, <2>3, <2>4, <2>5 DEF BlocksInv
<1>5. ASSUME NEW c \in copies, Land(c) PROVE BlocksInv'
  <2>1. Tagged(c) /\ c.from \in Devices /\ c.side \in Sides /\ c.data \in Blocks
    BY <1>1, CopyIs
  <2> PICK n, i, t, v : n = Neighbor(c.from, c.side) /\ i = c.slot /\ t = c.side /\ v = c.data
    OBVIOUS
  <2>2. n \in Devices
    BY <2>1, RingIs
  <2>3. i \in {0, 1}
    <3>1. Starts(c.from, c.side) \in Int
      BY <1>1, <2>1, Counts, CountIs
    <3> QED BY <2>1, <3>1 DEF Tagged
  <2>4. Puts(n, i, t, v) /\ copies' \subseteq copies /\ UNCHANGED <<at, acc, output>>
    BY <1>5 DEF Land, Puts
  <2>5. /\ scratch'[n][i][t] = v
        /\ \A e \in Devices : e # n => scratch'[e] = scratch[e]
        /\ \A j \in {0, 1}, u \in Sides : ~(j = i /\ u = t) => scratch'[n][j][u] = scratch[n][j][u]
    BY <1>1, <2>1, <2>2, <2>3, <2>4, ScratchCell
  <2>6. \A e \in Devices, slot \in {0, 1}, h \in Sides : scratch'[e][slot][h] \in Blocks
    BY <1>1, <2>1, <2>5 DEF MemoryTyped
  <2> QED BY <1>1, <2>4, <2>6 DEF BlocksInv, Calling, MemoryTyped
<1> QED BY <1>2, <1>3, <1>4, <1>5 DEF Next

\* What the program's resources have to hold: however far the devices drift
\* apart, and however many calls share them, a barrier or capacity semaphore
\* never counts above two and a DMA semaphore never above one.
THEOREM SemaphoresStayBounded == Spec => []SemaphoresBounded
BY Initially, StepKeeps, Bounded, PTL DEF Spec

\* A device starts no more copies in a call than the plan says, and every
\* block is a sequence of contributions.
THEOREM TypeCorrect == Spec => []TypeOK
<1>1. Init => BlocksInv
  <2> SUFFICES ASSUME Init PROVE BlocksInv
    OBVIOUS
  <2>1. Calling
    BY CallsAssumption DEF Init, Calling
  <2>2. MemoryTyped
    BY BlocksAre DEF Init, MemoryTyped
  <2> QED BY <2>1, <2>2 DEF BlocksInv, Init
<1>2. IInv /\ BlocksInv => TypeOK
  <2> SUFFICES ASSUME IInv, BlocksInv PROVE TypeOK
    OBVIOUS
  <2>1. Types /\ Calling /\ SemaphoresBounded /\ N \in Nat /\ N >= 2 /\ Calls \in Nat
    BY Bounded, NAssumption, CallsAssumption DEF IInv, BlocksInv
  <2>2. at \in [Devices -> [call : 0..Calls, outer : 0..(N - 1), phase : Sides, step : Steps]]
    <3>1. \A d \in Devices : at[d] \in [call : 0..Calls, outer : 0..(N - 1), phase : Sides, step : Steps]
      BY <2>1 DEF Types, Calling
    <3> QED BY <2>1, <3>1 DEF Types
  <2>3. /\ barrier \in [Devices -> 0..2] /\ second \in [Devices -> 0..2]
        /\ capacity \in [Devices -> [Sides -> 0..2]]
        /\ sent \in [Devices -> [Sides -> 0..1]] /\ received \in [Devices -> [Sides -> 0..1]]
    <3>1. barrier \in [Devices -> 0..2] /\ second \in [Devices -> 0..2]
      BY <2>1 DEF Types, SemaphoresBounded
    <3>2. \A d \in Devices : /\ capacity[d] \in [Sides -> 0..2] /\ sent[d] \in [Sides -> 0..1]
                             /\ received[d] \in [Sides -> 0..1]
      BY <2>1 DEF Types, SemaphoresBounded
    <3> QED BY <2>1, <3>1, <3>2 DEF Types
  <2>4. ASSUME NEW c \in copies PROVE c \in Copy
    <3>1. Tagged(c) /\ IsCopy(c) /\ c.from \in Devices /\ c.side \in Sides /\ c.read \in BOOLEAN
      BY CopyIs DEF Tagged, IsCopy
    <3>2. c.call \in 0..(Calls - 1)
      <4>1. c.call = at[c.from].call /\ at[c.from].step # "enter"
        BY <3>1 DEF Tagged, Starts, StartsAt, Entering
      <4> QED BY <2>1, <3>1, <4>1, AtType DEF Calling
    <3>3. c.slot \in {0, 1} /\ c.source \in {0, 1, Input}
      <4>1. Starts(c.from, c.side) \in Int
        BY <2>1, <3>1, Counts, CountIs
      <4> QED BY <3>1, <4>1 DEF Tagged
    <3>4. c.data \in Blocks
      BY DEF BlocksInv
    <3> QED BY <3>1, <3>2, <3>3, <3>4 DEF Copy, IsCopy
  <2>5. started \in [Devices -> 0..RemoteHalfOutputCopyCount]
    <3>1. ASSUME NEW d \in Devices PROVE started[d] \in 0..RemoteHalfOutputCopyCount
      <4>1. Starts(d, left) \in 0..(N + 1) /\ Starts(d, right) \in 0..N
        BY <2>1, Counts, SidesAre DEF Count
      <4>2. started[d] = Starts(d, left) + Starts(d, right)
        BY <2>1 DEF Types
      <4> QED BY <2>1, <4>1, <4>2 DEF RemoteHalfOutputCopyCount
    <3> QED BY <2>1, <3>1 DEF Types
  <2> QED BY <2>2, <2>3, <2>4, <2>5 DEF TypeOK, BlocksInv, MemoryTyped
<1> QED BY <1>1, <1>2, Initially, StepKeeps, DataInitially, DataKeeps, BlocksStep, PTL DEF Spec

==============================================================================
