-------------------------- MODULE RingReduceScatter --------------------------
(***************************************************************************)
(* The bidirectional ring reduce-scatter kernel of                         *)
(* src/src/tpu_cake/pallas_lowering.py: N devices run the same kernel over *)
(* a grid of N outer steps and two phases, and exchange half blocks with   *)
(* remote copies (asynchronous DMA) into each other's two-slot scratch     *)
(* buffer.  Capacity semaphores tell a sender that its neighbour's slot is *)
(* free; DMA semaphores count the copies sent and received.                *)
(*                                                                         *)
(* One step is one call to the hardware: a semaphore signal, a wait with   *)
(* the work that follows it on the same core, or a local copy.  A remote   *)
(* copy runs by itself between its start and its two completions: it reads *)
(* its source at some moment and writes its destination at a later one.    *)
(* A half block is the sequence of contributions added into it, each named *)
(* by call, device and chunk.                                              *)
(***************************************************************************)
EXTENDS Integers, Sequences, FiniteSets

CONSTANTS
  N,      \* group_size: the devices on the ring axis
  Calls   \* how many times the program runs the kernel

\* The lowering refuses a mesh axis of fewer than two devices.
ASSUME NAssumption     == N \in Nat /\ N >= 2
ASSUME CallsAssumption == Calls \in Nat \ {0}

Devices == 0..(N - 1)
left    == 0
right   == 1
Sides   == {left, right}
Other(side) == 1 - side

\* lax.rem truncates toward zero: a negative dividend has a negative rest.
Rem(value, modulus) == IF value >= 0 THEN value % modulus ELSE -((-value) % modulus)

RingMod(value, modulus) == Rem(value + modulus, modulus)

Neighbor(d, side) == RingMod(IF side = right THEN d + 1 ELSE d - 1, N)

\* Mutant: both directions walk the chunks the same way round.
SourceSameDirection(d, side, outer) == RingMod(d + outer + 1, N)

\* The chunk whose contribution device d adds at an outer step.
Source(d, side, outer) == RingMod(IF side = left THEN d + outer + 1 ELSE d - outer - 1, N)

WorkingSlot(outer)   == outer % 2
ReceivingSlot(outer) == 1 - WorkingSlot(outer)

\* The phase that uses one side's half sends on the other side: right copies
\* go from the receiving slot to the working one, left copies the other way.
CopySource(side, outer) == IF side = right THEN ReceivingSlot(outer) ELSE WorkingSlot(outer)
CopyTarget(side, outer) == 1 - CopySource(side, outer)

\* Mutant: two copies per outer step, without the extra initial one.
CopyCountWithoutInitial == 2 * N

\* pallas_bidirectional_ring_resources.
RemoteHalfOutputCopyCount == 2 * N + 1

Input   == 2        \* source of a copy out of the kernel's input: not a scratch slot
Unread  == <<>>      \* a copy that has not read its source yet

\* Half blocks.
Contribution(k, d, chunk) == << <<k, d, chunk>> >>
Zeros   == <<>>
Garbage == << <<0, N, N>> >>

Steps == {"enter", "enter_right", "barrier", "second", "second_right", "second_barrier",
          "initial_left", "initial_right", "grant_left", "grant_right",
          "send", "load", "store", "finish", "release", "drain"}

VARIABLES
  at,        \* at[d]: the call, grid position and next statement of device d
  barrier,   \* barrier[d]: the barrier semaphore, shared by all calls
  second,    \* second[d]: the scoped semaphore of the second barrier
  capacity,  \* capacity[d][s]: d's credits to send a copy towards side s
  sent,      \* sent[d][s]: completed sends not yet waited for
  received,  \* received[d][s]: completed receives not yet waited for
  copies,    \* the remote copies in flight
  started,   \* started[d]: remote copies d has started in this call
  scratch,   \* scratch[d][slot][half]: the receive buffer in HBM
  acc,       \* acc[d]: the VMEM accumulator
  output     \* output[d][half]

vars == <<at, barrier, second, capacity, sent, received, copies, started, scratch, acc, output>>

counters == <<barrier, second, capacity, sent, received>>
memory   == <<scratch, acc, output>>

Init ==
  /\ at = [d \in Devices |-> [call |-> 0, outer |-> 0, phase |-> left, step |-> "enter"]]
  /\ barrier = [d \in Devices |-> 0]
  /\ second = [d \in Devices |-> 0]
  /\ capacity = [d \in Devices |-> [s \in Sides |-> 0]]
  /\ sent = [d \in Devices |-> [s \in Sides |-> 0]]
  /\ received = [d \in Devices |-> [s \in Sides |-> 0]]
  /\ copies = {}
  /\ started = [d \in Devices |-> 0]
  /\ scratch = [d \in Devices |-> [slot \in {0, 1} |-> [h \in Sides |-> Garbage]]]
  /\ acc = [d \in Devices |-> Garbage]
  /\ output = [d \in Devices |-> [h \in Sides |-> Garbage]]

-----------------------------------------------------------------------------
(* Positions.                                                               *)

IsStart(d) == at[d].outer = 0 /\ at[d].phase = left
IsLast(d)  == at[d].outer = N - 1

At(d, step)    == at[d].step = step /\ at[d].call < Calls
Goto(d, step)  == at' = [at EXCEPT ![d].step = step]

\* The grid runs the phases of an outer step in order, then the next outer
\* step; after the last one the device leaves the call.
Advance(d) ==
  LET p == at[d] IN
  at' = [at EXCEPT ![d] =
    CASE p.phase = left -> [p EXCEPT !.phase = right, !.step = "send"]
      [] p.phase = right /\ ~IsLast(d) ->
           [p EXCEPT !.outer = @ + 1, !.phase = left, !.step = "send"]
      [] OTHER -> [call |-> p.call + 1, outer |-> 0, phase |-> left, step |-> "enter"]]

\* Start a remote copy of one half towards side s, into the neighbour's slot.
StartCopy(d, s, source, slot) ==
  /\ copies' = copies \cup {[from |-> d, side |-> s, call |-> at[d].call, source |-> source,
                             slot |-> slot, read |-> FALSE, data |-> Unread]}
  /\ started' = [started EXCEPT ![d] = @ + 1]

\* A copy's wait: one completed send and one completed receive.
Completed(d, s) == sent[d][s] >= 1 /\ received[d][s] >= 1
TakeCompleted(d, s) ==
  /\ sent' = [sent EXCEPT ![d][s] = @ - 1]
  /\ received' = [received EXCEPT ![d][s] = @ - 1]

\* _ring_signal: d tells its neighbour on side s that the neighbour may send
\* towards d once more.
SignalCapacity(d, s) ==
  capacity' = [capacity EXCEPT ![Neighbor(d, s)][Other(s)] = @ + 1]

TakeCapacity(d, s) ==
  /\ capacity[d][s] >= 1
  /\ capacity' = [capacity EXCEPT ![d][s] = @ - 1]

-----------------------------------------------------------------------------
(* _ring_barrier.                                                           *)

SignalBarrier(d) ==
  /\ \/ At(d, "enter") /\ barrier' = [barrier EXCEPT ![Neighbor(d, left)] = @ + 1]
                       /\ Goto(d, "enter_right")
     \/ At(d, "enter_right") /\ barrier' = [barrier EXCEPT ![Neighbor(d, right)] = @ + 1]
                             /\ Goto(d, "barrier")
  /\ UNCHANGED <<second, capacity, sent, received, copies, started, memory>>

WaitBarrier(d) ==
  /\ At(d, "barrier")
  /\ barrier[d] >= 2
  /\ barrier' = [barrier EXCEPT ![d] = @ - 2]
  /\ Goto(d, "second")
  /\ UNCHANGED <<second, capacity, sent, received, copies, started, memory>>

SignalSecond(d) ==
  /\ \/ At(d, "second") /\ second' = [second EXCEPT ![Neighbor(d, left)] = @ + 1]
                        /\ Goto(d, "second_right")
     \/ At(d, "second_right") /\ second' = [second EXCEPT ![Neighbor(d, right)] = @ + 1]
                              /\ Goto(d, "second_barrier")
  /\ UNCHANGED <<barrier, capacity, sent, received, copies, started, memory>>

\* Mutant: the second barrier signals but does not wait.
WaitSecondNever(d) ==
  /\ At(d, "second_barrier")
  /\ Goto(d, "initial_left")
  /\ UNCHANGED <<counters, copies, started, memory>>

WaitSecond(d) ==
  /\ At(d, "second_barrier")
  /\ second[d] >= 2
  /\ second' = [second EXCEPT ![d] = @ - 2]
  /\ Goto(d, "initial_left")
  /\ UNCHANGED <<barrier, capacity, sent, received, copies, started, memory>>

-----------------------------------------------------------------------------
(* _start: the first grid step of a call.                                   *)

StartInitialLeft(d) ==
  /\ At(d, "initial_left")
  /\ output' = [output EXCEPT ![d] = [h \in Sides |-> Zeros]]
  /\ acc' = [acc EXCEPT ![d] = Zeros]
  /\ StartCopy(d, left, Input, WorkingSlot(0))
  /\ Goto(d, "initial_right")
  /\ UNCHANGED <<counters, scratch>>

StartInitialRight(d) ==
  /\ At(d, "initial_right")
  /\ Completed(d, left)
  /\ TakeCompleted(d, left)
  /\ StartCopy(d, right, Input, WorkingSlot(0))
  /\ Goto(d, "grant_left")
  /\ UNCHANGED <<barrier, second, capacity, memory>>

\* Mutant: only the left neighbour is told that it may send.
GrantCapacityLeftOnly(d) ==
  /\ At(d, "grant_left") /\ SignalCapacity(d, left) /\ Goto(d, "load")
  /\ UNCHANGED <<barrier, second, sent, received, copies, started, memory>>

GrantCapacity(d) ==
  /\ \/ At(d, "grant_left") /\ SignalCapacity(d, left) /\ Goto(d, "grant_right")
     \/ At(d, "grant_right") /\ SignalCapacity(d, right) /\ Goto(d, "load")
  /\ UNCHANGED <<barrier, second, sent, received, copies, started, memory>>

-----------------------------------------------------------------------------
(* The rest of a grid step.                                                 *)

\* _send: the left phase sends right, the right phase sends left.
Send(d) ==
  LET s == Other(at[d].phase) IN
  /\ At(d, "send")
  /\ TakeCapacity(d, s)
  /\ StartCopy(d, s, CopySource(s, at[d].outer), CopyTarget(s, at[d].outer))
  /\ Goto(d, "load")
  /\ UNCHANGED <<barrier, second, sent, received, memory>>

\* local_copy into the accumulator, then _accumulate.
Load(d) ==
  LET p     == at[d]
      block == scratch[d][WorkingSlot(p.outer)][p.phase]
      own   == Contribution(p.call, d, Source(d, p.phase, p.outer))
  IN
  /\ At(d, "load")
  /\ acc' = [acc EXCEPT ![d] = IF IsLast(d) THEN block ELSE block \o own]
  /\ Goto(d, "store")
  /\ UNCHANGED <<counters, copies, started, scratch, output>>

\* local_store of the accumulator.
Store(d) ==
  /\ At(d, "store")
  /\ scratch' = [scratch EXCEPT ![d][WorkingSlot(at[d].outer)][at[d].phase] = acc[d]]
  /\ Goto(d, "finish")
  /\ UNCHANGED <<counters, copies, started, acc, output>>

\* Mutant: wait_send alone, without the half that came in.
FinishSendOnly(d) ==
  LET s == Other(at[d].phase) IN
  /\ At(d, "finish")
  /\ sent[d][s] >= 1
  /\ sent' = [sent EXCEPT ![d][s] = @ - 1]
  /\ IF IsStart(d) THEN Advance(d) ELSE Goto(d, "release")
  /\ UNCHANGED <<barrier, second, capacity, received, copies, started, memory>>

\* _finish_initial_right or _finish_send: wait for the copy of this step.
Finish(d) ==
  LET s == Other(at[d].phase) IN
  /\ At(d, "finish")
  /\ Completed(d, s)
  /\ TakeCompleted(d, s)
  /\ IF IsStart(d) THEN Advance(d) ELSE Goto(d, "release")
  /\ UNCHANGED <<barrier, second, capacity, copies, started, memory>>

\* _finish_send: the slot this device received from may be written again.
Release(d) ==
  /\ At(d, "release")
  /\ SignalCapacity(d, at[d].phase)
  /\ IF IsLast(d) THEN Goto(d, "drain") ELSE Advance(d)
  /\ UNCHANGED <<barrier, second, sent, received, copies, started, memory>>

\* Mutant: the kernel returns without taking the last credits back.
DrainWithoutWait(d) ==
  /\ At(d, "drain")
  /\ output' = [output EXCEPT ![d][at[d].phase] = acc[d]]
  /\ started' = [started EXCEPT ![d] = IF at[d].phase = right THEN 0 ELSE @]
  /\ Advance(d)
  /\ UNCHANGED <<counters, copies, scratch, acc>>

\* _store_result: write one half of the output and take the last credit back.
Drain(d) ==
  LET p == at[d] IN
  /\ At(d, "drain")
  /\ output' = [output EXCEPT ![d][p.phase] = acc[d]]
  /\ TakeCapacity(d, Other(p.phase))
  /\ started' = [started EXCEPT ![d] = IF p.phase = right THEN 0 ELSE @]
  /\ Advance(d)
  /\ UNCHANGED <<barrier, second, sent, received, copies, scratch, acc>>

Step(d) ==
  \/ SignalBarrier(d) \/ WaitBarrier(d) \/ SignalSecond(d) \/ WaitSecond(d)
  \/ StartInitialLeft(d) \/ StartInitialRight(d) \/ GrantCapacity(d)
  \/ Send(d) \/ Load(d) \/ Store(d) \/ Finish(d) \/ Release(d) \/ Drain(d)

-----------------------------------------------------------------------------
(* The DMA engines.                                                         *)

\* A copy reads its source and signals the sender's DMA semaphore.
ReadSource(c) ==
  LET d == c.from
      value == IF c.source = Input THEN Contribution(c.call, d, d)
               ELSE scratch[d][c.source][c.side]
  IN
  /\ ~c.read
  /\ copies' = (copies \ {c}) \cup {[c EXCEPT !.read = TRUE, !.data = value]}
  /\ sent' = [sent EXCEPT ![d][c.side] = @ + 1]
  /\ UNCHANGED <<at, barrier, second, capacity, received, started, memory>>

\* A copy writes its destination and signals the receiver's DMA semaphore.
Land(c) ==
  LET n == Neighbor(c.from, c.side) IN
  /\ c.read
  /\ scratch' = [scratch EXCEPT ![n][c.slot][c.side] = c.data]
  /\ received' = [received EXCEPT ![n][c.side] = @ + 1]
  /\ copies' = copies \ {c}
  /\ UNCHANGED <<at, barrier, second, capacity, sent, started, acc, output>>

Next ==
  \/ \E d \in Devices : Step(d)
  \/ \E c \in copies : ReadSource(c) \/ Land(c)

Spec == Init /\ [][Next]_vars

\* Every core executes its kernel and every DMA engine finishes its copies.
FairSpec ==
  /\ Spec
  /\ \A d \in Devices : WF_vars(Step(d))
  /\ WF_vars(\E c \in copies : ReadSource(c) \/ Land(c))

-----------------------------------------------------------------------------
(* Properties.                                                              *)

Blocks == Seq((0..(Calls - 1)) \X (0..N) \X (0..N))

Copy == [from : Devices, side : Sides, call : 0..(Calls - 1), source : {0, 1, Input},
         slot : {0, 1}, read : BOOLEAN, data : Blocks]

\* Types, and the widest count each semaphore ever holds.
TypeOK ==
  /\ at \in [Devices -> [call : 0..Calls, outer : 0..(N - 1), phase : Sides, step : Steps]]
  /\ barrier \in [Devices -> 0..2]
  /\ second \in [Devices -> 0..2]
  /\ capacity \in [Devices -> [Sides -> 0..2]]
  /\ sent \in [Devices -> [Sides -> 0..1]]
  /\ received \in [Devices -> [Sides -> 0..1]]
  /\ \A c \in copies : c \in Copy
  /\ started \in [Devices -> 0..RemoteHalfOutputCopyCount]
  /\ \A d \in Devices, h \in Sides :
       /\ \A slot \in {0, 1} : scratch[d][slot][h] \in Blocks
       /\ acc[d] \in Blocks
       /\ output[d][h] \in Blocks

\* Places in scratch memory: the device, the slot and the half.
Place(d, slot, half) == <<d, slot, half>>
Writing(c) == Place(Neighbor(c.from, c.side), c.slot, c.side)
Reading(c) == IF c.read \/ c.source = Input THEN {} ELSE {Place(c.from, c.source, c.side)}
Working(d) == Place(d, WorkingSlot(at[d].outer), at[d].phase)

\* A scratch half is never read while something may be writing it, and never
\* written by two at once: not by two copies, not by a copy and a core that
\* is about to load or store it.  The capacity semaphores are there for this.
NoDataRace ==
  /\ \A c, e \in copies : Writing(c) \notin Reading(e) /\ (Writing(c) = Writing(e) => c = e)
  /\ \A d \in Devices, c \in copies :
       /\ At(d, "load") \/ At(d, "store") => Writing(c) # Working(d)
       /\ At(d, "store") => Working(d) \notin Reading(c)

\* A copy only ever writes into a device that is inside the same call and
\* past its first barrier: never into a buffer of the program before the
\* kernel or of the program after it.
CopiesLandInsideTheCall ==
  \A c \in copies :
    LET p == at[Neighbor(c.from, c.side)] IN
    /\ p.call = c.call
    /\ p.step \notin {"enter", "enter_right", "barrier"}

\* A device that is outside a call has no count left on its scratch
\* semaphores and no copy of its own in flight: every signal was waited for.
DrainedOnReturn ==
  \A d \in Devices : at[d].step = "enter" =>
    /\ second[d] = 0
    /\ \A s \in Sides : capacity[d][s] = 0 /\ sent[d][s] = 0 /\ received[d][s] = 0
    /\ \A c \in copies : c.from # d

\* The plan's resource count: a call starts exactly 2g+1 half-output copies.
ExactCopyCount ==
  \A d \in Devices :
    at[d].step = "drain" /\ at[d].phase = right => started[d] = RemoteHalfOutputCopyCount

\* The kernel implements the reduce-scatter: between calls a device's output
\* holds every contribution to its chunk once, and it returned only after
\* every device had entered.
Terms(block) ==
  LET terms == {block[i] : i \in DOMAIN block}
  IN IF Cardinality(terms) = Len(block) THEN terms ELSE {}

Returned(d) == at[d].call
Entered(d)  == IF at[d].step = "enter" THEN at[d].call ELSE at[d].call + 1

Promise == INSTANCE ReduceScatter WITH
  entered <- [d \in Devices |-> Entered(d)],
  returned <- [d \in Devices |-> Returned(d)],
  result <- [d \in Devices |->
    IF at[d].step = "enter" /\ at[d].call > 0
    THEN [h \in Sides |-> Terms(output[d][h])]
    ELSE [h \in Sides |-> {}]]

ImplementsReduceScatter == Promise!Spec

\* No device waits for ever: every call ends on every device.
AllCallsReturn == <>(\A d \in Devices : at[d].call = Calls)

=============================================================================
