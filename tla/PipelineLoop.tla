----------------------------- MODULE PipelineLoop -----------------------------
(***************************************************************************)
(* A software-pipelined loop: PipelineLoopOp.verify_ of                    *)
(* src/src/tpu_cake/dialects/tpu_schedule.py, with the resource analysis   *)
(* it asks for, and the loop that it accepts.                              *)
(*                                                                         *)
(* First the body of one iteration is written, operation by operation: the *)
(* guards are the tests of verify_.  Then the loop runs.  Iteration i is   *)
(* at logical stage `now - i * interval`, as in                            *)
(* analyze_pipeline_stage_resources; iterations that are at work together  *)
(* interleave, and a copy lands at any time between its start and its      *)
(* wait.  A captured buffer has `rotation` banks, and iteration i uses     *)
(* bank i mod rotation.  The repository verifies and prices such loops and *)
(* has no lowering of them, so how the loop runs is an assumption.         *)
(*                                                                         *)
(* The captures' lifetimes, the rotations and the kernel's DMA engines and *)
(* semaphore slots are the least that the verifier accepts.  Left out: MXU *)
(* and vector units, collectives, topology links and bytes of memory.      *)
(***************************************************************************)
EXTENDS Integers, Sequences, FiniteSets, FiniteSetsExt

CONSTANTS
  Hbm,         \* captured buffers in HBM
  Vmem,        \* captured buffers in VMEM
  Semaphores,
  Trip,        \* trip_count, positive
  MaxStages,   \* bound of pipeline_stages
  MaxInterval, \* bound of initiation_interval
  MaxOps       \* bound: operations in the body

Capture   == Hbm \cup Vmem
Iteration == 0..(Trip - 1)

VARIABLES
  stages,    \* pipeline_stages
  interval,  \* initiation_interval
  body,      \* the operations of an iteration, in program order
  running,   \* the loop is accepted and runs
  now,       \* the absolute stage
  at,        \* at[i]: the next operation of iteration i
  landed,    \* landed[i]: the copies of iteration i that have landed, by index
  memory     \* memory[c][b]: the iteration that wrote bank b of capture c last

schedule == <<stages, interval, body>>
vars == <<schedule, running, now, at, landed, memory>>

Operation ==
  [kind : {"start"}, source : Capture, dest : Capture, semaphore : Semaphores, stage : Nat]
    \cup [kind : {"wait"}, start : Nat, stage : Nat]
    \cup [kind : {"compute"}, source : Capture, dest : Capture, stage : Nat]

Index(kind) == {k \in DOMAIN body : body[k].kind = kind}
Starts      == Index("start")
WaitOf(k)   == CHOOSE w \in Index("wait") : body[w].start = k

-----------------------------------------------------------------------------
(* What the verifier asks of the loop.                                      *)

\* pending_dma: the copies started and not waited for.
Pending == {k \in Starts : \A w \in Index("wait") : body[w].start # k}

\* The stages at which operations use a buffer: _check_live demands that its
\* lifetime contains them, a copy's from its start to its wait.
Uses(k, c) ==
  CASE body[k].kind = "wait" -> c \in {body[body[k].start].source, body[body[k].start].dest}
    [] OTHER -> c \in {body[k].source, body[k].dest}
UseStages(c) == {body[k].stage : k \in {k \in DOMAIN body : Uses(k, c)}}

Written == {body[k].dest : k \in Starts \cup Index("compute")}

Ceiling(n, d) == (n + d - 1) \div d

\* Mutant: the last stage of the lifetime is not counted.
LiveStagesExclusive(c) == Max(UseStages(c)) - Min(UseStages(c))

LiveStages(c) == Max(UseStages(c)) - Min(UseStages(c)) + 1

\* The rotation that a capture needs: one that is never written needs none.
Rotation(c) == IF c \in Written THEN Max({1, Ceiling(LiveStages(c), interval)}) ELSE 1

\* analyze_pipeline_stage_resources.
Horizon       == (Trip - 1) * interval + stages
Logical(t, i) == t - i * interval
ActiveAt(t)   == {i \in Iteration : Logical(t, i) \in 0..(stages - 1)}

\* Mutant: a copy is not counted at the stage of its wait.
OccupiesHalfOpen(k, s) == body[k].stage <= s /\ s < body[WaitOf(k)].stage

Occupies(k, s) == body[k].stage <= s /\ s <= body[WaitOf(k)].stage

CopiesAt(t, starts) ==
  {ik \in Iteration \X starts : ik[1] \in ActiveAt(t) /\ Occupies(ik[2], Logical(t, ik[1]))}
On(semaphore) == {k \in Starts : body[k].semaphore = semaphore}

\* The DMA engines, and the slots of a semaphore, that verify_ demands.
Engines          == Max({Cardinality(CopiesAt(t, Starts)) : t \in 0..(Horizon - 1)})
Slots(semaphore) == Max({Cardinality(CopiesAt(t, On(semaphore))) : t \in 0..(Horizon - 1)})

-----------------------------------------------------------------------------
Init ==
  /\ stages \in 1..MaxStages /\ interval \in 1..MaxInterval
  /\ body = <<>>
  /\ running = FALSE
  /\ now = 0
  /\ at = [i \in Iteration |-> 1]
  /\ landed = [i \in Iteration |-> {}]
  /\ memory = [c \in Capture |-> <<>>]

\* Stages are monotonic and inside the declared pipeline.
Add(operation) ==
  /\ ~running /\ Len(body) < MaxOps
  /\ operation.stage < stages
  /\ body # <<>> => body[Len(body)].stage <= operation.stage
  /\ body' = Append(body, operation)
  /\ UNCHANGED <<stages, interval, running, now, at, landed, memory>>

\* A copy is between two memory spaces; its semaphore has no copy pending.
DmaStart ==
  \E source, dest \in Capture, semaphore \in Semaphores, stage \in 0..(MaxStages - 1) :
    /\ (source \in Hbm) # (dest \in Hbm)
    /\ \A k \in Pending : body[k].semaphore # semaphore
    /\ Add([kind |-> "start", source |-> source, dest |-> dest,
            semaphore |-> semaphore, stage |-> stage])

\* A token has exactly one wait, after its start.
DmaWait ==
  \E k \in Pending, stage \in 0..(MaxStages - 1) :
    Add([kind |-> "wait", start |-> k, stage |-> stage])

\* An operation of the core; every block argument counts as initialized.
Compute ==
  \E source, dest \in Vmem, stage \in 0..(MaxStages - 1) :
    Add([kind |-> "compute", source |-> source, dest |-> dest, stage |-> stage])

\* The tests after the walk; the loop enters with what its captures hold.
Accept ==
  /\ ~running /\ body # <<>>
  /\ Pending = {}
  /\ running' = TRUE
  /\ memory' = [c \in Capture |-> [b \in 0..((IF UseStages(c) = {} THEN 1 ELSE Rotation(c)) - 1) |-> -1]]
  /\ UNCHANGED <<schedule, now, at, landed>>

-----------------------------------------------------------------------------
(* The loop.                                                                *)

Bank(c, i) == i % Cardinality(DOMAIN memory[c])
Write(c, i) == memory' = [memory EXCEPT ![c][Bank(c, i)] = i]

\* Iteration i has an operation left at its logical stage.
Ready(i) ==
  /\ running /\ i \in ActiveAt(now)
  /\ at[i] \in DOMAIN body /\ body[at[i]].stage = Logical(now, i)

Advance(i) == at' = [at EXCEPT ![i] = @ + 1] /\ UNCHANGED <<schedule, running, now>>

RunStart(i) ==
  /\ Ready(i) /\ body[at[i]].kind = "start"
  /\ Advance(i) /\ UNCHANGED <<landed, memory>>

\* A copy of iteration i that is on its way arrives.
Land(i) ==
  \E k \in Starts :
    /\ running /\ k < at[i] /\ k \notin landed[i]
    /\ landed' = [landed EXCEPT ![i] = @ \cup {k}]
    /\ Write(body[k].dest, i)
    /\ UNCHANGED <<schedule, running, now, at>>

RunWait(i) ==
  /\ Ready(i) /\ body[at[i]].kind = "wait"
  /\ body[at[i]].start \in landed[i]
  /\ Advance(i) /\ UNCHANGED <<landed, memory>>

RunCompute(i) ==
  /\ Ready(i) /\ body[at[i]].kind = "compute"
  /\ Write(body[at[i]].dest, i)
  /\ Advance(i) /\ UNCHANGED landed

\* The next absolute stage.
Tick ==
  /\ running /\ now < Horizon - 1
  /\ \A i \in Iteration : ~Ready(i)
  /\ now' = now + 1
  /\ UNCHANGED <<schedule, running, at, landed, memory>>

Next ==
  \/ DmaStart \/ DmaWait \/ Compute \/ Accept
  \/ \E i \in Iteration : RunStart(i) \/ Land(i) \/ RunWait(i) \/ RunCompute(i)
  \/ Tick

Spec == Init /\ [][Next]_vars

-----------------------------------------------------------------------------
(* Properties.                                                              *)

TypeOK ==
  /\ stages \in 1..MaxStages /\ interval \in 1..MaxInterval
  /\ body \in Seq(Operation) /\ Len(body) <= MaxOps
  /\ running \in BOOLEAN
  /\ now \in 0..(Horizon - 1)
  /\ at \in [Iteration -> 1..(Len(body) + 1)]
  /\ \A i \in Iteration : landed[i] \subseteq Starts
  /\ \A c \in Capture : \A b \in DOMAIN memory[c] : memory[c][b] \in Iteration \cup {-1}

\* Iteration i has written capture c: the core did, or it waited for a copy.
HasWritten(i, c) ==
  \E k \in 1..(at[i] - 1) :
    \/ body[k].kind = "compute" /\ body[k].dest = c
    \/ body[k].kind = "wait" /\ body[body[k].start].dest = c

\* Iteration i is still to read capture c, on the core or by a copy.
WillRead(i, c) ==
  \/ \E k \in at[i]..Len(body) : body[k].kind # "wait" /\ body[k].source = c
  \/ \E k \in Starts : k < at[i] /\ k \notin landed[i] /\ body[k].source = c

\* As long as an iteration reads what it wrote into a rotating buffer, no later
\* iteration writes there: ceil(live stages / initiation interval) banks are
\* enough at every interleaving and every delay of a copy.
IterationsKeepApart ==
  running => \A i \in Iteration, c \in Capture :
    HasWritten(i, c) /\ WillRead(i, c) => memory[c][Bank(c, i)] = i

\* The copies that are on their way, and those not waited for, of all
\* iterations at work, find engines and slots in what the analysis counted.
EnginesSuffice ==
  running =>
    LET Started(starts) == {ik \in Iteration \X starts : ik[2] < at[ik[1]]} IN
    /\ Cardinality({ik \in Started(Starts) : ik[2] \notin landed[ik[1]]}) <= Engines
    /\ \A s \in Semaphores :
         Cardinality({ik \in Started(On(s)) : WaitOf(ik[2]) >= at[ik[1]]}) <= Slots(s)
=============================================================================
