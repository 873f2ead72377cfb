-------------------------------- MODULE MCParts --------------------------------
(***************************************************************************)
(* Four parts of the schedule verifier whose states do not meet, checked   *)
(* side by side: the first step has chosen one of them, and the others     *)
(* stay as they are.  Views are checked in the module itself, the kernel's *)
(* copies of tiles, the pipeline loop and the copies between devices as    *)
(* instances.                                                              *)
(***************************************************************************)
EXTENDS BufferViews, TLC

CONSTANTS
  Inputs, Outputs, Vmem, Summaries, Axes, Semaphores, Functions, NoStatistics, \* KernelSchedule
  Hbm, Core, Trip, MaxStages, MaxInterval, \* PipelineLoop; Core: its captures in VMEM
  Devices, Given,                          \* RemoteDma
  MaxOps                                   \* bound: operations of a schedule, a loop's body, a program

VARIABLES
  part, \* the part whose steps are taken
  initialized, written, partial, statistics, in_flight, ended, ops, memory, copies, done, promised,
  stages, interval, body, loop_runs, now, iteration_at, landed, banks,
  program, devices_run, device_at, device_written, arrived, signals

kernel == <<initialized, written, partial, statistics, in_flight, ended, ops, memory, copies, done, promised>>
loop   == <<stages, interval, body, loop_runs, now, iteration_at, landed, banks>>
remote == <<program, devices_run, device_at, device_written, arrived, signals>>
parts  == <<part, views, kernel, loop, remote>>

\* Two tiles of a buffer, named together or alone; unsharded operands.
\* KernelProofs is KernelSchedule with what is proved of it.
K == INSTANCE KernelProofs
       WITH Tiles <- {1, 2}, Views <- {{1}, {2}, {1, 2}}, MatmulSharding <- {{}}, Reuse <- "when_idle"

P == INSTANCE PipelineLoop WITH Vmem <- Core, running <- loop_runs, at <- iteration_at, memory <- banks

R == INSTANCE RemoteDma
       WITH running <- devices_run, at <- device_at, written <- device_written, OneUse <- TRUE

\* KernelSchedule and PipelineLoop ask this of the constants they are given.
ASSUME KernelAssumption ==
  /\ K!Args \cap Vmem = {} /\ Summaries \subseteq Vmem
  /\ Functions \subseteq K!VectorFunctions
  /\ MaxOps \in Nat
ASSUME LoopAssumption == Trip \in Nat \ {0} /\ MaxStages \in Nat /\ MaxInterval \in Nat

TwoStages == {<<0, 0>>, <<0, 1>>, <<1, 1>>}

\* Buffers are interchangeable, and so are semaphores.
Symmetry == Permutations(Vmem) \cup Permutations(Semaphores)

PartsInit ==
  /\ part \in {"views", "kernel", "loop", "remote"}
  /\ Init /\ K!Init /\ P!Init /\ R!Init
  /\ part # "loop" => stages = 1 /\ interval = 1

PartsNext ==
  \/ part = "views"  /\ Next   /\ UNCHANGED <<part, kernel, loop, remote>>
  \/ part = "kernel" /\ K!Next /\ UNCHANGED <<part, views, loop, remote>>
  \/ part = "loop"   /\ P!Next /\ UNCHANGED <<part, views, kernel, remote>>
  \/ part = "remote" /\ R!Next /\ UNCHANGED <<part, views, kernel, loop>>

PartsSpec == PartsInit /\ [][PartsNext]_parts

-----------------------------------------------------------------------------
(* The properties of the instances.                                         *)

\* KernelSchedule, ReadableIsPromised: overlapping copies are refused, and
\* disjoint ones give one result in whatever order they finish.
TilesArePromised == K!ReadableIsPromised

\* PipelineLoop: no later iteration writes a bank that one still reads.
IterationsKeepApart == P!IterationsKeepApart

\* PipelineLoop: the copies in flight find engines and slots in what was counted.
EnginesSuffice == P!EnginesSuffice

\* RemoteDma: what counts as initialized has been written on every device.
InitializedEverywhere == R!InitializedEverywhere
=============================================================================
