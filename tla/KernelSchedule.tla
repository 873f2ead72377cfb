---------------------------- MODULE KernelSchedule ----------------------------
(***************************************************************************)
(* The verifier of a physical kernel schedule (KernelOp.verify_ of         *)
(* src/src/tpu_cake/dialects/tpu_schedule.py) and a core that runs the     *)
(* schedule it accepts.                                                    *)
(*                                                                         *)
(* The verifier walks the operations in program order and keeps what it    *)
(* knows of every root buffer.  Here each action is one operation: its     *)
(* guard is what the verifier demands of it, and the step both records     *)
(* what the verifier then knows and runs the operation on the core.        *)
(* Copies (DMA) run by themselves, tile by tile, from their start until    *)
(* their wait returns, so what the verifier knows can be compared with     *)
(* what the memory holds under every timing of the copies.                 *)
(*                                                                         *)
(* Layouts, lifetimes and stages are left out: the per-operation verifiers *)
(* compare them with no state.  Of shapes the model keeps only that RMSNorm *)
(* statistics have a dimension less than what they summarize.  Of a value  *)
(* it keeps who computed it, the mesh axes over which it is still a partial *)
(* sum, and, for statistics, the values they were computed from.           *)
(***************************************************************************)
EXTENDS Naturals, FiniteSets

CONSTANTS
  Inputs,         \* kernel arguments of mode input or inout
  Outputs,        \* kernel arguments of mode output or inout
  Vmem,           \* the buffers the kernel allocates
  Summaries,      \* those of them with one dimension less, for RMSNorm statistics
  Tiles,          \* the tiles of a buffer, in storage order
  Views,          \* the sets of tiles an operand may name
  Axes,           \* the axes of the device mesh
  Semaphores,     \* the kernel's DMA semaphores
  Functions,      \* the vector functions the schedule uses
  MatmulSharding, \* the axes a matmul's contracted dimension may be split over
  Reuse,          \* when the schedule writes a buffer again
  MaxOps,         \* bound: operations in a schedule, waits not counted
  NoStatistics    \* no entry in rms_statistics

Args    == Inputs \cup Outputs
Buffers == Args \cup Vmem

VectorFunctions == {"add", "slice", "silu", "embedding_lookup", "residual_inject",
                    "rms_norm_partial", "rms_norm_apply"}

ASSUME BuffersAssumption == Args \cap Vmem = {} /\ Summaries \subseteq Vmem
ASSUME TilesAssumption   == Tiles \subseteq Nat /\ IsFiniteSet(Tiles) /\ Views \subseteq (SUBSET Tiles) \ {{}}
ASSUME FunctionsAssumption == Functions \subseteq VectorFunctions
ASSUME ReuseAssumption   == Reuse \in {"never", "when_idle", "any"}
ASSUME MaxOpsAssumption  == MaxOps \in Nat
ASSUME MatmulAssumption  == MatmulSharding \subseteq SUBSET Axes

\* A value, named by the operation that produced it and its tile.
Ids       == (0..MaxOps) \X Tiles
Value     == [id : Ids, pending : SUBSET Axes, of : SUBSET Ids]
Undefined == [id |-> <<MaxOps + 1, 0>>, pending |-> {}, of |-> {}]

Operand(S) == [root : S, tiles : Views]
Transfer   == [semaphore : Semaphores, source : Operand(Buffers), destination : Operand(Buffers)]

VARIABLES
  \* What the verifier knows.
  initialized,  \* roots that some completed operation has written
  written,      \* written_external_outputs
  partial,      \* partial_reductions, {} where it has no entry
  statistics,   \* rms_statistics
  in_flight,    \* in_flight and pending_dma_destinations: transfers started, not waited for
  ended,        \* the yield has been reached and the kernel accepted
  \* What the hardware does.
  ops,          \* operations issued
  memory,       \* memory[b][t]
  copies,       \* transfers the DMA engines still work on, with the tiles to move
  done,         \* done[s]: completions signalled on s and not yet waited for
  promised      \* what the memory holds if every copy completes as it starts

vars == <<initialized, written, partial, statistics, in_flight, ended,
          ops, memory, copies, done, promised>>

TypeOK ==
  /\ initialized \subseteq Buffers
  /\ written \subseteq Outputs
  /\ partial \in [Buffers -> SUBSET Axes]
  /\ statistics \in [Buffers -> [of : Buffers, pending : SUBSET Axes] \cup {NoStatistics}]
  /\ in_flight \subseteq Transfer
  /\ ended \in BOOLEAN
  /\ ops \in 0..MaxOps
  /\ memory \in [Buffers -> [Tiles -> Value \cup {Undefined}]]
  /\ promised \in [Buffers -> [Tiles -> Value \cup {Undefined}]]
  /\ \A c \in copies : c.transfer \in in_flight /\ c.todo \subseteq Tiles \X Tiles
  /\ done \in [Semaphores -> 0..1]

Init ==
  /\ initialized = Inputs
  /\ written = {}
  /\ partial = [b \in Buffers |-> {}]
  /\ statistics = [b \in Buffers |-> NoStatistics]
  /\ in_flight = {}
  /\ ended = FALSE
  /\ ops = 0
  /\ memory = [b \in Buffers |-> [t \in Tiles |->
       IF b \in Inputs THEN [id |-> <<0, t>>, pending |-> {}, of |-> {}] ELSE Undefined]]
  /\ copies = {}
  /\ done = [s \in Semaphores |-> 0]
  /\ promised = memory

-----------------------------------------------------------------------------
(* The verifier's tests.                                                    *)

\* Mutant: a buffer may be read before anything wrote it.
ReadableUninitialized(v) == \A c \in in_flight : c.destination.root # v.root

\* require_initialized
Readable(v) ==
  /\ v.root \in initialized
  /\ \A c \in in_flight : c.destination.root # v.root

\* require_fully_reduced
Reduced(v) == partial[v.root] = {}

\* Mutant: pending copies are told apart by their exact region.
NoPendingWriteSameRegion(v) == \A c \in in_flight : c.destination # v

\* reject_overlapping_pending_write
NoPendingWrite(v) ==
  \A c \in in_flight :
    c.destination.root = v.root => c.destination.tiles \cap v.tiles = {}

\* The operands' own verifiers compare shapes.
SameShape(v, w) == v.root \in Summaries <=> w.root \in Summaries

SemaphoreFree(s) == \A c \in in_flight : c.semaphore # s

\* How the schedule reuses its buffers; no test of the verifier.  The
\* lowerings of the repository allocate a buffer for every result and write
\* it once ("never").  A schedule written by hand may write a buffer again
\* while no copy reads it and, from the core, while no copy writes it
\* ("when_idle"), or at any moment the verifier accepts ("any").
NeverWritten(v) == \A t \in v.tiles : promised[v.root][t] = Undefined
NotBeingRead(v) == \A c \in in_flight : c.source.root # v.root
NotBeingCopiedTo(v) == \A c \in in_flight : c.destination.root # v.root

CopyMayWrite(v) ==
  /\ Reuse = "never" => NeverWritten(v)
  /\ Reuse = "when_idle" => NotBeingRead(v)
CoreMayWrite(v) == CopyMayWrite(v) /\ (Reuse = "when_idle" => NotBeingCopiedTo(v))

-----------------------------------------------------------------------------
(* Transfers.                                                               *)

Rank(t, S) == Cardinality({u \in S : u < t})
Pairs(source, destination) ==
  {p \in source \X destination : Rank(p[1], source) = Rank(p[2], destination)}

Issue == ~ended /\ ops < MaxOps /\ ops' = ops + 1

\* Everything DmaStart does but its test of the semaphore.
StartTransfer(s, source, destination) ==
  LET transfer == [semaphore |-> s, source |-> source, destination |-> destination]
      pairs    == Pairs(source.tiles, destination.tiles)
  IN
  /\ Issue
  /\ Readable(source) /\ Reduced(source)
  /\ NoPendingWrite(destination) /\ CopyMayWrite(destination)
  /\ in_flight' = in_flight \cup {transfer}
  /\ copies' = copies \cup {[transfer |-> transfer, todo |-> pairs]}
  /\ promised' = [promised EXCEPT ![destination.root] = [t \in Tiles |->
       IF t \in destination.tiles
       THEN promised[source.root][CHOOSE u \in Tiles : <<u, t>> \in pairs]
       ELSE @[t]]]
  /\ UNCHANGED <<initialized, written, partial, statistics, ended, memory, done>>

\* Mutant: a semaphore may serve two transfers at once.
DmaStartAnySemaphore(s, source, destination) == StartTransfer(s, source, destination)

\* DmaStartOp: between an argument in HBM and a buffer in VMEM, either way.
\* An input-only argument is no destination: the wait would refuse it.
DmaStart(s, source, destination) ==
  SemaphoreFree(s) /\ StartTransfer(s, source, destination)

\* A DMA engine moves one tile; the last one signals the semaphore.
Move(c, p) ==
  LET transfer == c.transfer
      rest     == c.todo \ {p}
  IN
  /\ memory' = [memory EXCEPT ![transfer.destination.root][p[2]] =
                  memory[transfer.source.root][p[1]]]
  /\ copies' = (copies \ {c}) \cup (IF rest = {} THEN {} ELSE {[c EXCEPT !.todo = rest]})
  /\ done' = [done EXCEPT ![transfer.semaphore] = IF rest = {} THEN @ + 1 ELSE @]
  /\ UNCHANGED <<initialized, written, partial, statistics, in_flight, ended, ops, promised>>

\* DmaWaitOp: the core waits for the semaphore; what the verifier knew of the
\* source, it now knows of the destination.
DmaWait(c) ==
  LET destination == c.destination.root
      source      == c.source.root
  IN
  /\ ~ended
  /\ done[c.semaphore] > 0
  /\ done' = [done EXCEPT ![c.semaphore] = @ - 1]
  /\ in_flight' = in_flight \ {c}
  /\ initialized' = initialized \cup {destination}
  /\ written' = written \cup ({destination} \cap Outputs)
  /\ partial' = [partial EXCEPT ![destination] = partial[source]]
  /\ statistics' = [statistics EXCEPT ![destination] = statistics[source]]
  /\ UNCHANGED <<ended, ops, memory, copies, promised>>

-----------------------------------------------------------------------------
(* Operations of the core, on buffers in VMEM.                              *)

Contents(m, v)   == {m[v.root][t] : t \in v.tiles}
AllContents(m, S) == UNION {Contents(m, v) : v \in S}

\* The output's tiles after an operation: a sum over what its operands still
\* miss and over the axes it splits itself, less the axes it reduces.
\* measured are the operands it computes statistics of, carried the operands
\* whose statistics it hands on.
Result(m, operands, out, split, reduced, measured, carried) ==
  [m EXCEPT ![out.root] = [t \in Tiles |->
    IF t \notin out.tiles THEN @[t] ELSE
    [id      |-> <<ops + 1, t>>,
     pending |-> ((UNION {x.pending : x \in AllContents(m, operands)}) \cup split) \ reduced,
     of      |-> {x.id : x \in AllContents(m, measured)}
                   \cup UNION {x.of : x \in AllContents(m, carried)}]]]

\* The operation runs on the core at once: no copy is started or waited for.
Compute(operands, out, split, reduced, measured, carried) ==
  /\ Issue
  /\ \A v \in operands : Readable(v)
  /\ CoreMayWrite(out)
  /\ initialized' = initialized \cup {out.root}
  /\ memory' = Result(memory, operands, out, split, reduced, measured, carried)
  /\ promised' = Result(promised, operands, out, split, reduced, measured, carried)
  /\ UNCHANGED <<written, in_flight, ended, copies, done>>

\* MxuMatmulOp: the verifier forgets what it knew of the accumulator, even
\* when the contracted dimension is sharded.
Matmul(lhs, rhs, out, sharding) ==
  /\ Reduced(lhs) /\ Reduced(rhs)
  /\ Compute({lhs, rhs}, out, sharding, {}, {}, {})
  /\ partial' = [partial EXCEPT ![out.root] = {}]
  /\ statistics' = [statistics EXCEPT ![out.root] = NoStatistics]

\* Mutant: the einsum's pending axes are not recorded.
EinsumForgets(lhs, rhs, out, sharding) == Matmul(lhs, rhs, out, sharding)

\* MxuEinsumOp: pending_reduction_axes is the sharding of the contraction.
Einsum(lhs, rhs, out, sharding) ==
  /\ Reduced(lhs) /\ Reduced(rhs)
  /\ Compute({lhs, rhs}, out, sharding, {}, {}, {})
  /\ partial' = [partial EXCEPT ![out.root] = sharding]
  /\ statistics' = [statistics EXCEPT ![out.root] = NoStatistics]

\* Mutant: any fully reduced statistics will do.
StatisticsMatchAny(x, s) ==
  x.root \notin Summaries /\ s.root \in Summaries /\
  statistics[s.root] # NoStatistics /\ statistics[s.root].pending = {}

\* The statistics rms_norm_apply accepts for x.
StatisticsMatch(x, s) ==
  /\ x.root \notin Summaries /\ s.root \in Summaries
  /\ statistics[s.root] # NoStatistics
  /\ statistics[s.root].of = x.root
  /\ statistics[s.root].pending = {}

\* VectorComputeOp with one operand; silu stands for every function that
\* needs a fully reduced operand and leaves none pending.
Unary(f, x, out, declared) ==
  /\ CASE f = "slice"            -> partial[x.root] = declared
       [] f = "rms_norm_partial" -> /\ x.root \notin Summaries /\ out.root \in Summaries
                                    /\ Reduced(x) /\ declared # {}
       [] f = "silu"             -> SameShape(x, out) /\ Reduced(x) /\ declared = {}
  /\ Compute({x}, out, declared, {}, IF f = "rms_norm_partial" THEN {x} ELSE {}, {})
  /\ partial' = [partial EXCEPT ![out.root] = declared]
  /\ statistics' = [statistics EXCEPT ![out.root] =
       IF f = "rms_norm_partial" THEN [of |-> x.root, pending |-> declared] ELSE NoStatistics]

\* VectorComputeOp with two operands.  The third operand of rms_norm_apply,
\* the scale, is one more fully reduced operand and left out.
Binary(f, x, y, out, declared) ==
  /\ CASE f = "add"              -> /\ SameShape(x, out) /\ SameShape(y, out)
                                    /\ partial[x.root] = declared /\ partial[y.root] = declared
       [] f = "embedding_lookup" -> Reduced(x) /\ Reduced(y)
       [] f = "residual_inject"  -> /\ SameShape(x, out)
                                    /\ partial[x.root] = declared /\ Cardinality(declared) = 1
                                    /\ Reduced(y)
       [] f = "rms_norm_apply"   -> /\ SameShape(x, out) /\ Reduced(x) /\ Reduced(y)
                                    /\ declared = {} /\ StatisticsMatch(x, y)
  /\ Compute({x, y}, out, declared, {}, {}, {})
  /\ partial' = [partial EXCEPT ![out.root] = declared]
  /\ statistics' = [statistics EXCEPT ![out.root] = NoStatistics]

\* CollectiveOp and CollectiveReduceScatterOp: only a sum over the axis ends
\* a pending reduction, and only an all-reduce may carry RMSNorm statistics
\* into another buffer.  all_gather stands for every collective without a sum.
Kinds == {"all_reduce", "reduce_scatter", "all_gather"}
Collective(kind, x, out, axis) ==
  LET reduced   == IF kind = "all_gather" THEN {} ELSE {axis}
      remaining == partial[x.root] \ reduced
      carried   == IF x.root = out.root THEN NoStatistics ELSE statistics[x.root]
  IN
  /\ kind = "all_reduce" => SameShape(x, out)
  /\ carried # NoStatistics => kind = "all_reduce"
  /\ Compute({x}, out, {}, reduced, {}, {x})
  /\ partial' = [partial EXCEPT ![out.root] = remaining]
  /\ statistics' = [statistics EXCEPT ![out.root] =
       IF carried = NoStatistics THEN NoStatistics
       ELSE [of |-> carried.of, pending |-> remaining]]

Accept ==
  /\ ended' = TRUE
  /\ UNCHANGED <<initialized, written, partial, statistics, in_flight,
                 ops, memory, copies, done, promised>>

\* Mutant: a kernel may end with transfers in flight.
YieldInFlight == ~ended /\ Outputs \subseteq written /\ Accept

\* YieldOp and the tests after the walk.
Yield == ~ended /\ Outputs \subseteq written /\ in_flight = {} /\ Accept

Transfers ==
  \E s \in Semaphores :
    \/ \E x \in Operand(Args), y \in Operand(Vmem) :
         SameShape(x, y) /\ Cardinality(x.tiles) = Cardinality(y.tiles) /\ DmaStart(s, x, y)
    \/ \E x \in Operand(Vmem), y \in Operand(Outputs) :
         SameShape(x, y) /\ Cardinality(x.tiles) = Cardinality(y.tiles) /\ DmaStart(s, x, y)

Mxu ==
  \E x, y, out \in Operand(Vmem) :
    \/ \E sharding \in MatmulSharding : Matmul(x, y, out, sharding)
    \/ \E sharding \in SUBSET Axes : Einsum(x, y, out, sharding)

Vector ==
  \E x, out \in Operand(Vmem), declared \in SUBSET Axes :
    \/ \E f \in Functions \cap {"slice", "silu", "rms_norm_partial"} : Unary(f, x, out, declared)
    \/ \E f \in Functions \cap {"add", "embedding_lookup", "residual_inject", "rms_norm_apply"},
          y \in Operand(Vmem) : Binary(f, x, y, out, declared)

Collectives ==
  \E kind \in Kinds, x, out \in Operand(Vmem), axis \in Axes : Collective(kind, x, out, axis)

Next ==
  \/ Transfers
  \/ \E c \in in_flight : DmaWait(c)
  \/ \E c \in copies : \E p \in c.todo : Move(c, p)
  \/ Mxu \/ Vector \/ Collectives \/ Yield

Spec == Init /\ [][Next]_vars

-----------------------------------------------------------------------------
(* Properties.  Each speaks of the operands the verifier would let the next *)
(* operation read, whatever the copies in flight have moved so far.         *)

Operands == {v \in Operand(Buffers) : Readable(v)}
Holds(v) == Contents(memory, v)

\* No operation reads a tile that nothing has written yet.
ReadableIsDefined == \A v \in Operands : Undefined \notin Holds(v)

\* What an operation reads does not depend on when the copies run: it is the
\* value the program order promises.
ReadableIsPromised ==
  \A v \in Operands : \A t \in v.tiles : memory[v.root][t] = promised[v.root][t]

\* No partial sum passes for a complete one: the axes the verifier holds
\* pending are those the memory still misses.
PartialIsTracked == \A v \in Operands : \A x \in Holds(v) : x.pending = partial[v.root]

\* The statistics an rms_norm_apply is allowed to use were computed from the
\* very value it normalizes.
StatisticsAreCurrent ==
  \A x, s \in {v \in Operands : Reduced(v)} :
    StatisticsMatch(x, s) => UNION {y.of : y \in Holds(s)} \subseteq {y.id : y \in Holds(x)}

\* An accepted kernel has finished its copies when it ends and has put
\* complete values, the promised ones, into every output.
EndedIsComplete ==
  ended =>
    /\ copies = {}
    /\ \A b \in Outputs : \A t \in Tiles :
         memory[b][t] = promised[b][t] /\ memory[b][t] # Undefined /\ memory[b][t].pending = {}

=============================================================================
