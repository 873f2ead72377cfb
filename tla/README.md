# TLA+ models of tpu-cake

tpu-cake describes TPU kernels and distributed programs in IR dialects, verifies
and lowers them to Pallas and JAX, and runs measured experiments whose evidence
is kept in ledgers, receipts and archives. This directory holds TLA+ modules of
the parts of it whose correctness depends on order, concurrency or crashes, the
TLC configurations that check them, and TLAPS proofs. Paths are relative to
the directory that holds `src/`: the Python package is `src/src/tpu_cake`.

`PROJECT.json` is the machine-readable side: components with their source files,
runs, the lines of code that every definition stands for (`map`), one mutant of
the code per checked property, the hazards, the findings and the theorems.

Run a configuration with `tlc -config X.cfg M`, a proof with `tlapm M.tla`.

## 1. Inventory

### Modelled

| Component | Code | State | Operations | What is hard | What makes it correct |
|---|---|---|---|---|---|
| Experiment ledger | `ledger.py` | one SQLite table of events with `UNIQUE(run_id, state)` | `create`, `transition`, `EvidenceRun.record`, all through `_append` | three statements and no transaction round them; death between INSERT and commit; retries | each state completed once; each event legal; what a caller was handed is committed |
| Ring reduce-scatter kernel | `pallas_lowering.py` (`pallas_bidirectional_ring_reduce_scatter`), plan counts in `dialects/tpu_schedule.py` | per device: barrier, capacity, send and receive semaphores, two-slot scratch, accumulator, output | grid steps with remote copies in two directions | devices drift apart; slots are reused; barriers are shared by successive calls | no data race, drained semaphores, termination, the right sum |
| Kernel schedule verifier | `KernelOp.verify_` in `dialects/tpu_schedule.py` | per root buffer: initialized, partial reductions, RMS statistics; transfers in flight | DMA start and wait, matmul, einsum, vector functions, collectives, yield | copies run while the core goes on, and the verifier reasons from program order | what it believes is true of the memory under every timing |
| Buffer views | `ViewOp.verify_`, `root_region`, `_regions_overlap`, alias groups | a region per view | declare a view | strides compose; overlap is decided by arithmetic | region and overlap agree with the elements; every live alias is declared |
| R2 artifact archive | `src/scripts/r2_archive.py` | directory, inventory, receipts, bucket, manifest, reference, pointer | `upload` (thread pool), `cleanup` | files change meanwhile; kills; lost objects; resumption | nothing of the inventory is deleted that the bucket does not hold |
| Confirmation lifecycle | `matmul_collective_confirmation_runner.py` | output roots, the ledger in each, the claim of the run_id, the lock | `confirm`, `finalize` | a kill or an exception at every step, repetition on the same or another root | the devices are timed once; receipts are genuine; a timed run is published |
| Resumable searches | `search.py`, `rpa_search.py` | `contract.json`, a directory per run (ledger, result, device timing), `incomplete/` with the attempts set aside, the report | start, load and validate a run, set it aside or refuse, run, time the device, collect, report | kills that leave half a file; runs that raise; restarts, also from another commit | no attempt is lost; settled runs stay; a report can be replayed; a search started again ends |
| Surface attempts | `matmul_collective_surface_executor.py`, `..._correctness_executor.py`, `..._calibration_executor.py` and their workers | a permanent claim per phase, root directories, ledgers, phase ledgers, manifests, worker processes | lock, claim, make the root, verify and copy the parent, launch workers, record, manifest, replay | kills that leave workers alone; parents damaged where they are kept; rival callers | the devices are used for one attempt of a key, behind a verified parent; a manifest means what it says; a claim leaves a record |
| Pipeline loop | `PipelineLoopOp.verify_`, `analyze_pipeline_stage_resources` | the loop's body; per iteration: its position, its copies, the banks it wrote | DMA start and wait, operations of the core, accept; then one stage after another | iterations overlap, and copies take any time within theirs | no iteration overwrites what an earlier one still reads; engines and semaphore slots suffice |
| Remote DMA | `RemoteDmaStartOp`, `RemoteDmaWaitOp` in `KernelOp.verify_` | the program; per device: its position, buffers written, arrivals, signals | remote start and wait, an operation of the core, accept; then each device at its pace | a plan may leave devices out; one program, many positions in it | what counts as initialized is so on every device |

How they interact: the distributed program is lowered to a kernel schedule over
views; the schedule's verifier admits it and the Pallas lowering turns a
reduce-scatter into the ring kernel. A runner (the confirmation, a search, a
surface executor) compiles and measures the result, keeps its progress in a
ledger, and seals a receipt or a manifest over the files of its output root; the
surface executors hand a root of one phase to the next as its parent. The R2
script moves finished directories into a bucket. `Confirmation`,
`ResumableSearch` and `SurfaceAttempts` keep the ledger's current state as part
of their files; its statements are the subject of `Ledger`, in which the variable
`serialized` says whether calls are made one at a time. In the repository that
is up to the callers: the confirmation, the surface executors and the RPA surface runner
hold a lock round a run; `runner.py:281` and `rpa_runner.py:143` hold none and make the
run's directory exclusively before they open its ledger; `search.py` and
`rpa_search.py` do neither, and write ledgers only through these two.

### Not modelled

| Component | Why not, or when |
|---|---|
| Searches over receipts and seqax kernels | one replays finished receipts, the other makes its rounds in one process and is not resumed |
| Inkling RPA surface runner | planned: staging directory and exclusive rename |
| RPA lowering and kernel | the DMA protocol of the decode kernel is a candidate |
| Other confirmation and profile runners, SiLU fusion lifecycle | of the kind that `Confirmation` models, with small differences |
| Distributed tensor dialect, interpreter, lowering | sequential functions over arrays |
| Cost models and simulation | formulas over real numbers, no state |
| Seqax lowering and numerics, Inkling workloads and tile searches | floating point and recorded data |
| Evidence bundles, receipts, surface archives and verifiers, XProf, compiler analysis | hashing, parsing and comparison of files |
| Contracts, identity, command line, collectors, tests | data models, argument parsing, downloads |

## 2. Modules

| Module | What it is |
|---|---|
| `RunStates` | `RunState`, `_NEXT_STATES` and the test that `transition` applies |
| `RunHistory` | abstract: the history of a run is a path through the allowed moves |
| `Ledger` | the ledger, one SQL statement per step; refines `RunHistory` when calls are serialized |
| `LedgerProofs` | proofs about `Ledger`, with rival and with serialized calls |
| `ReduceScatter` | abstract: calls that all enter before any returns, and their sums |
| `RingReduceScatter`, `RingProofs` | the Pallas kernel, one signal, wait, copy or computation per step; refines `ReduceScatter`; and proofs |
| `KernelSchedule`, `KernelProofs` | verifier and hardware in lockstep, one operation per step, and proofs |
| `BufferViews` | views, their regions and alias groups |
| `PipelineLoop` | a software-pipelined loop: its body under the verifier's tests, then its iterations |
| `RemoteDma` | a program with copies between devices, under the tests, then on the devices |
| `R2Archive`, `R2ArchiveProofs` | `upload` and `cleanup` in a world that changes files and loses objects, and proofs |
| `Confirmation`, `ConfirmationProofs` | the one-shot timing attempt, and proofs |
| `ResumableSearch`, `SearchProofs` | the two searches that continue on what an earlier process left, and proofs |
| `SurfaceAttempts`, `SurfaceProofs` | the executors of the three surface phases and their workers, and proofs |
| `MCParts`, `PartsProofs` | `BufferViews`, `KernelSchedule`, `PipelineLoop` and `RemoteDma` side by side, and proofs of the first and the last two and of all four together |
| `MCLedger`, `MCKernelSchedule`, `MCR2Archive`, `MCResumableSearch`, `MCSurfaceAttempts` | values of the constants for TLC |

A definition whose comment starts with "Mutant:" is a plausible bug in the
definition after it. No specification uses one. Each is there so that
its property can be seen to fail on it (`mutants` in `PROJECT.json`).

### Ledger

`log[r]` is the committed table restricted to run `r`, `pc[w]` the next statement
of process `w`. Python's `sqlite3` opens a transaction only before an INSERT, so
`ReadHistory`, `ReadCurrent`, `CheckExisting` and `CheckCurrent` each read the
last committed table and anything may be committed between them. `Insert` takes
SQLite's write lock and applies the UNIQUE constraint, `InsertBusy` is the
expiry of its timeout, `Commit` makes the row visible, `Crash` may strike at
any statement and leaves the row or not. A payload is a model value: equal hash,
equal evidence. Sealing a ledger into one file and the readers that reject
write-ahead sidecars are not here; `Confirmation` has the part of sealing that
its receipts rest on.

### Ring reduce-scatter

`at[d]` is the statement device `d` executes next, in call, outer step and phase.
Remote copies are elements of `copies`: `ReadSource` reads the sender's slot and
signals the sender, `Land` writes the receiver's and signals the receiver, in any
order relative to everything else. A block is the sequence of contributions
summed into it, so that a block added twice or from another call is visible.
Coordinates of the mesh other than the ring axis select one ring and are left
out, as are block shapes.
The semantics of TPU semaphores (a wait subtracts, a signal adds) and of DMA
completion are those of the Pallas primitives as the code uses them.

### Kernel schedule

One action per operation. Its guard is the verifier's test, its step updates both
what the verifier records (`initialized`, `written`, `partial`, `statistics`,
`in_flight`) and what the hardware does (`memory`, `copies`, `done`). `promised`
is the memory as it would be if every copy completed at its start: the value a
reader of the schedule expects. A value is the operation that produced it, the
mesh axes over which it is a partial sum, and the values its statistics were
computed from; so wrong bookkeeping shows as a difference between two variables.

The constant `Reuse` says which schedules are looked at: `"never"` (each buffer
is written once, as all lowerings of this repository do), `"when_idle"` (a
buffer is written again only while no copy reads it, and by the core only while
no copy writes it) and `"any"` (whatever the verifier accepts).
No run uses `"any"`, because the verifier has no test against it:

  * *A core write races a copy.* `DmaStart given -> v1`, wait; `DmaStart v1 ->
    result` (or a second `given -> v2`), and while it is in flight a matmul
    of `v1` writes into the buffer that the copy reads or writes.
    `reject_overlapping_pending_write` is called for DMA starts only
    (`tpu_schedule.py:3663` and the operations round it call
    `require_initialized` for what they read and nothing for what they
    write). Whether the copy moves its tile before or after the matmul decides
    what the buffer holds after the wait: `ReadableIsPromised` fails after 8
    states.
  * *Statistics outlive their buffer.* `rms_norm_partial` of `x`, a matmul that
    overwrites `x`, an all-reduce of the statistics: `rms_norm_apply` accepts
    them for the new `x`, since `rms_statistics` names buffers, not values.
    `StatisticsAreCurrent` fails after 7 states.

No document of the repository promises that a hand-written schedule of this kind
is refused, so this is a limit of the verifier and not listed as a finding.

### Buffer views

The region of a view in root coordinates is composed as `root_region` does, one
link at a time; beside it the model keeps the elements a view really names,
taken from its base's elements. Dimensions are independent in the code, so one
is enough: a product of progressions meets another iff each factor does.
The division of the Chinese-remainder step is an integer ceiling in the model. The
code divides in floating point before `math.ceil`, which is exact at these sizes; for
offsets too large for a float's mantissa nothing is claimed, and the theorem about
any extent is about exact division.

### R2 archive

Content is a version number per file; an object, receipt or packed tar is a
function from files to versions; size, ETag and SHA-256 of an object are its
content. Threads of the pool interleave file by file. `Write` is any other
program, at any moment; `Crash` kills a command; `Lose` removes an object.
`OneCommand` keeps the operator from running both commands at once, as
the script's own sequence of use requires (nothing in it excludes that).
`restore` and the read-only `verify` change no archive state and are left out.

Two behaviours are described by hazards and not by a property. A kill after
`cleanup` has recorded itself and before it writes `R2_ARCHIVE.md`
leaves the directory without a pointer for good, since the next cleanup raises
ALREADY_CLEANED. And a file that appears after cleanup's scan is deleted with
the directory it is in, although no archive holds it. `OriginalIsArchived`
is therefore about versions the inventory lists.

### Confirmation

One `run_id`; `at[p]` is the output root of call `p`, `pc[p]` its next step. The
files of a root are named by role. The ledger is its current state and whether
its file is in the journal mode that sealing leaves (`sealed`): that bit decides
whether the hash in a receipt still fits. `Fail` is an exception raised by a step
before it did anything. An exception between a ledger commit and the seal that
follows it is not modelled; a kill there is, and `Interrupted` lists what a kill
leaves: a temporary file, half a claim, a ledger opened, or recorded, without a
seal, with or without its sidecars. `Remove` is the operator moving a root away.
The claim is in a registry that the operator does not touch. The read-only
`verify` command is left out.

### Pipeline loop

`body` is written operation by operation under the tests of `verify_`; after
`Accept` iteration `i` is at logical stage `now - i * interval`, as in
`analyze_pipeline_stage_resources`, and uses bank `i mod rotation` of each captured
buffer. Lifetimes, rotations, engines and semaphore slots are the least
that the verifier accepts, so that the two properties are about its formulas.
The repository verifies and prices such loops and does not lower them: how a loop
runs is an assumption, the one that the resource analysis makes.

The verifier starts with every block argument initialized
(`tpu_schedule.py:3042`), so a body may read a captured buffer between the start
and the wait of a copy into it. `IterationsKeepApart` leaves that read out: it
is about what an iteration reads after it wrote it.

### Remote DMA

`program` is written under the tests of `verify_`; then `at[d]`, `written[d]` and
`signals[d]` belong to device `d`, and `arrived` holds the copies that landed. A
copy lands at any time after its sender's start. The wait of a device is for its
own copy to have left and, if the plan sends it one, for one signal.
There is no lowering of these operations either; `OneUse` says that a
semaphore serves one remote copy of the program. Without it the verifier's
conclusion does not hold: it lets a semaphore be used again after the wait,
and devices do not wait for each other. Say that the first copy goes round,
from `d2` to `d1`, `d3` to `d2` and `d1` to `d3`, and the second, on the same
semaphore, from `d3` to `d1`. All have started the first; `d1`'s copy and `d3`'s
have arrived and `d2`'s has not. `d3` has done its wait and starts the second copy,
which arrives at `d1`, where it gives the signal that `d1` still awaits for
the first: `d1` goes on, and `InitializedEverywhere` fails after 14 states. A
program of this kind is not among the repository's, and no document promises that
it is refused, so it is not listed as a finding.

### Resumable searches

`policy` selects the search: `"refuse"` is `search.py`, which does not go on when it
meets the directory of a run that was cut short (INCOMPLETE_SEARCH_RUN, at every
start until somebody removes the directory); `"archive"` is `rpa_search.py`, which
moves it under `incomplete/`, notes the failure and makes the run again. `dirs[s]`
is the directory of run `s`, `kept[s]` the attempts set aside, `report` the
search's result, and `started[s]`, a history variable, counts the attempts. `at`
walks the runs in the order of the code, which reverses or rotates the
candidates from round to round; after the last, `Collect` compares the
identities and either goes on to the confirmation runs of the provisional
winner (RPA only) or writes the report. A file written with `write_text` may be
left `"torn"`: the loader raises at it at every later start.
Timings are `"slow"` or `"fast"` against the baseline, `"short"` for a trace
with fewer events than asked for.

One process searches at a time: this is an assumption, not something the code
enforces, as neither search takes a lock. A second process in the directory of an RPA
search would take its rival's run in progress for an incomplete one and move the
directory aside (line 603), and the handler at 620-627 would do the same with
whatever stands in `run_root` when its own run raises, also when that is a rival's
run whose directory it failed to make. Neither is in the model.

### Surface attempts

`pc[p]` and `call[p]` are the step and the arguments of a caller, `claims`
the registry, `roots` the files of each directory by role, `protocol` the parent
that a committed contract names. compile and correctness lock the attempt, claim
and then make the root; calibration locks the key, makes its root, verifies and
copies its parent and claims last. `workers` are processes of their own: `Kill`
removes the executor and leaves them, and they still write their results. `Fault` is
an exception of a step, `HandlerFault` one after which the handler cannot write
`failure.json` either, `Damage` a change to a finished root where it is kept.
`launches` and `unrecorded` are history variables; `unrecorded` has a phase if the call
that held its claim, and no other call of the phase, went without a record.
`Verifies` is the independent verifier, reduced to what tells a finished root from
others. At the end of an attempt correctness and calibration run it on their own root,
while compile compares its files with the manifest (`_validate_manifest`); at
that step the two differ in nothing that the model keeps.

## 3. Runs

Safety runs use `Spec`; runs with a liveness property or with a refinement that
shares their state space use `FairSpec`, and the search's `Spec` is fair.
Components whose states do not meet share a run: in `parts` the first state chooses
one of four, and the others stand still.

| Run | Question | Bounds |
|---|---|---|
| `ledger` | what holds of the ledger with no lock, and does it keep `RunHistory` when calls are serialized | 2 processes, 1 run, rival creations, rival measurements, both outcomes, conflicting evidence, rival and serialized calls |
| `ledger_race` | does `LegalHistory` hold with no lock (no) | as `ledger` |
| `ring_three` | is the ring kernel a race-free, terminating reduce-scatter | 3 devices, 2 successive calls |
| `kernel_once` | is the verifier's knowledge true of the memory | write-once schedules of 6 operations, 5 VMEM buffers (2 for statistics), 2 semaphores, 1 axis |
| `kernel_tile_read` | is a readable buffer wholly written (no) | 2 tiles, 3 operations |
| `kernel_sharded_matmul` | does the verifier know of every partial sum (no) | 1 axis, 3 operations |
| `parts` | views: are overlaps and aliases exact | 9 elements, strides to 5, pairs of views, 2 alias groups, 2 stages |
| | tiles: may copies into tiles of one buffer overlap in time | 2 tiles, 4 operations, `Reuse = "when_idle"` |
| | loop: are rotation, engines and slots enough | 3 iterations, 3 stages, intervals to 3, 4 operations |
| | remote: is an initialized buffer so on every device | 3 devices, 4 operations, `OneUse` |
| `archive_safe` | can cleanup lose data, do the commands finish | 3 files in 2 parts, 2 threads, 2 versions, 1 crash or failed transfer, 1 lost object |
| `confirmation` | timed once, genuine receipts, published | 2 callers, 2 roots, 3 faults |
| `confirmation_receipt` | does a receipt keep its ledger's hash (no) | 1 caller, 1 root, 1 fault |
| `search` | is nothing lost or mixed, does a search end | a baseline and 2 candidates, 1 round, 1 confirmation, 1 kill, 1 run that raises, 2 commits |
| `surface` | one attempt per key, verified parents, honest manifests | 2 callers, 2 attempts, 4 roots, 2 kills, 1 exception, 1 damaged root |

Why the bounds are enough.
*Ledger*: rows of different runs never meet in a query; a race is between two
callers; a third adds no new order of two statements. The theorems of section 5
lift the bound.
*Ring*: three devices are the smallest ring whose left and right neighbours
differ and in which a neighbour's neighbour is another device; the second call
is what the shared barrier can confuse with the first. `N = 2` and `N = 4` give
the same results with the same configuration.
*Kernel schedule*: the longest chain of bookkeeping (copy in, partial
statistics, all-reduce, apply, copy out) has five operations and leaves one more;
buffers of a shape and semaphores are interchangeable (`SYMMETRY`, in runs that
check invariants only). Two tiles show every relation of two regions that the
verifier distinguishes.
*Views*: 9 elements hold pairs of coprime and of non-coprime strides up to five,
and the products that nesting makes of them, which meet nowhere, once, several
times, or only beyond the end of one of the two.
*Archive*: a part of two files is what a change between two reads needs; two
parts are what a resumed and a fresh part need; one crash at every step, of
either command, since after it the commands restart from the disk alone.
*Confirmation*: three faults are a first attempt that stops, a second that stops
elsewhere or on the other root, and one more during recovery.
*Pipeline loop*: a third iteration is the first that can meet a bank again when two
are in flight; three stages and intervals up to three give overlaps of three, two
and one iterations; a copy in, its use and a copy out need four operations.
*Remote DMA*: with three devices a plan can leave one out, run in a circle, or
send one device two copies of one program from different senders. Four
operations are two copies with their waits, or one with operations round it.
*Search*: a kill and a failure are what one run needs to be cut short twice; with
two candidates the confirmation has one that won and one that did not, and the
second commit is what identities are compared for. More rounds repeat the walk.
*Surface*: four roots are the three of a whole chain and one for a rival; one kill
ends an executor whose worker goes on, the second ends what comes next.

### What the properties say

*Ledger.* `OneEventPerState`, `DerivedHistory` (each event legal after **some**
earlier one) and `ReturnedIsCommitted` survive every interleaving and crash.
`LegalHistory` (legal after the **previous** one) does not, and holds when calls
are serialized, where `ImplementsRunHistory` is the refinement of `RunHistory`.

*Ring.* `NoDataRace` is about pairs of accesses to a scratch half.
`CopiesLandInsideTheCall`, `DrainedOnReturn` are what lets a program call the
kernel again. `ExactCopyCount` is the plan's 2g+1. `ImplementsReduceScatter`
relates results to `ReduceScatter`, `AllCallsReturn` is freedom from deadlock
and more. For `N` up to 4 the capacity credits are not what `NoDataRace` rests on:
it also holds if devices send without one, as the receive waits already keep
neighbours close enough. The mutant that drops a wait shows the property to bite.

*Kernel schedule.* `ReadableIsDefined`: what may be read has been written.
`ReadableIsPromised`: it holds what the schedule says, whatever the timing.
`PartialIsTracked`: the axes on record are the axes that the value misses.
`StatisticsAreCurrent`: statistics accepted for a buffer were computed from
what it holds, over schedules that write a buffer once (with more it fails: section
2). `EndedIsComplete`: after the yield nothing is in flight and every output is
written and fully reduced.

*Parts.* `OverlapIsExact`, `AliasesAreDeclared`: the arithmetic of views agrees with
the lists of their elements (so it does, link by link, in `RegionIsExact`, which the
other two rest on and which `PartsProofs` proves). `TilesArePromised`: copies into and
out of tiles give one result in whatever order they finish.
`IterationsKeepApart`: a rotation of ceil(live stages / interval) banks keeps
overlapping iterations out of each other's data. `EnginesSuffice`: copies
in flight find an engine and a semaphore slot in what was counted.
`InitializedEverywhere`: what the verifier concludes from the program is true on
devices that are at different places in it, over programs that use a buffer once
(with more it fails: section 2).

*Archive.* `ReferenceIsBacked`: the reference lists the inventory's own versions.
`OriginalIsArchived`: a deletion finds its version in the bucket.
`CleanedIsComplete`: a cleanup on record left nothing of the inventory.
`EventuallyCleaned`: commands that are run again finish, unless the bucket lost a
part or the directory changed.

*Confirmation.* `TimedAtMostOnce`, `ReceiptIsGenuine`, `NothingIsReused` and
`TimedIsPublished` (a TIMED root gets its receipt, unless a kill left a file
that its closed world does not allow, or it is removed).

*Search.* `AttemptsAreKept`: every attempt that was begun is in place or set aside, in
order. `SettledRunsStay`: no later process touches a complete run.
`ReportIsReplayable`: a report, once written, follows from the directory for
ever. `PublishedIsUniform`: its runs are of one commit, however often the search
was restarted. `ConfirmationFollowsSelection`: no confirmation before the search
is complete, and none of another candidate after a restart. `SearchResumes`: an
RPA search started again after each interruption ends with its report, unless
the source changes under it or a torn file or a short trace bars it for good.

*Surface.* `OneAttemptPerKey`: whoever calls and whatever is killed, the workers of a
phase belong to the attempt and root of its claim, each repetition once.
`DevicesFollowParent`: a phase reaches the devices with a copy of its parent that
was whole when it was taken. `ManifestIsGenuine`: a manifest with no failure
beside it has its claim, a finished and sealed ledger, all results and a
phase ledger that goes back to the compile attempt. `ClaimIsSettled`: a claim, which
cannot be taken back, leaves a manifest or a failure, unless the very call that held
it was killed, or could write neither its root nor its failure.

The `TypeOK` of `Ledger`, `RingReduceScatter`, `BufferViews` and `Confirmation` is
proved; of the other modules, the types that the proofs need are part of their inductive
invariants, and `TypeOK` can be added to the configuration. Only `confirmation`
spends a check on it.

### Fairness

*Ring*: weak fairness of each device's step (a core executes its kernel) and of
the DMA engines together. *Archive*: weak fairness of the steps of a running
command and of each thread of the pool; strong fairness of starting a command,
since the operator runs an interrupted command again and starting is enabled
again and again only while no other command runs. *Confirmation*: weak fairness
of a running call's steps and strong fairness of `confirm` on each root, the
operator who repeats the command; nothing is assumed of faults, of `finalize`
or of removal. *Search*: weak fairness of the running process's steps and of
starting the search until it is done (the operator starts it again; `done` may be
started again and need not be). Nothing is assumed of kills, failures or timings.
All other modules have safety properties only.

## 4. Findings

Each is a violation run whose counterexample is a behaviour of the code.

  1. `ledger_race`: the second SELECT of `_append` is not in the transaction of
     the INSERT, though its helper is called `_current_state_in_transaction`. Two
     processes that both read CREATED may commit REJECTED and then VERIFIED: the run
     goes on after its terminal event. Two that read TIMED may commit both ACCEPTED
     and REJECTED. Whether rivals can meet is up to the callers (section 1).
  2. `kernel_tile_read`: waiting for a copy into one tile marks the whole root
     initialized (`tpu_schedule.py:3619`).
  3. `kernel_sharded_matmul`: a matmul over a sharded contraction leaves a partial
     sum that the verifier holds for complete (`tpu_schedule.py:3655`), unlike
     the einsum; `lower_distributed_matmul` builds such a matmul.
  4. `confirmation_receipt`: `_record_failure` opens the ledger, which writes the
     WAL mode into its file, and returns without sealing a TIMED or ACCEPTED
     run. If the exception came after `receipt.json` was in place, the
     receipt never fits again.

## 5. Proofs

Every statement is for all values of the constants that satisfy the named
assumptions of the module.

**`LedgerProofs`** (assumptions `CallsAssumption`, `NoStateAssumption`,
`NoCallAssumption`). The inductive invariant is `TypeOK` with `OneEventPerState`,
`DerivedHistory` and what a writer knows in the middle of a call: it has one
(`InCall`); `previous` is unset before `transition` has read it
(`PreviousUnset`); it allows the move that is under way (`PreviousAllows`), and
some committed row has it (`PreviousCommitted`); and a row about to be
committed is of a state that the table does not hold (`CommitIsNew`). The last
is not obvious: it holds because from the INSERT to the commit no other writer
passes `WriteLockFree`. `DerivedHistory` is not inductive without the middle
three: the step that appends a row no longer looks at the table. Results:
`TypeCorrect`, `NoStateCompletedTwice`, `HistoryIsDerived`, and from the same
invariant `ReturnedEventsAreCommitted`: an event that a caller was handed is
in the table, whoever was killed since.

In the behaviours in which `serialized` is true, `OneCall` and `PreviousIsCurrent`,
that the state read is still the last one, are added, and give
`SerialLedgerImplementsRunHistory`: `Init` maps to `Init`, `Commit` and a `Crash` that
reached the disk to `Complete`, all else to stuttering. `SerialHistoryIsLegal` is
what a reader has of it: when calls are serialized, each event is legal after the one
before it.

**`RingProofs`** (`NAssumption`: at least two devices; `CallsAssumption`: any number
of calls). What a device has done follows from its position: how many copies it
has started and awaited on each side, how many credits it has granted and
taken, how often it has signalled each barrier. `IInv` has the types; that every
copy in flight is the last its device started on that side, in its call and slot
(`Tagged`); that what a device has started and its neighbour has not waited for is
on its way or on the receive semaphore, and at most one copy (`Flow`); the same
of what it has not waited for itself, its send semaphore and the source still to
be read (`Own`); that capacity is the neighbour's grants less the credits taken
(`Credit`); and that the barriers hold what the neighbours signalled less what was
awaited (`Barriers`).
Counts run over all calls, so that a neighbour in the next call is no special
case. None of the four properties is inductive: that a semaphore is zero on
return is a statement about the neighbours' positions. From the counts, arithmetic
gives that a device is at most one copy ahead of its receiver on a side; successive
copies use alternate slots, so `NoDataRace` follows, as do `ExactCopyCount`,
`CopiesLandInsideTheCall`, `DrainedOnReturn` and `SemaphoresStayBounded`: no barrier or
capacity semaphore counts above two, no DMA semaphore above one.

On the counts rests a second invariant, of data (`DInv`). The j-th copy a device starts
on a side carries the sum of j contributions, those of the devices the half has passed
(`Carries`); a half that has come in lies in its slot until the device has stored its
own sum there (`Arrived`), that sum until the copy out of it starts (`Stored`); the
accumulator and the output hold what the position calls for (`Added`, `Written`);
and news of a device's entry travels with the copies (`Heard`): a device that has
waited for i copies knows that i devices behind it have entered the call, which is
why none returns before all have entered. `RingImplementsReduceScatter` maps the step that leaves the
first statement to `Enter`, the last `Drain` to `Return`, all else to
stuttering; that N contributions without a repetition are all of them is a bijection
between the positions of the sum and the devices. `TypeCorrect` adds the types of the
blocks.

**`KernelProofs`** (`BuffersAssumption`, `TilesAssumption`, `MaxOpsAssumption`;
any views, semaphores and mesh axes). `MemoryInv` compares the memory with the
promise: a semaphore serves one transfer and is signalled only when its copy is
done (`SemaphoresApart`); nothing writes what a copy in flight reads or writes
(`RootsApart`); memory and promise differ only where a copy has still to move a
tile (`Agrees`), and that tile lies ready at its source (`Carries`).
`RootsApart` is where the verifier needs help: it tests only what it starts a
copy into, so the theorems assume of the schedule what it does not test,
`Disciplined`: a buffer is written again only while no copy uses it (`Reuse =
"when_idle"`, any views), or never, when operands name whole buffers. Three more
groups tie the verifier's records to the promise (`DefinedInv`, `PartialInv`,
`StatisticsInv`), with the hypotheses each needs: whole buffers (`Whole`), no
matmul over a sharded dimension (`Unsharded`), no buffer written twice. Without
the first two the runs `kernel_tile_read` and `kernel_sharded_matmul` violate
the property, and without the third the second trace of section 2 does. Every
operation of the core is an instance of one `CoreStep`, so each group has one
lemma per kind of step: start, move, wait, core. Results: `ReadsAreOrdered`,
`ReadsAreDefined`, `PartialSumsAreTracked`, `StatisticsStayCurrent`,
`EndsComplete`.

**`PartsProofs`** (`ExtentAssumption`, `BoundsAssumption`, `LifetimesAssumption` of
the views; `LoopAssumption`: at least one iteration; `KernelAssumption`, what
`KernelSchedule` asks of its constants). It extends `MCParts`, so that what the run
`parts` checks on small instances is what is proved.

*Views.* The overlap test divides by a greatest common divisor and solves a congruence
with a modular inverse, both defined by `CHOOSE`. That they exist, for any two
strides, comes from the least positive combination of the two (Bezout): it divides
both. Then the test finds the first common element of two progressions, and `OverlapIs`
says that it accepts exactly if there is one; `NormalizedIs`, that a view of a
view, folded into one region, keeps every element in its place. `ViewInv` (each
view's region names its elements, within the root, and live views that meet share a
group) gives `RegionsAreExact`, `OverlapsAreExact`, `GroupsAreComplete` and `ViewsAreTyped`,
for any extent, strides and number of views.

*Pipeline loop.* `LoopInv` has what the tests leave of a body (`BodyInv`: stages do not
decrease, each wait has its start before it and is its only one); that each iteration is
abreast of the clock (`ClockInv`: what it has done belongs to stages up to its own,
what it has not, to stages from there on); that copies land between start and wait
(`LandedInv`); and that what an iteration put into its bank stays to the end of the
capture's lifetime (`BanksKept`). `IterationsKeepApart` alone is not inductive: it
says nothing of a copy that landed and is not waited for, or of a clock that runs ahead.
That banks suffice is arithmetic: two iterations that share a bank are a rotation apart,
so that their stages differ by rotation times interval, which is not less than
the lifetime. `EnginesSuffice` follows since a copy under way at the clock's time is one
that the resource analysis counts at that time. Results: `BanksSuffice`,
`EnginesAreEnough`. TLC checked `LoopInv` on the loop of the configuration `Parts.cfg`.

*Remote DMA* (with `OneUse`, as instantiated). The program is well formed (`ProgramInv`:
what each operation reads was initialized before it, semaphores are apart);
nothing happens before it is accepted (`Idle`); a copy that arrived has written
its destination (`ArrivedIsWritten`); and a semaphore is signalled only where a
copy that uses it has arrived (`SignalsHaveArrivals`). With `OneUse` that copy
is the one awaited. Result: `InitializationIsGlobal`, for any devices, buffers
and programs of any length.

*Together.* `TilesAreOrdered` is `KernelProofs` on two tiles. `PartsKeepTheirPromises` states
all six properties of the run for `PartsSpec`, the specification it checks.

**`R2ArchiveProofs`** (`NothingAssumption`, `BoundsAssumption`). What a thread
has packed are the inventory's versions, or the file no longer has its version
(`ThreadInv`), so a tar that passes the second look is right; receipts and the
reference then hold the inventory's versions (`ReceiptInv`, `ReferenceInv`);
cleanup has listed every file that is not gone (`CleanInv`). Results:
`ReferencesAreBacked`, `RecordedIsClean` and, if commands do not overlap
(`CommandInv`: during the deletion the bucket is what cleanup has verified),
`DeletedIsArchived`. The bucket loses nothing while a cleanup runs, in this
model: no re-verification could see it.

**`SurfaceProofs`** (`AbsentAssumption`: the values that stand for an absent
thing are not things). `CallInv` and `RootInv` say what a call has established
at each step, `LocksApart` and `RootsApart` that rival calls of a key, or of a
root, are kept apart, `LaunchInv` and `ClaimInv` what stays true of a claimed
root when the executor is gone and only its worker is left. `ManifestIsGenuine`
needs more (`FInv`): how far each call has come with the files of its root
(`Progress`, step by step: results, events, seal, phase ledger), that a
file tree with a manifest is `Done` (`FilesInv`), and that the parent a calibration has
named is a correctness root with its manifest (`ParentsInv`), so that the phase ledger
goes back to the compile attempt. Results: `AttemptsAreSingle`, `ParentsAreVerified`,
`ManifestsAreGenuine`, `ClaimsAreSettled`, for any number of callers, roots, kills,
exceptions and damages.

**`SearchProofs`** (`NamesAssumption`: a baseline and at least one candidate;
`RoundsAssumption`, `BoundsAssumption`, `AbsentAssumption`). `IInv` has the
types; where a walk may stand (`PlaceInv`); that every run it has passed is finished
(`WalkedInv`); what files the run it is at has at each step (`RunInv`); that
confirmations were begun only when the search was complete, for the baseline and the
provisional winner (`ConfirmInv`); that a report agrees with the directory
(`ReportInv`); and that every attempt counted is in place or set aside, in order
(`AttemptsAt`). The argument is that a finished run never changes: so the
winner, the runs a report needs and the identities compared are the same at every later
start, from whatever commit. `ReportIsReplayable` and `ConfirmationFollowsSelection`
alone are not inductive, since a walk at its end must know that all runs behind
it are finished. TLC checked `IInv` on the configuration `Search.cfg`. Results:
`KeepsAttempts`, `ReportReplays`, `PublishesOneCommit`, `ConfirmsTheWinner` and
`KeepsSettledRuns`, an action property, for any number of candidates, rounds,
kills and failures.

**`ConfirmationProofs`** (assumptions `FaultsAssumption`, `RootAssumption`). The
inductive invariant joins `TypeOK`, `TimedAtMostOnce`, `ReceiptIsGenuine` and
`NothingIsReused` with three groups of facts: `RootsAreConsistent` (which files and
which ledger state may stand beside each other), `ClaimCovers` (a session, or a
marker of a session, is covered by the claim that names its root, wherever a
process was killed) and `CallsKnow` (what the call that holds the lock has
established at each `pc`). `TimedAtMostOnce` alone is not inductive: nothing in
it says that the claim is started when the devices are about to be timed a
second time. Results: `TypeCorrect`, `TimedOnce`, `ReceiptsAreGenuine`,
`NothingReused`.

Every safety property that a passing run checks has a theorem. Only model-checked are
the liveness properties: `AllCallsReturn`, `EventuallyCleaned`, `SearchResumes` and
`TimedIsPublished`, since TLAPS supports neither fairness nor ENABLED. The installed provers
cannot instantiate the library's induction theorems, which take an operator as a
parameter. Where a proof needs induction over numbers it takes a least counterexample
instead (`LeastNat`, from the well-foundedness of the order on Nat). What a
definition by recursion over other data computes for every input would be out of reach;
no module with a theorem has one. The run `parts` makes the symbols of `KernelSchedule`
through `KernelProofs`, which adds theorems and no behaviour.

## 6. Plan

Done, in this order: ledger and its proofs; ring; kernel schedule; views;
archive; confirmation and its proofs; resumable searches; surface attempts; pipeline
loop; remote DMA; proofs of the archive, the surface, remote DMA, the ring and
the kernel schedule; the ring's refinement, genuine manifests, searches, pipeline
loops and views proved.
What is left, most important first:

  1. Action properties proved: a committed row never changes, a claim or a receipt is never
     taken back, a deleted file stays in the bucket.
  2. The safety part of `TimedIsPublished`: a timed root that no kill marred can still be
     published by a later call.
  3. `StagedPublish`: staging directory, lock and exclusive rename of the RPA
     surface runner.
  4. The DMA protocol of the owned RPA decode kernel, as an instance of what
     `KernelSchedule` promises.
  5. Sealing a ledger into one file, and the readers that reject sidecars, as a part
     of `Ledger`.
