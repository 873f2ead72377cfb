------------------------------- MODULE RemoteDma -------------------------------
(***************************************************************************)
(* Copies between devices: RemoteDmaStartOp and RemoteDmaWaitOp in         *)
(* KernelOp.verify_ of src/src/tpu_cake/dialects/tpu_schedule.py.          *)
(*                                                                         *)
(* The verifier walks one program and must conclude what holds on every    *)
(* device that runs it.  A transfer plan says which device sends to which, *)
(* and may leave devices out: the destination counts as initialized only   *)
(* if the plan's routes end on all of them.  First the program is written, *)
(* under the verifier's tests; then each device runs it at its own pace, a *)
(* copy arrives at any time after the sender's start, and a wait returns   *)
(* when the device's own copy has left and, if the plan sends it one, when *)
(* its semaphore was signalled by an arrival.  KernelSchedule models one   *)
(* device and local copies.  The repository verifies and prices such       *)
(* programs and has no lowering of them: how devices run is an assumption. *)
(***************************************************************************)
EXTENDS Naturals, Sequences, FiniteSets

CONSTANTS
  Devices,     \* the devices of the topology
  Given,       \* buffers that are initialized on every device
  Vmem,        \* the other buffers
  Semaphores,
  MaxOps,      \* bound: operations in the program
  OneUse       \* a Boolean: a semaphore serves one remote copy of the program

Buffer == Given \cup Vmem

VARIABLES
  program,  \* the operations, in order
  running,  \* the program is accepted and the devices run it
  at,       \* at[d]: the next operation of device d
  written,  \* written[d]: the buffers that hold a written value on device d
  arrived,  \* the copies that arrived: <<operation, destination device>>
  signals   \* signals[d][s]: arrivals on semaphore s not waited for

vars == <<program, running, at, written, arrived, signals>>

-----------------------------------------------------------------------------
(* The verifier.                                                            *)

\* TransferPlanAttr: routes from device to device, given by destination; no
\* device sends or receives more than once, and routes cross devices.
Plan == UNION {{plan \in [to -> Devices] :
                  /\ \A d, e \in to : plan[d] = plan[e] => d = e
                  /\ \A d \in to : plan[d] # d}
               : to \in (SUBSET Devices) \ {{}}}

Operation ==
  [kind : {"start"}, source : Buffer, dest : Vmem, semaphore : Semaphores, plan : Plan]
    \cup [kind : {"wait"}, start : Nat]
    \cup [kind : {"compute"}, source : Buffer, dest : Vmem]

Index(kind, n) == {k \in 1..n : program[k].kind = kind}

\* Mutant: any plan initializes its destination.
CoversAny(plan) == TRUE

\* covered_destinations == topology_device_ids
Covers(plan) == DOMAIN plan = Devices

\* `initialized` after the first n operations.
Initialized(n) ==
  Given \cup {program[k].dest : k \in Index("compute", n)}
        \cup {program[program[w].start].dest :
                w \in {w \in Index("wait", n) : Covers(program[program[w].start].plan)}}

\* remote_in_flight after the whole program.
InFlight ==
  {k \in Index("start", Len(program)) :
     \A w \in Index("wait", Len(program)) : program[w].start # k}

Written == {program[k].dest : k \in Index("start", Len(program)) \cup Index("compute", Len(program))}

Init ==
  /\ program = <<>>
  /\ running = FALSE
  /\ at = [d \in Devices |-> 1]
  /\ written = [d \in Devices |-> Given]
  /\ arrived = {}
  /\ signals = [d \in Devices |-> [s \in Semaphores |-> 0]]

Add(operation) ==
  /\ ~running /\ Len(program) < MaxOps
  /\ program' = Append(program, operation)
  /\ UNCHANGED <<running, at, written, arrived, signals>>

\* The source is initialized and the semaphore has no copy in flight.  As in
\* KernelSchedule with Reuse = "never", a buffer is written once; so no copy
\* in flight can have the same destination.
RemoteDmaStart ==
  \E source \in Initialized(Len(program)), dest \in Vmem \ Written, semaphore \in Semaphores, plan \in Plan :
    /\ \A k \in InFlight : program[k].semaphore # semaphore
    /\ OneUse => \A k \in Index("start", Len(program)) : program[k].semaphore # semaphore
    /\ Add([kind |-> "start", source |-> source, dest |-> dest,
            semaphore |-> semaphore, plan |-> plan])

RemoteDmaWait == \E k \in InFlight : Add([kind |-> "wait", start |-> k])

\* Any operation of the core that reads one buffer and writes another.
Compute ==
  \E source \in Initialized(Len(program)), dest \in Vmem \ Written :
    Add([kind |-> "compute", source |-> source, dest |-> dest])

\* A kernel ends with no copy in flight.
Accept ==
  /\ ~running /\ program # <<>>
  /\ InFlight = {}
  /\ running' = TRUE
  /\ UNCHANGED <<program, at, written, arrived, signals>>

-----------------------------------------------------------------------------
(* The devices.                                                             *)

IsAt(d, kind) == running /\ at[d] \in DOMAIN program /\ program[at[d]].kind = kind
Advance(d)     == at' = [at EXCEPT ![d] = @ + 1] /\ UNCHANGED <<program, running>>

RunStart(d) == IsAt(d, "start") /\ Advance(d) /\ UNCHANGED <<written, arrived, signals>>

\* The copy that operation k sends to device d arrives.
Arrive(d) ==
  \E k \in Index("start", Len(program)) :
    /\ running
    /\ d \in DOMAIN program[k].plan /\ k < at[program[k].plan[d]]
    /\ <<k, d>> \notin arrived
    /\ arrived' = arrived \cup {<<k, d>>}
    /\ written' = [written EXCEPT ![d] =
         IF program[k].source \in written[program[k].plan[d]] THEN @ \cup {program[k].dest} ELSE @]
    /\ signals' = [signals EXCEPT ![d][program[k].semaphore] = @ + 1]
    /\ UNCHANGED <<program, running, at>>

RunWait(d) ==
  /\ IsAt(d, "wait")
  /\ LET k == program[at[d]].start
         s == program[k].semaphore IN
     /\ \A e \in DOMAIN program[k].plan : program[k].plan[e] = d => <<k, e>> \in arrived
     /\ IF d \in DOMAIN program[k].plan
        THEN signals[d][s] > 0 /\ signals' = [signals EXCEPT ![d][s] = @ - 1]
        ELSE UNCHANGED signals
  /\ Advance(d) /\ UNCHANGED <<written, arrived>>

RunCompute(d) ==
  /\ IsAt(d, "compute")
  /\ written' = [written EXCEPT ![d] =
       IF program[at[d]].source \in @ THEN @ \cup {program[at[d]].dest} ELSE @]
  /\ Advance(d) /\ UNCHANGED <<arrived, signals>>

Next ==
  \/ RemoteDmaStart \/ RemoteDmaWait \/ Compute \/ Accept
  \/ \E d \in Devices : RunStart(d) \/ Arrive(d) \/ RunWait(d) \/ RunCompute(d)

Spec == Init /\ [][Next]_vars

-----------------------------------------------------------------------------
(* Properties.                                                              *)

TypeOK ==
  /\ program \in Seq(Operation) /\ Len(program) <= MaxOps
  /\ running \in BOOLEAN
  /\ at \in [Devices -> 1..(Len(program) + 1)]
  /\ written \in [Devices -> SUBSET Buffer]
  /\ arrived \subseteq Index("start", Len(program)) \X Devices
  /\ signals \in [Devices -> [Semaphores -> Nat]]

\* What the verifier has concluded from the program alone is true on every
\* device, wherever the others are: a buffer that counts as initialized there
\* has been written.  (With OneUse = FALSE it is not: the arrival of a later
\* copy from a device that is ahead signals the semaphore an earlier copy is
\* still awaited on.)
InitializedEverywhere ==
  running => \A d \in Devices : Initialized(at[d] - 1) \subseteq written[d]
=============================================================================
