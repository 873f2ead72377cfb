------------------------------ MODULE KernelProofs ------------------------------
(***************************************************************************)
(* What the verifier of a kernel schedule knows is true of the memory: for *)
(* any arguments, buffers, tiles, semaphores and mesh axes, and schedules  *)
(* of any length.                                                          *)
(***************************************************************************)
EXTENDS KernelSchedule, FiniteSetTheorems, FunctionTheorems, TLAPS

-----------------------------------------------------------------------------
(* A copy moves the tiles of its source, in their order, to those of its    *)
(* destination.                                                             *)

LEMMA RankIsNat == ASSUME NEW S \in SUBSET Tiles, NEW t \in S
                   PROVE  Rank(t, S) \in 0..(Cardinality(S) - 1)
<1> DEFINE Below == {u \in S : u < t}
<1>1. IsFiniteSet(S) /\ Cardinality(S) \in Nat
  BY TilesAssumption, FS_Subset, FS_CardinalityType
<1>2. Below \in SUBSET S /\ Below # S
  BY TilesAssumption
<1>3. Cardinality(Below) \in Nat /\ Cardinality(Below) <= Cardinality(S) /\ Cardinality(Below) # Cardinality(S)
  BY <1>1, <1>2, FS_Subset, FS_CardinalityType
<1> QED BY <1>1, <1>3 DEF Rank

LEMMA RankGrows == ASSUME NEW S \in SUBSET Tiles, NEW t \in S, NEW u \in S, t < u
                   PROVE  Rank(t, S) < Rank(u, S)
<1> DEFINE Low  == {w \in S : w < t}
           High == {w \in S : w < u}
<1>1. IsFiniteSet(S)
  BY TilesAssumption, FS_Subset
<1>2. IsFiniteSet(High) /\ Cardinality(High) \in Nat
  BY <1>1, FS_Subset, FS_CardinalityType
<1>3. Low \in SUBSET High /\ Low # High
  <2>1. \A w \in S : w \in Nat
    BY TilesAssumption
  <2>2. \A w \in S : w < t => w < u
    BY <2>1
  <2>3. t \in High /\ t \notin Low
    BY <2>1
  <2> QED BY <2>2, <2>3
<1>4. Cardinality(Low) \in Nat /\ Cardinality(Low) <= Cardinality(High) /\ Cardinality(Low) # Cardinality(High)
  BY <1>2, <1>3, FS_Subset, FS_CardinalityType
<1> QED BY <1>2, <1>4 DEF Rank

\* Every tile of the destination has its one tile of the source.
LEMMA PairsMatch ==
  ASSUME NEW S \in SUBSET Tiles, NEW D \in SUBSET Tiles, Cardinality(S) = Cardinality(D), NEW t \in D
  PROVE  /\ \E u \in S : <<u, t>> \in Pairs(S, D)
         /\ \A u, w : <<u, t>> \in Pairs(S, D) /\ <<w, t>> \in Pairs(S, D) => u = w
<1> DEFINE T == 0..(Cardinality(S) - 1)
           rank == [u \in S |-> Rank(u, S)]
<1>1. IsFiniteSet(S) /\ Cardinality(S) \in Nat
  BY TilesAssumption, FS_Subset, FS_CardinalityType
<1>2. Cardinality(S) - 1 \in Int /\ 0 \in Int
  BY <1>1
<1>3. IsFiniteSet(T) /\ Cardinality(T) = Cardinality(S)
  BY <1>1, <1>2, FS_Interval
<1>4. rank \in [S -> T]
  BY RankIsNat
<1>5. \A u, w \in S : rank[u] = rank[w] => u = w
  <2> SUFFICES ASSUME NEW u \in S, NEW w \in S, u # w PROVE rank[u] # rank[w]
    OBVIOUS
  <2>1. u \in Nat /\ w \in Nat /\ Rank(u, S) \in Int /\ Rank(w, S) \in Int
    BY RankIsNat, TilesAssumption
  <2>2. CASE u < w BY <2>1, <2>2, RankGrows
  <2>3. CASE w < u BY <2>1, <2>3, RankGrows
  <2> QED BY <2>1, <2>2, <2>3
<1>6. rank \in Injection(S, T)
  BY <1>4, <1>5, Fun_IsInj
<1>7. rank \in Surjection(S, T)
  BY <1>3, <1>6, FS_Injection
<1>8. Rank(t, D) \in T
  BY RankIsNat
<1>9. PICK u \in S : Rank(u, S) = Rank(t, D)
  BY <1>7, <1>8 DEF Surjection
<1> QED BY <1>5, <1>9 DEF Pairs

-----------------------------------------------------------------------------
(* The invariant.                                                           *)

\* Every operand names the whole of its buffer.
Whole == Views = {Tiles}

\* The schedules the theorems are about: a buffer is written again only while
\* no copy uses it, or never, if it is always named whole.
Disciplined == Reuse = "when_idle" \/ (Reuse = "never" /\ Whole)

\* No contracted dimension of a matmul is split.
Unsharded == MatmulSharding = {{}}

IsMemory(m) == m = [b \in Buffers |-> [t \in Tiles |-> m[b][t]]]

IsCopy(c) ==
  /\ c = [transfer |-> c.transfer, todo |-> c.todo]
  /\ c.transfer \in in_flight
  /\ c.todo \subseteq Pairs(c.transfer.source.tiles, c.transfer.destination.tiles)

Types ==
  /\ initialized \subseteq Buffers
  /\ partial = [b \in Buffers |-> partial[b]]
  /\ statistics = [b \in Buffers |-> statistics[b]]
  /\ in_flight \subseteq Transfer
  /\ ops \in Nat
  /\ IsMemory(memory) /\ IsMemory(promised)
  /\ done \in [Semaphores -> {0, 1}]
  /\ \A c \in copies : IsCopy(c)

\* A semaphore serves one transfer, and is signalled when its copy is done.
SemaphoresApart ==
  /\ \A c, d \in in_flight : c.semaphore = d.semaphore => c = d
  /\ \A c, d \in copies : c.transfer = d.transfer => c = d
  /\ \A s \in Semaphores : done[s] # 0 =>
       /\ \A c \in copies : c.transfer.semaphore # s
       /\ \E c \in in_flight : c.semaphore = s

\* Nothing writes what a copy reads, nor what another copy writes.
RootsApart ==
  /\ \A c, d \in in_flight : c.source.root # d.destination.root
  /\ \A c, d \in in_flight : c # d /\ c.destination.root = d.destination.root =>
       c.destination.tiles \cap d.destination.tiles = {}

\* The memory holds what was promised, or a copy is still to bring it ...
Awaited(b, t) ==
  \E c \in copies : c.transfer.destination.root = b /\ \E p \in c.todo : p[2] = t
Agrees == \A b \in Buffers, t \in Tiles : memory[b][t] = promised[b][t] \/ Awaited(b, t)

\* ... and finds it where it reads.
Carries ==
  \A c \in copies : \A p \in c.todo :
    memory[c.transfer.source.root][p[1]] = promised[c.transfer.destination.root][p[2]]

\* What counts as initialized, or is being copied to, was written.
Defined(b) == \A t \in Tiles : promised[b][t] # Undefined
DefinedInv ==
  /\ \A b \in initialized : Defined(b)
  /\ \A c \in in_flight : Defined(c.destination.root) /\ c.source.root \in initialized
  /\ written \subseteq initialized

\* The axes on record are those the promised values miss; what is copied,
\* and so every argument, is complete.
Misses(b, axes) == \A t \in Tiles : promised[b][t].pending = axes
PartialInv ==
  /\ \A b \in initialized :
       (\A c \in in_flight : c.destination.root # b) => Misses(b, partial[b])
  /\ \A c \in in_flight : partial[c.source.root] = {} /\ Misses(c.destination.root, {})
  /\ \A b \in Args : partial[b] = {}

\* Statistics were computed from what their subject still holds.
PromisedIds(b) == {promised[b][t].id : t \in Tiles}
PromisedOf(b)  == UNION {promised[b][t].of : t \in Tiles}
StatisticsInv ==
  /\ \A b \in Buffers : statistics[b] # NoStatistics =>
       /\ b \in initialized /\ statistics[b].of \in initialized
       /\ PromisedOf(b) \subseteq PromisedIds(statistics[b].of)
  /\ \A c \in in_flight : PromisedOf(c.destination.root) \subseteq PromisedOf(c.source.root)

MemoryInv == Types /\ SemaphoresApart /\ RootsApart /\ Agrees /\ Carries

IInv ==
  /\ MemoryInv
  /\ Whole => DefinedInv
  /\ Whole /\ Unsharded => PartialInv
  /\ Whole /\ Reuse = "never" => StatisticsInv

-----------------------------------------------------------------------------
(* What an operation reads and may write.                                   *)

LEMMA OperandsAre ==
  ASSUME NEW S, NEW v \in Operand(S)
  PROVE  /\ v.root \in S
         /\ v.tiles \in (SUBSET Tiles) \ {{}}
         /\ Whole => v.tiles = Tiles
         /\ Whole => Tiles # {}
BY TilesAssumption DEF Operand, Whole

LEMMA TransfersAre ==
  ASSUME Types, NEW c \in in_flight
  PROVE  /\ c.semaphore \in Semaphores
         /\ c.source \in Operand(Buffers) /\ c.destination \in Operand(Buffers)
         /\ c.source.root \in Buffers /\ c.destination.root \in Buffers
         /\ c.source.tiles \in SUBSET Tiles /\ c.destination.tiles \in SUBSET Tiles
BY OperandsAre DEF Types, Transfer

\* A readable operand holds what was promised.
LEMMA ReadsThePromise ==
  ASSUME MemoryInv, NEW v \in Operand(Buffers), Readable(v), NEW t \in Tiles
  PROVE  memory[v.root][t] = promised[v.root][t]
<1>1. v.root \in Buffers
  BY OperandsAre
<1>2. ~Awaited(v.root, t)
  BY DEF MemoryInv, Types, IsCopy, Readable, Awaited
<1> QED BY <1>1, <1>2 DEF MemoryInv, Agrees

\* No copy reads what may be written, and, on the core, none writes it.
LEMMA WritesNoSource ==
  ASSUME IInv, Disciplined, NEW out \in Operand(Buffers), CopyMayWrite(out)
  PROVE  /\ NotBeingRead(out)
         /\ Reuse = "never" => NotBeingCopiedTo(out) /\ out.root \notin initialized
<1>1. CASE Reuse = "when_idle"
  BY <1>1 DEF CopyMayWrite
<1>2. CASE Reuse = "never" /\ Whole
  <2>1. out.tiles = Tiles /\ Tiles # {}
    BY <1>2, OperandsAre
  <2>2. ~Defined(out.root)
    BY <1>2, <2>1 DEF CopyMayWrite, NeverWritten, Defined
  <2> QED BY <1>2, <2>2 DEF IInv, DefinedInv, NotBeingRead, NotBeingCopiedTo
<1> QED BY <1>1, <1>2 DEF Disciplined

LEMMA CoreWritesApart ==
  ASSUME IInv, Disciplined, NEW out \in Operand(Buffers), CoreMayWrite(out)
  PROVE  NotBeingRead(out) /\ NotBeingCopiedTo(out)
BY WritesNoSource DEF CoreMayWrite, Disciplined

-----------------------------------------------------------------------------
(* The start of a copy.                                                     *)

\* What every transfer between HBM and VMEM is.
Starts(s, x, y) ==
  /\ s \in Semaphores /\ x \in Operand(Buffers) /\ y \in Operand(Buffers)
  /\ x.root # y.root
  /\ Cardinality(x.tiles) = Cardinality(y.tiles)
  /\ DmaStart(s, x, y)

Started(s, x, y) == [semaphore |-> s, source |-> x, destination |-> y]

LEMMA TransfersStart == ASSUME Transfers PROVE \E s, x, y : Starts(s, x, y)
<1>1. Args \subseteq Buffers /\ Vmem \subseteq Buffers /\ Outputs \subseteq Args /\ Args \cap Vmem = {}
  BY BuffersAssumption DEF Buffers, Args
<1>2. \A S : S \subseteq Buffers => Operand(S) \subseteq Operand(Buffers)
  BY DEF Operand
<1>3. PICK s \in Semaphores :
        \/ \E x \in Operand(Args), y \in Operand(Vmem) :
             Cardinality(x.tiles) = Cardinality(y.tiles) /\ DmaStart(s, x, y)
        \/ \E x \in Operand(Vmem), y \in Operand(Outputs) :
             Cardinality(x.tiles) = Cardinality(y.tiles) /\ DmaStart(s, x, y)
  BY DEF Transfers
<1>4. ASSUME NEW x \in Operand(Args), NEW y \in Operand(Vmem),
             Cardinality(x.tiles) = Cardinality(y.tiles), DmaStart(s, x, y)
      PROVE  Starts(s, x, y)
  BY <1>1, <1>2, <1>4, OperandsAre DEF Starts
<1>5. ASSUME NEW x \in Operand(Vmem), NEW y \in Operand(Outputs),
             Cardinality(x.tiles) = Cardinality(y.tiles), DmaStart(s, x, y)
      PROVE  Starts(s, x, y)
  <2>1. x.root \in Vmem /\ y.root \in Args
    BY <1>1, <1>5, OperandsAre
  <2>2. Outputs \subseteq Buffers
    BY <1>1
  <2> QED BY <1>1, <1>2, <1>5, <2>1, <2>2 DEF Starts
<1> QED BY <1>3, <1>4, <1>5

\* The transfer is new, and what its tiles promise is what the source's hold.
LEMMA StartPromises ==
  ASSUME MemoryInv, NEW s, NEW x, NEW y, Starts(s, x, y)
  PROVE  /\ Started(s, x, y) \in Transfer /\ Started(s, x, y) \notin in_flight
         /\ IsMemory(promised')
         /\ \A b \in Buffers, t \in Tiles :
              b # y.root \/ t \notin y.tiles => promised'[b][t] = promised[b][t]
         /\ \A p \in Pairs(x.tiles, y.tiles) :
              /\ p[1] \in x.tiles /\ p[2] \in y.tiles
              /\ promised'[y.root][p[2]] = promised[x.root][p[1]]
         /\ \A t \in y.tiles : \E p \in Pairs(x.tiles, y.tiles) : p[2] = t
<1> DEFINE pairs == Pairs(x.tiles, y.tiles)
           f == [t \in Tiles |-> IF t \in y.tiles
                                 THEN promised[x.root][CHOOSE u \in Tiles : <<u, t>> \in pairs]
                                 ELSE promised[y.root][t]]
<1>1. /\ x.tiles \in SUBSET Tiles /\ y.tiles \in SUBSET Tiles
      /\ x.root \in Buffers /\ y.root \in Buffers
  BY OperandsAre DEF Starts
<1>2. Started(s, x, y) \in Transfer /\ Started(s, x, y) \notin in_flight
  BY DEF Starts, Started, Transfer, DmaStart, SemaphoreFree
<1>3. promised' = [promised EXCEPT ![y.root] = f]
  BY DEF Starts, DmaStart, StartTransfer, MemoryInv, Types, IsMemory
<1>4. /\ IsMemory(promised') /\ promised'[y.root] = f
      /\ \A b \in Buffers : b # y.root => promised'[b] = promised[b]
  <2>1. f = [t \in Tiles |-> f[t]]
    OBVIOUS
  <2>2. promised = [b \in Buffers |-> [t \in Tiles |-> promised[b][t]]]
    BY DEF MemoryInv, Types, IsMemory
  <2> HIDE DEF f
  <2>3. promised' = [b \in Buffers |-> IF b = y.root THEN f ELSE promised[b]]
    BY <1>1, <1>3, <2>2
  <2>4. promised'[y.root] = f /\ \A b \in Buffers : b # y.root => promised'[b] = promised[b]
    BY <1>1, <2>3
  <2>5. \A b \in Buffers : promised'[b] = [t \in Tiles |-> promised'[b][t]]
    BY <2>1, <2>2, <2>4
  <2>6. promised' = [b \in Buffers |-> [t \in Tiles |-> promised'[b][t]]]
    BY <2>3, <2>5
  <2> QED BY <2>4, <2>6 DEF IsMemory
<1>5. \A b \in Buffers, t \in Tiles :
        b # y.root \/ t \notin y.tiles => promised'[b][t] = promised[b][t]
  BY <1>4
<1>6. \A p \in pairs : p = <<p[1], p[2]>> /\ p[1] \in x.tiles /\ p[2] \in y.tiles
  BY DEF Pairs
<1>7. ASSUME NEW p \in pairs PROVE promised'[y.root][p[2]] = promised[x.root][p[1]]
  <2> DEFINE u == p[1]
             t == p[2]
  <2>1. <<u, t>> \in pairs /\ u \in Tiles /\ t \in y.tiles /\ t \in Tiles
    BY <1>1, <1>6
  <2>2. \A w : <<w, t>> \in pairs => w = u
    BY <1>1, <2>1, PairsMatch DEF Starts
  <2>3. (CHOOSE w \in Tiles : <<w, t>> \in pairs) = u
    BY <2>1, <2>2
  <2>4. promised'[y.root][t] = f[t]
    BY <1>4
  <2>5. f[t] = promised[x.root][CHOOSE w \in Tiles : <<w, t>> \in pairs]
    BY <2>1
  <2> QED BY <2>3, <2>4, <2>5
<1>8. \A t \in y.tiles : \E p \in pairs : p[2] = t
  <2> SUFFICES ASSUME NEW t \in y.tiles PROVE \E p \in pairs : p[2] = t
    OBVIOUS
  <2>1. PICK u \in x.tiles : <<u, t>> \in pairs
    BY <1>1, PairsMatch DEF Starts
  <2> QED BY <2>1
<1> QED BY <1>2, <1>4, <1>5, <1>6, <1>7, <1>8

LEMMA StartKeepsMemory ==
  ASSUME IInv, Disciplined, NEW s, NEW x, NEW y, Starts(s, x, y)
  PROVE  MemoryInv'
<1> DEFINE new   == Started(s, x, y)
           pairs == Pairs(x.tiles, y.tiles)
           copy  == [transfer |-> new, todo |-> pairs]
<1> USE DEF IInv
<1>1. /\ x \in Operand(Buffers) /\ y \in Operand(Buffers) /\ s \in Semaphores
      /\ x.root \in Buffers /\ y.root \in Buffers /\ x.root # y.root
      /\ x.tiles \in SUBSET Tiles /\ y.tiles \in SUBSET Tiles
  BY OperandsAre DEF Starts
<1>2. /\ in_flight' = in_flight \cup {new} /\ copies' = copies \cup {copy}
      /\ Readable(x) /\ NoPendingWrite(y) /\ CopyMayWrite(y) /\ SemaphoreFree(s)
      /\ ops < MaxOps /\ ops' = ops + 1
      /\ UNCHANGED <<initialized, partial, statistics, memory, done>>
  BY DEF Starts, Started, DmaStart, StartTransfer, Issue
<1>3. NotBeingRead(y)
  BY <1>1, <1>2, WritesNoSource
<1>4. /\ new \in Transfer /\ new \notin in_flight
      /\ new.semaphore = s /\ new.source = x /\ new.destination = y
      /\ copy.transfer = new /\ copy.todo = pairs
  BY StartPromises DEF Started
<1>5. Types'
  <2>1. in_flight' \subseteq Transfer /\ ops' \in Nat /\ IsMemory(promised')
    BY <1>2, <1>4, StartPromises DEF MemoryInv, Types
  <2>2. \A c \in copies' : IsCopy(c)'
    BY <1>2, <1>4 DEF MemoryInv, Types, IsCopy
  <2> QED BY <1>2, <2>1, <2>2 DEF MemoryInv, Types, IsMemory
<1>6. SemaphoresApart'
  <2>1. \A c \in in_flight : c.semaphore # s
    BY <1>2 DEF SemaphoreFree
  <2>2. \A c \in copies : c.transfer \in in_flight
    BY DEF MemoryInv, Types, IsCopy
  <2>3. done[s] = 0
    BY <1>1, <2>1 DEF MemoryInv, SemaphoresApart
  <2>4. \A c, d \in in_flight' : c.semaphore = d.semaphore => c = d
    BY <1>2, <1>4, <2>1 DEF MemoryInv, SemaphoresApart
  <2>5. \A c, d \in copies' : c.transfer = d.transfer => c = d
    BY <1>2, <1>4, <2>2 DEF MemoryInv, SemaphoresApart
  <2>6. ASSUME NEW z \in Semaphores, done'[z] # 0
        PROVE  /\ \A c \in copies' : c.transfer.semaphore # z
               /\ \E c \in in_flight' : c.semaphore = z
    BY <1>2, <1>4, <2>3, <2>6 DEF MemoryInv, SemaphoresApart
  <2> QED BY <2>4, <2>5, <2>6 DEF SemaphoresApart
<1>7. RootsApart'
  <2>1. \A c \in in_flight : c.source.root # y.root /\ c.destination.root # x.root
    BY <1>2, <1>3 DEF NotBeingRead, Readable
  <2>2. \A c \in in_flight : c.destination.root = y.root => c.destination.tiles \cap y.tiles = {}
    BY <1>2 DEF NoPendingWrite
  <2>3. \A c, d \in in_flight' : c.source.root # d.destination.root
    BY <1>1, <1>2, <1>4, <2>1 DEF MemoryInv, RootsApart
  <2>4. ASSUME NEW c \in in_flight', NEW d \in in_flight', c # d, c.destination.root = d.destination.root
        PROVE  c.destination.tiles \cap d.destination.tiles = {}
    BY <1>2, <1>4, <2>2, <2>4 DEF MemoryInv, RootsApart
  <2> QED BY <2>3, <2>4 DEF RootsApart
<1>8. Agrees'
  <2> SUFFICES ASSUME NEW b \in Buffers, NEW t \in Tiles
               PROVE  memory'[b][t] = promised'[b][t] \/ Awaited(b, t)'
    BY DEF Agrees
  <2>1. CASE b = y.root /\ t \in y.tiles
    <3>1. PICK p \in pairs : p[2] = t
      BY <2>1, StartPromises
    <3>2. copy \in copies' /\ copy.transfer.destination.root = b
      BY <1>2, <1>4, <2>1
    <3> QED BY <1>4, <3>1, <3>2 DEF Awaited
  <2>2. CASE ~(b = y.root /\ t \in y.tiles)
    <3>1. promised'[b][t] = promised[b][t]
      BY <2>2, StartPromises
    <3>2. Awaited(b, t) => Awaited(b, t)'
      BY <1>2 DEF Awaited
    <3> QED BY <1>2, <3>1, <3>2 DEF MemoryInv, Agrees
  <2> QED BY <2>1, <2>2
<1>9. Carries'
  <2>1. ASSUME NEW c \in copies, NEW p \in c.todo
        PROVE  memory'[c.transfer.source.root][p[1]] = promised'[c.transfer.destination.root][p[2]]
    <3>1. /\ c.transfer \in in_flight /\ p \in Pairs(c.transfer.source.tiles, c.transfer.destination.tiles)
      BY <2>1 DEF MemoryInv, Types, IsCopy
    <3>2. c.transfer.destination.root \in Buffers /\ p[2] \in c.transfer.destination.tiles /\ p[2] \in Tiles
      BY <3>1, TransfersAre DEF MemoryInv, Pairs
    <3>3. c.transfer.destination.root # y.root \/ p[2] \notin y.tiles
      BY <1>2, <3>1, <3>2 DEF NoPendingWrite
    <3>4. promised'[c.transfer.destination.root][p[2]] = promised[c.transfer.destination.root][p[2]]
      BY <3>2, <3>3, StartPromises
    <3> QED BY <1>2, <2>1, <3>4 DEF MemoryInv, Carries
  <2>2. ASSUME NEW p \in pairs
        PROVE  memory'[x.root][p[1]] = promised'[y.root][p[2]]
    <3>1. p[1] \in Tiles /\ promised'[y.root][p[2]] = promised[x.root][p[1]]
      BY <1>1, StartPromises
    <3> QED BY <1>1, <1>2, <3>1, ReadsThePromise
  <2> QED BY <1>2, <1>4, <2>1, <2>2 DEF Carries
<1> QED BY <1>5, <1>6, <1>7, <1>8, <1>9 DEF MemoryInv

-----------------------------------------------------------------------------
(* A tile moves; a wait returns.                                            *)

LEMMA MoveKeepsMemory ==
  ASSUME MemoryInv, NEW c \in copies, NEW p \in c.todo, Move(c, p)
  PROVE  MemoryInv'
<1> DEFINE transfer == c.transfer
           rest     == c.todo \ {p}
           left     == [c EXCEPT !.todo = rest]
           source   == transfer.source.root
           target   == transfer.destination.root
<1>1. /\ c = [transfer |-> transfer, todo |-> c.todo] /\ transfer \in in_flight
      /\ c.todo \subseteq Pairs(transfer.source.tiles, transfer.destination.tiles)
      /\ source \in Buffers /\ target \in Buffers /\ transfer.semaphore \in Semaphores
      /\ p[2] \in Tiles
  BY TransfersAre DEF MemoryInv, Types, IsCopy, Pairs
<1>2. left = [transfer |-> transfer, todo |-> rest]
  BY <1>1
<1>3. /\ copies' = (copies \ {c}) \cup (IF rest = {} THEN {} ELSE {left})
      /\ done' = [done EXCEPT ![transfer.semaphore] = IF rest = {} THEN @ + 1 ELSE @]
      /\ UNCHANGED <<initialized, partial, statistics, in_flight, ops, promised>>
  BY DEF Move
<1>4. memory' = [memory EXCEPT ![target][p[2]] = memory[source][p[1]]]
  BY DEF Move
<1>5. /\ IsMemory(memory')
      /\ memory'[target][p[2]] = promised[target][p[2]]
      /\ \A b \in Buffers, t \in Tiles : b # target \/ t # p[2] => memory'[b][t] = memory[b][t]
  <2>1. memory = [b \in Buffers |-> [t \in Tiles |-> memory[b][t]]]
    BY DEF MemoryInv, Types, IsMemory
  <2>2. memory' = [b \in Buffers |->
                     IF b = target THEN [memory[target] EXCEPT ![p[2]] = memory[source][p[1]]] ELSE memory[b]]
    BY <1>1, <1>4, <2>1
  <2>3. memory'[target] = [t \in Tiles |-> IF t = p[2] THEN memory[source][p[1]] ELSE memory[target][t]]
    BY <1>1, <2>1, <2>2
  <2>4. \A b \in Buffers : b # target => memory'[b] = memory[b]
    BY <2>2
  <2>5. \A b \in Buffers : memory'[b] = [t \in Tiles |-> memory'[b][t]]
    BY <2>1, <2>3, <2>4
  <2>6. memory' = [b \in Buffers |-> [t \in Tiles |-> memory'[b][t]]]
    BY <2>2, <2>5, ZenonT(30)
  <2>7. memory[source][p[1]] = promised[target][p[2]]
    BY DEF MemoryInv, Carries
  <2>8. IsMemory(memory')
    BY ONLY <2>6 DEF IsMemory
  <2>9. memory'[target][p[2]] = promised[target][p[2]]
    BY <1>1, <2>3, <2>7
  <2>10. \A t \in Tiles : t # p[2] => memory'[target][t] = memory[target][t]
    BY <2>3
  <2> QED BY <2>4, <2>8, <2>9, <2>10
<1>6. \A d \in copies : d.transfer = transfer => d = c
  BY DEF MemoryInv, SemaphoresApart
<1>7. done[transfer.semaphore] = 0
  BY <1>1 DEF MemoryInv, SemaphoresApart, Types
<1>8. done \in [Semaphores -> {0, 1}] /\ done' \in [Semaphores -> {0, 1}]
  BY <1>1, <1>3, <1>7 DEF MemoryInv, Types
<1>9. Types'
  <2>1. \A d \in copies' : IsCopy(d)'
    <3>1. \A d \in copies : IsCopy(d)'
      BY <1>3 DEF MemoryInv, Types, IsCopy
    <3>2. IsCopy(left)'
      BY <1>1, <1>2, <1>3 DEF IsCopy
    <3> QED BY <1>3, <3>1, <3>2
  <2> QED BY <1>3, <1>5, <1>8, <2>1 DEF MemoryInv, Types, IsMemory
<1>10. \A d \in copies' : \E e \in copies : d.transfer = e.transfer /\ d.todo \subseteq e.todo
  BY <1>2, <1>3
<1>11. SemaphoresApart'
  <2>1. \A d, e \in copies' : d.transfer = e.transfer => d = e
    BY <1>2, <1>3, <1>6 DEF MemoryInv, SemaphoresApart
  <2>2. ASSUME NEW s \in Semaphores, done'[s] # 0
        PROVE  /\ \A d \in copies' : d.transfer.semaphore # s
               /\ \E d \in in_flight' : d.semaphore = s
    <3>1. CASE s = transfer.semaphore
      <4>1. rest = {}
        BY <1>3, <1>7, <1>8, <2>2, <3>1
      <4>2. \A d \in copies' : d.transfer \in in_flight /\ d \in copies /\ d # c
        BY <1>3, <4>1 DEF MemoryInv, Types, IsCopy
      <4>3. \A d \in copies' : d.transfer.semaphore # s
        BY <1>1, <1>6, <3>1, <4>2 DEF MemoryInv, SemaphoresApart
      <4> QED BY <1>1, <1>3, <3>1, <4>3
    <3>2. CASE s # transfer.semaphore
      <4>1. done[s] # 0
        BY <1>1, <1>3, <1>8, <2>2, <3>2
      <4> QED BY <1>3, <1>10, <4>1 DEF MemoryInv, SemaphoresApart
    <3> QED BY <3>1, <3>2
  <2>3. \A d, e \in in_flight' : d.semaphore = e.semaphore => d = e
    BY <1>3 DEF MemoryInv, SemaphoresApart
  <2> QED BY <2>1, <2>2, <2>3 DEF SemaphoresApart
<1>12. RootsApart'
  BY <1>3 DEF MemoryInv, RootsApart
<1>13. Agrees'
  <2> SUFFICES ASSUME NEW b \in Buffers, NEW t \in Tiles
               PROVE  memory'[b][t] = promised'[b][t] \/ Awaited(b, t)'
    BY DEF Agrees
  <2>1. CASE b = target /\ t = p[2]
    BY <1>3, <1>5, <2>1
  <2>2. CASE ~(b = target /\ t = p[2])
    <3>1. memory'[b][t] = memory[b][t]
      BY <1>5, <2>2
    <3>2. ASSUME Awaited(b, t) PROVE Awaited(b, t)'
      <4>1. PICK d \in copies : d.transfer.destination.root = b /\ \E q \in d.todo : q[2] = t
        BY <3>2 DEF Awaited
      <4>2. PICK q \in d.todo : q[2] = t
        BY <4>1
      <4>3. CASE d # c
        BY <1>3, <4>1, <4>3 DEF Awaited
      <4>4. CASE d = c
        <5>1. q \in rest
          BY <2>2, <4>1, <4>2, <4>4
        <5>2. left \in copies' /\ left.transfer.destination.root = b /\ q \in left.todo
          BY <1>2, <1>3, <4>1, <4>4, <5>1
        <5> QED BY <4>2, <5>2 DEF Awaited
      <4> QED BY <4>3, <4>4
    <3> QED BY <1>3, <3>1, <3>2 DEF MemoryInv, Agrees
  <2> QED BY <2>1, <2>2
<1>14. Carries'
  <2> SUFFICES ASSUME NEW d \in copies', NEW q \in d.todo
               PROVE  memory'[d.transfer.source.root][q[1]] = promised'[d.transfer.destination.root][q[2]]
    BY DEF Carries
  <2>1. PICK e \in copies : d.transfer = e.transfer /\ d.todo \subseteq e.todo
    BY <1>10
  <2>2. e.transfer \in in_flight /\ q \in Pairs(e.transfer.source.tiles, e.transfer.destination.tiles)
    BY <2>1 DEF MemoryInv, Types, IsCopy
  <2>3. e.transfer.source.root \in Buffers /\ e.transfer.source.root # target /\ q[1] \in Tiles
    BY <1>1, <2>2, TransfersAre DEF MemoryInv, RootsApart, Pairs
  <2> QED BY <1>3, <1>5, <2>1, <2>3 DEF MemoryInv, Carries
<1> QED BY <1>9, <1>11, <1>12, <1>13, <1>14 DEF MemoryInv

LEMMA WaitKeepsMemory ==
  ASSUME MemoryInv, NEW c \in in_flight, DmaWait(c)
  PROVE  /\ MemoryInv'
         /\ \A d \in copies : d.transfer # c
<1>1. c.semaphore \in Semaphores /\ c.destination.root \in Buffers
  BY TransfersAre DEF MemoryInv
<1>2. /\ done' = [done EXCEPT ![c.semaphore] = @ - 1]
      /\ done[c.semaphore] > 0
      /\ in_flight' = in_flight \ {c}
      /\ initialized' = initialized \cup {c.destination.root}
      /\ partial' = [partial EXCEPT ![c.destination.root] = partial[c.source.root]]
      /\ statistics' = [statistics EXCEPT ![c.destination.root] = statistics[c.source.root]]
      /\ UNCHANGED <<ops, memory, copies, promised>>
  BY DEF DmaWait
<1>3. done \in [Semaphores -> {0, 1}] /\ done[c.semaphore] = 1
  BY <1>1, <1>2 DEF MemoryInv, Types
<1>4. \A d \in copies : d.transfer.semaphore # c.semaphore /\ d.transfer # c
  BY <1>1, <1>3 DEF MemoryInv, SemaphoresApart
<1>5. done' \in [Semaphores -> {0, 1}] /\ done'[c.semaphore] = 0
      /\ \A s \in Semaphores : s # c.semaphore => done'[s] = done[s]
  BY <1>1, <1>2, <1>3
<1>6. Types'
  <2>1. \A d \in copies' : IsCopy(d)'
    BY <1>2, <1>4 DEF MemoryInv, Types, IsCopy
  <2>2. partial' = [b \in Buffers |-> partial'[b]] /\ statistics' = [b \in Buffers |-> statistics'[b]]
    <3>1. partial = [b \in Buffers |-> partial[b]] /\ statistics = [b \in Buffers |-> statistics[b]]
      BY DEF MemoryInv, Types
    <3> QED BY <1>1, <1>2, <3>1
  <2> QED BY <1>1, <1>2, <1>5, <2>1, <2>2 DEF MemoryInv, Types, IsMemory
<1>7. SemaphoresApart'
  <2>1. ASSUME NEW s \in Semaphores, done'[s] # 0
        PROVE  /\ \A d \in copies' : d.transfer.semaphore # s
               /\ \E d \in in_flight' : d.semaphore = s
    BY <1>2, <1>5, <2>1 DEF MemoryInv, SemaphoresApart
  <2> QED BY <1>2, <2>1 DEF MemoryInv, SemaphoresApart
<1>8. RootsApart'
  BY <1>2 DEF MemoryInv, RootsApart
<1>9. Agrees' /\ Carries'
  BY <1>2 DEF MemoryInv, Agrees, Awaited, Carries
<1> QED BY <1>4, <1>6, <1>7, <1>8, <1>9 DEF MemoryInv

-----------------------------------------------------------------------------
(* Operations of the core.                                                  *)

\* What they have in common.  On values without sharded matmuls, the record of
\* the output is that of its operands; its statistics are none, those of
\* what was measured, or those that were carried.
CoreStep(operands, out, split, reduced, measured, carried, declared, kept) ==
  /\ operands \subseteq Operand(Vmem) /\ out \in Operand(Vmem)
  /\ measured \subseteq operands /\ carried \subseteq operands
  /\ Compute(operands, out, split, reduced, measured, carried)
  /\ partial' = [partial EXCEPT ![out.root] = declared]
  /\ statistics' = [statistics EXCEPT ![out.root] = kept]
  /\ Unsharded => ((UNION {partial[v.root] : v \in operands}) \cup split) \ reduced = declared
  /\ \/ kept = NoStatistics
     \/ \E x \in operands : measured = {x} /\ carried = {} /\ kept.of = x.root
     \/ \E x \in operands : /\ measured = {} /\ carried = {x}
                            /\ statistics[x.root] # NoStatistics
                            /\ kept.of = statistics[x.root].of

Computed(m, operands, t, split, reduced, measured, carried) ==
  [id      |-> <<ops + 1, t>>,
   pending |-> ((UNION {x.pending : x \in AllContents(m, operands)}) \cup split) \ reduced,
   of      |-> {x.id : x \in AllContents(m, measured)}
                 \cup UNION {x.of : x \in AllContents(m, carried)}]

\* The memory n after an operation on the memory m.
Outcome(n, m, operands, out, split, reduced, measured, carried) ==
  /\ IsMemory(n)
  /\ \A t \in out.tiles :
       n[out.root][t] = Computed(m, operands, t, split, reduced, measured, carried)
  /\ \A b \in Buffers, t \in Tiles :
       b # out.root \/ t \notin out.tiles => n[b][t] = m[b][t]

LEMMA ResultAt ==
  ASSUME NEW m, IsMemory(m), NEW operands, NEW out \in Operand(Vmem), NEW split, NEW reduced,
         NEW measured, NEW carried
  PROVE  Outcome(Result(m, operands, out, split, reduced, measured, carried),
                 m, operands, out, split, reduced, measured, carried)
<1> DEFINE n == Result(m, operands, out, split, reduced, measured, carried)
           f == [t \in Tiles |-> IF t \notin out.tiles THEN m[out.root][t]
                                 ELSE Computed(m, operands, t, split, reduced, measured, carried)]
<1>1. out.root \in Buffers /\ out.tiles \in SUBSET Tiles
  BY OperandsAre DEF Buffers
<1>2. m = [b \in Buffers |-> [t \in Tiles |-> m[b][t]]]
  BY DEF IsMemory
<1>3. n = [m EXCEPT ![out.root] = f]
  BY <1>1, <1>2 DEF Result, Computed
<1>4. \A t \in out.tiles : f[t] = Computed(m, operands, t, split, reduced, measured, carried)
  BY <1>1
<1>5. \A t \in Tiles : t \notin out.tiles => f[t] = m[out.root][t]
  OBVIOUS
<1>6. f = [t \in Tiles |-> f[t]]
  OBVIOUS
<1> HIDE DEF f, n
<1>7. n = [b \in Buffers |-> IF b = out.root THEN f ELSE m[b]]
  BY <1>1, <1>2, <1>3
<1>8. n[out.root] = f /\ \A b \in Buffers : b # out.root => n[b] = m[b]
  BY <1>1, <1>7
<1>9. \A b \in Buffers : n[b] = [t \in Tiles |-> n[b][t]]
  BY <1>2, <1>6, <1>8
<1>10. n = [b \in Buffers |-> [t \in Tiles |-> n[b][t]]]
  BY <1>7, <1>9
<1>11. IsMemory(n)
  BY <1>10 DEF IsMemory
<1> QED BY <1>4, <1>5, <1>8, <1>11 DEF n, Outcome

\* Readable operands give one result on what is and on what is promised.
LEMMA CoreReadsThePromise ==
  ASSUME MemoryInv, NEW operands \in SUBSET Operand(Buffers), \A v \in operands : Readable(v),
         NEW part \in SUBSET operands
  PROVE  AllContents(memory, part) = AllContents(promised, part)
<1>1. ASSUME NEW v \in part PROVE Contents(memory, v) = Contents(promised, v)
  <2>1. v \in Operand(Buffers) /\ v.tiles \in SUBSET Tiles
    BY OperandsAre
  <2>2. \A t \in v.tiles : memory[v.root][t] = promised[v.root][t]
    BY <2>1, ReadsThePromise
  <2> QED BY <2>2 DEF Contents
<1>2. {Contents(memory, v) : v \in part} = {Contents(promised, v) : v \in part}
  BY <1>1
<1> QED BY <1>2 DEF AllContents

\* The parts of a step of the core.
LEMMA CoreStepIs ==
  ASSUME IInv, Disciplined, NEW operands, NEW out, NEW split, NEW reduced, NEW measured,
         NEW carried, NEW declared, NEW kept,
         CoreStep(operands, out, split, reduced, measured, carried, declared, kept)
  PROVE  /\ out \in Operand(Vmem) /\ out \in Operand(Buffers) /\ out.root \in Buffers
         /\ operands \in SUBSET Operand(Buffers)
         /\ \A v \in operands : Readable(v) /\ v.root \in Buffers
         /\ CoreMayWrite(out) /\ NotBeingRead(out) /\ NotBeingCopiedTo(out)
         /\ ops < MaxOps /\ ops' = ops + 1
         /\ initialized' = initialized \cup {out.root}
         /\ memory' = Result(memory, operands, out, split, reduced, measured, carried)
         /\ promised' = Result(promised, operands, out, split, reduced, measured, carried)
         /\ UNCHANGED <<written, in_flight, copies, done>>
<1>1. Operand(Vmem) \subseteq Operand(Buffers)
  BY DEF Operand, Buffers
<1>2. out \in Operand(Buffers) /\ operands \in SUBSET Operand(Buffers) /\ CoreMayWrite(out)
  BY <1>1 DEF CoreStep, Compute
<1> QED BY <1>2, OperandsAre, CoreWritesApart DEF CoreStep, Compute, Issue

LEMMA CoreOutcome ==
  ASSUME IInv, Disciplined, NEW operands, NEW out, NEW split, NEW reduced, NEW measured,
         NEW carried, NEW declared, NEW kept,
         CoreStep(operands, out, split, reduced, measured, carried, declared, kept)
  PROVE  /\ Outcome(memory', memory, operands, out, split, reduced, measured, carried)
         /\ Outcome(promised', promised, operands, out, split, reduced, measured, carried)
<1>1. IsMemory(memory) /\ IsMemory(promised) /\ out \in Operand(Vmem)
  BY DEF IInv, MemoryInv, Types, CoreStep
<1>2. /\ memory' = Result(memory, operands, out, split, reduced, measured, carried)
      /\ promised' = Result(promised, operands, out, split, reduced, measured, carried)
  BY CoreStepIs
<1>3. Outcome(Result(memory, operands, out, split, reduced, measured, carried),
              memory, operands, out, split, reduced, measured, carried)
  BY <1>1, ResultAt
<1>4. Outcome(Result(promised, operands, out, split, reduced, measured, carried),
              promised, operands, out, split, reduced, measured, carried)
  BY <1>1, ResultAt
<1> QED BY <1>2, <1>3, <1>4

LEMMA CoreKeepsMemory ==
  ASSUME IInv, Disciplined, NEW operands, NEW out, NEW split, NEW reduced, NEW measured,
         NEW carried, NEW declared, NEW kept,
         CoreStep(operands, out, split, reduced, measured, carried, declared, kept)
  PROVE  MemoryInv'
<1> USE DEF IInv
<1>1. /\ out \in Operand(Vmem) /\ out.root \in Buffers /\ out.tiles \in SUBSET Tiles
      /\ operands \in SUBSET Operand(Buffers) /\ \A v \in operands : Readable(v)
      /\ NotBeingRead(out) /\ NotBeingCopiedTo(out)
      /\ ops' = ops + 1 /\ initialized' = initialized \cup {out.root}
      /\ UNCHANGED <<in_flight, copies, done>>
  BY CoreStepIs, OperandsAre
<1>2. /\ Outcome(memory', memory, operands, out, split, reduced, measured, carried)
      /\ Outcome(promised', promised, operands, out, split, reduced, measured, carried)
  BY CoreOutcome
<1>3. /\ IsMemory(memory') /\ IsMemory(promised')
      /\ \A b \in Buffers, t \in Tiles : b # out.root \/ t \notin out.tiles =>
           memory'[b][t] = memory[b][t] /\ promised'[b][t] = promised[b][t]
  BY <1>2 DEF Outcome
<1>4. \A t \in out.tiles : memory'[out.root][t] = promised'[out.root][t]
  <2>1. measured \in SUBSET operands /\ carried \in SUBSET operands
    BY DEF CoreStep
  <2>2. /\ AllContents(memory, operands) = AllContents(promised, operands)
        /\ AllContents(memory, measured) = AllContents(promised, measured)
        /\ AllContents(memory, carried) = AllContents(promised, carried)
    BY <1>1, <2>1, CoreReadsThePromise
  <2>3. \A t : Computed(memory, operands, t, split, reduced, measured, carried)
                 = Computed(promised, operands, t, split, reduced, measured, carried)
    BY <2>2, Zenon DEF Computed
  <2> QED BY <1>2, <2>3 DEF Outcome
<1>5. \A c \in in_flight : c.source.root # out.root /\ c.destination.root # out.root
  BY <1>1 DEF NotBeingRead, NotBeingCopiedTo
<1>6. \A c \in copies : c.transfer \in in_flight
  BY DEF MemoryInv, Types, IsCopy
<1>7. Types'
  <2>1. partial = [b \in Buffers |-> partial[b]] /\ statistics = [b \in Buffers |-> statistics[b]]
    BY DEF MemoryInv, Types
  <2>2. partial' = [b \in Buffers |-> partial'[b]] /\ statistics' = [b \in Buffers |-> statistics'[b]]
    BY <1>1, <2>1 DEF CoreStep
  <2>3. \A c \in copies' : IsCopy(c)'
    BY <1>1 DEF MemoryInv, Types, IsCopy
  <2> QED BY <1>1, <1>3, <2>2, <2>3 DEF MemoryInv, Types
<1>8. SemaphoresApart' /\ RootsApart'
  BY <1>1 DEF MemoryInv, SemaphoresApart, RootsApart
<1>9. Agrees'
  <2> SUFFICES ASSUME NEW b \in Buffers, NEW t \in Tiles
               PROVE  memory'[b][t] = promised'[b][t] \/ Awaited(b, t)'
    BY DEF Agrees
  <2>1. CASE b = out.root /\ t \in out.tiles
    BY <1>4, <2>1
  <2>2. CASE ~(b = out.root /\ t \in out.tiles)
    <3>1. memory'[b][t] = memory[b][t] /\ promised'[b][t] = promised[b][t]
      BY <1>3, <2>2
    <3> QED BY <1>1, <3>1 DEF MemoryInv, Agrees, Awaited
  <2> QED BY <2>1, <2>2
<1>10. Carries'
  <2> SUFFICES ASSUME NEW c \in copies, NEW q \in c.todo
               PROVE  memory'[c.transfer.source.root][q[1]] = promised'[c.transfer.destination.root][q[2]]
    BY <1>1 DEF Carries
  <2>1. c.transfer \in in_flight /\ q \in Pairs(c.transfer.source.tiles, c.transfer.destination.tiles)
    BY DEF MemoryInv, Types, IsCopy
  <2>2. /\ c.transfer.source.root \in Buffers /\ c.transfer.destination.root \in Buffers
        /\ q[1] \in Tiles /\ q[2] \in Tiles
    BY <2>1, TransfersAre DEF MemoryInv, Pairs
  <2>3. memory'[c.transfer.source.root][q[1]] = memory[c.transfer.source.root][q[1]]
    BY <1>3, <1>5, <2>1, <2>2
  <2>4. promised'[c.transfer.destination.root][q[2]] = promised[c.transfer.destination.root][q[2]]
    BY <1>3, <1>5, <2>1, <2>2
  <2> QED BY <2>3, <2>4 DEF MemoryInv, Carries
<1> QED BY <1>7, <1>8, <1>9, <1>10 DEF MemoryInv

LEMMA MatmulIsCore ==
  ASSUME NEW x \in Operand(Vmem), NEW y \in Operand(Vmem), NEW out \in Operand(Vmem),
         NEW sharding \in MatmulSharding, Matmul(x, y, out, sharding)
  PROVE  CoreStep({x, y}, out, sharding, {}, {}, {}, {}, NoStatistics)
<1>1. Unsharded => ((UNION {partial[v.root] : v \in {x, y}}) \cup sharding) \ {} = {}
  BY DEF Matmul, Reduced, Unsharded
<1> QED BY <1>1 DEF Matmul, CoreStep

LEMMA EinsumIsCore ==
  ASSUME NEW x \in Operand(Vmem), NEW y \in Operand(Vmem), NEW out \in Operand(Vmem),
         NEW sharding \in SUBSET Axes, Einsum(x, y, out, sharding)
  PROVE  CoreStep({x, y}, out, sharding, {}, {}, {}, sharding, NoStatistics)
<1>1. ((UNION {partial[v.root] : v \in {x, y}}) \cup sharding) \ {} = sharding
  BY DEF Einsum, Reduced
<1> QED BY <1>1 DEF Einsum, CoreStep

LEMMA UnaryIsCore ==
  ASSUME NEW x \in Operand(Vmem), NEW out \in Operand(Vmem), NEW declared \in SUBSET Axes,
         NEW f \in {"slice", "silu", "rms_norm_partial"}, Unary(f, x, out, declared)
  PROVE  \E measured, kept : CoreStep({x}, out, declared, {}, measured, {}, declared, kept)
<1>1. partial[x.root] = declared \/ partial[x.root] = {}
  BY DEF Unary, Reduced
<1>2. ((UNION {partial[v.root] : v \in {x}}) \cup declared) \ {} = declared
  BY <1>1
<1>3. CASE f = "rms_norm_partial"
  <2> DEFINE kept == [of |-> x.root, pending |-> declared]
  <2>1. /\ Compute({x}, out, declared, {}, {x}, {})
        /\ partial' = [partial EXCEPT ![out.root] = declared]
        /\ statistics' = [statistics EXCEPT ![out.root] = kept]
    BY <1>3 DEF Unary
  <2>2. CoreStep({x}, out, declared, {}, {x}, {}, declared, kept)
    BY <1>2, <2>1 DEF CoreStep
  <2> QED BY <2>2
<1>4. CASE f # "rms_norm_partial"
  <2>1. /\ Compute({x}, out, declared, {}, {}, {})
        /\ partial' = [partial EXCEPT ![out.root] = declared]
        /\ statistics' = [statistics EXCEPT ![out.root] = NoStatistics]
    BY <1>4 DEF Unary
  <2>2. CoreStep({x}, out, declared, {}, {}, {}, declared, NoStatistics)
    BY <1>2, <2>1 DEF CoreStep
  <2> QED BY <2>2
<1> QED BY <1>3, <1>4

LEMMA BinaryIsCore ==
  ASSUME NEW x \in Operand(Vmem), NEW y \in Operand(Vmem), NEW out \in Operand(Vmem),
         NEW declared \in SUBSET Axes,
         NEW f \in {"add", "embedding_lookup", "residual_inject", "rms_norm_apply"},
         Binary(f, x, y, out, declared)
  PROVE  CoreStep({x, y}, out, declared, {}, {}, {}, declared, NoStatistics)
<1>1. partial[x.root] \subseteq declared /\ partial[y.root] \subseteq declared
  <2>1. CASE f = "add" BY <2>1 DEF Binary
  <2>2. CASE f = "embedding_lookup" BY <2>2 DEF Binary, Reduced
  <2>3. CASE f = "residual_inject" BY <2>3 DEF Binary, Reduced
  <2>4. CASE f = "rms_norm_apply" BY <2>4 DEF Binary, Reduced
  <2> QED BY <2>1, <2>2, <2>3, <2>4
<1>2. ((UNION {partial[v.root] : v \in {x, y}}) \cup declared) \ {} = declared
  BY <1>1
<1> QED BY <1>2 DEF Binary, CoreStep

LEMMA CollectiveIsCore ==
  ASSUME NEW kind \in Kinds, NEW x \in Operand(Vmem), NEW out \in Operand(Vmem),
         NEW axis \in Axes, Collective(kind, x, out, axis)
  PROVE  \E reduced, declared, kept : CoreStep({x}, out, {}, reduced, {}, {x}, declared, kept)
<1> DEFINE reduced   == IF kind = "all_gather" THEN {} ELSE {axis}
           remaining == partial[x.root] \ reduced
           carried   == IF x.root = out.root THEN NoStatistics ELSE statistics[x.root]
           kept      == IF carried = NoStatistics THEN NoStatistics
                        ELSE [of |-> carried.of, pending |-> remaining]
<1>1. /\ Compute({x}, out, {}, reduced, {}, {x})
      /\ partial' = [partial EXCEPT ![out.root] = remaining]
      /\ statistics' = [statistics EXCEPT ![out.root] = kept]
  BY DEF Collective
<1>2. ((UNION {partial[v.root] : v \in {x}}) \cup {}) \ reduced = remaining
  OBVIOUS
<1>3. kept = NoStatistics \/ (statistics[x.root] # NoStatistics /\ kept.of = statistics[x.root].of)
  OBVIOUS
<1> HIDE DEF reduced, remaining, kept
<1>4. CoreStep({x}, out, {}, reduced, {}, {x}, remaining, kept)
  BY <1>1, <1>2, <1>3 DEF CoreStep
<1> QED BY <1>4

LEMMA OperationsAreCore ==
  ASSUME Mxu \/ Vector \/ Collectives
  PROVE  \E operands, out, split, reduced, measured, carried, declared, kept :
           CoreStep(operands, out, split, reduced, measured, carried, declared, kept)
<1>1. CASE Mxu
  <2>1. PICK x \in Operand(Vmem), y \in Operand(Vmem), out \in Operand(Vmem) :
          \/ \E sharding \in MatmulSharding : Matmul(x, y, out, sharding)
          \/ \E sharding \in SUBSET Axes : Einsum(x, y, out, sharding)
    BY <1>1 DEF Mxu
  <2>2. CASE \E sharding \in MatmulSharding : Matmul(x, y, out, sharding)
    <3>1. PICK sharding \in MatmulSharding : Matmul(x, y, out, sharding) BY <2>2
    <3>2. CoreStep({x, y}, out, sharding, {}, {}, {}, {}, NoStatistics) BY <3>1, MatmulIsCore
    <3> QED BY <3>2
  <2>3. CASE \E sharding \in SUBSET Axes : Einsum(x, y, out, sharding)
    <3>1. PICK sharding \in SUBSET Axes : Einsum(x, y, out, sharding) BY <2>3
    <3>2. CoreStep({x, y}, out, sharding, {}, {}, {}, sharding, NoStatistics) BY <3>1, EinsumIsCore
    <3> QED BY <3>2
  <2> QED BY <2>1, <2>2, <2>3
<1>2. CASE Vector
  <2>1. PICK x \in Operand(Vmem), out \in Operand(Vmem), declared \in SUBSET Axes :
          \/ \E f \in Functions \cap {"slice", "silu", "rms_norm_partial"} : Unary(f, x, out, declared)
          \/ \E f \in Functions \cap {"add", "embedding_lookup", "residual_inject", "rms_norm_apply"},
                y \in Operand(Vmem) : Binary(f, x, y, out, declared)
    BY <1>2 DEF Vector
  <2>2. CASE \E f \in {"slice", "silu", "rms_norm_partial"} : Unary(f, x, out, declared)
    <3>1. PICK measured, kept : CoreStep({x}, out, declared, {}, measured, {}, declared, kept)
      BY <2>2, UnaryIsCore
    <3> QED BY <3>1
  <2>3. CASE \E f \in {"add", "embedding_lookup", "residual_inject", "rms_norm_apply"},
                y \in Operand(Vmem) : Binary(f, x, y, out, declared)
    <3>1. PICK f \in {"add", "embedding_lookup", "residual_inject", "rms_norm_apply"},
               y \in Operand(Vmem) : Binary(f, x, y, out, declared)
      BY <2>3
    <3>2. CoreStep({x, y}, out, declared, {}, {}, {}, declared, NoStatistics)
      BY <3>1, BinaryIsCore
    <3> QED BY <3>2
  <2> QED BY <2>1, <2>2, <2>3
<1>3. CASE Collectives
  <2>1. PICK kind \in Kinds, x \in Operand(Vmem), out \in Operand(Vmem), axis \in Axes :
          Collective(kind, x, out, axis)
    BY <1>3 DEF Collectives
  <2>2. PICK reduced, declared, kept : CoreStep({x}, out, {}, reduced, {}, {x}, declared, kept)
    BY <2>1, CollectiveIsCore
  <2> QED BY <2>2
<1> QED BY <1>1, <1>2, <1>3

-----------------------------------------------------------------------------
(* With whole buffers, what counts as initialized was written.              *)

\* A copy of a whole buffer.
LEMMA WholeCopy ==
  ASSUME MemoryInv, Whole, NEW s, NEW x, NEW y, Starts(s, x, y)
  PROVE  /\ \A t \in Tiles : \E u \in Tiles : promised'[y.root][t] = promised[x.root][u]
         /\ \A b \in Buffers, t \in Tiles : b # y.root => promised'[b][t] = promised[b][t]
<1>1. x.tiles = Tiles /\ y.tiles = Tiles
  BY OperandsAre DEF Starts
<1>2. ASSUME NEW t \in Tiles
      PROVE  \E u \in Tiles : promised'[y.root][t] = promised[x.root][u]
  <2>1. PICK p \in Pairs(x.tiles, y.tiles) : p[2] = t
    BY <1>1, StartPromises
  <2>2. p[1] \in Tiles /\ promised'[y.root][p[2]] = promised[x.root][p[1]]
    BY <1>1, StartPromises
  <2> QED BY <2>1, <2>2
<1>3. \A b \in Buffers, t \in Tiles : b # y.root => promised'[b][t] = promised[b][t]
  BY StartPromises
<1> QED BY <1>2, <1>3

\* What a start does besides.
LEMMA StartIs ==
  ASSUME IInv, Disciplined, NEW s, NEW x, NEW y, Starts(s, x, y)
  PROVE  /\ x \in Operand(Buffers) /\ y \in Operand(Buffers)
         /\ x.root \in Buffers /\ y.root \in Buffers /\ x.root # y.root
         /\ Readable(x) /\ Reduced(x) /\ NoPendingWrite(y) /\ NotBeingRead(y)
         /\ Reuse = "never" => NotBeingCopiedTo(y) /\ y.root \notin initialized
         /\ in_flight' = in_flight \cup {Started(s, x, y)}
         /\ Started(s, x, y).source = x /\ Started(s, x, y).destination = y
         /\ UNCHANGED <<initialized, written, partial, statistics, ended>>
<1>1. x \in Operand(Buffers) /\ y \in Operand(Buffers) /\ CopyMayWrite(y)
  BY DEF Starts, DmaStart, StartTransfer
<1>2. NotBeingRead(y) /\ (Reuse = "never" => NotBeingCopiedTo(y) /\ y.root \notin initialized)
  BY <1>1, WritesNoSource
<1> QED BY <1>1, <1>2, OperandsAre DEF Starts, Started, DmaStart, StartTransfer

LEMMA WaitIs ==
  ASSUME MemoryInv, NEW c \in in_flight, DmaWait(c)
  PROVE  /\ c.source.root \in Buffers /\ c.destination.root \in Buffers
         /\ in_flight' = in_flight \ {c}
         /\ initialized' = initialized \cup {c.destination.root}
         /\ written' = written \cup ({c.destination.root} \cap Outputs)
         /\ partial'[c.destination.root] = partial[c.source.root]
         /\ statistics'[c.destination.root] = statistics[c.source.root]
         /\ \A b \in Buffers : b # c.destination.root =>
              partial'[b] = partial[b] /\ statistics'[b] = statistics[b]
         /\ promised' = promised
<1>1. c.source.root \in Buffers /\ c.destination.root \in Buffers
  BY TransfersAre DEF MemoryInv
<1>2. partial = [b \in Buffers |-> partial[b]] /\ statistics = [b \in Buffers |-> statistics[b]]
  BY DEF MemoryInv, Types
<1> QED BY <1>1, <1>2 DEF DmaWait

LEMMA CoreRecords ==
  ASSUME IInv, Disciplined, NEW operands, NEW out, NEW split, NEW reduced, NEW measured,
         NEW carried, NEW declared, NEW kept,
         CoreStep(operands, out, split, reduced, measured, carried, declared, kept)
  PROVE  /\ partial'[out.root] = declared /\ statistics'[out.root] = kept
         /\ \A b \in Buffers : b # out.root =>
              partial'[b] = partial[b] /\ statistics'[b] = statistics[b]
<1>1. partial = [b \in Buffers |-> partial[b]] /\ statistics = [b \in Buffers |-> statistics[b]]
  BY DEF IInv, MemoryInv, Types
<1>2. out.root \in Buffers
  BY CoreStepIs
<1>3. /\ partial' = [partial EXCEPT ![out.root] = declared]
      /\ statistics' = [statistics EXCEPT ![out.root] = kept]
  BY DEF CoreStep
<1> QED BY <1>1, <1>2, <1>3

\* With whole buffers the output is its promise throughout.
LEMMA WholeOutcome ==
  ASSUME IInv, Disciplined, Whole, NEW operands, NEW out, NEW split, NEW reduced, NEW measured,
         NEW carried, NEW declared, NEW kept,
         CoreStep(operands, out, split, reduced, measured, carried, declared, kept)
  PROVE  /\ \A t \in Tiles :
              promised'[out.root][t] = Computed(promised, operands, t, split, reduced, measured, carried)
         /\ \A b \in Buffers, t \in Tiles : b # out.root => promised'[b][t] = promised[b][t]
<1>1. Outcome(promised', promised, operands, out, split, reduced, measured, carried)
  BY CoreOutcome
<1>2. out.tiles = Tiles
  BY OperandsAre DEF CoreStep
<1> QED BY <1>1, <1>2 DEF Outcome

LEMMA StartKeepsDefined ==
  ASSUME IInv, Disciplined, Whole, NEW s, NEW x, NEW y, Starts(s, x, y)
  PROVE  DefinedInv'
<1>1. DefinedInv /\ MemoryInv
  BY DEF IInv
<1>2. x.root \in initialized /\ Defined(x.root)
  BY <1>1, StartIs DEF DefinedInv, Readable
<1>3. Defined(y.root)'
  BY <1>1, <1>2, WholeCopy DEF Defined
<1>4. \A b \in Buffers : Defined(b) => Defined(b)'
  BY <1>1, <1>3, WholeCopy DEF Defined
<1>5. initialized \subseteq Buffers /\ \A c \in in_flight : c.destination.root \in Buffers
  BY <1>1, TransfersAre DEF MemoryInv, Types
<1> QED BY <1>1, <1>2, <1>3, <1>4, <1>5, StartIs DEF DefinedInv

LEMMA WaitKeepsDefined ==
  ASSUME MemoryInv, DefinedInv, NEW c \in in_flight, DmaWait(c)
  PROVE  DefinedInv'
BY WaitIs DEF DefinedInv, Defined

LEMMA CoreKeepsDefined ==
  ASSUME IInv, Disciplined, Whole, NEW operands, NEW out, NEW split, NEW reduced, NEW measured,
         NEW carried, NEW declared, NEW kept,
         CoreStep(operands, out, split, reduced, measured, carried, declared, kept)
  PROVE  DefinedInv'
<1>1. DefinedInv /\ MemoryInv
  BY DEF IInv
<1>2. ops \in Nat /\ ops < MaxOps /\ MaxOps \in Nat
  BY <1>1, CoreStepIs, MaxOpsAssumption DEF MemoryInv, Types
<1>3. ASSUME NEW t \in Tiles PROVE promised'[out.root][t] # Undefined
  <2> DEFINE value == Computed(promised, operands, t, split, reduced, measured, carried)
  <2>1. promised'[out.root][t] = value
    BY WholeOutcome
  <2>2. value.id = <<ops + 1, t>>
    BY DEF Computed
  <2> HIDE DEF value
  <2>3. Undefined.id = <<MaxOps + 1, 0>>
    BY DEF Undefined
  <2> QED BY <1>2, <2>1, <2>2, <2>3
<1>4. \A b \in Buffers : Defined(b) => Defined(b)'
  BY <1>3, WholeOutcome DEF Defined
<1>5. initialized \subseteq Buffers /\ \A c \in in_flight : c.destination.root \in Buffers
  BY <1>1, TransfersAre DEF MemoryInv, Types
<1>6. Defined(out.root)'
  BY <1>3 DEF Defined
<1> QED BY <1>1, <1>4, <1>5, <1>6, CoreStepIs DEF DefinedInv

-----------------------------------------------------------------------------
(* Without sharded matmuls, the axes on record are those a value misses.    *)

LEMMA StartKeepsPartial ==
  ASSUME IInv, Disciplined, Whole, Unsharded, NEW s, NEW x, NEW y, Starts(s, x, y)
  PROVE  PartialInv'
<1>1. PartialInv /\ MemoryInv
  BY DEF IInv
<1>2. Misses(x.root, {})
  <2>1. x.root \in initialized /\ \A c \in in_flight : c.destination.root # x.root
    BY StartIs DEF Readable
  <2>2. Misses(x.root, partial[x.root])
    BY <1>1, <2>1 DEF PartialInv
  <2>3. partial[x.root] = {}
    BY StartIs DEF Reduced
  <2> QED BY <2>2, <2>3
<1>3. Misses(y.root, {})'
  BY <1>1, <1>2, WholeCopy DEF Misses
<1>4. \A b \in Buffers : \A axes : b # y.root /\ Misses(b, axes) => Misses(b, axes)'
  BY <1>1, WholeCopy DEF Misses
<1>5. initialized \subseteq Buffers /\ \A c \in in_flight : c.destination.root \in Buffers
  BY <1>1, TransfersAre DEF MemoryInv, Types
<1>6. ASSUME NEW b \in initialized', \A c \in in_flight' : c.destination.root # b
      PROVE  Misses(b, partial[b])'
  <2>1. b \in initialized /\ b # y.root /\ \A c \in in_flight : c.destination.root # b
    BY <1>6, StartIs
  <2>2. Misses(b, partial[b]) /\ b \in Buffers
    BY <1>1, <1>5, <2>1 DEF PartialInv
  <2>3. partial' = partial
    BY StartIs
  <2> QED BY <1>4, <2>1, <2>2, <2>3
<1>7. ASSUME NEW c \in in_flight'
      PROVE  partial'[c.source.root] = {} /\ Misses(c.destination.root, {})'
  <2>1. CASE c = Started(s, x, y)
    BY <1>3, <2>1, StartIs DEF Reduced
  <2>2. CASE c \in in_flight
    BY <1>1, <1>3, <1>4, <1>5, <2>2, StartIs DEF PartialInv
  <2> QED BY <2>1, <2>2, StartIs
<1>8. \A b \in Args : partial'[b] = {}
  BY <1>1, StartIs DEF PartialInv
<1> QED BY <1>6, <1>7, <1>8 DEF PartialInv

LEMMA WaitKeepsPartial ==
  ASSUME MemoryInv, PartialInv, NEW c \in in_flight, DmaWait(c)
  PROVE  PartialInv'
<1>1. Args \subseteq Buffers
  BY DEF Buffers
<1>2. \A b, axes : Misses(b, axes) => Misses(b, axes)'
  BY WaitIs DEF Misses
<1>3. partial[c.source.root] = {} /\ Misses(c.destination.root, {})
  BY DEF PartialInv
<1>4. initialized \subseteq Buffers
  BY DEF MemoryInv, Types
<1>5. ASSUME NEW b \in initialized', \A d \in in_flight' : d.destination.root # b
      PROVE  Misses(b, partial[b])'
  <2>1. CASE b = c.destination.root
    <3>1. partial'[b] = {}
      BY <1>3, <2>1, WaitIs
    <3>2. Misses(b, {})'
      BY <1>2, <1>3, <2>1
    <3> QED BY <3>1, <3>2
  <2>2. CASE b # c.destination.root
    <3>1. b \in initialized /\ b \in Buffers /\ \A d \in in_flight : d.destination.root # b
      BY <1>4, <1>5, <2>2, WaitIs
    <3>2. Misses(b, partial[b])' = Misses(b, partial[b])
      BY <2>2, <3>1, WaitIs DEF Misses
    <3> QED BY <3>1, <3>2 DEF PartialInv
  <2> QED BY <2>1, <2>2
<1>6. ASSUME NEW d \in in_flight'
      PROVE  partial'[d.source.root] = {} /\ Misses(d.destination.root, {})'
  <2>1. d \in in_flight
    BY WaitIs
  <2>2. d.source.root # c.destination.root /\ d.source.root \in Buffers
    BY <2>1, TransfersAre DEF MemoryInv, RootsApart
  <2> QED BY <1>2, <2>1, <2>2, WaitIs DEF PartialInv
<1>7. \A b \in Args : partial'[b] = {}
  BY <1>1, <1>3, WaitIs DEF PartialInv
<1> QED BY <1>5, <1>6, <1>7 DEF PartialInv

LEMMA CoreKeepsPartial ==
  ASSUME IInv, Disciplined, Whole, Unsharded, NEW operands, NEW out, NEW split, NEW reduced,
         NEW measured, NEW carried, NEW declared, NEW kept,
         CoreStep(operands, out, split, reduced, measured, carried, declared, kept)
  PROVE  PartialInv'
<1>1. PartialInv /\ MemoryInv
  BY DEF IInv
<1>2. \A v \in operands : v.tiles = Tiles /\ Tiles # {} /\ Misses(v.root, partial[v.root])
  BY <1>1, CoreStepIs, OperandsAre DEF PartialInv, Readable
<1>3. UNION {z.pending : z \in AllContents(promised, operands)} = UNION {partial[v.root] : v \in operands}
  <2>1. \A v \in operands : Contents(promised, v) = {promised[v.root][t] : t \in Tiles}
    BY <1>2 DEF Contents
  <2>2. \A z : z \in AllContents(promised, operands) <=>
                 \E v \in operands : \E t \in Tiles : z = promised[v.root][t]
    BY <2>1 DEF AllContents
  <2>3. \A v \in operands : \A t \in Tiles : promised[v.root][t].pending = partial[v.root]
    BY <1>2 DEF Misses
  <2>4. ASSUME NEW axis
        PROVE  axis \in UNION {z.pending : z \in AllContents(promised, operands)}
                 <=> axis \in UNION {partial[v.root] : v \in operands}
    <3>1. axis \in UNION {z.pending : z \in AllContents(promised, operands)}
            <=> \E v \in operands : \E t \in Tiles : axis \in promised[v.root][t].pending
      BY <2>2
    <3>2. axis \in UNION {partial[v.root] : v \in operands}
            <=> \E v \in operands : axis \in partial[v.root]
      OBVIOUS
    <3>3. (\E v \in operands : \E t \in Tiles : axis \in promised[v.root][t].pending)
            <=> \E v \in operands : axis \in partial[v.root]
      BY <1>2, <2>3
    <3> QED BY <3>1, <3>2, <3>3
  <2> QED BY <2>4
<1>4. Misses(out.root, declared)'
  <2> SUFFICES ASSUME NEW t \in Tiles PROVE promised'[out.root][t].pending = declared
    BY DEF Misses
  <2>1. promised'[out.root][t] = Computed(promised, operands, t, split, reduced, measured, carried)
    BY WholeOutcome
  <2>2. promised'[out.root][t].pending
          = ((UNION {z.pending : z \in AllContents(promised, operands)}) \cup split) \ reduced
    BY <2>1 DEF Computed
  <2>3. ((UNION {partial[v.root] : v \in operands}) \cup split) \ reduced = declared
    BY DEF CoreStep
  <2> QED BY <1>3, <2>2, <2>3
<1>5. \A b \in Buffers : \A axes : b # out.root /\ Misses(b, axes) => Misses(b, axes)'
  BY WholeOutcome DEF Misses
<1>6. initialized \subseteq Buffers /\ Args \subseteq Buffers /\ out.root \notin Args
  BY <1>1, BuffersAssumption, OperandsAre DEF MemoryInv, Types, Buffers, CoreStep
<1>7. ASSUME NEW b \in initialized', \A c \in in_flight' : c.destination.root # b
      PROVE  Misses(b, partial[b])'
  <2>1. CASE b = out.root
    BY <1>4, <2>1, CoreRecords
  <2>2. CASE b # out.root
    <3>1. b \in initialized /\ b \in Buffers /\ \A c \in in_flight : c.destination.root # b
      BY <1>6, <1>7, <2>2, CoreStepIs
    <3>2. Misses(b, partial[b]) /\ partial'[b] = partial[b]
      BY <1>1, <2>2, <3>1, CoreRecords DEF PartialInv
    <3> QED BY <1>5, <2>2, <3>1, <3>2
  <2> QED BY <2>1, <2>2
<1>8. ASSUME NEW c \in in_flight'
      PROVE  partial'[c.source.root] = {} /\ Misses(c.destination.root, {})'
  <2>1. c \in in_flight /\ c.source.root # out.root /\ c.destination.root # out.root
    BY CoreStepIs DEF NotBeingRead, NotBeingCopiedTo
  <2>2. c.source.root \in Buffers /\ c.destination.root \in Buffers
    BY <1>1, <2>1, TransfersAre DEF MemoryInv
  <2> QED BY <1>1, <1>5, <2>1, <2>2, CoreRecords DEF PartialInv
<1>9. \A b \in Args : partial'[b] = {}
  BY <1>1, <1>6, CoreRecords DEF PartialInv
<1> QED BY <1>7, <1>8, <1>9 DEF PartialInv

-----------------------------------------------------------------------------
(* Where nothing is written twice, statistics stay true of their subject.   *)

\* What is not written keeps its values.
LEMMA StaysTheSame ==
  ASSUME NEW b, \A t \in Tiles : promised'[b][t] = promised[b][t]
  PROVE  PromisedOf(b)' = PromisedOf(b) /\ PromisedIds(b)' = PromisedIds(b)
<1>1. PromisedIds(b)' = PromisedIds(b)
  BY DEF PromisedIds
<1>2. {promised'[b][t].of : t \in Tiles} = {promised[b][t].of : t \in Tiles}
  OBVIOUS
<1> QED BY <1>1, <1>2 DEF PromisedOf

LEMMA StartKeepsStatistics ==
  ASSUME IInv, Whole, Reuse = "never", NEW s, NEW x, NEW y, Starts(s, x, y)
  PROVE  StatisticsInv'
<1>1. MemoryInv /\ DefinedInv /\ StatisticsInv /\ Disciplined
  BY DEF IInv, Disciplined
<1>2. /\ x.root \in Buffers /\ y.root \in Buffers /\ x.root # y.root
      /\ y.root \notin initialized /\ NotBeingCopiedTo(y)
      /\ in_flight' = in_flight \cup {Started(s, x, y)}
      /\ Started(s, x, y).source = x /\ Started(s, x, y).destination = y
      /\ UNCHANGED <<initialized, statistics>>
  BY <1>1, StartIs
<1>3. \A b \in Buffers : b # y.root => PromisedOf(b)' = PromisedOf(b) /\ PromisedIds(b)' = PromisedIds(b)
  BY <1>1, WholeCopy, StaysTheSame
<1>4. PromisedOf(y.root)' \subseteq PromisedOf(x.root)
  <2> SUFFICES ASSUME NEW t \in Tiles PROVE promised'[y.root][t].of \subseteq PromisedOf(x.root)
    BY DEF PromisedOf
  <2>1. PICK u \in Tiles : promised'[y.root][t] = promised[x.root][u]
    BY <1>1, WholeCopy
  <2> QED BY <2>1 DEF PromisedOf
<1>5. initialized \subseteq Buffers
  BY <1>1 DEF MemoryInv, Types
<1>6. ASSUME NEW b \in Buffers, statistics'[b] # NoStatistics
      PROVE  /\ b \in initialized' /\ statistics'[b].of \in initialized'
             /\ PromisedOf(b)' \subseteq PromisedIds(statistics[b].of)'
  <2>1. /\ b \in initialized /\ statistics[b].of \in initialized
        /\ PromisedOf(b) \subseteq PromisedIds(statistics[b].of)
    BY <1>1, <1>2, <1>6 DEF StatisticsInv
  <2>2. b # y.root /\ statistics[b].of # y.root /\ statistics[b].of \in Buffers
    BY <1>2, <1>5, <2>1
  <2> QED BY <1>2, <1>3, <2>1, <2>2
<1>7. ASSUME NEW c \in in_flight'
      PROVE  PromisedOf(c.destination.root)' \subseteq PromisedOf(c.source.root)'
  <2>1. CASE c = Started(s, x, y)
    BY <1>2, <1>3, <1>4, <2>1
  <2>2. CASE c \in in_flight
    <3>1. c.destination.root # y.root /\ c.source.root # y.root
      BY <1>1, <1>2, <2>2 DEF NotBeingCopiedTo, DefinedInv
    <3>2. c.source.root \in Buffers /\ c.destination.root \in Buffers
      BY <1>1, <2>2, TransfersAre DEF MemoryInv
    <3> QED BY <1>1, <1>3, <2>2, <3>1, <3>2 DEF StatisticsInv
  <2> QED BY <1>2, <2>1, <2>2
<1> QED BY <1>2, <1>6, <1>7 DEF StatisticsInv, PromisedIds

LEMMA WaitKeepsStatistics ==
  ASSUME MemoryInv, DefinedInv, StatisticsInv, NEW c \in in_flight, DmaWait(c)
  PROVE  StatisticsInv'
<1>1. /\ c.source.root \in Buffers /\ c.destination.root \in Buffers
      /\ in_flight' = in_flight \ {c}
      /\ initialized' = initialized \cup {c.destination.root}
      /\ statistics'[c.destination.root] = statistics[c.source.root]
      /\ \A b \in Buffers : b # c.destination.root => statistics'[b] = statistics[b]
      /\ promised' = promised
  BY WaitIs
<1>2. \A b : PromisedOf(b)' = PromisedOf(b) /\ PromisedIds(b)' = PromisedIds(b)
  BY <1>1 DEF PromisedOf, PromisedIds
<1>3. ASSUME NEW b \in Buffers, statistics'[b] # NoStatistics
      PROVE  /\ b \in initialized' /\ statistics'[b].of \in initialized'
             /\ PromisedOf(b) \subseteq PromisedIds(statistics'[b].of)
  <2>1. CASE b = c.destination.root
    <3>1. statistics'[b] = statistics[c.source.root] /\ statistics[c.source.root] # NoStatistics
      BY <1>1, <1>3, <2>1
    <3>2. /\ statistics[c.source.root].of \in initialized
          /\ PromisedOf(c.source.root) \subseteq PromisedIds(statistics[c.source.root].of)
      BY <1>1, <3>1 DEF StatisticsInv
    <3>3. PromisedOf(b) \subseteq PromisedOf(c.source.root)
      BY <2>1 DEF StatisticsInv
    <3> QED BY <1>1, <2>1, <3>1, <3>2, <3>3
  <2>2. CASE b # c.destination.root
    BY <1>1, <1>3, <2>2 DEF StatisticsInv
  <2> QED BY <2>1, <2>2
<1>4. \A d \in in_flight' : PromisedOf(d.destination.root) \subseteq PromisedOf(d.source.root)
  BY <1>1 DEF StatisticsInv
<1> QED BY <1>1, <1>3, <1>4 DEF StatisticsInv, PromisedOf, PromisedIds

LEMMA CoreKeepsStatistics ==
  ASSUME IInv, Whole, Reuse = "never", NEW operands, NEW out, NEW split, NEW reduced,
         NEW measured, NEW carried, NEW declared, NEW kept,
         CoreStep(operands, out, split, reduced, measured, carried, declared, kept)
  PROVE  StatisticsInv'
<1>1. MemoryInv /\ DefinedInv /\ StatisticsInv /\ Disciplined
  BY DEF IInv, Disciplined
<1>2. /\ out \in Operand(Buffers) /\ out.root \in Buffers /\ NotBeingCopiedTo(out)
      /\ initialized' = initialized \cup {out.root} /\ in_flight' = in_flight
      /\ \A v \in operands : v.root \in Buffers /\ v.root \in initialized
  BY <1>1, CoreStepIs DEF Readable
<1>3. out.root \notin initialized
  BY <1>1, CoreStepIs, WritesNoSource DEF CoreMayWrite
<1>4. \A b \in Buffers : b # out.root => PromisedOf(b)' = PromisedOf(b) /\ PromisedIds(b)' = PromisedIds(b)
  BY <1>1, WholeOutcome, StaysTheSame
<1>5. /\ statistics'[out.root] = kept
      /\ \A b \in Buffers : b # out.root => statistics'[b] = statistics[b]
  BY <1>1, CoreRecords
<1>6. initialized \subseteq Buffers
  BY <1>1 DEF MemoryInv, Types
<1>7. \A t \in Tiles : promised'[out.root][t].of
        = {z.id : z \in AllContents(promised, measured)}
            \cup UNION {z.of : z \in AllContents(promised, carried)}
  <2> SUFFICES ASSUME NEW t \in Tiles
               PROVE  promised'[out.root][t].of
                        = {z.id : z \in AllContents(promised, measured)}
                            \cup UNION {z.of : z \in AllContents(promised, carried)}
    OBVIOUS
  <2>1. promised'[out.root][t] = Computed(promised, operands, t, split, reduced, measured, carried)
    BY <1>1, WholeOutcome
  <2> QED BY <2>1 DEF Computed
<1>8. ASSUME NEW v \in operands
      PROVE  AllContents(promised, {v}) = {promised[v.root][t] : t \in Tiles}
  <2>1. v.tiles = Tiles
    BY <1>1, CoreStepIs, OperandsAre
  <2> QED BY <2>1 DEF AllContents, Contents
<1>9. AllContents(promised, {}) = {}
  BY DEF AllContents
<1>10. ASSUME kept # NoStatistics
       PROVE  kept.of \in initialized /\ PromisedOf(out.root)' \subseteq PromisedIds(kept.of)
  <2>1. CASE \E x \in operands : measured = {x} /\ carried = {} /\ kept.of = x.root
    <3>1. PICK x \in operands : measured = {x} /\ carried = {} /\ kept.of = x.root
      BY <2>1
    <3>2. \A t \in Tiles : promised'[out.root][t].of
            = {z.id : z \in {promised[x.root][u] : u \in Tiles}}
      BY <1>7, <1>8, <1>9, <3>1
    <3>3. {z.id : z \in {promised[x.root][u] : u \in Tiles}} = PromisedIds(x.root)
      BY DEF PromisedIds
    <3>4. PromisedOf(out.root)' \subseteq PromisedIds(x.root)
      BY <3>2, <3>3 DEF PromisedOf
    <3> QED BY <1>2, <3>1, <3>4
  <2>2. CASE \E x \in operands : /\ measured = {} /\ carried = {x}
                                 /\ statistics[x.root] # NoStatistics
                                 /\ kept.of = statistics[x.root].of
    <3>1. PICK x \in operands : /\ measured = {} /\ carried = {x}
                                /\ statistics[x.root] # NoStatistics
                                /\ kept.of = statistics[x.root].of
      BY <2>2
    <3>2. \A t \in Tiles : promised'[out.root][t].of
            = UNION {z.of : z \in {promised[x.root][u] : u \in Tiles}}
      BY <1>7, <1>8, <1>9, <3>1
    <3>3. UNION {z.of : z \in {promised[x.root][u] : u \in Tiles}} = PromisedOf(x.root)
      BY DEF PromisedOf
    <3>4. PromisedOf(out.root)' \subseteq PromisedOf(x.root)
      BY <3>2, <3>3 DEF PromisedOf
    <3> QED BY <1>1, <1>2, <3>1, <3>4 DEF StatisticsInv
  <2> QED BY <1>10, <2>1, <2>2 DEF CoreStep
<1>11. ASSUME NEW b \in Buffers, statistics'[b] # NoStatistics
       PROVE  /\ b \in initialized' /\ statistics'[b].of \in initialized'
              /\ \A of \in {statistics'[b].of} : PromisedOf(b)' \subseteq PromisedIds(of)'
  <2>1. CASE b = out.root
    <3>1. kept # NoStatistics /\ statistics'[b] = kept
      BY <1>5, <1>11, <2>1
    <3>2. kept.of \in initialized /\ PromisedOf(b)' \subseteq PromisedIds(kept.of)
      BY <1>10, <2>1, <3>1
    <3>3. kept.of \in Buffers /\ kept.of # out.root
      BY <1>3, <1>6, <3>2
    <3>4. PromisedIds(kept.of)' = PromisedIds(kept.of)
      BY <1>4, <3>3
    <3> QED BY <1>2, <2>1, <3>1, <3>2, <3>4
  <2>2. CASE b # out.root
    <3>1. statistics'[b] = statistics[b]
      BY <1>5, <2>2
    <3>2. /\ b \in initialized /\ statistics[b].of \in initialized
          /\ PromisedOf(b) \subseteq PromisedIds(statistics[b].of)
      BY <1>1, <1>11, <3>1 DEF StatisticsInv
    <3>3. PICK of \in Buffers : of = statistics[b].of /\ of # out.root
      BY <1>3, <1>6, <3>2
    <3>4. PromisedOf(b)' = PromisedOf(b) /\ PromisedIds(of)' = PromisedIds(of)
      BY <1>4, <2>2, <3>3
    <3> QED BY <1>2, <3>1, <3>2, <3>3, <3>4
  <2> QED BY <2>1, <2>2
<1>12. ASSUME NEW c \in in_flight'
       PROVE  PromisedOf(c.destination.root)' \subseteq PromisedOf(c.source.root)'
  <2>1. c \in in_flight /\ c.destination.root # out.root /\ c.source.root # out.root
    BY <1>1, <1>2, <1>3 DEF NotBeingCopiedTo, DefinedInv
  <2>2. c.source.root \in Buffers /\ c.destination.root \in Buffers
    BY <1>1, <2>1, TransfersAre DEF MemoryInv
  <2> QED BY <1>1, <1>4, <2>1, <2>2 DEF StatisticsInv, PromisedOf
<1> QED BY <1>11, <1>12 DEF StatisticsInv, PromisedOf, PromisedIds

-----------------------------------------------------------------------------
(* The invariant holds initially and every step keeps it.                   *)

\* A kernel ends with its outputs written and no copy in flight.
EndedInv == ended => in_flight = {} /\ Outputs \subseteq written

LEMMA Initially == ASSUME Init PROVE IInv /\ EndedInv
<1>1. \A b \in Inputs, t \in Tiles : promised[b][t] = [id |-> <<0, t>>, pending |-> {}, of |-> {}]
  BY DEF Init, Buffers, Args
<1>2. MemoryInv
  <2>1. IsMemory(memory) /\ promised = memory
    BY DEF Init, IsMemory
  <2>2. Types
    BY <2>1 DEF Init, Types, Buffers, Args
  <2>3. SemaphoresApart /\ RootsApart /\ Carries
    BY DEF Init, SemaphoresApart, RootsApart, Carries
  <2>4. Agrees
    BY <2>1 DEF Agrees
  <2> QED BY <2>2, <2>3, <2>4 DEF MemoryInv
<1>3. DefinedInv
  <2>1. ASSUME NEW b \in Inputs, NEW t \in Tiles PROVE promised[b][t] # Undefined
    <3>1. Undefined.id = <<MaxOps + 1, 0>>
      BY DEF Undefined
    <3>2. promised[b][t].id = <<0, t>>
      <4>1. [id |-> <<0, t>>, pending |-> {}, of |-> {}].id = <<0, t>>
        OBVIOUS
      <4>2. promised[b][t] = [id |-> <<0, t>>, pending |-> {}, of |-> {}]
        BY <1>1
      <4> QED BY <4>1, <4>2, Zenon
    <3>3. 0 # MaxOps + 1
      BY MaxOpsAssumption
    <3>4. <<0, t>> # <<MaxOps + 1, 0>>
      BY <3>3
    <3> QED BY <3>1, <3>2, <3>4
  <2> QED BY <2>1 DEF Init, DefinedInv, Defined
<1>4. PartialInv
  <2>1. \A b \in Inputs : Misses(b, {}) /\ partial[b] = {}
    BY <1>1 DEF Misses, Init, Buffers, Args
  <2> QED BY <2>1 DEF Init, PartialInv, Buffers
<1>5. StatisticsInv
  BY DEF Init, StatisticsInv
<1>6. EndedInv
  BY DEF Init, EndedInv
<1> QED BY <1>2, <1>3, <1>4, <1>5, <1>6 DEF IInv

\* What the verifier knows stays true while its records and the promise stay.
LEMMA NothingLearned ==
  ASSUME IInv, MemoryInv',
         UNCHANGED <<initialized, written, partial, statistics, in_flight, promised>>
  PROVE  IInv'
<1>1. DefinedInv => DefinedInv'
  BY DEF DefinedInv, Defined
<1>2. PartialInv => PartialInv'
  BY DEF PartialInv, Misses
<1>3. StatisticsInv => StatisticsInv'
  BY DEF StatisticsInv, PromisedOf, PromisedIds
<1> QED BY <1>1, <1>2, <1>3 DEF IInv

LEMMA EveryStep == ASSUME Disciplined, IInv, [Next]_vars PROVE IInv'
<1>1. CASE Transfers
  <2>1. PICK s, x, y : Starts(s, x, y)
    BY <1>1, TransfersStart
  <2>2. MemoryInv'
    BY <2>1, StartKeepsMemory
  <2>3. Whole => DefinedInv'
    BY <2>1, StartKeepsDefined
  <2>4. Whole /\ Unsharded => PartialInv'
    BY <2>1, StartKeepsPartial
  <2>5. Whole /\ Reuse = "never" => StatisticsInv'
    BY <2>1, StartKeepsStatistics
  <2> QED BY <2>2, <2>3, <2>4, <2>5 DEF IInv
<1>2. CASE \E c \in in_flight : DmaWait(c)
  <2>1. PICK c \in in_flight : DmaWait(c)
    BY <1>2
  <2>2. MemoryInv /\ MemoryInv'
    BY <2>1, WaitKeepsMemory DEF IInv
  <2>3. Whole => DefinedInv'
    BY <2>1, <2>2, WaitKeepsDefined DEF IInv
  <2>4. Whole /\ Unsharded => PartialInv'
    BY <2>1, <2>2, WaitKeepsPartial DEF IInv
  <2>5. Whole /\ Reuse = "never" => StatisticsInv'
    BY <2>1, <2>2, WaitKeepsStatistics DEF IInv
  <2> QED BY <2>2, <2>3, <2>4, <2>5 DEF IInv
<1>3. CASE \E c \in copies : \E p \in c.todo : Move(c, p)
  <2>1. PICK c \in copies : \E p \in c.todo : Move(c, p)
    BY <1>3
  <2>2. PICK p \in c.todo : Move(c, p)
    BY <2>1
  <2>3. MemoryInv'
    BY <2>2, MoveKeepsMemory DEF IInv
  <2> QED BY <2>2, <2>3, NothingLearned DEF Move
<1>4. CASE Mxu \/ Vector \/ Collectives
  <2>1. PICK operands, out, split, reduced, measured, carried, declared, kept :
          CoreStep(operands, out, split, reduced, measured, carried, declared, kept)
    BY <1>4, OperationsAreCore
  <2>2. MemoryInv'
    BY <2>1, CoreKeepsMemory
  <2>3. Whole => DefinedInv'
    BY <2>1, CoreKeepsDefined
  <2>4. Whole /\ Unsharded => PartialInv'
    BY <2>1, CoreKeepsPartial
  <2>5. Whole /\ Reuse = "never" => StatisticsInv'
    BY <2>1, CoreKeepsStatistics
  <2> QED BY <2>2, <2>3, <2>4, <2>5 DEF IInv
<1>5. CASE Yield \/ UNCHANGED vars
  <2>1. UNCHANGED <<initialized, written, partial, statistics, in_flight,
                    ops, memory, copies, done, promised>>
    BY <1>5 DEF Yield, Accept, vars
  <2>2. Types' /\ RootsApart'
    BY <2>1 DEF IInv, MemoryInv, Types, IsCopy, IsMemory, RootsApart
  <2>3. SemaphoresApart'
    BY <2>1 DEF IInv, MemoryInv, SemaphoresApart
  <2>4. Agrees' /\ Carries'
    BY <2>1 DEF IInv, MemoryInv, Agrees, Awaited, Carries
  <2>5. MemoryInv'
    BY <2>2, <2>3, <2>4 DEF MemoryInv
  <2> QED BY <2>1, <2>5, NothingLearned
<1> QED BY <1>1, <1>2, <1>3, <1>4, <1>5 DEF Next

LEMMA EndingStep == ASSUME MemoryInv, EndedInv, [Next]_vars PROVE EndedInv'
<1>1. CASE Transfers
  BY <1>1 DEF Transfers, DmaStart, StartTransfer, Issue, EndedInv
<1>2. CASE \E c \in in_flight : DmaWait(c)
  BY <1>2 DEF DmaWait, EndedInv
<1>3. CASE \E c \in copies : \E p \in c.todo : Move(c, p)
  BY <1>3 DEF Move, EndedInv
<1>4. CASE Mxu \/ Vector \/ Collectives
  <2>1. PICK operands, out, split, reduced, measured, carried, declared, kept :
          CoreStep(operands, out, split, reduced, measured, carried, declared, kept)
    BY <1>4, OperationsAreCore
  <2> QED BY <2>1 DEF CoreStep, Compute, Issue, EndedInv
<1>5. CASE Yield \/ UNCHANGED vars
  BY <1>5 DEF Yield, Accept, vars, EndedInv
<1> QED BY <1>1, <1>2, <1>3, <1>4, <1>5 DEF Next

\* What the verifier records of a disciplined schedule is true of the memory
\* the copies in flight are still filling.
THEOREM Invariance == ASSUME Disciplined PROVE Spec => [](IInv /\ EndedInv)
<1>1. Init => IInv /\ EndedInv
  BY Initially
<1>2. IInv /\ EndedInv /\ [Next]_vars => (IInv /\ EndedInv)'
  <2> SUFFICES ASSUME IInv, EndedInv, [Next]_vars PROVE IInv' /\ EndedInv'
    OBVIOUS
  <2>1. IInv'
    BY EveryStep
  <2>2. EndedInv'
    BY EndingStep DEF IInv
  <2> QED BY <2>1, <2>2
<1> QED BY <1>1, <1>2, PTL DEF Spec

-----------------------------------------------------------------------------
(* What the verifier promises.                                              *)

\* An operand the verifier lets an operation read holds what the program
\* order promises, whatever the copies in flight have moved so far: if a
\* buffer is written again only while no copy uses it.
THEOREM ReadsAreOrdered == ASSUME Disciplined PROVE Spec => []ReadableIsPromised
<1>1. IInv => ReadableIsPromised
  <2> SUFFICES ASSUME IInv, NEW v \in Operand(Buffers), Readable(v), NEW t \in v.tiles
               PROVE  memory[v.root][t] = promised[v.root][t]
    BY DEF ReadableIsPromised, Operands
  <2>1. t \in Tiles
    BY OperandsAre
  <2> QED BY <2>1, ReadsThePromise DEF IInv
<1> QED BY <1>1, Invariance, PTL

LEMMA ReadsWhole ==
  ASSUME IInv, Whole, NEW v \in Operands
  PROVE  /\ v.root \in Buffers /\ v.root \in initialized
         /\ \A c \in in_flight : c.destination.root # v.root
         /\ Holds(v) = {promised[v.root][t] : t \in Tiles}
<1>1. v \in Operand(Buffers) /\ Readable(v)
  BY DEF Operands
<1>2. v.tiles = Tiles /\ v.root \in Buffers
  BY <1>1, OperandsAre
<1>3. \A t \in Tiles : memory[v.root][t] = promised[v.root][t]
  BY <1>1, ReadsThePromise DEF IInv
<1>4. Holds(v) = {promised[v.root][t] : t \in Tiles}
  BY <1>2, <1>3 DEF Holds, Contents
<1> QED BY <1>1, <1>2, <1>4 DEF Readable

\* With operands that name whole buffers, no operation reads what nothing
\* has written.
THEOREM ReadsAreDefined == ASSUME Disciplined, Whole PROVE Spec => []ReadableIsDefined
<1>1. IInv => ReadableIsDefined
  <2> SUFFICES ASSUME IInv, NEW v \in Operands PROVE Undefined \notin Holds(v)
    BY DEF ReadableIsDefined
  <2>1. \A t \in Tiles : promised[v.root][t] # Undefined
    BY ReadsWhole DEF IInv, DefinedInv, Defined
  <2> QED BY <2>1, ReadsWhole
<1> QED BY <1>1, Invariance, PTL

\* With whole buffers and no matmul over a sharded dimension, the axes on
\* record are those the values read are still partial sums over.
THEOREM PartialSumsAreTracked ==
  ASSUME Disciplined, Whole, Unsharded PROVE Spec => []PartialIsTracked
<1>1. IInv => PartialIsTracked
  <2> SUFFICES ASSUME IInv, NEW v \in Operands, NEW z \in Holds(v)
               PROVE  z.pending = partial[v.root]
    BY DEF PartialIsTracked
  <2>1. Misses(v.root, partial[v.root])
    BY ReadsWhole DEF IInv, PartialInv
  <2> QED BY <2>1, ReadsWhole DEF Misses
<1> QED BY <1>1, Invariance, PTL

\* Where no buffer is written twice, the statistics rms_norm_apply accepts
\* were computed from the value it normalizes.
THEOREM StatisticsStayCurrent ==
  ASSUME Whole, Reuse = "never" PROVE Spec => []StatisticsAreCurrent
<1>1. IInv => StatisticsAreCurrent
  <2> SUFFICES ASSUME IInv, NEW x \in Operands, NEW s \in Operands, StatisticsMatch(x, s)
               PROVE  UNION {y.of : y \in Holds(s)} \subseteq {y.id : y \in Holds(x)}
    BY DEF StatisticsAreCurrent
  <2>1. statistics[s.root] # NoStatistics /\ statistics[s.root].of = x.root /\ s.root \in Buffers
    BY ReadsWhole DEF StatisticsMatch
  <2>2. PromisedOf(s.root) \subseteq PromisedIds(x.root)
    BY <2>1 DEF IInv, StatisticsInv
  <2>3. UNION {y.of : y \in Holds(s)} = PromisedOf(s.root)
    BY ReadsWhole DEF PromisedOf
  <2>4. {y.id : y \in Holds(x)} = PromisedIds(x.root)
    BY ReadsWhole DEF PromisedIds
  <2> QED BY <2>2, <2>3, <2>4
<1>2. Disciplined
  BY DEF Disciplined
<1> QED BY <1>1, <1>2, Invariance, PTL

\* A kernel that is accepted has nothing in flight when it ends, and every
\* output holds the complete value promised: with whole buffers and no matmul
\* over a sharded dimension.
THEOREM EndsComplete ==
  ASSUME Disciplined, Whole, Unsharded PROVE Spec => []EndedIsComplete
<1>1. IInv /\ EndedInv => EndedIsComplete
  <2> SUFFICES ASSUME IInv, EndedInv, ended
               PROVE  /\ copies = {}
                      /\ \A b \in Outputs : \A t \in Tiles :
                           /\ memory[b][t] = promised[b][t]
                           /\ memory[b][t] # Undefined /\ memory[b][t].pending = {}
    BY DEF EndedIsComplete
  <2>1. in_flight = {} /\ Outputs \subseteq written
    BY DEF EndedInv
  <2>2. copies = {}
    BY <2>1 DEF IInv, MemoryInv, Types, IsCopy
  <2>3. ASSUME NEW b \in Outputs, NEW t \in Tiles
        PROVE  /\ memory[b][t] = promised[b][t]
               /\ memory[b][t] # Undefined /\ memory[b][t].pending = {}
    <3>1. b \in Buffers /\ b \in Args /\ b \in initialized
      BY <2>1 DEF Buffers, Args, IInv, DefinedInv
    <3>2. memory[b][t] = promised[b][t]
      BY <2>2, <3>1 DEF IInv, MemoryInv, Agrees, Awaited
    <3>3. promised[b][t] # Undefined
      BY <3>1 DEF IInv, DefinedInv, Defined
    <3>4. Misses(b, partial[b]) /\ partial[b] = {}
      BY <2>1, <3>1 DEF IInv, PartialInv
    <3> QED BY <3>2, <3>3, <3>4 DEF Misses
  <2> QED BY <2>2, <2>3
<1> QED BY <1>1, Invariance, PTL

=============================================================================
