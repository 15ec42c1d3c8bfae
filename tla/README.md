# Verification of durabletx

TLA+ modules, TLC runs and TLAPS proofs about the persistent transactional
memories (PTMs) of this repository and the data structures on top of them. Paths
are relative to the repository (`src/` is its root here); line numbers are those
of the commit beside which this project is kept.

The repository promises one thing of all its PTMs: "All these PTMS provide
durable linearizable (ACID) transactions" (README.md:21). This project says what
that sentence means (`DurableStore`, `DurableTM`, `TransactionHistory`), models the
code that has to keep it, and checks or proves that it does, or shows where it
does not.

## 1. The system

A PTM is one C++ header. A program wraps its fields in `persist<T>`, maps a file
of persistent memory through a global object, and passes lambdas to `updateTx()`
and `readTx()`. The headers whose name ends in `FC` hold the same layers:

| component | state | operations |
|---|---|---|
| persistent region | the lines of the mapped file, in the caches and in the medium | `PWB`, `PFENCE`, `PSYNC`, and what the hardware does: write-back at any time, power failure |
| `ThreadRegistry` | `usedTID[]`, `maxTid`, each thread's `tl_tcico.tid` | `getTID()`/`register_thread_new()`, `deregister_thread()` when a thread ends |
| `CRWWPSpinLock` | the spin lock `writers`, the read indicator `states[]` | `tryExclusiveLock()`, `waitForReaders()`, `exclusiveUnlock()`, `sharedLock()`, `sharedUnlock()` |
| flat combining | `fc[]`, the announced function of each thread; a combiner's copy `lfc[]` | `ns_write_transaction()`, `ns_read_transaction()` |
| persistence engine | `persist<>` words, `PMetadata`, volatile logs, counters and replicas | `mapPersistentRegion()`, `recover()`, `beginTx()`, `pstore()`, `endTx()` |
| `EsLoco` allocator | `poolTop`, `freelists[]`, the header of each block, all persistent | `init()`, `malloc()`, `free()` |

How they interact: a thread of the program calls `updateTx()`; it gets its id
from the registry, announces its function in `fc[tid]`, and tries the writers'
lock. The winner copies `fc`, waits until the read indicator is empty, and runs
all announced functions as one transaction of the engine; the functions store
through `persist<>::pstore()` and allocate through EsLoco, whose own fields are
`persist<>` too. When the transaction is durable, it clears the entries it has
run, which lets their owners return. `readTx()` takes the shared side of the
lock and loads plainly. The constructor of the global object creates or recovers
the region before any of this. The other headers (`TL2`, OneFile, RedoOpt) run
transactions of several threads at the same time.

The hard behaviours: power failures and write-backs between any two stores,
also during creation and during recovery itself; the order in which lines reach
the medium; readers, combiners and threads that register and end at the same
time; functions on the stacks of other threads; threads that help each other,
abort each other, or stop half-way; the progress of spinning threads; long
sequences of calls on trees that are rebalanced on the way down. A unit test
hardly produces any of these, and the repository has none for them: its test
programs are benchmarks and a few examples of the key-value store.
`PROJECT.json` lists each hazard at its line.

The PTMs differ in how they commit:

* **Trinity** (`ptms/trinity/TrinityFC.hpp`, two fences). `persist<>` holds
  `main`, `back` and `seq` in one cache line; `p_seq` in the header is the number
  of the running transaction. Moving `p_seq` on commits; recovery reverts every
  word whose `seq` is still `p_seq`.
* **TrinityVR** (`TrinityVRFC.hpp`). The program works on a volatile replica. A
  transaction logs the ranges it has modified, and `endTx()` brings them to the
  region (`storeRange()`), where a line holds three words twice and one `seq`.
  After a power failure the replica is copied back from the region.
* **Quadra** (`ptms/quadra/QuadraFC.hpp`, one fence). No number in the header:
  each word also holds `count[2]`, how many words its transaction has modified;
  a transaction is committed when that many words agree. Recovery scans for the
  highest `seq` and reverts that transaction if they do not. **QuadraVR**
  (`QuadraVRFC.hpp`) does the same with a replica and a count per line.
* **RomLog** (`ptms/romuluslog/RomLogFC.hpp`, four fences). Two copies of the
  data and a state `IDLE`, `MUTATING`, `COPYING` that says which one to trust; a
  volatile log of addresses to flush and to copy. **RomulusLog** (`RomulusLog.hpp`)
  is its ancestor, which gives the log up in large transactions. **RomLog2F**
  (`RomLog2FFC.hpp`, two fences) has `inst` in the header, the half that loads and
  stores go to; the other one is what recovery trusts. Moving `inst` on commits.
* **TrinityTL2** and **TrinityVRTL2**. Transactions run concurrently under
  versioned locks, one per word or per hashed address, with a global clock,
  validation of what has been loaded, eager locking and rollback. Each thread has
  its own `p_seq`.
* **OneFile** (`ptms/onefile/OneFilePTMLF.hpp`), lock-free. Stores go to a redo
  log; one compare-and-swap of `curTx` commits it, and every thread helps to apply
  it, word by word, with a double compare-and-swap of value and sequence.
* **RedoOpt** (`ptmdb/otherdb/redodb/ptms/redoopt/RedoOpt.hpp`), wait-free. Several
  replicas of the data in the region, `curComb` in the header names the current
  one. A thread takes a replica, brings it up to date with redo logs or by copying,
  applies all announced functions and offers it in a compare-and-swap.

Above the PTMs: `pdatastructures/` (sets, maps, queues, stacks, sequential code
inside transactions), `ptmdb/` (TrinityDB, a key-value store with LevelDB's
interface, whose map is `TMBTreeMap.hpp`), `ptmdb/otherdb/redodb/` (the Redo family
and RedoDB), `graphs/` (benchmarks). `ptm.h` picks a PTM by macros, `PMDKTM.hpp`
wraps an external library, and the five `malloc.cpp` are vendored copies of dlmalloc.

What makes each component correct:

* engine: a power failure at any moment leaves exactly the transactions that
  have committed, each of them whole, those that have returned among them;
* concurrent PTM: transactions are strictly serializable, those that have
  returned are durable, aborts leave nothing behind, and somebody (OneFile) or
  everybody (RedoOpt) makes progress whatever the other threads do;
* registry: ids are unique and below `maxTid`; registering always ends;
* lock: a writer is alone; a writer with the spin lock is not held off by
  readers; no flag is left behind;
* flat combining: each function runs exactly once, during its caller's call, in
  a transaction that is durable before the caller returns, never beside a reader;
* allocator: no block lost, none handed out twice, objects inside the pool;
* data structures: each call has the effect and the answer of the abstract
  set's, queue's or stack's, and leaves the shape that the next one relies on.

## 2. The modules

```
PersistentMemory          cache, medium, PWB, fence, write-back, power failure
  Trinity                 engine of TrinityFC.hpp       => DurableStore
    TrinityProofs         invariant, durability, atomicity, refinement (TLAPS)
  Quadra                  engine of QuadraFC.hpp        => DurableStore
  MainAndBack             what the engines with two halves share
    RomLog                engine of RomLogFC.hpp
    RomLog2F              engine of RomLog2FFC.hpp
    RomulusLog            engine of RomulusLog.hpp
    RomulusProofs         invariant, durability, atomicity of each (TLAPS)
  VolatileReplica         what the engines with a replica share
    TrinityVR             engine of TrinityVRFC.hpp     => DurableStore
    QuadraVR              engine of QuadraVRFC.hpp
  DurableStoreProofs      Quadra and TrinityVR: invariants, durability, refinements (TLAPS)
ThreadRegistry            ids
  CRWWPLock               + the reader-writer lock
    FlatCombining         + announced functions, combiners, readers
      CombiningProofs     ids, exclusion, exactly once (TLAPS)
TrinityFC                 FlatCombining composed with Trinity  => DurableTM
  TrinityFCProofs         the composition, the refinement (TLAPS)
TransactionHistory        calls, what they have loaded, strict serializability
  TL2                     locks, clock, validation, retry
    TrinityTL2            + persistence of TrinityTL2.hpp
      TL2Proofs           strict serializability, durability, aborts (TLAPS)
    TrinityVRTL2          + persistence of TrinityVRTL2.hpp
  OneFile                 OneFilePTMLF.hpp
    OneFileProofs         strict serializability, durability (TLAPS)
  RedoOpt                 RedoOpt.hpp
EsLoco                    the allocator
  EsLocoProofs            free lists, accounting, objects (TLAPS)
BTree                     TMBTree.hpp; TMBTreeMap.hpp with ByReference  => KeySet
ZipTree, RedBlackTree, HashMap, LinkedListSet       => KeySet
FatLists                  queue and stack
DurableStore, DurableTM, KeySet   abstract specifications
MC*                       instances for TLC
```

`=>` is a refinement: the detailed module INSTANCEs the abstract one with a
mapping, and a run checks the abstract specification as a property.

Three MC modules put components that never meet side by side, so that one run
answers one question for all of them; a variable that is chosen once says which
one a behaviour runs, and the variables of the others stand still. `MCEngines`
(`engine`) runs RomLog, RomLog2F, RomulusLog, Quadra or TrinityVR, and by a specification
of its own, `QuadraVRSpec`, QuadraVR; `MCTL2`
(`engine`) one of the TL2 pair, `MCSequential` (`part`) Trinity's engine, the allocator
or a data structure.

**PersistentMemory.** A function `cache` from lines to contents is what loads and
stores see, `pm` what the medium holds, `pwb` the lines whose write-back a fence
has still to wait for. Stores to one line reach the medium in program order
(`// Ordered store` in the sources, `volatile` in the types); lines reach it in
any order, at any time, asked or not. A `persist<>` never straddles a cache line,
so each one is a line of its own here. In the code two or more of them share one:
that only removes behaviours, since a write-back of the shared line is two
write-backs in a row here. A process that is killed without a power failure
leaves the caches: the same as if all lines had been written back first, so
`Crash` covers it. PWBs that take effect at once (`PWB_IS_CLFLUSH`) are covered
the same way.

**Trinity.** One program counter: the engine runs on the thread with the writers'
lock. `pc` names the place, `creating` tells the transaction of
`mapPersistentRegion()` from the user's, `cur` is the iterator of `recover()` or
of creation, `store` the arguments of the `pstore()` under way. Every store to a
line is a step of its own: `PstoreBack`, `PstoreSeq`, `PstoreMain` for the first
store of a transaction to a word, `PstoreAgain` for a later one, `RecoverMain`,
`RecoverSeq` for a word that is reverted, `EndTxIncrement` and `EndTxSync` around
the fences, `CreateRoot`, `CreateFlushRoot`, `CreateId`, `CreateDone`. `Crash` may happen
anywhere, and the next process finds a region with MAGIC_ID (`OpenExisting`) or
creates it again over what is left (`OpenNew`). `CreateStores`, what `esloco.init()`
and `esloco.malloc()` store, is a parameter, and the theorems hold for any.

**Quadra.** The same grain; the three scans of `recover()` only read and are one
step (`OpenExisting`), each line of `revert()` is one (`Revert`), and so is each
count that `endTx()` stores (`EndTxCount`). The order inside the loops over the log
is free, which includes the code's. A transaction may end without having stored
anything; `v_seq` moves on then, too, as it does in the code (QuadraFC.hpp:683), and after
an odd number of such transactions the next one clears and then counts in the same
entry of `count[2]` as the last one that stored something. `SharesCount` says that the
running transaction is one of those; there the engine is not atomic (a finding), and
what is stated about atomicity leaves out such transactions and nothing else.

**MainAndBack, RomLog, RomLog2F, RomulusLog.** A line for each word in each half,
and one for the header. Words in `Root` are the root pointers, which RomLog and
RomLog2F keep in PMetadata, outside of what recovery restores. `settled` is a
history variable: a transaction whose log holds the stores of creation has
committed; before that, nothing about RomLog's region holds (see the findings
about creation). In RomLog2F stores go to the half that `inst` names; when
`inst` has moved on they are copied to the one it names then, and flushed with the
next transaction. `HeapStep` leaves out the first transaction after a restart while
its `inst` is not in the medium (`Exposed`, a finding). In RomulusLog
`LogLimit` is the size at which the log is given up; what holds is stated for
transactions that have not given it up (`overflown`, a finding).

**VolatileReplica, TrinityVR, QuadraVR.** `vr` is the replica, `Range_` the ranges
that a store may cover, `v_log` the log, duplicates included. `endTx()` goes
through the log from its last entry to its first and line by line (`todo` holds the
visits that are left, `<<round, line>>`, and the next is the one that precedes the
others); a line is copied in the order
back, `seq`, main, one step each (the 24 bytes of a copy are one step: what a
mixture of them could be is undone by recovery in the same way). Recovery reverts
lines and then fills the replica.

**ThreadRegistry, CRWWPLock, FlatCombining.** One access of shared memory per step,
in the order of the code. The atomics involved are sequentially consistent in
the code, or release stores that publish what came before, so an interleaving of
the accesses is enough. `FlatCombining` EXTENDS the lock, which EXTENDS the
registry, because the lock scans up to `maxTid` while threads register. A function
is identified by the thread whose stack it is on; `runs` counts how often it has
run.

**TrinityFC** composes: every step is one of the threads', one of the engine's, or
both (`BeginTx`, the last step of `EndTx`). The functions increment words, because a
function that runs twice, or is lost, then shows in the contents. A power failure
resets every volatile variable.

**TransactionHistory** is what callers of a concurrent PTM can observe. A call is a
program, a sequence of `Load(range)` and `Store(range)`, and stores its own id, so
that who loads a word learns whose value it is. `log` records the calls that have
taken effect with what they have loaded, what they have written and which calls
had returned when they began; `SerializableTo(mem)` asks for a serial order that
explains all of it and leaves `mem`, which each PTM fills in: what recovery would
find (TL2), the words of committed transactions (OneFile), the current replica
(RedoOpt).

**TL2, TrinityTL2, TrinityVRTL2.** `lock[l]` is the owner and sequence of a lock,
`gClock` the clock. A load reads its words one by one and then looks at their locks,
a store takes the locks of its range one by one and then stores in place, the end
validates what has been loaded, makes it durable and unlocks with a new sequence;
whoever meets a foreign lock or a sequence newer than its clock rolls back, unlocks
and starts again. (TrinityTL2 does not put the locks it owns itself into its read
set; both engines do here, where validation accepts them anyway.) In TrinityTL2 the lock lies in the `persist<>`
itself and reaches the medium with it; in TrinityVRTL2 locks are in DRAM, a line
carries a tid and a sequence, and a range may hash to several locks. Power may fail
at any step; recovery reverts the words of each thread's running transaction and
starts the clock behind the highest number it has found.

**OneFile.** `curTx` with its owner and sequence, `request` per thread, the redo log, a
value and a sequence per word. Helpers copy the log of the current transaction and
check that it is still the same before they apply it. Every access of shared
memory is a step; `WriteBack` is the completion of a PWB. Power does not fail here:
the only call of `recover()` is commented out (703), so what recovery would do with
the persistent logs is not in the code. `pm` still says what the medium holds, and
`DurableAtReturn` compares it with the committed words when a call returns; the
medium is only written by PWBs that have been issued, which is the worst case for
that property.

**RedoOpt.** The replicas (`combs`), the ring of `states` with what has been applied and
the answers, `announce`, each thread's redo log, the persistent `curComb`. One access
of shared memory is one step, except that a load is one step with the comparison
of `curComb` that follows it and that an operation of a replica's try-lock is one.
Nothing fails in the middle here; the medium is abstracted to what a failure would
find: `durSeq`, the highest `curComb` there, and `dirty`, the words of each replica that
no PWB covers. A region that an earlier process has left is an initial state
(`Restarted`). A reader that has announced its request may still succeed by itself,
and leaves the request open; its thread's next announcement closes that one and opens
none. `reopened` is a history variable, the threads that have done so: safety is stated
apart from them, because the code gives it up there (finding 4).

**EsLoco** counts memory in units of `sizeof(block)`; one operation is one step,
because the engine makes a transaction's stores atomic. `1<<bsize` is an int and
is modelled as one (`BlockBytes`), of a width `IntBits` that a configuration can
scale down with the pool.

**The data structures** run inside transactions, one call after the other, so an
interleaving is not what they have to fear; a long sequence of calls is. `BTree` and
`ZipTree` take one step per round of the loops that walk down, because it is between
two rounds that a node may be without a key to spare; `RedBlackTree`, the two maps of
`HashMap`, the list, and the queue and the stack of `FatLists` take one step per call. `ByReference` makes the
B-tree that of `TMBTreeMap.hpp`, which hands removed keys on by reference to their
slot and moves them out of it. Every set or map is shown to implement `KeySet`: the
keys found in it are the abstract set (while a call of the zip tree is under way,
those it had before), and the call's answer is the abstract one.

**DurableStore** is what one engine promises: contents that change by whole
transactions, `Commit` making them durable at one moment, `Return` only after it,
`Crash` losing nothing but the running transaction. In the mapping, `mem` is what
recovery would make of the medium, `work` what the program sees. **DurableTM** is what
the PTM promises to threads: durable linearizability, with the calls that have taken
effect as a set, since a combiner commits several at once. **KeySet** is what sets
and maps promise.

## 3. The runs

`tlc -config X.cfg M`; each takes between a second and three minutes.

| run | module, configuration | instance | what it shows |
|---|---|---|---|
| `combining` | MCFlatCombining | 3 threads, 3 slots; 147,055 states | registry: `UniqueTID`, `MaxTidCovers`, `NeverFull`, `RegistrationEnds`; lock: `MutualExclusion`, `NoStaleFlag`, `WriterPreference`; combining: `CombTypeOK`, `NoDanglingFunction`, `ReadersSeeNoMutation`, `ExactlyOnce`, `UpdateReturns` |
| `trinityfc` | MCTrinityFC | 2 threads, 2 words mod 3 | `ReadsAreDurable`, `DurablyLinearizable` |
| `engines` | MCEngines | five engines; 1,035,623 states | `IdleIsDurable`, `BackCanUndo`, `AllOrNothing`, `ImplementsStore` |
| `tl2` | MCTL2 | 2 engines, 2 threads, 2 words, 3 locks, 2 calls; 831,665 states | `StrictlySerializable`, `QuietIsClean` |
| `onefile` | MCOneFile | 2 threads, 2 words, 3 calls; 833,524 states | `StrictlySerializable`, `DurableAtReturn`, `LockFree` |
| `redo` | MCRedoOpt | 2 threads, 3 replicas, 2 words, 3 calls; 512,913 states | `StrictlySerializable`, `EveryCallAnswered`, `PublishedAtReturn`, `WaitFree` |
| `sequential` | MCSequential | Trinity's engine with 3 words, 2 values, 4 transactions, nesting 2; a pool of 12 units; eight structures; 746,177 states | engine: `RecoveryInv` (the inductive invariant of the proofs), `TypeOK`, `IdleIsDurable`, `AllOrNothing`, `ImplementsStore`; the rest: `FreeListsSound`, `Accounted`, `ObjectsInPool`, `HasRoom`, `InShape`, `ImplementsKeySet`, `OrderKept` |

Five more runs, `quadravr`, `btreemap`, `redoopt`, `redoreader` and `redounlock`, are
expected to be violated; section 6 says why.

Bounds, all of them CONSTANTS of a configuration:

* Words (`NumPersists`, `NumWords`). Recovery decides word by word; what one word
  can do to another goes through the header, or through `count`. Three words in
  Trinity leave one untouched, one stored to once and one stored to again; in
  Quadra two words with three stores at creation already give a transaction with
  one and with two words. The engines of `ptms/romuluslog/` have one word of each
  kind: a root pointer, one that creation stores to, one of the user. TrinityVR has
  two lines of two words, with ranges inside a line and one across both; a log of
  two entries holds duplicates. In TL2, OneFile and RedoOpt two words are what a
  write skew or a torn read needs.
* `MaxSeq`, the number of transactions of an engine: a word's `seq` is compared with
  the running transaction's only. Creation (which may be tried any number of times)
  takes number 1, and further ones let a word carry a `seq` of each age; in Quadra,
  where the parity of `seq` matters, both parities have a predecessor of the same
  parity, and the third transaction shares its count with the first if the second
  stores nothing. `QuadraUnshared` is Quadra once more, in the behaviours without
  such a transaction, on which the refinement is checked. The proofs about Trinity use no bound: MaxSeq is a parameter there.
* `MaxTx`, the calls of a behaviour of a concurrent PTM. Two for TL2: a conflict is
  between two calls, each of which may be tried again while `gClock` is below
  `MaxClock`. Three for OneFile and RedoOpt: one that is applied, one that replaces
  it while a helper still applies it, and a later one that would meet what the
  helper has left behind.
* `MaxNesting` 2: the counter is only compared with 0 and 1.
* `LogLimit` 1 of RomulusLog: a transaction with one store keeps the log, one with two
  gives it up. `LogLimit` 1 of RedoOpt (a redo log may grow beyond it, and then the
  replica is copied), `RingSize` and `StatesSize` 2: rings that wrap within three
  calls. `NumEntries` 4 and three replicas for two threads: one current, one for each
  thread, so that a thread can find no free one for a while. `MaxReadTries` 1: a
  reader tries once and then announces itself. One thread (`Runner`) calls all three
  programs, the other updates only; with three calls, `Runner` can read, leave its
  request open, and announce another one over it. Two threads help and
  overtake each other; what a third one that is further behind can do is out of the
  run's reach, and `redounlock` shows one such schedule.
* `Val` of two values, of three in TrinityFC, where functions increment: a word
  that was incremented twice differs from one incremented once or not at all.
* Threads: three for the lock and flat combining (a combiner, a waiting updater, a
  reader): either all of them are registered and stay, or two of them come, run
  transactions and go, while the third claims a slot at any moment and keeps it.
  With all three coming and going, the invariants hold on 198,340 states up to
  symmetry, but liveness admits no symmetry; the theorems of `CombiningProofs` are
  for any number of threads, coming and going as they like. Two for the
  whole systems. `MaxThreads` equals the number of threads, the tightest case of the
  registry.
* `sequential`: the pool holds six of the smallest blocks, with requests of two sizes
  for one free list, of one for another, and one that never fits. The B-tree has
  degree 2, where every second removal moves keys, with all calls on seven keys and,
  because a tree whose inner nodes lend each other children needs more, two trees of
  ten keys that only shrink. The zip tree has four keys of three ranks, the
  red-black tree eight keys; the hash maps five keys in two buckets, which is rebuilt
  twice; queue and stack two items, two slots per node, three nodes. `HasRoom` says
  that the bound on the B-tree's nodes is never met.
* RomLog, EsLoco and the sets need no bound on the number of transactions or calls:
  their state spaces are finite.

Symmetry is used for threads in `trinityfc`, which checks safety properties only and
treats all threads alike. Deadlock is checked everywhere except in `onefile` and in
the runs of RedoOpt, where every call may have been made and answered and the last
state is the end of the program.

Every property has a mutant in `PROJECT.json`: a variant of one definition of the
model, as a plausible mistake in the code would make it (a PWB, fence or early
return forgotten, an off-by-one in `maxTid`), under which TLC finds the property
violated.

### Fairness

* `combining`: a thread inside `register_thread_new()`, whose loops do not wait
  for anything, inside an operation of the lock, or inside `updateTx()` or `readTx()`
  is scheduled. That includes that functions end; the code spins and yields, and
  never sleeps on a condition. No fairness is assumed of the compare-and-swap: a
  thread that loses it for ever still returns, because whoever wins runs its
  function. Threads need not register, call, or end.
* `onefile` and `redo`: only the steps of one thread, `Runner`, are fair, and in
  OneFile the completion of PWBs that have been issued, which is the hardware's. All
  other threads may stop for ever at any step, in the middle of helping or with a
  replica locked; that is what lock-free and wait-free mean.
* The engines' runs and `tl2` state no liveness: a power failure may always come,
  and two transactions may abort each other for ever by the code.

## 4. What is proved

`tlapm` checks every theorem below, for every value of the constants: any number of
words and of threads, any values, any creating transaction, any bound. Eight modules
hold them. `PROJECT.json` lists the theorems; the lemmas that carry an argument have
comments in the modules.

Everywhere the argument has the same form. The property of interest speaks of two
moments (what a caller has seen, what a power failure would leave) and is not
inductive; a strengthening says, program point by program point, what each
component knows; one lemma per action shows that the action keeps it; the property
follows in a line or two. Each strengthening was model-checked before it was proved.

### Registry, lock, flat combining (`CombiningProofs`)

| theorem | property |
|---|---|
| `CombiningTypes` | `CombTypeOK` |
| `IdsAreUnique`, `IdsAreCovered`, `RegistrationFits` | `UniqueTID`, `MaxTidCovers`, `NeverFull` |
| `LockExcludes`, `FlagsAreTakenDown` | `MutualExclusion`, `NoStaleFlag` |
| `FunctionsAreAlive`, `MutationsAreHidden`, `FunctionsRunOnce` | `NoDanglingFunction`, `ReadersSeeNoMutation`, `ExactlyOnce` |

Assumptions: `RegistryAssumption` (there is at least one slot), `CombAssumption` (the
null pointer is no function), and for `RegistrationFits` alone that there are no more
threads than slots, without which the code throws. `Thread` may be infinite for
all others.

`CombiningInvariant` is `Spec => []CombInv`, in layers. `RegistryInv` has the ids
unique, every id that is held or claimed marked in `usedTID`, and below `maxTid`
once its thread is registered. `LockInv` has the flags of the threads in the read
indicator up, one holder of the spin lock, and the point that makes the lock work
(`InvScan`): a reader inside is always *ahead* of the scan of `waitForReaders()` and
below the `maxTid` that the scan has read, because whoever raises a flag behind the
scan, or registers beyond its end, finds `writers` taken and gives way. `NeverFull`
needs a counting argument of its own (`RoomAhead`): at most `MaxThreads - k` threads
stand at slot `k` or beyond it, because a thread moves past a slot only when another
one is there. For flat combining, `InvPending` says that what a combiner has copied
and has not yet taken back is still announced by the same call, and `InvRuns` that
`runs` of a call is 1 exactly from the moment its combiner's loop has passed it.

### Trinity (`TrinityProofs`)

Assumption: `TrinityAssumption`, the types of the constants.

* `RecoveryInvariant`: `Spec => [](TypeOK /\ RecoveryInv)`; `TypesAreKept`.
* `AcknowledgedIsDurable`: `Spec => []IdleIsDurable`. When `updateTx()` or the
  constructor has returned, what loads see is what a power failure would leave.
* `TransactionsAreAtomic`: `Spec => AllOrNothing`. Only the arrival of a new
  `p_seq` in the medium changes what a power failure would leave, and it changes
  it to the whole outcome of the transaction.
* `EngineImplementsStore`: `Spec => ImplementsStore`. Every step of the engine is a
  step of `DurableStore` or none.

`RecoveryInv` has five parts: where the program counter can be (`InvControl`), the
header in the medium is the cached one or one commit behind (`InvHeader`), no word
is of a future transaction (`InvSeq`), a word that the medium has in an older version
has its PWB issued or its pstore under way, and *recovers to the same value from
both versions* until the fence of `endTx()` (`InvLines`), and what each program point
knows of the words (`InvPoint`). The heart is `InvLines`: it is what lets the
processor write lines back at any time. The write-back (`EvictInv`) and the power
failure (`CrashInv`) rest on it, the increment of `p_seq` (`EndTxIncrementInv`) on the
fence before it. Atomicity then follows from three facts: only a write-back changes
the medium (`MediumSteps`), one of a word changes nothing that recovery would find
(`EvictPersist`), and one of the header commits (`EvictHeader`). The refinement adds
`InvCreation` (each word that the creating transaction has stored to holds the last
value of `CreateStores` for it so far), because the abstract store starts from what
creation leaves.

### The whole PTM (`TrinityFCProofs`)

Assumption: `FCAssumption`, the types of the constants, that the null pointer is no
function, and that each function stores to words of the region.

* `ComposedInvariant` (`FCInv`): what `CombiningProofs` shows of the threads and
  `TrinityProofs` of the engine, and that the two fit (`InvTurn`): no thread is in a
  call while the constructor runs, and the engine leaves its idle state only for a
  combiner that applies functions. The two modules are INSTANCEd, so their lemmas
  are cited, not repeated.
* `ReadsSeeDurable`: `Spec => []ReadsAreDurable`.
* `TransactionsAreDurablyLinearizable`: `Spec => DurablyLinearizable`, the refinement
  of `DurableTM`, and with it the sentence of the repository's README for this PTM.

For the refinement, `LinInv` adds what the words of the running transaction hold:
after the combiner has run the functions of a set of threads and part of one more,
every word is the durable one plus the increments of those (`InvWork`, counted with
the cardinality of `DurableTM!Increments`). The linearization point of all calls of
a combiner is the write-back of the header, a step that no thread takes; the calls
of threads whose functions have run are `done` in the abstract system from there on.
Its proof has one lemma per step of the composed system, each showing the step to be
an abstract one or a stutter.

### The engines with two halves (`RomulusProofs`)

Assumption: `MainAndBackAssumption`, the types of the constants and that root
pointers and what creation stores to are different words.

| | RomLog | RomLog2F | RomulusLog |
|---|---|---|---|
| inductive invariant | `RomLogInvariant` | `RomLog2FInvariant` | `RomulusLogInvariant` |
| `IdleIsDurable` | `ReturnedIsDurable` | `ReturnedIsDurable2F` | `ReturnedIsDurableL` |
| `BackCanUndo` | `BackUndoes` | has no counterpart | `BackUndoesL` |
| `HeapStep`, the engine's part of the run's `AllOrNothing` | `HeapIsAtomic` | `HeapIsAtomic2F` | `HeapIsAtomicL` |

One module states all three, since the lemmas about the halves are common to them; what
belongs to RomLog2F ends in `2F`, what belongs to RomulusLog in `L`.
The invariants (`RomInv`, `InstInv2F`, `RomulusInvL`) have the same parts: the header in
the cache and in the medium, place by place (`InvHeader`); which words the log holds
(`InvLog`); which words of each half may be behind in the medium, namely those that
are in the log or have their PWB issued (`InvMain`, `InvBack`, in RomLog2F
`InvCurrent2F`, `InvOther2F`); and where the two halves hold the same (`InvSame`). The
last is what makes moving the state safe without a flush of IDLE: header and data may
reach the medium in any order because, wherever the medium may hold either of two
states, both halves agree. In RomLog2F the half that `inst` does not name is
never behind, at any step, crash and recovery included (`InvOther2F`).

The properties are those of the engines' modules, which the run `engines` puts
together under the same names. The theorems say what the run says and no more. That of RomLog speaks of the heap,
not of the root pointers, from the first commit on; that of RomLog2F leaves out
the first transaction after a restart while it is `Exposed`; those of RomulusLog hold
as long as no transaction has outgrown its log (`~overflown`). Each of these conditions
is a finding of section 6: without it the statement is false, and TLC shows how.

### Quadra (`DurableStoreProofs`, first part)

Assumption: `QuadraAssumption`, the types of the constants and at least one `persist<>`
in the region. Transactions may store what they like, or nothing.

* `QuadraInvariant`: `Spec => [](QuadraInv /\ MediumTypeOK)`.
* `AcknowledgedIsDurable`: `Spec => []IdleIsDurable`. It needs no exception: between
  transactions nothing shares a count.
* `TransactionsAreAtomic`: `Spec => [][CommitStep]_vars`, Quadra's part of the run's
  `AllOrNothing`. Once `id` is durable, what recovery would restore changes only when
  the last word of a transaction reaches the medium with its count, and then to the
  whole transaction; `CommitStep` leaves out the steps of a transaction that
  `SharesCount`, where the code is wrong.
* `QuadraImplements`: `Spec /\ []~SharesCount => Abstract!Spec`, the refinement of
  `DurableStore` by every behaviour without such a transaction.
* `StoringImplements`: `Spec /\ [][EndTx => v_log # {}]_vars => Abstract!Spec`. Where
  every transaction that ends has stored something, none shares a count
  (`InvAllStore` is the invariant behind that).

There is no number in the header to say what has committed; recovery counts. So the
invariant is about who carries which number. `InvSeq`: the log is exactly the set of
words that carry `v_seq`. `InvCount`: their `count` of this parity is 0 until `endTx()`
has stored to all of them, and the size of the log from then on. `InvOutside`
and `InvLogged`: what the medium holds of a word that is not in the log, and of one
that is, before and after its `seq` has arrived there; the order of the stores within
a line (count, seq, main) is what makes `InvLogged` hold. `InvLast`: as long as no
word of the running transaction is in the medium, the transaction with the highest
number there is as many words as they say, or has been reverted, or shares its count
with the running one (`Sound`). Its number need not be the one before: transactions
without stores have no words. Where it is shared, recovery may undo what it should
keep, and the exceptions of the theorems are about no more than that.
`InvRevert`: a recovery under way changes `main` only, so that a power failure inside
of it finds the same torn transaction again.

The heart is `RunningIsTorn`. Suppose that some words of the running transaction are in
the medium, a set T, and that all of them say that there are |T|. Then they were
written back in `endTx()`, after the log was complete, and say how large it is; T is
a subset of the log of the same size, hence the log; hence all words are there, and
recovery is right to keep them. Otherwise it undoes T, and what it finds is what was
there before (`UncommittedIsUndone`). One fence suffices, wherever it stands relative
to the processor's own write-backs.

The refinement adds how far creation has got (`InvMagic`, `InvCreated`), because
a region whose `id` is not durable stands for one not yet opened. A process that goes on
with what a creation cut short has left (the code does not look at `id`, section 6)
is mapped to `"down"`, too, at every place it can reach, the idle one included.

### TrinityVR (`DurableStoreProofs`, second part)

The module EXTENDS Quadra and has TrinityVR as the instance `V`.
Hypothesis of each theorem: `V!ReplicaAssumption`, the types of the constants and that no
range is empty. Ranges may lie in one line or in several, and overlap as they like.

* `TrinityVRInvariant`: `V!Spec => [](TypeOK /\ ReplicaInv)`.
* `ReplicaIsExpendable`: `V!Spec => []V!ReplicaExpendable`, TrinityVR's part of the run's
  `IdleIsDurable`.
* `TrinityVRImplements`: `V!Spec => AbstractVR!Spec`, the refinement of `DurableStore`.

The invariant is Trinity's, line by line instead of word by word, and one more part:
`InvReplica` says that the main of a line is what the replica holds, unless the log
names the line (while the transaction runs) or the loop of `endTx()` has it still to
visit. `InvLines` says which lines may be behind in the medium, and that
they recover to the same words from the cache and from the medium until `p_seq` moves
on. A line that a second entry of the log names is passed over by `storeRange()`
because it carries the transaction's `seq` already; `InvReplica` shows why that is
right: by then its main is the replica's, although the entry was another one.
`InvCreation` is needed because a region is created over what a creation cut short
has left: those marks are on lines which the next attempt flushes again, and on no other.

### The allocator (`EsLocoProofs`)

Hypothesis: `RequestsFit`, for every size that the program asks for there is a free list
(the array of the code has one up to `kMaxBlockSize`) and `1<<bsize` does not overflow.
The second condition is a finding of section 6; without it `ObjectsInPool` is false.

* `EsLocoInvariant`: `SpecEsLoco => []EsLocoInv`.
* `FreeListsAreSound`, `BlocksAreAccounted`, `ObjectsAreInPool`: the three properties
  of the run `sequential` that are about the allocator.

`InvBlocks` has the blocks lie one after the other in what has been handed out from the
pool, each as long as its exponent says. `InvLists` says that there are functions `n` and
`nth`, the length of each free list and its elements from the head on: all are blocks of
that list's size, none occurs twice, each `next` is the following one, and the last is
null; and that a block is in its list exactly if no object holds it. `free()` puts one
in front and `malloc()` takes the first, so both functions shift by one.
`Chain`, the recursive function by which the properties follow a list, is tied to `nth` by
the least number at which the two would differ.

### OneFile (`OneFileProofs`)

Assumptions: `HistoryAssumption` and `OneFileAssumption`, the types of the constants,
and that a program has no more stores than a write-set has room for.

* `OneFileInvariant`: `Spec => []OneFileInv`.
* `OneFileStrictlySerializable`: `Spec => []StrictlySerializable`.
* `OneFileDurableAtReturn`: `Spec => []DurableAtReturn`.

`Protocol` is what holds without looking at any word: `curTx` only moves on, the request of
a thread is opened by its owner for the transaction in `curTx` alone, and whatever a
thread believes of `myTx` and `helping` was true once (`Known`) and, if the
transaction is an older one, is closed for good. The rest reads the log of the
committed transactions with two functions that the state does not hold (`entry`, where
the update with each sequence is; `key`, the sequence of each entry, which for a read-only
transaction is that of the last update it may have seen), and says that they exist.
`LogInv`: each logged transaction has read what the updates up to its snapshot
have stored. `MemInv`: a word holds what the last update that stores to it
has stored, or, while the last transaction is open, the one before. `SetInv`: the
write-set of a helper, copied entry by entry from one that its owner may be
overwriting, is that of the transaction it helps if `recheck` finds the request still
open. `ApplyInv`: the words that a helper has passed have at least its sequence, so
that a late compare-and-swap fails. The serial order of the property is by `key`, and
by the place in the log among those with the same one. Existence of a smallest and a
largest element, which the argument needs, comes from the library's
theorems on well-founded relations.

### TrinityTL2 (`TL2Proofs`)

Assumptions: `HistoryAssumption` and `TL2Assumption`, the types of the constants and that
there are finitely many threads; and, as a hypothesis of each theorem, `OneLockPerWord`: a
`persist<>` has a lock of its own. It is TrinityTL2.hpp's layout (the lock word is a
member of `persist<>`); the table of TrinityVRTL2.hpp, where words share locks, is
not covered. The theorems are about `MCTL2`'s `Spec` with `engine = "TL2"`, which is
`TrinityTL2` alone, so that they say what the run `tl2` checks.

* `TrinityTL2Invariant`: `OneLockPerWord => (Spec => [](engine = "TL2" => TL2Inv))`.
* `TrinityTL2StrictlySerializable`: the same with `StrictlySerializable`. The order
  explains what a power failure now would leave, too, so this is durability as well.
* `TrinityTL2QuietIsClean`: the same with `QuietIsClean`.

`TL2Inv` has three parts. `Durability` speaks of no value that a transaction has read:
who holds which lock, and how the numbers lie that recovery compares. A lock word holds
the `p_seq` its owner had when it took the lock; a word whose lock in the medium has
the `p_seq` that its owner has in the medium is undone by recovery (`Locked`), and a
new `p_seq` in the medium unlocks all words of a thread at once. `SeqInv` follows these
numbers through `endTx()` and through an abort, which ticks, too, but only after it has
undone its stores in `mem`, so that it does not matter which of the two numbers a
power failure finds. `LineInv` says the same of lines whose owner is long gone:
recovery either undoes them or finds `main` equal to `back` or committed.

`IdInv` keeps the ids of calls apart, and `Serial(key, now)` is the serial order, said to
exist: `key` gives each call its place. An attempt gets a place when it begins, from the
counter `now`, and an update a second, later one when it starts to validate, because by then it has all
of its locks. `BeyondOf` is the heart of it: whatever has been stored by transactions
that come after t's place is behind a lock that t can not pass any more in this attempt
(`Beyond`: held by somebody who will tick beyond `rClock`, or free with a
higher number). So each load that passes its check, and each entry that validation passes, has
the value at t's place (`ReadOf`), before and after the place has moved; and whoever has seen a word
before it was stored comes before the one who stores it (`PendingOf`). The moment
at which an update enters the log is not one of its own steps but the write-back
of its `p_seq`, by its own fence or by the processor at any time before (`Commit`). To
get from keys to the property's order, `Sorted` turns distinct keys into a permutation, and
`ValueIs` the greatest key below a place into the property's fold.

### Only model-checked

* QuadraVR, TrinityVRTL2, RedoOpt, and the data structures: their safety properties
  and refinements. What `redo` checks of RedoOpt is for two threads, and its safety
  properties leave out those that have announced a request over an open one.
* All liveness: `RegistrationEnds`, `WriterPreference`, `UpdateReturns`, `LockFree`,
  `WaitFree`. Fairness and ENABLED are beyond the prover.
* What a recursive definition computes for every input, the shapes of the trees and the
  sequences of the hash maps above all: the library's induction theorems take an
  operator as a parameter, which the provers that are used here cannot instantiate.
  (EsLoco's `Chain` gets by with a least element.)

## 5. What is not modelled, and why

* Stores to a `persist<>` outside of a transaction (`pstore()`, last branch).
* A transaction inside one of the other kind on the same thread: it waits for
  itself for ever, by the code of the lock.
* The file system: `open()`, `lseek()`, `write()`, `mmap()` and their retries. A file is
  there with its length, or not at all.
* The fixed capacity of the volatile logs of Quadra and RomLog (an assertion), and
  OneFile's hash map for large write sets, a different way to find the same entry.
* `updateTxSeq()`/`readTxSeq()` (no lock; the caller promises to be alone), `PwbLog`
  (unused), `EsLoco::reset()`, and RomulusLog's `abort_transaction()` and `ns_reset()`
  (never called).
* The registry, lock and combining of the other `FC` headers and of RomulusLog: they
  are TrinityFC's, where they are modelled and composed with an engine.
* Creation of the region in the TL2 pair and OneFile (that of the sequential engines
  is modelled); statistics and the pauses between attempts.
* In RedoOpt: the hazard pointers (a replica or a function is not reclaimed while
  it is in use), the flushing of a whole replica when most of its lines have been
  modified, the number of rounds that `getNewComb()` waits, the wrap-around of `seq`.
* Power failure in OneFile: its `recover()` is not called (section 6).
* `RomLogTSFC.hpp`: its `recover()` is an empty function with a TODO, so there is
  nothing to check about a power failure.
* `Redo.hpp` and `RedoTimed.hpp`, RedoOpt's predecessors, which the makefile does
  not build by default, and RedoDB over them. Some differences are in section 6.
* TrinityDB's write batches, iterators and hash map. Its operations are calls of the
  map in transactions; what is particular about them is in section 6.
* Values of maps (they go wherever their keys go), destructors, the order
  statistics of the red-black tree, some of which do not compile when instantiated.
* Vendored dlmalloc, the PMDK wrapper, `ptm.h`, LevelDB's utilities, the benchmarks:
  not this system's own logic, or no state.

## 6. Findings

Five are runs that TLC must find violated, each of one property that a line of
the repository states:

1. `quadravr`. `endTx()` stores the number of *log entries* into the lines it
   modifies (QuadraVRFC.hpp:805), recovery compares it with a number of *lines*
   (859). Two stores of a transaction to one line, and a power failure takes back
   a transaction that has returned.
2. `btreemap`. `removeKey()` and `removeMin()` of TMBTreeMap.hpp return references to
   a slot after shifting the next key into it; the caller then moves that one out
   (342). Removing one key loses another.
3. `redoopt`. The words that a redo log brings to a replica are stored without PWB
   (RedoOpt.hpp:599), the replica becomes current, and a power failure loses them.
4. `redoreader` (`EveryUpdateApplied`). A reader that has announced itself
   (RedoOpt.hpp:1316) and then succeeds alone leaves its request open. Its thread's
   next `updateTx()` toggles `announce` back (1520), takes its new function for applied
   (1541), and returns without it; or a helper that still sees the old request
   applies the new function, which the toggle then opens again. TLC's
   counterexample has 20 states. `EveryCallAnswered` of `redo` is the same of the
   threads that have not done so, reads included.
5. `redounlock` (`RecoveryPointKept`), three threads on one schedule of 104 states
   (`TurnSpec`). A commit unlocks the previous replica (RedoOpt.hpp:1643) before the
   PWB of `curComb` (1646), so for a while the medium may name a replica that is free.
   Whoever starts then stores `curComb` to the medium first (1560); threads that stand
   in `getNewComb()` with an older `curComb` do not. One such thread locks the replica,
   whose head is ahead of what the thread knows, so `makeCopy()` sets that head to
   "nothing is known" (1367), finds its own request applied, and unlocks. A second one
   finds the head so, and copies the current replica over it, word by word: a power
   failure before the PWB recovers a torn replica. With two threads nobody is left to
   be the second one. Unlocking after the PWB and a fence would close the window.

More counterexamples are found by hand. They are no runs only because there is a
run of the same component already. For each one, the module, the constants that
differ in its configuration, and the property to put in the place of the others are
given; in MCEngines.cfg, `Engine` is the set of the one engine.

* MCEngines, Quadra, `AllOrNothing` with `~SharesCount` dropped from `CommitStep`. `endTx()`
  advances `v_seq` (QuadraFC.hpp:683) for a transaction that has stored nothing, too.
  Then two numbers of the same parity are adjacent in what words carry, the next
  transaction clears the count of a word of the last durable one before it stores its
  `seq` (912-913), and a power failure in between makes recovery roll back the other
  words of a transaction that had committed. An update function that finds nothing to
  do (removing an absent key) is enough.
* MCEngines, RomLog, `RootsAllOrNothing`. Recovery from `MUTATING` skips PMetadata
  (RomLogFC.hpp:703), which holds the root pointers that `put_object()` modifies in
  transactions.
* MCEngines, RomLog, `CreationIsDurable`. The allocator is initialised without a PWB
  before `id` is made durable (RomLogFC.hpp:663-668); until the first commit a power
  failure leaves a region with an id and no allocator.
* MCEngines, RomLog2F, `StaleInst`. The constructor sets `inst` to 0 without PWB
  (RomLog2FFC.hpp:592): stores of the first transaction after a restart can go to the
  half that the medium still names, and a power failure leaves a torn transaction.
* MCEngines, RomLog2F, `RootsAreDurable`. The root pointers lie in the PMetadata of
  each half, which recovery leaves out (687): a root set in the half that the next
  process does not load is lost.
* MCEngines, RomulusLog, `LargeAreDurable`. A transaction that outgrows its log
  (RomulusLog.hpp:219) flushes, in `end_transaction()` (314), only what the log still
  holds. The limit is a quarter of `used_size`, about 30 bytes right after creation.
* MCTL2, `NumLocks = 2`, `Program <- MCRanges`, `MaxClock = 3`, `StrictlySerializable`.
  A range whose locks wrap around the end of the table is stored to without taking
  any (TrinityVRTL2.hpp:769).
* MCSequential, `Request = {1, 2, 5}`, `IntBits = 4` (the width of an int scaled down with
  the pool), `ObjectsInPool`. `1<<bsize` is an int (TrinityFC.hpp:379,
  and in the other headers): a request of more than 1 GB moves the top of the pool
  down.
* MCSequential, `DrainEmpties` (of `FatLists`). When the head's node is the
  tail's, `dequeue()` (TMLinkedListFatQueueByRef.hpp:85) can answer nullptr although items
  are there, so the loop under "Drain the queue" (52) stops early;
  PBenchmarkQueues.hpp:121 treats that answer as an error.

Seen while reading, without a run:

* "if the header is not consistent, clear everything" (QuadraFC.hpp:642,
  RomLogFC.hpp:657): `id` is never read there, and a region whose creation was cut
  short is used as it is. TrinityFC.hpp:634 does check it. `OpenExisting` of Quadra and
  RomLog model what the code does; `AllOrNothing` and `ImplementsStore` of Quadra speak
  of regions whose `id` is durable. TrinityTL2.hpp:759 never checks it either, and the
  condition of `resetPM` (792) is inverted.
* RomLogFC gives the allocator the whole region (661, 664), of which the second half
  is `back`: past half of the pool, objects lie where copies go.
* RomulusLog's `used_size` is about 120 after `createFile()`, so that `copyBackToMain()`
  restores only that much; the model takes it to cover every word. Entries of the
  log are cache lines, and that of main's first line reaches before `main_addr`.
* OneFile's `recover()` is commented out at its only call (OneFilePTMLF.hpp:703).
* TMBTreeMap.hpp: `SeekToFirst()` and `SeekToLast()` leave the iterator invalid when the
  root is a leaf, moving back uses a parent that may be stale (560-566, 572-578), and
  iterators run outside of transactions.
* With `PTMDB_CAPTURE_BY_COPY`, `Write()` (db_impl.h:109) runs each operation of a batch
  in a transaction of its own, last first, against write_batch.h:5-8; all Redo
  headers define it, and with them `Get` writes the caller's string from the threads
  that help.
* `PBTSlice::compare()` is a prefix match, and its move assignment leaks what it held.
* TMBTree.hpp: `deleteAll()` loops over `length` children and leaks the last.
* The linked-list stack pops its nullptr sentinel.
* RedoOpt: when the set of aggregated lines overflows, `merge()` sets `tlocal.copy` and
  empties the set, but a `continue` that follows resets `tlocal.copy` to the replica's
  `flushcopy` (1609-1617), and the lines are lost. `apply_redologs()` stores an
  uninitialised ring ticket as head when none of its rounds runs (610, 647); the
  model takes any earlier ticket.
* Redo.hpp and RedoTimed.hpp: a restart leaves `combs[i].head` at 0, so that stale
  replicas pass for up to date (RedoOpt.hpp:1195 repairs it). Redo.hpp moves another
  thread's ring slot on without a PWB of `curComb` (what RedoOpt.hpp:1560 is for), and `tl_pwb_idx = 0` at
  the next attempt forgets deferred PWBs.

## 7. The plan

Done, in this order: PersistentMemory, Trinity and its proofs; ThreadRegistry,
CRWWPLock, FlatCombining; TrinityFC against DurableTM; Quadra, RomLog, EsLoco; the
engines with a replica; RomLog2F and RomulusLog; the TL2 pair; OneFile; the data
structures against KeySet, queues and stacks; RedoOpt; the proofs about the registry,
the lock, flat combining, TrinityFC, the engines with two halves, Quadra, the
allocator, OneFile, TrinityVR and TrinityTL2.

Left to model: TrinityDB's operations, write batches and iterators over the
B-tree; Redo and RedoTimed as variants of RedoOpt; the flushing of a whole replica.

Next theorems, in this order: `StrictlySerializable` of TrinityVRTL2, where a lock
guards several words and a transaction logs ranges; `PublishedAtReturn` and
`StrictlySerializable` of RedoOpt, whose invariant has to describe the whole of helping.
`RecoveryPointKept` of RedoOpt is no candidate: it is false (finding 5).
