------------------------------- MODULE Quadra -------------------------------
(***************************************************************************)
(* The persistence engine of ptms/quadra/QuadraFC.hpp: durable             *)
(* transactions with one fence.  There is no sequence number in the header *)
(* to commit with: a transaction is committed when every persist it has    *)
(* modified carries its seq and, in count[seq & 1], how many they are.     *)
(* Recovery looks for the highest seq and reverts its persists unless they *)
(* agree on the count and are that many.                                   *)
(*                                                                         *)
(* The concurrency (registry, lock, flat combining) is line for line that  *)
(* of TrinityFC.hpp, so here too the engine has one program counter.       *)
(***************************************************************************)
EXTENDS Naturals, Sequences, FiniteSets, PersistentMemory

CONSTANTS NumPersists,  \* persist<> words that recover() scans
          Val,          \* values of a word
          Zero,         \* the value of a word of a file never written
          CreateStores, \* the stores <<addr, val>> of the transaction that creates
                        \* the allocator: esloco.init(), then esloco.malloc()
          MaxSeq,       \* bound: no transaction begins once v_seq is above it
          MaxNesting    \* bound: depth of nested transactions

Addr == 1 .. NumPersists
pmd  == 0                 \* the line of PMetadata, first of the region
Line == {pmd} \cup Addr

(* What an instance of this module assumes of its constants. *)
QuadraAssumption ==
  /\ NumPersists \in Nat \ {0}
  /\ Zero \in Val
  /\ CreateStores \in Seq(Addr \X Val)
  /\ MaxSeq \in Nat /\ MaxNesting \in Nat

VARIABLES file,    \* does the file of the region exist?
          pc,      \* where the process stands in the engine's code
          creating,\* mapPersistentRegion() is creating the region
          nested,  \* tl_nested_write_trans of the thread in the engine
          v_seq,   \* volatile: the sequence number of the next transaction
          v_log,   \* volatile: the persists the transaction has modified
          todo,    \* the persists the loop under way has still to visit
          cur,     \* the next store of the creating transaction
          store    \* the pstore() under way

engineVars == <<file, pc, creating, nested, v_seq, v_log, todo, cur, store>>
vars == <<cache, pm, pwb, file, pc, creating, nested, v_seq, v_log, todo, cur, store>>

(* The header says whether the array of root pointers has been allocated,  *)
(* and whether it carries MAGIC_ID.                                        *)
NewHeader == [root |-> FALSE, id |-> FALSE]
NewPersist == [main |-> Zero, back |-> Zero, seq |-> 0, count |-> [i \in 0 .. 1 |-> 0]]

NoStore == [addr |-> pmd, val |-> Zero]

Init ==
  /\ cache = [l \in Line |-> IF l = pmd THEN NewHeader ELSE NewPersist]
  /\ pm = cache
  /\ pwb = {}
  /\ file = FALSE /\ pc = "down" /\ creating = FALSE /\ nested = 0
  /\ v_seq = 1 /\ v_log = {} /\ todo = {} /\ cur = 1 /\ store = NoStore
-----------------------------------------------------------------------------
(* What the three scans of recover() find in a region. *)
HighestSeq(mem) ==
  CHOOSE s \in {mem[a].seq : a \in Addr} : \A a \in Addr : mem[a].seq <= s

LastTx(mem) == {a \in Addr : mem[a].seq = HighestSeq(mem)}

LastTxCommitted(mem) ==
  \A a \in LastTx(mem) : mem[a].count[HighestSeq(mem) % 2] = Cardinality(LastTx(mem))

(* mapPersistentRegion(): a file that exists is recovered, whatever its    *)
(* header says.                                                            *)
OpenExisting ==
  /\ pc = "down" /\ file
  /\ v_seq' = HighestSeq(cache) + 1
  /\ IF LastTxCommitted(cache) THEN pc' = "idle" /\ todo' = {}
                               ELSE pc' = "revert" /\ todo' = LastTx(cache)
  /\ UNCHANGED <<cache, pm, pwb, file, creating, nested, v_log, cur, store>>

(* A new file: the transaction that initialises the allocator. *)
OpenNew ==
  /\ pc = "down" /\ ~file
  /\ file' = TRUE /\ pc' = "tx" /\ creating' = TRUE /\ nested' = 1
  /\ UNCHANGED <<cache, pm, pwb, v_seq, v_log, todo, cur, store>>

Revert ==
  /\ pc = "revert"
  /\ \E a \in todo : /\ StorePWB(a, [cache[a] EXCEPT !.main = cache[a].back])
                     /\ todo' = todo \ {a}
  /\ UNCHANGED <<file, pc, creating, nested, v_seq, v_log, cur, store>>

RevertDone ==
  /\ pc = "revert" /\ todo = {} /\ Fenced
  /\ pc' = "idle"
  /\ UNCHANGED <<cache, pm, pwb, file, creating, nested, v_seq, v_log, todo, cur, store>>
-----------------------------------------------------------------------------
BeginTx ==
  /\ pc = "idle" /\ v_seq <= MaxSeq
  /\ pc' = "tx" /\ nested' = 1
  /\ UNCHANGED <<cache, pm, pwb, file, creating, v_seq, v_log, todo, cur, store>>

BeginNestedTx ==
  /\ pc = "tx" /\ ~creating /\ nested < MaxNesting
  /\ nested' = nested + 1
  /\ UNCHANGED <<cache, pm, pwb, file, pc, creating, v_seq, v_log, todo, cur, store>>

(* pstore() of v: on the first store of this transaction to the persist,   *)
(* back, the count of this transaction, then seq, an entry in the volatile *)
(* log, and main; on a later one, main alone.  No PWB before the end.      *)
PstoreBack(a, v) ==
  /\ pc = "tx" /\ cache[a].seq # v_seq
  /\ Store(a, [cache[a] EXCEPT !.back = cache[a].main])
  /\ pc' = "pstoreCount" /\ store' = [addr |-> a, val |-> v]
  /\ UNCHANGED <<file, creating, nested, v_seq, v_log, todo, cur>>

PstoreCount ==
  /\ pc = "pstoreCount"
  /\ Store(store.addr, [cache[store.addr] EXCEPT !.count[v_seq % 2] = 0])
  /\ pc' = "pstoreSeq"
  /\ UNCHANGED <<file, creating, nested, v_seq, v_log, todo, cur, store>>

PstoreSeq ==
  /\ pc = "pstoreSeq"
  /\ Store(store.addr, [cache[store.addr] EXCEPT !.seq = v_seq])
  /\ v_log' = v_log \cup {store.addr}
  /\ pc' = "pstoreMain"
  /\ UNCHANGED <<file, creating, nested, v_seq, todo, cur, store>>

PstoreMain ==
  /\ pc = "pstoreMain"
  /\ Store(store.addr, [cache[store.addr] EXCEPT !.main = store.val])
  /\ pc' = "tx" /\ store' = NoStore
  /\ cur' = IF creating THEN cur + 1 ELSE cur
  /\ UNCHANGED <<file, creating, nested, v_seq, v_log, todo>>

PstoreAgain(a, v) ==
  /\ pc = "tx" /\ cache[a].seq = v_seq
  /\ Store(a, [cache[a] EXCEPT !.main = v])
  /\ cur' = IF creating THEN cur + 1 ELSE cur
  /\ UNCHANGED <<file, pc, creating, nested, v_seq, v_log, todo, store>>

Pstore(a, v) == PstoreBack(a, v) \/ PstoreAgain(a, v)

UserPstore == ~creating /\ \E a \in Addr, v \in Val : Pstore(a, v)

(* The stores of the creating transaction, in order, and the address of    *)
(* the array of root pointers, a plain store into the header.              *)
CreatePstore ==
  /\ creating /\ cur <= Len(CreateStores)
  /\ Pstore(CreateStores[cur][1], CreateStores[cur][2])

CreateRoot ==
  /\ creating /\ pc = "tx" /\ cur = Len(CreateStores) + 1
  /\ Store(pmd, [cache[pmd] EXCEPT !.root = TRUE])
  /\ cur' = cur + 1
  /\ UNCHANGED <<file, pc, creating, nested, v_seq, v_log, todo, store>>
-----------------------------------------------------------------------------
EndNestedTx ==
  /\ pc = "tx" /\ nested > 1
  /\ nested' = nested - 1
  /\ UNCHANGED <<cache, pm, pwb, file, pc, creating, v_seq, v_log, todo, cur, store>>

(* endTx(): the outermost one stores the count into each modified persist, *)
(* issues their PWBs, and waits: when the last of them is done, the        *)
(* transaction is committed.                                               *)
EndTx ==
  /\ pc = "tx" /\ nested = 1
  /\ creating => cur = Len(CreateStores) + 2
  /\ nested' = 0 /\ pc' = "count" /\ todo' = v_log
  /\ UNCHANGED <<cache, pm, pwb, file, creating, v_seq, v_log, cur, store>>

EndTxCount ==
  /\ pc = "count"
  /\ \E a \in todo :
       /\ Store(a, [cache[a] EXCEPT !.count[v_seq % 2] = Cardinality(v_log)])
       /\ todo' = todo \ {a}
  /\ UNCHANGED <<file, pc, creating, nested, v_seq, v_log, cur, store>>

EndTxFlush ==
  /\ pc = "count" /\ todo = {}
  /\ pwb' = pwb \cup v_log
  /\ pc' = "sync"
  /\ UNCHANGED <<cache, pm, file, creating, nested, v_seq, v_log, todo, cur, store>>

EndTxNoSync ==  \* mutant: the PSYNC of endTx() is missing
  /\ pc = "sync"
  /\ v_log' = {} /\ v_seq' = v_seq + 1
  /\ IF creating THEN pwb' = pwb \cup {pmd} /\ pc' = "createRoot"
                 ELSE pc' = "idle" /\ UNCHANGED pwb
  /\ UNCHANGED <<cache, pm, file, creating, nested, todo, cur, store>>

EndTxSync ==
  /\ pc = "sync" /\ Fenced
  /\ v_log' = {} /\ v_seq' = v_seq + 1
  /\ IF creating THEN pwb' = {pmd} /\ pc' = "createRoot"
                 ELSE pc' = "idle" /\ UNCHANGED pwb
  /\ UNCHANGED <<cache, pm, file, creating, nested, todo, cur, store>>

(* Creation goes on: the root and the fence, then MAGIC_ID and the fence.  *)
CreateId ==
  /\ pc = "createRoot" /\ Fenced
  /\ StorePWB(pmd, [cache[pmd] EXCEPT !.id = TRUE])
  /\ pc' = "createId"
  /\ UNCHANGED <<file, creating, nested, v_seq, v_log, todo, cur, store>>

CreateDone ==
  /\ pc = "createId" /\ Fenced
  /\ pc' = "idle" /\ creating' = FALSE
  /\ UNCHANGED <<cache, pm, pwb, file, nested, v_seq, v_log, todo, cur, store>>
-----------------------------------------------------------------------------
(* The environment. *)
Evict ==
  /\ \E l \in Line : WriteBack(l)
  /\ UNCHANGED engineVars

Crash ==
  /\ PowerFailure
  /\ pc' = "down" /\ creating' = FALSE /\ nested' = 0
  /\ v_seq' = 1 /\ v_log' = {} /\ todo' = {} /\ cur' = 1 /\ store' = NoStore
  /\ UNCHANGED file

Open == OpenExisting \/ OpenNew
Recover == Revert \/ RevertDone
Create == CreatePstore \/ CreateRoot \/ CreateId \/ CreateDone
FirstPstore == PstoreCount \/ PstoreSeq \/ PstoreMain
Commit == EndTx \/ EndTxCount \/ EndTxFlush \/ EndTxSync
Nesting == BeginNestedTx \/ EndNestedTx

Next == \/ Open \/ Recover \/ Create
        \/ BeginTx \/ UserPstore \/ FirstPstore \/ Nesting \/ Commit
        \/ Evict \/ Crash

Spec == Init /\ [][Next]_vars
-----------------------------------------------------------------------------
(* What recover() makes of a region. *)
Recovered(mem) ==
  [a \in Addr |-> IF a \in LastTx(mem) /\ ~LastTxCommitted(mem) THEN mem[a].back
                  ELSE mem[a].main]

(* What a power failure now would leave, and what loads see now. *)
DurableMem == Recovered(pm)
VolatileMem == [a \in Addr |-> cache[a].main]

(* Whenever updateTx() or the constructor has returned, what loads see is  *)
(* what a power failure would leave (QuadraFC.hpp, endTx: "Transaction     *)
(* commits (is now durable)").                                             *)
IdleIsDurable == pc = "idle" => DurableMem = VolatileMem

(* The transaction in endTx() has all its persists in the medium. *)
Committed == pc \in {"count", "sync"} /\ todo = {} /\ \A a \in v_log : pm[a] = cache[a]

(* A transaction without stores moves v_seq on and leaves no trace in the  *)
(* medium.  After an odd number of them, count[v_seq & 1], which the next  *)
(* transaction sets to 0 and then to its own count, is the entry that says *)
(* how many persists the last transaction in the medium has.               *)
SharesCount ==
  /\ v_log # {} \/ pc \in {"pstoreCount", "pstoreSeq"}
  /\ HighestSeq(pm) # v_seq /\ HighestSeq(pm) % 2 = v_seq % 2

(* Transactions are atomic: once the region is created, what a power       *)
(* failure would leave changes only by the commit of a whole transaction,  *)
(* the step in which the last of its persists reaches the medium with its  *)
(* count, asked for by its PWB or not.  It is so unless the transaction    *)
(* shares the count of the last one: then a power failure may revert what  *)
(* that one has stored, although it has returned.                          *)
CommitStep ==
  pm[pmd].id /\ ~SharesCount /\ DurableMem' # DurableMem
    => ~Committed /\ Committed' /\ DurableMem' = VolatileMem
-----------------------------------------------------------------------------
(* What the region holds when its creation is complete. *)
InitMem ==
  [a \in Addr |->
     LET stores == {i \in DOMAIN CreateStores : CreateStores[i][1] = a}
     IN  IF stores = {} THEN Zero
         ELSE CreateStores[CHOOSE i \in stores : \A j \in stores : j <= i][2]]

(* The refinement mapping to DurableStore.  A region whose MAGIC_ID is not *)
(* durable stands for one that no process has opened yet, and stays "down" *)
(* when a process goes on with what a creation cut short has left.         *)
StoreMem == IF pm[pmd].id THEN DurableMem ELSE InitMem

StorePhase ==
  IF ~pm[pmd].id \/ creating \/ pc \in {"down", "revert"} THEN "down"
  ELSE CASE pc = "idle" -> "idle"
         [] Committed -> "durable"
         [] OTHER -> "active"

StoreWork == IF StorePhase = "down" THEN StoreMem ELSE VolatileMem
=============================================================================
