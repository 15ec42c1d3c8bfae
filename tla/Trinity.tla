------------------------------- MODULE Trinity -------------------------------
(***************************************************************************)
(* The persistence engine of ptms/trinity/TrinityFC.hpp: creation of the   *)
(* region, recovery, and durable transactions with two fences.  Each       *)
(* persist<T> holds its value (main), the value it had before the          *)
(* transaction that last modified it (back) and the sequence number of     *)
(* that transaction (seq), all in one cache line.  A transaction commits   *)
(* when p_seq, the number of the running transaction, moves on; recovery   *)
(* reverts every persist whose seq is still p_seq.                         *)
(*                                                                         *)
(* One transaction runs at a time, on the thread that holds the writers'   *)
(* lock (module FlatCombining), so the engine has one program counter.     *)
(* Two stores to different lines are two steps; the processor writes lines *)
(* back, and power fails, between any two of them.                         *)
(***************************************************************************)
EXTENDS Naturals, Sequences, PersistentMemory

CONSTANTS NumPersists,  \* persist<> words in the region
          Val,          \* values of a word
          Zero,         \* the value of a word of a file never written
          CreateStores, \* the stores <<addr, val>> of the transaction that creates
                        \* the allocator: esloco.init(), then esloco.malloc()
          MaxSeq,       \* bound: no transaction begins once p_seq is MaxSeq
          MaxNesting    \* bound: depth of nested transactions

Addr == 1 .. NumPersists
pmd  == 0                 \* the line of PMetadata, first of the region
Line == {pmd} \cup Addr

ASSUME TrinityAssumption ==
  /\ NumPersists \in Nat
  /\ Zero \in Val
  /\ CreateStores \in Seq(Addr \X Val)
  /\ MaxSeq \in Nat /\ MaxNesting \in Nat

Persist == [main : Val, back : Val, seq : Nat]
PMetadata == [root : BOOLEAN,  \* the array of root pointers has been allocated
              id   : BOOLEAN,  \* is it MAGIC_ID?
              p_seq : Nat]

VARIABLES pc,      \* where the process stands in the engine's code
          creating,\* mapPersistentRegion() is creating the region
          nested,  \* tl_nested_write_trans of the thread in the engine
          cur,     \* the iterator p of recover(), or the next word to create
          store    \* the pstore() under way

engineVars == <<pc, creating, nested, cur, store>>
vars == <<cache, pm, pwb, pc, creating, nested, cur, store>>

NoStore == [addr |-> pmd, val |-> Zero]

p_seq == cache[pmd].p_seq
-----------------------------------------------------------------------------
(* A file that has just been created reads as zeroes, and no process has   *)
(* mapped it yet.                                                          *)
Init ==
  /\ cache = [l \in Line |->
                IF l = pmd THEN [root |-> FALSE, id |-> FALSE, p_seq |-> 0]
                ELSE [main |-> Zero, back |-> Zero, seq |-> 0]]
  /\ pm = cache
  /\ pwb = {}
  /\ pc = "down" /\ creating = FALSE /\ nested = 0
  /\ cur = 1 /\ store = NoStore

(* mapPersistentRegion() finds a header with MAGIC_ID: recover. *)
OpenExisting ==
  /\ pc = "down" /\ cache[pmd].id
  /\ pc' = "recover" /\ cur' = 1
  /\ UNCHANGED <<cache, pm, pwb, creating, nested, store>>

(* No header, or one whose creation never finished: a fresh PMetadata, and *)
(* the transaction that initialises the allocator.  The words behind the   *)
(* header keep what an earlier attempt left in them.                       *)
OpenNew ==
  /\ pc = "down" /\ ~cache[pmd].id
  /\ StorePWB(pmd, [root |-> FALSE, id |-> FALSE, p_seq |-> 1])
  /\ pc' = "tx" /\ creating' = TRUE /\ nested' = 1 /\ cur' = 1
  /\ UNCHANGED store
-----------------------------------------------------------------------------
(* recover(): one persist after the other. *)
Scanned(p) == cache[p].seq # p_seq

RecoverSkip ==
  /\ pc = "recover" /\ cur \in Addr /\ Scanned(cur)
  /\ cur' = cur + 1
  /\ UNCHANGED <<cache, pm, pwb, pc, creating, nested, store>>

RecoverMain ==
  /\ pc = "recover" /\ cur \in Addr /\ ~Scanned(cur)
  /\ Store(cur, [cache[cur] EXCEPT !.main = cache[cur].back])
  /\ pc' = "recoverSeq"
  /\ UNCHANGED <<creating, nested, cur, store>>

RecoverSeqNoPWB ==  \* mutant: the PWB of recover() is missing
  /\ pc = "recoverSeq"
  /\ Store(cur, [cache[cur] EXCEPT !.seq = 0])
  /\ pc' = "recover" /\ cur' = cur + 1
  /\ UNCHANGED <<creating, nested, store>>

RecoverSeq ==
  /\ pc = "recoverSeq"
  /\ StorePWB(cur, [cache[cur] EXCEPT !.seq = 0])
  /\ pc' = "recover" /\ cur' = cur + 1
  /\ UNCHANGED <<creating, nested, store>>

RecoverDone ==
  /\ pc = "recover" /\ cur \notin Addr /\ Fenced
  /\ pc' = "idle"
  /\ UNCHANGED <<cache, pm, pwb, creating, nested, cur, store>>
-----------------------------------------------------------------------------
(* beginTx(): only the outermost one begins a transaction. *)
BeginTx ==
  /\ pc = "idle" /\ p_seq < MaxSeq
  /\ pc' = "tx" /\ nested' = 1
  /\ UNCHANGED <<cache, pm, pwb, creating, cur, store>>

BeginNestedTx ==
  /\ pc = "tx" /\ ~creating /\ nested < MaxNesting
  /\ nested' = nested + 1
  /\ UNCHANGED <<cache, pm, pwb, pc, creating, cur, store>>

(* pstore() of v: on the first store of this transaction to the persist,   *)
(* back, then seq, then main; on a later one, main alone.                  *)
PstoreBack(a, v) ==
  /\ pc = "tx" /\ cache[a].seq # p_seq
  /\ Store(a, [cache[a] EXCEPT !.back = cache[a].main])
  /\ pc' = "pstoreSeq" /\ store' = [addr |-> a, val |-> v]
  /\ UNCHANGED <<creating, nested, cur>>

PstoreSeq ==
  /\ pc = "pstoreSeq"
  /\ Store(store.addr, [cache[store.addr] EXCEPT !.seq = p_seq])
  /\ pc' = "pstoreMain"
  /\ UNCHANGED <<creating, nested, cur, store>>

PstoreMain ==
  /\ pc = "pstoreMain"
  /\ StorePWB(store.addr, [cache[store.addr] EXCEPT !.main = store.val])
  /\ pc' = "tx" /\ store' = NoStore
  /\ cur' = IF creating THEN cur + 1 ELSE cur
  /\ UNCHANGED <<creating, nested>>

PstoreAgainNoPWB(a, v) ==  \* mutant: only the first pstore() issues a PWB
  /\ pc = "tx" /\ cache[a].seq = p_seq
  /\ Store(a, [cache[a] EXCEPT !.main = v])
  /\ cur' = IF creating THEN cur + 1 ELSE cur
  /\ UNCHANGED <<pc, creating, nested, store>>

PstoreAgain(a, v) ==
  /\ pc = "tx" /\ cache[a].seq = p_seq
  /\ StorePWB(a, [cache[a] EXCEPT !.main = v])
  /\ cur' = IF creating THEN cur + 1 ELSE cur
  /\ UNCHANGED <<pc, creating, nested, store>>

Pstore(a, v) == PstoreBack(a, v) \/ PstoreAgain(a, v)

UserPstore == ~creating /\ \E a \in Addr, v \in Val : Pstore(a, v)

(* The stores of the creating transaction, in order, and the address of    *)
(* the array of root pointers, a plain store into the header.              *)
CreatePstore ==
  /\ creating /\ cur <= Len(CreateStores)
  /\ Pstore(CreateStores[cur][1], CreateStores[cur][2])

CreateRoot ==
  /\ creating /\ pc = "tx" /\ cur = Len(CreateStores) + 1
  /\ Store(pmd, [cache[pmd] EXCEPT !.root = TRUE])
  /\ cur' = cur + 1
  /\ UNCHANGED <<pc, creating, nested, store>>
-----------------------------------------------------------------------------
(* endTx(): the outermost one waits for the modifications, moves p_seq on, *)
(* and waits for that: the durable commit.                                 *)
EndNestedTxUnbalanced ==  \* mutant: the outermost end is taken for a nested one
  /\ pc = "tx"
  /\ nested' = nested - 1
  /\ UNCHANGED <<cache, pm, pwb, pc, creating, cur, store>>

EndNestedTx ==
  /\ pc = "tx" /\ nested > 1
  /\ nested' = nested - 1
  /\ UNCHANGED <<cache, pm, pwb, pc, creating, cur, store>>

EndTx ==
  /\ pc = "tx" /\ nested = 1
  /\ creating => cur = Len(CreateStores) + 2
  /\ nested' = 0 /\ pc' = "fence"
  /\ UNCHANGED <<cache, pm, pwb, creating, cur, store>>

EndTxIncrementNoFence ==  \* mutant: the PFENCE of endTx() is missing
  /\ pc = "fence"
  /\ StorePWB(pmd, [cache[pmd] EXCEPT !.p_seq = p_seq + 1])
  /\ pc' = "sync"
  /\ UNCHANGED <<creating, nested, cur, store>>

EndTxIncrement ==
  /\ pc = "fence" /\ Fenced
  /\ StorePWB(pmd, [cache[pmd] EXCEPT !.p_seq = p_seq + 1])
  /\ pc' = "sync"
  /\ UNCHANGED <<creating, nested, cur, store>>

EndTxNoSync ==  \* mutant: the PSYNC of endTx() is missing
  /\ pc = "sync" /\ ~creating
  /\ pc' = "idle"
  /\ UNCHANGED <<cache, pm, pwb, creating, nested, cur, store>>

EndTxSync ==
  /\ pc = "sync" /\ ~creating /\ Fenced
  /\ pc' = "idle"
  /\ UNCHANGED <<cache, pm, pwb, creating, nested, cur, store>>

(* Creation goes on: the root and the fence, then MAGIC_ID and the fence.  *)
CreateFlushRoot ==
  /\ pc = "sync" /\ creating /\ Fenced
  /\ pwb' = {pmd} /\ pc' = "createRoot"
  /\ UNCHANGED <<cache, pm, creating, nested, cur, store>>

CreateId ==
  /\ pc = "createRoot" /\ Fenced
  /\ StorePWB(pmd, [cache[pmd] EXCEPT !.id = TRUE])
  /\ pc' = "createId"
  /\ UNCHANGED <<creating, nested, cur, store>>

CreateDone ==
  /\ pc = "createId" /\ Fenced
  /\ pc' = "idle" /\ creating' = FALSE
  /\ UNCHANGED <<cache, pm, pwb, nested, cur, store>>
-----------------------------------------------------------------------------
(* The environment. *)
Evict ==
  /\ \E l \in Line : WriteBack(l)
  /\ UNCHANGED engineVars

Crash ==
  /\ PowerFailure
  /\ pc' = "down" /\ creating' = FALSE /\ nested' = 0
  /\ cur' = 1 /\ store' = NoStore

Open == OpenExisting \/ OpenNew
Recover == RecoverSkip \/ RecoverMain \/ RecoverSeq \/ RecoverDone
Create == CreatePstore \/ CreateRoot \/ CreateFlushRoot \/ CreateId \/ CreateDone
Commit == EndTx \/ EndTxIncrement \/ EndTxSync
Nesting == BeginNestedTx \/ EndNestedTx

Next == \/ Open \/ Recover \/ Create
        \/ BeginTx \/ UserPstore \/ PstoreSeq \/ PstoreMain \/ Nesting \/ Commit
        \/ Evict \/ Crash

Spec == Init /\ [][Next]_vars
-----------------------------------------------------------------------------
PC == {"down", "recover", "recoverSeq", "idle", "tx", "pstoreSeq", "pstoreMain",
       "fence", "sync", "createRoot", "createId"}

(* The shape of the state: the lines of the region and of the medium, the  *)
(* counters and the program counter of TrinityFC.hpp's engine.             *)
TypeOK ==
  /\ cache \in [Line -> Persist \cup PMetadata]
  /\ pm \in [Line -> Persist \cup PMetadata]
  /\ cache[pmd] \in PMetadata /\ pm[pmd] \in PMetadata
  /\ \A a \in Addr : cache[a] \in Persist /\ pm[a] \in Persist
  /\ pwb \subseteq Line
  /\ pc \in PC /\ creating \in BOOLEAN
  /\ nested \in Nat /\ cur \in Nat \ {0}
  /\ store \in [addr : Line, val : Val]

(* What recover() makes of a persist when the header says seq. *)
Recovered(persist, seq) == IF persist.seq = seq THEN persist.back ELSE persist.main

(* What a power failure now would leave, and what loads see now. *)
DurableMem == [a \in Addr |-> Recovered(pm[a], pm[pmd].p_seq)]
VolatileMem == [a \in Addr |-> cache[a].main]

(* Whenever updateTx() or the constructor has returned (TrinityFC.hpp,     *)
(* endTx: "Durable commit"; recover), every value that loads see is the    *)
(* value a power failure would leave: nothing acknowledged can be lost,    *)
(* and nothing that was never committed can be seen.                       *)
IdleIsDurable == pc = "idle" => DurableMem = VolatileMem

(* Transactions are atomic: what a power failure would leave never changes *)
(* but by the commit of a whole transaction, the step in which the new     *)
(* p_seq reaches the medium.  No store, eviction, fence, power failure or  *)
(* step of a recovery, complete or cut short, may change it otherwise.     *)
AllOrNothing ==
  [][pm[pmd].id /\ DurableMem' # DurableMem
       => /\ pc = "sync" /\ pm[pmd].p_seq' = pm[pmd].p_seq + 1
          /\ DurableMem' = VolatileMem]_vars
-----------------------------------------------------------------------------
(* The invariant behind the three properties above, in parts.              *)

InStore   == pc \in {"pstoreSeq", "pstoreMain"}
Installed == pc \in {"sync", "createRoot", "createId"}  \* PFENCE of endTx() is past

(* Between two stores of pstore() or recover() to one persist, that one is *)
(* ahead of the medium with no PWB issued yet.                             *)
Ahead(a) == (InStore /\ a = store.addr) \/ (pc = "recoverSeq" /\ a = cur)

InvControl ==
  /\ InStore => store.addr \in Addr
  /\ pc = "recoverSeq" => cur \in Addr
  /\ pc = "down" => cache = pm /\ pwb = {}
  /\ creating => InStore \/ Installed \/ pc \in {"tx", "fence"}
  /\ creating => p_seq = IF Installed THEN 2 ELSE 1
  /\ pc \in {"createRoot", "createId"} => creating
  /\ creating => (cache[pmd].id <=> pc = "createId")
  /\ cache[pmd].id => p_seq > 1
  /\ ~cache[pmd].id => creating \/ pc = "down"

(* The header in the medium is the one in the cache, or one commit behind  *)
(* it; while the region is being created it has no MAGIC_ID.               *)
InvHeader ==
  /\ pm[pmd].id => \/ pm[pmd] = cache[pmd]
                   \/ /\ pc = "sync" /\ ~creating /\ p_seq > 2
                      /\ pm[pmd] = [cache[pmd] EXCEPT !.p_seq = p_seq - 1]
  /\ ~pm[pmd].id => creating \/ pc = "down"
  /\ pmd \notin pwb => pm[pmd] = cache[pmd] \/ (creating /\ ~Installed)

(* No persist is of a transaction that has yet to begin. *)
InvSeq ==
  LET last == IF pc = "down" /\ ~cache[pmd].id THEN 1 ELSE p_seq
  IN  \A a \in Addr : cache[a].seq <= last /\ pm[a].seq <= last

(* A line behind the cache has its PWB issued or its pstore under way, and *)
(* recovers to the same value from the medium as from the cache.           *)
InvLines ==
  \A a \in Addr :
    /\ a \in pwb \/ Ahead(a) \/ pm[a] = cache[a]
    /\ ~Installed => Recovered(pm[a], p_seq) = Recovered(cache[a], p_seq)

(* What each program point knows of the persists. *)
InvPoint ==
  /\ pc = "recover" => \A a \in Addr : a < cur => cache[a].seq # p_seq
  /\ pc = "recoverSeq" => /\ \A a \in Addr : a < cur => cache[a].seq # p_seq
                          /\ cache[cur].main = cache[cur].back
  /\ pc = "pstoreSeq" => /\ cache[store.addr].seq # p_seq
                         /\ cache[store.addr].back = cache[store.addr].main
  /\ pc = "pstoreMain" => cache[store.addr].seq = p_seq
  /\ Installed \/ pc = "idle" => /\ pwb \subseteq {pmd}
                                 /\ \A a \in Addr : cache[a].seq < p_seq
  /\ pc = "idle" => pwb = {}

(* In every state the region can be recovered to its last committed        *)
(* contents: the invariant of pstore(), endTx() and recover() together.    *)
RecoveryInv == InvControl /\ InvHeader /\ InvSeq /\ InvLines /\ InvPoint
-----------------------------------------------------------------------------
(* What the region holds when its creation is complete. *)
InitMem ==
  [a \in Addr |->
     LET stores == {i \in DOMAIN CreateStores : CreateStores[i][1] = a}
     IN  IF stores = {} THEN Zero
         ELSE CreateStores[CHOOSE i \in stores : \A j \in stores : j <= i][2]]

(* The refinement mapping to DurableStore: a region whose MAGIC_ID is not  *)
(* durable will be created again, so it stands for the initial contents;   *)
(* a committing transaction is durable when its p_seq is.                  *)
StoreMem == IF pm[pmd].id THEN DurableMem ELSE InitMem

StorePhase ==
  CASE pc \in {"down", "recover", "recoverSeq"} \/ creating -> "down"
    [] pc = "idle" /\ ~creating -> "idle"
    [] pc = "sync" /\ ~creating /\ pm[pmd].p_seq = p_seq -> "durable"
    [] OTHER -> "active"

StoreWork == IF StorePhase = "down" THEN StoreMem ELSE VolatileMem

Abstract == INSTANCE DurableStore WITH mem <- StoreMem, work <- StoreWork,
                                       phase <- StorePhase

(* The engine implements DurableStore: creation, cut short anywhere and    *)
(* tried again, always ends with the initial contents, recovery always     *)
(* with the contents after the last commit, and a transaction returns only *)
(* once it is durable (the README's "durable linearizable (ACID)").        *)
ImplementsStore == Abstract!Spec
=============================================================================
