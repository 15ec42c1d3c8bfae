------------------------------- MODULE RomLog -------------------------------
(***************************************************************************)
(* The persistence engine of ptms/romuluslog/RomLogFC.hpp: a transaction   *)
(* modifies main under MUTATING, makes it durable, and brings back up to   *)
(* date under COPYING.  The root pointers are persist<> words too, but     *)
(* live in PMetadata, which recovery from MUTATING does not restore.       *)
(***************************************************************************)
EXTENDS MainAndBack

state == cache[pmd].state
SetState(s) == [cache[pmd] EXCEPT !.state = s]

Init == InitRegion([id |-> FALSE, state |-> "IDLE"])
-----------------------------------------------------------------------------
(* A file that exists is recovered, whatever its header says: from main to *)
(* back if the state is COPYING, from back to main, header apart, if it is *)
(* MUTATING.                                                               *)
OpenExisting ==
  /\ pc = "down" /\ file
  /\ \/ state = "COPYING" /\ pc' = "recover" /\ todo' = Word
     \/ state = "MUTATING" /\ pc' = "recover" /\ todo' = Heap
     \/ state = "IDLE" /\ pc' = "idle" /\ todo' = {}
  /\ UNCHANGED <<cache, pm, pwb, file, nested, appendLog, cur, settled>>

RecoverCopy ==
  /\ pc = "recover"
  /\ IF state = "COPYING" THEN Copy("back", "main") ELSE Copy("main", "back")

RecoverFlush ==
  /\ pc = "recover" /\ todo = {}
  /\ Flush(IF state = "COPYING" THEN {Back(w) : w \in Word} ELSE {Main(w) : w \in Heap})
  /\ pc' = "recoverFence"
  /\ UNCHANGED <<file, nested, appendLog, todo, cur, settled>>

RecoverIdle ==
  /\ pc = "recoverFence" /\ Fenced
  /\ StorePWB(pmd, SetState("IDLE"))
  /\ pc' = "recoverSync"
  /\ UNCHANGED <<file, nested, appendLog, todo, cur, settled>>

RecoverDone == pc = "recoverSync" /\ FencedGoto("idle")

Recover == OpenExisting \/ RecoverCopy \/ RecoverFlush \/ RecoverIdle \/ RecoverDone
-----------------------------------------------------------------------------
(* beginTx(): MUTATING is durable before the first store. *)
BeginTx ==
  /\ pc = "idle"
  /\ nested' = 1
  /\ StorePWB(pmd, SetState("MUTATING"))
  /\ pc' = "begin"
  /\ UNCHANGED <<file, appendLog, todo, cur, settled>>

BeginTxFence == pc = "begin" /\ FencedGoto("tx")

(* pstore(), and put_object() for a root pointer: log the word, store. *)
Pstore ==
  /\ pc = "tx"
  /\ \E w \in Word, v \in Val :
       /\ appendLog' = appendLog \cup {w}
       /\ Store(Main(w), v)
  /\ UNCHANGED <<file, pc, nested, todo, cur, settled>>

(* endTx(): main is durable before COPYING is, and that before back is     *)
(* touched; back is durable before IDLE, for which no PWB is issued.       *)
EndTx ==
  /\ pc = "tx" /\ nested = 1
  /\ nested' = 0
  /\ Flush({Main(w) : w \in appendLog})
  /\ pc' = "fence"
  /\ UNCHANGED <<file, appendLog, todo, cur, settled>>

EndTxCopying ==
  /\ pc = "fence" /\ Fenced
  /\ StorePWB(pmd, SetState("COPYING"))
  /\ pc' = "sync"
  /\ UNCHANGED <<file, nested, appendLog, todo, cur, settled>>

EndTxSync ==
  /\ pc = "sync" /\ Fenced
  /\ pc' = "apply" /\ todo' = appendLog
  /\ UNCHANGED <<cache, pm, pwb, file, nested, appendLog, cur, settled>>

ApplyStores == pc = "apply" /\ Copy("back", "main")

FlushBackNothing ==  \* mutant: the second flushStores() is missing
  pc = "apply" /\ todo = {} /\ Goto("backFence")

FlushBack ==
  /\ pc = "apply" /\ todo = {}
  /\ Flush({Back(w) : w \in appendLog})
  /\ pc' = "backFence"
  /\ UNCHANGED <<file, nested, appendLog, todo, cur, settled>>

EndTxIdle ==
  /\ pc = "backFence" /\ Fenced
  /\ appendLog' = {}
  /\ Store(pmd, SetState("IDLE"))
  /\ pc' = "idle"
  /\ UNCHANGED <<file, nested, todo, cur, settled>>

Begin == BeginTx \/ BeginTxFence
Commit == EndTx \/ EndTxCopying \/ EndTxSync \/ ApplyStores \/ FlushBack \/ EndTxIdle

(* COPYING in the medium commits. *)
CommitsCopying == pm'[pmd].state = "COPYING"

Next == \/ Create \/ Recover
        \/ Begin \/ Pstore \/ Nesting \/ Commit
        \/ Evict(CommitsCopying) \/ Crash

Spec == Init /\ [][Next]_regionVars
-----------------------------------------------------------------------------
(* What recover() makes of a word. *)
Recovered(w) == IF pm[pmd].state = "MUTATING" /\ w \in Heap THEN pm[Back(w)] ELSE pm[Main(w)]

DurableHeap == [w \in Heap |-> Recovered(w)]
VolatileHeap == [w \in Heap |-> cache[Main(w)]]

(* Once a transaction has committed in the region, whenever updateTx() or  *)
(* the constructor has returned every value that loads see in the heap, or *)
(* in a root pointer, is the value a power failure would leave.            *)
IdleIsDurable == pc = "idle" /\ settled => \A w \in Word : Recovered(w) = cache[Main(w)]

(* Transactions are atomic on the heap: once one has committed, what a     *)
(* power failure would leave changes only when COPYING reaches the medium, *)
(* and then to all that the transaction has stored.                        *)
CommitPoint == pm[pmd].state = "MUTATING" /\ pm'[pmd].state = "COPYING"

HeapStep == settled /\ DurableHeap' # DurableHeap => CommitPoint /\ DurableHeap' = VolatileHeap

(* Between two transactions, and until the next one has made MUTATING      *)
(* durable, the two halves of the medium agree on the heap: back can undo  *)
(* whatever the next transaction does to main, also after a power failure  *)
(* during a commit or a recovery and although IDLE is never flushed.       *)
BackCanUndo ==
  settled /\ pc \in {"idle", "begin"} => \A w \in Heap : pm[Back(w)] = pm[Main(w)]

(* The same promise for the root pointers ("All these PTMS provide durable *)
(* linearizable (ACID) transactions"): a put_object() of a transaction     *)
(* that did not commit does not survive.                                   *)
RootsAllOrNothing ==
  [][settled /\ (\E w \in Root : Recovered(w)' # Recovered(w)) => CommitPoint]_regionVars

(* "Otherwise, re-use and recover to a consistent state" (mapPersistent-   *)
(* Region): from the moment the constructor returns, a region with its id  *)
(* recovers to the heap, the metadata of the allocator included, that the  *)
(* process that created it was working on.                                 *)
CreationIsDurable == pc = "idle" /\ pm[pmd].id => DurableHeap = VolatileHeap
=============================================================================
