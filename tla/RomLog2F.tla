------------------------------ MODULE RomLog2F ------------------------------
(***************************************************************************)
(* The persistence engine of ptms/romuluslog/RomLog2FFC.hpp, with two      *)
(* fences: inst in the header names the half that loads and stores of a    *)
(* transaction go to, while the other half stays as the last transaction   *)
(* has left it.  The transaction commits by moving inst on; its stores are *)
(* then copied to the half that is current now, and flushed with those of  *)
(* the next transaction.                                                   *)
(***************************************************************************)
EXTENDS MainAndBack

inst == cache[pmd].inst
SetInst(i) == [cache[pmd] EXCEPT !.inst = i]
Half(i) == IF i = 0 THEN "main" ELSE "back"
Current(w) == <<Half(inst), w>>

Init == InitRegion([id |-> FALSE, inst |-> 0])
-----------------------------------------------------------------------------
(* recover(): from main, if inst is 1, or from back, header apart.         *)
OpenExisting ==
  /\ pc = "down" /\ file
  /\ pc' = "recover" /\ todo' = Heap
  /\ UNCHANGED <<cache, pm, pwb, file, nested, appendLog, cur, settled>>

RecoverCopy == pc = "recover" /\ Copy(Half(inst), Half(1 - inst))

RecoverFlush ==
  /\ pc = "recover" /\ todo = {}
  /\ Flush({<<Half(inst), w>> : w \in Heap})
  /\ pc' = "recoverSync"
  /\ UNCHANGED <<file, nested, appendLog, todo, cur, settled>>

(* The last store of the constructor has no PWB. *)
ResetInst ==
  /\ pc = "recoverSync" /\ Fenced
  /\ Store(pmd, SetInst(0))
  /\ pc' = "idle"
  /\ UNCHANGED <<file, nested, appendLog, todo, cur, settled>>

Recover == OpenExisting \/ RecoverCopy \/ RecoverFlush \/ ResetInst
-----------------------------------------------------------------------------
BeginTx ==
  /\ pc = "idle"
  /\ nested' = 1 /\ pc' = "tx"
  /\ UNCHANGED <<cache, pm, pwb, file, appendLog, todo, cur, settled>>

Pstore ==
  /\ pc = "tx"
  /\ \E w \in Word, v \in Val :
       /\ appendLog' = appendLog \cup {w}
       /\ Store(Current(w), v)
  /\ UNCHANGED <<file, pc, nested, todo, cur, settled>>

EndTx ==
  /\ pc = "tx" /\ nested = 1
  /\ nested' = 0
  /\ Flush({Current(w) : w \in appendLog})
  /\ pc' = "fence"
  /\ UNCHANGED <<file, appendLog, todo, cur, settled>>

EndTxNoFence ==  \* mutant: the PFENCE before inst moves on is missing
  /\ pc = "fence"
  /\ StorePWB(pmd, SetInst(1 - inst))
  /\ pc' = "sync"
  /\ UNCHANGED <<file, nested, appendLog, todo, cur, settled>>

EndTxInst ==
  /\ pc = "fence" /\ Fenced
  /\ StorePWB(pmd, SetInst(1 - inst))
  /\ pc' = "sync"
  /\ UNCHANGED <<file, nested, appendLog, todo, cur, settled>>

EndTxSync ==
  /\ pc = "sync" /\ Fenced
  /\ pc' = "apply" /\ todo' = appendLog
  /\ UNCHANGED <<cache, pm, pwb, file, nested, appendLog, cur, settled>>

ApplyStores == pc = "apply" /\ Copy(Half(inst), Half(1 - inst))

EndTxDone ==
  /\ pc = "apply" /\ todo = {}
  /\ Flush({Current(w) : w \in appendLog})
  /\ appendLog' = {}
  /\ pc' = "idle"
  /\ UNCHANGED <<file, nested, todo, cur, settled>>

Commit == EndTx \/ EndTxInst \/ EndTxSync \/ ApplyStores \/ EndTxDone

(* The new inst in the medium commits. *)
CommitsInst == pc = "sync" /\ pm'[pmd] = cache[pmd]

Next == \/ Create \/ Recover
        \/ BeginTx \/ Pstore \/ Nesting \/ Commit
        \/ Evict(CommitsInst) \/ Crash

Spec == Init /\ [][Next]_regionVars
-----------------------------------------------------------------------------
(* What the next process loads after recover() and ResetInst. *)
Recovered(w) == IF w \in Root \/ pm[pmd].inst = 1 THEN pm[Main(w)] ELSE pm[Back(w)]
DurableHeap == [w \in Heap |-> Recovered(w)]

(* Once a transaction has committed in the region, whenever updateTx() or  *)
(* the constructor has returned, a power failure would leave the heap that *)
(* loads see.                                                              *)
IdleIsDurable == pc = "idle" /\ settled => \A w \in Heap : Recovered(w) = cache[Current(w)]

(* The process is a restarted one, and its inst has not reached the medium *)
(* when its first transaction stores: see StaleInst below.                 *)
Exposed == pc \in {"tx", "fence"} /\ pm[pmd].inst # inst

(* Transactions are atomic on the heap, unless exposed as above: what a    *)
(* power failure would leave changes only when the new inst reaches the    *)
(* medium, to what the transaction has made of the other half.             *)
HeapStep ==
  settled /\ ~Exposed /\ DurableHeap' # DurableHeap =>
    /\ pc = "sync" /\ pm'[pmd] = cache[pmd]
    /\ \A w \in Heap : DurableHeap'[w] = cache[<<Half(1 - inst), w>>]

(* "All these PTMS provide durable linearizable (ACID) transactions": what *)
(* a transaction stores does not survive a power failure before it ends.   *)
StaleInst == [][settled /\ pc \in {"tx", "fence"} => DurableHeap' = DurableHeap]_regionVars

(* The same line, of the root pointers: once put_object()'s transaction    *)
(* has returned, it survives.                                              *)
RootsAreDurable ==
  pc = "idle" /\ settled => \A w \in Root : Recovered(w) = cache[Current(w)]
=============================================================================
