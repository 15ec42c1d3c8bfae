------------------------------ MODULE QuadraVR ------------------------------
(***************************************************************************)
(* The persistence engine of ptms/quadra/QuadraVRFC.hpp: Quadra with a     *)
(* volatile replica.  A transaction stores its number of log entries into  *)
(* every line it modifies, and recovery compares it with a number of       *)
(* lines.                                                                  *)
(***************************************************************************)
EXTENDS VolatileReplica, FiniteSets

VARIABLE v_seq   \* volatile: the sequence number of the next transaction

allVars == <<vars, v_seq>>

ZeroLines ==
  [l \in PCL |-> [main |-> ZeroWords(l), back |-> ZeroWords(l), seq |-> 0,
                   count |-> [i \in 0 .. 1 |-> 0]]]

Init ==
  /\ cache = [l \in Line |-> IF l = pmd THEN [root |-> FALSE, id |-> FALSE]
                                        ELSE ZeroLines[l]]
  /\ InitReplica /\ v_seq = 1

(* What the scans of recover() find. *)
HighestSeq(mem) == CHOOSE s \in {mem[l].seq : l \in PCL} : \A l \in PCL : mem[l].seq <= s

LastTx(mem) == {l \in PCL : mem[l].seq = HighestSeq(mem)}

LastTxCommitted(mem) ==
  \A l \in LastTx(mem) : mem[l].count[HighestSeq(mem) % 2] = Cardinality(LastTx(mem))

OpenExisting ==
  /\ pc = "down" /\ cache[pmd].id
  /\ pc' = "recover" /\ v_seq' = HighestSeq(cache) + 1
  /\ todo' = IF LastTxCommitted(cache) THEN {} ELSE {0} \X LastTx(cache)
  /\ UNCHANGED <<cache, pm, pwb, creating, nested, vr, v_log, cur>>

Revert ==
  /\ pc = "recover"
  /\ \E x \in todo : /\ IsNext(x) /\ todo' = todo \ {x}
                     /\ StorePWB(x[2], [cache[x[2]] EXCEPT !.main = cache[x[2]].back])
  /\ UNCHANGED <<pc, creating, nested, vr, v_log, cur>>

(* storeRange(): between back and seq the count of this transaction is     *)
(* cleared, and after main it is stored.                                   *)
SetCount(l, n) == [cache[l] EXCEPT !.count[v_seq % 2] = n]

StoreRangeClear ==
  /\ pc = "flushClear"
  /\ \E x \in todo : IsNext(x) /\ Store(x[2], SetCount(x[2], 0))
  /\ pc' = "flushSeq"
  /\ UNCHANGED <<creating, nested, vr, v_log, todo, cur>>

StoreRangeMain ==
  /\ pc = "flushMain"
  /\ \E x \in todo : IsNext(x) /\ Store(x[2], [cache[x[2]] EXCEPT !.main = Contents(x[2])])
  /\ pc' = "flushCount"
  /\ UNCHANGED <<creating, nested, vr, v_log, todo, cur>>

StoreRangeCount ==
  /\ pc = "flushCount"
  /\ \E x \in todo : /\ IsNext(x) /\ todo' = todo \ {x}
                     /\ StorePWB(x[2], SetCount(x[2], Len(v_log)))
  /\ pc' = "flush"
  /\ UNCHANGED <<creating, nested, vr, v_log, cur>>

EndTxSync ==
  /\ pc = "flush" /\ todo = {} /\ Fenced
  /\ v_seq' = v_seq + 1
  /\ EndTxDone

Next ==
  \/ OpenExisting
  \/ EndTxSync
  \/ Crash /\ v_seq' = 1
  \/ /\ \/ OpenNew([root |-> FALSE, id |-> FALSE], ZeroLines)
        \/ Revert \/ CopyToReplica
        \/ Transaction(v_seq) \/ Evict
        \/ StoreRangeSkip(v_seq) \/ StoreRangeBack(v_seq, "flushClear")
        \/ StoreRangeClear \/ StoreRangeSeq(v_seq) \/ StoreRangeMain \/ StoreRangeCount
     /\ UNCHANGED v_seq

Spec == Init /\ [][Next]_allVars
-----------------------------------------------------------------------------
(* What recover() makes of a region, line by line, and word by word. *)
DurableMem ==
  [a \in Addr |-> LET l == LineOf(a)
                  IN  IF l \in LastTx(pm) /\ ~LastTxCommitted(pm) THEN pm[l].back[a]
                      ELSE pm[l].main[a]]

(* "Durable commit" (QuadraVRFC.hpp, endTx): once updateTx() has returned, *)
(* a power failure leaves what the replica holds.                          *)
IdleIsDurable == pc = "idle" => DurableMem = vr
=============================================================================
