------------------------------ MODULE TrinityVR ------------------------------
(***************************************************************************)
(* The persistence engine of ptms/trinity/TrinityVRFC.hpp: Trinity with a  *)
(* volatile replica.  Each line of the region holds three words twice and  *)
(* one seq; p_seq in the header says which transaction is running, and     *)
(* moving it on commits, as in Trinity.                                    *)
(***************************************************************************)
EXTENDS VolatileReplica

p_seq == cache[pmd].p_seq

ZeroLines == [l \in PCL |-> [main |-> ZeroWords(l), back |-> ZeroWords(l), seq |-> 0]]

Init ==
  /\ cache = [l \in Line |-> IF l = pmd THEN [root |-> FALSE, id |-> FALSE, p_seq |-> 0]
                                        ELSE ZeroLines[l]]
  /\ InitReplica

OpenExisting ==
  /\ pc = "down" /\ cache[pmd].id
  /\ pc' = "recover"
  /\ todo' = {0} \X {l \in PCL : cache[l].seq = p_seq}
  /\ UNCHANGED <<cache, pm, pwb, creating, nested, vr, v_log, cur>>

(* recover(): main := back, then seq := 0 and the PWB, line by line. *)
RecoverMain ==
  /\ pc = "recover"
  /\ \E x \in todo : IsNext(x) /\ Store(x[2], [cache[x[2]] EXCEPT !.main = cache[x[2]].back])
  /\ pc' = "recoverSeq"
  /\ UNCHANGED <<creating, nested, vr, v_log, todo, cur>>

RecoverSeq ==
  /\ pc = "recoverSeq"
  /\ \E x \in todo : /\ IsNext(x) /\ todo' = todo \ {x}
                     /\ StorePWB(x[2], [cache[x[2]] EXCEPT !.seq = 0])
  /\ pc' = "recover"
  /\ UNCHANGED <<creating, nested, vr, v_log, cur>>

(* The last store of storeRange(), and the PWB of the line. *)
StoreRangeMain ==
  /\ pc = "flushMain"
  /\ \E x \in todo : /\ IsNext(x) /\ todo' = todo \ {x}
                     /\ StorePWB(x[2], [cache[x[2]] EXCEPT !.main = Contents(x[2])])
  /\ pc' = "flush"
  /\ UNCHANGED <<creating, nested, vr, v_log, cur>>

EndTxIncrementUnfenced ==  \* mutant: the PFENCE before the increment of p_seq is missing
  /\ pc = "flush" /\ todo = {}
  /\ StorePWB(pmd, [cache[pmd] EXCEPT !.p_seq = p_seq + 1])
  /\ pc' = "sync"
  /\ UNCHANGED <<creating, nested, vr, v_log, todo, cur>>

EndTxIncrement ==
  /\ pc = "flush" /\ todo = {} /\ Fenced
  /\ StorePWB(pmd, [cache[pmd] EXCEPT !.p_seq = p_seq + 1])
  /\ pc' = "sync"
  /\ UNCHANGED <<creating, nested, vr, v_log, todo, cur>>

EndTxSync == pc = "sync" /\ Fenced /\ EndTxDone

Open == OpenNew([root |-> FALSE, id |-> FALSE, p_seq |-> 1], ZeroLines) \/ OpenExisting
Recover == RecoverMain \/ RecoverSeq \/ CopyToReplica
Commit == \/ StoreRangeSkip(p_seq) \/ StoreRangeBack(p_seq, "flushSeq")
          \/ StoreRangeSeq(p_seq) \/ StoreRangeMain
          \/ EndTxIncrement \/ EndTxSync

Next == \/ Open \/ Recover \/ Transaction(p_seq) \/ Commit \/ Evict \/ Crash

Spec == Init /\ [][Next]_vars
-----------------------------------------------------------------------------
(* What a power failure now would leave of a line, and of the words. *)
Recovered(line, seq) == IF line.seq = seq THEN line.back ELSE line.main
DurableMem == [a \in Addr |-> Recovered(pm[LineOf(a)], pm[pmd].p_seq)[a]]

(* When no transaction runs, the region by itself stands for the replica   *)
(* (mapVolatileRegion, "Copy all contents of PM's 'main's to VR"): losing  *)
(* the replica loses nothing, whatever ranges have been stored and         *)
(* whatever lines they share or straddle.                                  *)
ReplicaExpendable == pc = "idle" => DurableMem = vr
-----------------------------------------------------------------------------
(* What the region holds when its creation is complete. *)
InitMem ==
  [a \in Addr |->
     LET stores == {i \in DOMAIN CreateStores : a \in CreateStores[i][1]}
     IN  IF stores = {} THEN Zero
         ELSE CreateStores[CHOOSE i \in stores : \A j \in stores : j <= i][2]]

(* The refinement mapping to DurableStore, as in Trinity. *)
StoreMem == IF pm[pmd].id THEN DurableMem ELSE InitMem

StorePhase ==
  CASE pc \in {"down", "recover", "recoverSeq"} \/ creating -> "down"
    [] pc = "idle" /\ ~creating -> "idle"
    [] pc = "sync" /\ ~creating /\ pm[pmd].p_seq = p_seq -> "durable"
    [] OTHER -> "active"

StoreWork == IF StorePhase = "down" THEN StoreMem ELSE vr
=============================================================================
