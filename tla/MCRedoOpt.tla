----------------------------- MODULE MCRedoOpt -----------------------------
(* RedoOpt with two threads, three replicas, and two words: each update    *)
(* loads the word that the other one stores to.                            *)
EXTENDS RedoOpt

Update1 == <<Load({2}), Store({1})>>
Update2 == <<Load({1}), Store({2})>>
MCProgram == {Update1, Update2, <<Load({1}), Load({2})>>}
MCProgramOf == [t \in Thread |-> IF t = Runner THEN MCProgram ELSE {Update1}]

(* A schedule of three threads under which RecoveryPointKept fails.  2     *)
(* stops with what is current after the first update of 0, before it locks *)
(* a replica; 1 with what is current after the second; and 0 in its third  *)
(* between the unlock of the previous replica and the PWB of curComb.      *)
TwoStores == {<<Store({1}), Store({2})>>}
TwoStoresOf == [t \in Thread |-> TwoStores]

Turn ==
  CASE curComb.seq = 0 -> 0
    [] curComb.seq = 1 -> IF pc[0] # "idle" \/ pc[2] = "lock" THEN 0 ELSE 2
    [] curComb.seq = 2 ->
         LET passed1 == pc[0] = "help" /\ my[0].i = 2 /\ my[0].cComb.seq = 2
         IN  IF pc[1] # "lock" /\ (pc[1] # "idle" \/ passed1) THEN 1 ELSE 0
    [] OTHER -> CASE pc[0] # "ringMine" -> 0
                  [] pc[0] = "ringMine" /\ pc[2] # "giveUpRing" -> 2
                  [] OTHER -> 1

TurnSpec == Init /\ [][UpdateTx(Turn) \/ Step(Turn)]_vars
=============================================================================
