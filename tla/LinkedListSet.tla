---------------------------- MODULE LinkedListSet ----------------------------
(***************************************************************************)
(* The sorted list of pdatastructures/TMLinkedListSet.hpp, between its two *)
(* sentinels, head and tail.                                               *)
(***************************************************************************)
EXTENDS Naturals, SequencesExt

CONSTANT Key

VARIABLES list, op, result

listVars == <<list, op, result>>

NoOp == [name |-> "none", key |-> 0]
Idle == op = NoOp
InitList == list = <<>> /\ op = NoOp /\ result = FALSE

(* find(): the place of the first key that is not smaller, or of tail.     *)
find(k) ==
  LET i == SelectInSeq(list, LAMBDA x : ~(x < k))
  IN  IF i = 0 THEN Len(list) + 1 ELSE i

Found == find(op.key) <= Len(list) /\ list[find(op.key)] = op.key

Call(name, k) ==
  Idle /\ op' = [name |-> name, key |-> k] /\ result' = FALSE /\ UNCHANGED list

Return(answer) == result' = answer /\ op' = NoOp

add ==
  /\ op.name = "insert"
  /\ list' = IF Found THEN list ELSE InsertAt(list, find(op.key), op.key)
  /\ Return(~Found)

remove ==
  /\ op.name = "erase"
  /\ list' = IF Found THEN RemoveAt(list, find(op.key)) ELSE list
  /\ Return(Found)

contains == op.name = "contains" /\ Return(Found) /\ UNCHANGED list

NextList ==
  \/ \E name \in {"insert", "erase", "contains"}, k \in Key : Call(name, k)
  \/ add \/ remove \/ contains
-----------------------------------------------------------------------------
Set == ToSet(list)

(* The list is sorted and has each key once. *)
InShape == \A i, j \in DOMAIN list : i < j => list[i] < list[j]
=============================================================================
