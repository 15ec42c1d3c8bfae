------------------------------- MODULE KeySet --------------------------------
(***************************************************************************)
(* What the ordered sets and maps of pdatastructures/ and ptmdb/ promise a *)
(* program that calls them inside transactions, one call after the other:  *)
(* insert() says whether the key is new, erase() whether it was there, and *)
(* neither touches another key.                                            *)
(***************************************************************************)
CONSTANT Key

VARIABLES set,    \* the keys of the structure
          call,   \* the call under way: [name, key]
          result  \* what the last call has returned

vars == <<set, call, result>>

NoCall == [name |-> "none", key |-> 0]

(* The structure may be one that an earlier process has left. *)
Init == set \in SUBSET Key /\ call = NoCall /\ result = FALSE

Call(name, k) ==
  /\ call = NoCall
  /\ call' = [name |-> name, key |-> k]
  /\ result' = FALSE
  /\ UNCHANGED set

Return(name, effect, answer) ==
  /\ call.name = name
  /\ set' = effect /\ result' = answer
  /\ call' = NoCall

Next ==
  \/ \E name \in {"insert", "erase", "contains"}, k \in Key : Call(name, k)
  \/ Return("insert", set \cup {call.key}, call.key \notin set)
  \/ Return("erase", set \ {call.key}, call.key \in set)
  \/ Return("contains", set, call.key \in set)

Spec == Init /\ [][Next]_vars
=============================================================================
