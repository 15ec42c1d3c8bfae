------------------------------- MODULE HashMap -------------------------------
(***************************************************************************)
(* The two hash maps of pdatastructures/: an array of buckets, each a      *)
(* chain of nodes.  TMHashMap.hpp doubles the array in a put when the map  *)
(* is three quarters full.  TMHashMapFixedSize.hpp never does; there a     *)
(* removed node stays in its chain, with isActive 0, until a put of any    *)
(* key of that bucket uses it again.  A call runs in a transaction and is  *)
(* one step here.                                                          *)
(***************************************************************************)
EXTENDS Naturals, SequencesExt

CONSTANTS Key,
          InitialCapacity  \* of the constructor

VARIABLES buckets,  \* bucket i of the code is buckets[i + 1]: the keys of its chain, in
                    \* the map of fixed size records [key, isActive]
          sizeHM,   \* not used by the map of fixed size
          op,       \* the call under way: [name, key]
          result

mapVars == <<buckets, sizeHM, op, result>>

NoOp == [name |-> "none", key |-> 0]
Idle == op = NoOp

capacity == Len(buckets)

InitHashMap ==
  /\ buckets = [i \in 1 .. InitialCapacity |-> <<>>]
  /\ sizeHM = 0 /\ op = NoOp /\ result = FALSE

(* std::hash of an integer is the integer. *)
Bucket(k, n) == 1 + (k % n)
Chain == buckets[Bucket(op.key, capacity)]

Call(name, k) ==
  /\ Idle
  /\ op' = [name |-> name, key |-> k]
  /\ result' = FALSE
  /\ UNCHANGED <<buckets, sizeHM>>

SomeCall == \E name \in {"insert", "erase", "contains"}, k \in Key : Call(name, k)

Return(answer) == result' = answer /\ op' = NoOp
-----------------------------------------------------------------------------
(* TMHashMap. *)
RebuildTheseOnly ==  \* mutant: a chain moves as a whole, with its first node
  LET n == 2 * capacity
  IN  [j \in 1 .. n |->
        FlattenSeq(SelectSeq(buckets, LAMBDA c : c # <<>> /\ Bucket(Head(c), n) = j))]

(* rebuild() goes through the chains and puts each node first in its new   *)
(* one.                                                                    *)
Rebuild ==
  LET n == 2 * capacity
  IN  [j \in 1 .. n |-> Reverse(SelectSeq(FlattenSeq(buckets), LAMBDA k : Bucket(k, n) = j))]

(* sizeHM > capacity * loadFactor, with a load factor of 0.75.             *)
Crowded == 4 * sizeHM > 3 * capacity

(* Behind add(): a new key goes to the end of its chain.       *)
innerPut ==
  /\ op.name = "insert"
  /\ LET array == IF Crowded THEN Rebuild ELSE buckets
         b == Bucket(op.key, Len(array))
         found == Contains(array[b], op.key)
     IN  /\ buckets' = IF found THEN array ELSE [array EXCEPT ![b] = Append(@, op.key)]
         /\ sizeHM' = IF found THEN sizeHM ELSE sizeHM + 1
         /\ Return(~found)

(* Behind remove(). *)
innerRemove ==
  /\ op.name = "erase"
  /\ LET found == Contains(Chain, op.key)
     IN  /\ buckets' = [buckets EXCEPT ![Bucket(op.key, capacity)] =
                          SelectSeq(@, LAMBDA k : k # op.key)]
         /\ sizeHM' = IF found THEN sizeHM - 1 ELSE sizeHM
         /\ Return(found)

(* Behind contains(). *)
innerGet ==
  /\ op.name = "contains"
  /\ Return(Contains(Chain, op.key))
  /\ UNCHANGED <<buckets, sizeHM>>

NextHashMap == SomeCall \/ innerPut \/ innerRemove \/ innerGet

Set == ToSet(FlattenSeq(buckets))

(* Each key is in the chain that its hash names, once, however often the   *)
(* array has been rebuilt, and sizeHM counts the keys.                     *)
InShape ==
  /\ \A b \in DOMAIN buckets : /\ IsInjective(buckets[b])
                               /\ \A k \in ToSet(buckets[b]) : Bucket(k, capacity) = b
  /\ sizeHM = Cardinality(Set)
-----------------------------------------------------------------------------
(* TMHashMapFixedSize. *)
Active(k) == [key |-> k, isActive |-> TRUE]
Found == Contains(Chain, Active(op.key))
FirstInactive == SelectInSeq(Chain, LAMBDA n : ~n.isActive)

(* innerPut(): the whole chain is searched before the first inactive node  *)
(* is used again.                                                          *)
PutReplaces == Found /\ Return(FALSE) /\ UNCHANGED buckets

PutReuses ==
  /\ ~Found /\ FirstInactive # 0
  /\ buckets' = [buckets EXCEPT ![Bucket(op.key, capacity)][FirstInactive] = Active(op.key)]
  /\ Return(TRUE)

PutAppends ==
  /\ ~Found /\ FirstInactive = 0
  /\ buckets' = [buckets EXCEPT ![Bucket(op.key, capacity)] = Append(@, Active(op.key))]
  /\ Return(TRUE)

FixedPut == op.name = "insert" /\ (PutReplaces \/ PutReuses \/ PutAppends)

FixedRemove ==
  /\ op.name = "erase"
  /\ buckets' = [buckets EXCEPT ![Bucket(op.key, capacity)] =
                   [i \in DOMAIN @ |-> IF @[i] = Active(op.key) THEN [@[i] EXCEPT !.isActive = FALSE]
                                                                ELSE @[i]]]
  /\ Return(Found)

FixedGet == op.name = "contains" /\ Return(Found) /\ UNCHANGED buckets

NextFixedSize ==
  \/ SomeCall
  \/ (FixedPut \/ FixedRemove \/ FixedGet) /\ UNCHANGED sizeHM

ActiveNodes == SelectSeq(FlattenSeq(buckets), LAMBDA n : n.isActive)
FixedSet == {n.key : n \in ToSet(ActiveNodes)}

(* However often nodes are used again, a key is active in one node at      *)
(* most, and there are never more nodes than its bucket has keys.          *)
FixedInShape ==
  /\ IsInjective(ActiveNodes)
  /\ \A b \in DOMAIN buckets :
       Len(buckets[b]) <= Cardinality({k \in Key : Bucket(k, capacity) = b})
=============================================================================
