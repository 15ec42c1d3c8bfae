-------------------------------- MODULE BTree --------------------------------
(***************************************************************************)
(* The B-tree of pdatastructures/TMBTree.hpp, and that of                  *)
(* ptmdb/TMBTreeMap.hpp, on which TrinityDB stands, which is the same code *)
(* except that a removed key is handed on by reference and moved.  A call  *)
(* walks down the tree once: on its way insert() splits every node that is *)
(* full, and erase() sees to it that a node can spare a key before it goes *)
(* into it.  A round of the loop that walks down is a step here.           *)
(*                                                                         *)
(* A node is a sequence of keys and one of children (indices are one more  *)
(* than in the code); the values of a map go wherever their keys go.       *)
(***************************************************************************)
EXTENDS Integers, Sequences, SequencesExt, FiniteSets

CONSTANTS Key,
          minKeys,      \* degree - 1
          Node,         \* the addresses that nodes may have
          ByReference   \* is this TMBTreeMap.hpp?

Empty == 0  \* a PBTSlice of size 0, from which the data has been moved away

ASSUME BTreeAssumption ==
  Key \subseteq Nat \ {Empty} /\ minKeys \in Nat \ {0} /\ Node \subseteq Nat

maxKeys == 2 * minKeys + 1

VARIABLES root, node,
          op,      \* the call under way: its name and key, the node it has come
                   \* to and what search() has found there
          target,  \* the node whose key removeMax() or removeMin() will replace
          result   \* what the last call has returned

treeVars == <<root, node, op, target, result>>

NoNode == [keys |-> <<>>, children |-> <<>>]
NoOp   == [name |-> "none", key |-> 0, node |-> 0, found |-> FALSE, index |-> 0]

InitBTree ==
  /\ root \in Node /\ \A n \in Node : root <= n
  /\ node = [n \in Node |-> NoNode]
  /\ op = NoOp /\ target = 0 /\ result = FALSE

isLeaf(n) == node[n].children = <<>>
Length(n) == Len(node[n].keys)
Allocate(heap) == Min({n \in Node : heap[n] = NoNode /\ n # root})

Upto(s, k)   == SubSeq(s, 1, Min({k, Len(s)}))
Behind(s, k) == SubSeq(s, k + 1, Len(s))
-----------------------------------------------------------------------------
(* PBTSlice::compare() compares as many bytes as its own slice has. *)
Equal(slot, k) == slot = k \/ slot = Empty

(* search(): from the left in TMBTree.hpp, by bisection in TMBTreeMap.hpp. *)
LinearSearch(keys, k) ==
  LET i == Min({j \in 1 .. Len(keys) + 1 : j > Len(keys) \/ keys[j] >= k})
  IN  [found |-> i <= Len(keys) /\ keys[i] = k, index |-> i]

Bisection(keys, k) ==
  LET between[min, max \in Nat] ==
        LET i == min + (max - min) \div 2 + 1
        IN  IF Equal(keys[i], k) THEN [found |-> TRUE, index |-> i]
            ELSE IF keys[i] < k
            THEN IF i = Len(keys) \/ max - min <= 1 THEN [found |-> FALSE, index |-> i + 1]
                                                    ELSE between[i - 1, max]
            ELSE IF i = 1 \/ max - min <= 1 THEN [found |-> FALSE, index |-> i]
                                            ELSE between[min, i - 1]
  IN  IF keys = <<>> THEN [found |-> FALSE, index |-> 1] ELSE between[0, Len(keys)]

search(keys, k) == IF ByReference THEN Bisection(keys, k) ELSE LinearSearch(keys, k)

(* Half of the full child at index i moves to a new node, the key in the   *)
(* middle moves up.                                                        *)
splitChild(heap, n, i) ==
  LET left == heap[n].children[i]
      right == Allocate(heap)
      keys == heap[left].keys
      children == heap[left].children
  IN  [heap EXCEPT ![n].keys = InsertAt(@, i, keys[minKeys + 1]),
                   ![n].children = InsertAt(@, i + 1, right),
                   ![left] = [keys |-> Upto(keys, minKeys),
                              children |-> Upto(children, minKeys + 1)],
                   ![right] = [keys |-> Behind(keys, minKeys + 1),
                               children |-> Behind(children, minKeys + 1)]]

(* The child at i + 1 and the key before it go into the child at i. *)
mergeChildren(heap, n, i) ==
  LET left == heap[n].children[i]
      right == heap[n].children[i + 1]
  IN  [heap EXCEPT ![left] = [keys |-> (@.keys \o <<heap[n].keys[i]>>) \o heap[right].keys,
                              children |-> @.children \o heap[right].children],
                   ![n].keys = RemoveAt(@, i),
                   ![n].children = RemoveAt(@, i + 1),
                   ![right] = NoNode]

(* removeKey(0) and the loop of removeMin() shift the keys down and return *)
(* the first one: its value, or, in TMBTreeMap.hpp, a reference to where   *)
(* it was, which by then holds the second one and is moved from.           *)
TakeFirst(keys) ==
  IF ByReference THEN [key |-> keys[2], rest |-> <<Empty>> \o Behind(keys, 2)]
                 ELSE [key |-> Head(keys), rest |-> Tail(keys)]

stealFromLeft(heap, n, i) ==
  LET child == heap[n].children[i]
      left == heap[n].children[i - 1]
      last == Len(heap[left].keys)
  IN  [heap EXCEPT ![child] = [keys |-> <<heap[n].keys[i - 1]>> \o @.keys,
                               children |-> Behind(heap[left].children, last) \o @.children],
                   ![n].keys[i - 1] = heap[left].keys[last],
                   ![left] = [keys |-> Front(@.keys), children |-> Upto(@.children, last)]]

StealWrongKey(heap, n, i) ==  \* mutant: the key goes over directly, past the parent
  LET child == heap[n].children[i]
      right == heap[n].children[i + 1]
      first == TakeFirst(heap[right].keys)
  IN  [heap EXCEPT ![child] = [keys |-> Append(@.keys, first.key),
                               children |-> @.children \o Upto(heap[right].children, 1)],
                   ![right] = [keys |-> first.rest, children |-> Behind(@.children, 1)]]

stealFromRight(heap, n, i) ==
  LET child == heap[n].children[i]
      right == heap[n].children[i + 1]
      first == TakeFirst(heap[right].keys)
  IN  [heap EXCEPT ![child] = [keys |-> Append(@.keys, heap[n].keys[i]),
                               children |-> @.children \o Upto(heap[right].children, 1)],
                   ![n].keys[i] = first.key,
                   ![right] = [keys |-> first.rest, children |-> Behind(@.children, 1)]]

(* The nodes after ensureChildRemove(), and the child that it returns. *)
ensureChildRemove(heap, n, i) ==
  LET child == heap[n].children[i]
      Spares(j) == /\ j \in DOMAIN heap[n].children
                   /\ Len(heap[heap[n].children[j]].keys) > minKeys
  IN  CASE Spares(i)     -> [node |-> heap, child |-> child]
        [] ~Spares(i) /\ Spares(i - 1) ->
             [node |-> stealFromLeft(heap, n, i), child |-> child]
        [] ~Spares(i) /\ ~Spares(i - 1) /\ Spares(i + 1) ->
             [node |-> stealFromRight(heap, n, i), child |-> child]
        [] ~Spares(i) /\ ~Spares(i - 1) /\ ~Spares(i + 1) /\ i > 1 ->
             [node |-> mergeChildren(heap, n, i - 1), child |-> heap[n].children[i - 1]]
        [] OTHER ->
             [node |-> mergeChildren(heap, n, i), child |-> child]
-----------------------------------------------------------------------------
Idle == op = NoOp
Begin(name, k, n, sr) ==
  /\ op' = [name |-> name, key |-> k, node |-> n, found |-> sr.found, index |-> sr.index]
  /\ result' = FALSE
  /\ UNCHANGED target
Return(answer) == op' = NoOp /\ target' = 0 /\ result' = answer
NotFound == [found |-> FALSE, index |-> 0]

(* insert(), innerPut(): a full root gets a new root above it first. *)
Insert(k) ==
  /\ Idle
  /\ IF Length(root) = maxKeys
     THEN LET new == Allocate(node)
              heap == [node EXCEPT ![new].children = <<root>>]
          IN  root' = new /\ node' = splitChild(heap, new, 1)
     ELSE UNCHANGED <<root, node>>
  /\ Begin("insert", k, root', NotFound)

Inserting == op.name = "insert"
Here == search(node[op.node].keys, op.key)

InsertFound ==
  /\ Inserting /\ Here.found
  /\ Return(FALSE)
  /\ UNCHANGED <<root, node>>

InsertLeaf ==
  /\ Inserting /\ ~Here.found /\ isLeaf(op.node)
  /\ node' = [node EXCEPT ![op.node].keys = InsertAt(@, Here.index, op.key)]
  /\ Return(TRUE)
  /\ UNCHANGED root

InsertDescend ==
  LET child == node[op.node].children[Here.index]
  IN  /\ Inserting /\ ~Here.found /\ ~isLeaf(op.node)
      /\ Length(child) < maxKeys
      /\ op' = [op EXCEPT !.node = child]
      /\ UNCHANGED <<root, node, target, result>>

(* The middle key of the split child decides where to go, or is the key.   *)
InsertSplit ==
  LET i == Here.index
      n == op.node
  IN  /\ Inserting /\ ~Here.found /\ ~isLeaf(n)
      /\ Length(node[n].children[i]) = maxKeys
      /\ node' = splitChild(node, n, i)
      /\ IF Equal(node'[n].keys[i], op.key) THEN Return(FALSE)
         ELSE /\ op' = [op EXCEPT !.node = IF node'[n].keys[i] < op.key
                                           THEN node'[n].children[i + 1]
                                           ELSE node'[n].children[i]]
              /\ UNCHANGED <<target, result>>
      /\ UNCHANGED root
-----------------------------------------------------------------------------
(* erase(), innerRemove(). *)
Erase(k) ==
  /\ Idle
  /\ Begin("erase", k, root, search(node[root].keys, k))
  /\ UNCHANGED <<root, node>>

Erasing == op.name = "erase"

EraseLeaf ==
  /\ Erasing /\ isLeaf(op.node)
  /\ node' = IF op.found THEN [node EXCEPT ![op.node].keys = RemoveAt(@, op.index)] ELSE node
  /\ Return(op.found)
  /\ UNCHANGED root

EraseFound == Erasing /\ op.found /\ ~isLeaf(op.node)
Child(i) == node[op.node].children[i]

(* The key is replaced with its predecessor, or with its successor. *)
EraseFromLeft ==
  /\ EraseFound /\ Length(Child(op.index)) > minKeys
  /\ op' = [op EXCEPT !.name = "removeMax", !.node = Child(op.index)]
  /\ target' = op.node
  /\ UNCHANGED <<root, node, result>>

EraseFromRight ==
  /\ EraseFound /\ Length(Child(op.index)) = minKeys /\ Length(Child(op.index + 1)) > minKeys
  /\ op' = [op EXCEPT !.name = "removeMin", !.node = Child(op.index + 1)]
  /\ target' = op.node
  /\ UNCHANGED <<root, node, result>>

(* A root without a key gives way to its only child. *)
ShrinkRoot(heap) ==
  IF op.node = root /\ heap[root].keys = <<>>
  THEN root' = heap[root].children[1] /\ node' = [heap EXCEPT ![root] = NoNode]
  ELSE root' = root /\ node' = heap

EraseMerge ==
  /\ EraseFound /\ Length(Child(op.index)) = minKeys /\ Length(Child(op.index + 1)) = minKeys
  /\ ShrinkRoot(mergeChildren(node, op.node, op.index))
  /\ op' = [op EXCEPT !.node = Child(op.index), !.index = minKeys + 1]
  /\ UNCHANGED <<target, result>>

EraseDescendPoor ==  \* mutant: a child that can spare no key is entered as it is
  /\ Erasing /\ ~op.found /\ ~isLeaf(op.node)
  /\ LET child == Child(op.index)
         sr == search(node[child].keys, op.key)
     IN  op' = [op EXCEPT !.node = child, !.found = sr.found, !.index = sr.index]
  /\ UNCHANGED <<root, node, target, result>>

EraseDescend ==
  /\ Erasing /\ ~op.found /\ ~isLeaf(op.node)
  /\ LET r == ensureChildRemove(node, op.node, op.index)
         sr == search(r.node[r.child].keys, op.key)
     IN  /\ ShrinkRoot(r.node)
         /\ op' = [op EXCEPT !.node = r.child, !.found = sr.found, !.index = sr.index]
  /\ UNCHANGED <<target, result>>

(* A round of the loops of removeMax() and removeMin(). *)
RemoveMaxDescend ==
  /\ op.name = "removeMax" /\ ~isLeaf(op.node)
  /\ LET r == ensureChildRemove(node, op.node, Length(op.node) + 1)
     IN  node' = r.node /\ op' = [op EXCEPT !.node = r.child]
  /\ UNCHANGED <<root, target, result>>

RemoveMaxLeaf ==
  /\ op.name = "removeMax" /\ isLeaf(op.node)
  /\ node' = [node EXCEPT ![op.node].keys = Front(@),
                          ![target].keys[op.index] = Last(node[op.node].keys)]
  /\ Return(TRUE)
  /\ UNCHANGED root

RemoveMinDescend ==
  /\ op.name = "removeMin" /\ ~isLeaf(op.node)
  /\ LET r == ensureChildRemove(node, op.node, 1)
     IN  node' = r.node /\ op' = [op EXCEPT !.node = r.child]
  /\ UNCHANGED <<root, target, result>>

RemoveMinLeaf ==
  /\ op.name = "removeMin" /\ isLeaf(op.node)
  /\ LET first == TakeFirst(node[op.node].keys)
     IN  node' = [node EXCEPT ![op.node].keys = first.rest,
                              ![target].keys[op.index] = first.key]
  /\ Return(TRUE)
  /\ UNCHANGED root
-----------------------------------------------------------------------------
(* seqContains(), innerGet(). *)
seqContains(k) ==
  /\ Idle
  /\ Begin("contains", k, root, NotFound)
  /\ UNCHANGED <<root, node>>

LookupStep ==
  /\ op.name = "contains"
  /\ IF Here.found \/ isLeaf(op.node) THEN Return(Here.found)
     ELSE /\ op' = [op EXCEPT !.node = Child(Here.index)]
          /\ UNCHANGED <<target, result>>
  /\ UNCHANGED <<root, node>>

NextBTree ==
  \/ \E k \in Key : Insert(k) \/ Erase(k) \/ seqContains(k)
  \/ InsertFound \/ InsertLeaf \/ InsertDescend \/ InsertSplit
  \/ EraseLeaf \/ EraseFromLeft \/ EraseFromRight \/ EraseMerge \/ EraseDescend
  \/ RemoveMaxDescend \/ RemoveMaxLeaf \/ RemoveMinDescend \/ RemoveMinLeaf
  \/ LookupStep

SpecBTree == InitBTree /\ [][NextBTree]_treeVars
-----------------------------------------------------------------------------
ChildrenOf(n) == ToSet(node[n].children)
Allocated == {root} \cup {n \in Node : node[n] # NoNode}

(* The nodes of each level, from the root down. *)
Levels ==
  LET level[d \in 0 .. Cardinality(Node)] ==
        IF d = 0 THEN {root} ELSE UNION {ChildrenOf(n) : n \in level[d - 1]}
  IN  level

KeysOf(n) == ToSet(node[n].keys)

(* The tree is a B-tree between any two rounds: its leaves are all on one  *)
(* level, every node but the root has at least minKeys keys and none has   *)
(* more than maxKeys, no node is shared, lost or used after tmDelete().    *)
Balanced ==
  /\ \A d \in DOMAIN Levels : \A m, n \in Levels[d] : isLeaf(m) = isLeaf(n)
  /\ \A n \in Allocated :
       /\ Length(n) <= maxKeys /\ (n # root => Length(n) >= minKeys)
       /\ ~isLeaf(n) => /\ Len(node[n].children) = Length(n) + 1
                        /\ Length(n) >= 1
  /\ UNION {Levels[d] : d \in DOMAIN Levels} = Allocated
  /\ \A n \in Allocated \ {root} :
       Cardinality({<<m, i>> \in Allocated \X (1 .. maxKeys + 1) :
                      i <= Len(node[m].children) /\ node[m].children[i] = n}) = 1

(* What the code asserts where it has walked to, and what makes it safe to *)
(* take a key or put one there: "assert(node->length < maxKeys)" in        *)
(* insert(), "assert(node == root || node->length > minKeys)" in erase(),  *)
(* "assert(node->length > minKeys)" in removeMin() and removeMax().        *)
HasRoom ==
  /\ Inserting => Length(op.node) < maxKeys
  /\ Erasing => op.node = root \/ Length(op.node) > minKeys
  /\ op.name \in {"removeMax", "removeMin"} => Length(op.node) > minKeys

(* The refinement mapping to KeySet: each call takes effect in the step in *)
(* which it returns, and the rounds before it, which split, merge and move *)
(* keys between nodes, lose and change nothing.                            *)
Set == (UNION {KeysOf(n) : n \in Allocated}) \ {Empty}

CallName == IF op.name \in {"removeMax", "removeMin"} THEN "erase" ELSE op.name

AbstractSet == INSTANCE KeySet WITH
  set <- Set, call <- [name |-> CallName, key |-> op.key], result <- result

(* "Removes a key and its mapping. Returns returns true if a matching key  *)
(* was found" (TMBTreeMap.hpp), "Inserts a key only if it's not already    *)
(* present" (TMBTree.hpp): the tree behaves as the set of its keys.        *)
ImplementsSet == AbstractSet!Spec
=============================================================================
