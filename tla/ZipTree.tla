------------------------------- MODULE ZipTree -------------------------------
(***************************************************************************)
(* The set of pdatastructures/TMZipTreeSet.hpp: a search tree that random  *)
(* ranks, which do not grow on the way down, keep in shape.  insert takes  *)
(* the place of the first node it outranks and unzips the tree below it    *)
(* into its two children; delete zips the children of a node together.     *)
(* A round of a loop is a step.  A node's address is its key; nobody sees  *)
(* the rounds of a call, which runs in a transaction.                      *)
(***************************************************************************)
EXTENDS Naturals, Functions

CONSTANTS Key, Rank

VARIABLES root, node,  \* the nodes allocated: key -> [rank, left, right]
          op,          \* the call under way and its local variables
          result

treeVars == <<root, node, op, result>>

Null == 0
NoOp == [name |-> "none", key |-> 0, at |-> "none", cur |-> Null, prev |-> Null,
         fix |-> Null, left |-> Null, right |-> Null, rank |-> 0, before |-> {}]

InitZipTree == root = Null /\ node = <<>> /\ op = NoOp /\ result = FALSE

Idle == op = NoOp
Toward(k, n) == IF k < n THEN node[n].left ELSE node[n].right
Without(f, k) == Restrict(f, DOMAIN f \ {k})
Extend(f, k, v) == [x \in DOMAIN f \cup {k} |-> IF x = k THEN v ELSE f[x]]

Local(update) == op' = update /\ UNCHANGED <<root, node, result>>
Answer(answer) == op' = NoOp /\ result' = answer
Return(answer) == Answer(answer) /\ UNCHANGED <<root, node>>

(* The pointer to n that its parent, or root, holds becomes q.             *)
Replace(nodes, n, q) ==
  IF n = root THEN root' = q /\ node' = nodes
  ELSE /\ node' = IF op.key < op.prev THEN [nodes EXCEPT ![op.prev].left = q]
                                      ELSE [nodes EXCEPT ![op.prev].right = q]
       /\ UNCHANGED root
-----------------------------------------------------------------------------
(* add(), remove() and contains() look for the key first.                  *)
Call(name, k) ==
  /\ Idle
  /\ op' = [NoOp EXCEPT !.name = name, !.key = k, !.at = "find", !.cur = root,
                        !.before = DOMAIN node]
  /\ result' = FALSE
  /\ UNCHANGED <<root, node>>

FindStep ==
  /\ op.at = "find" /\ op.cur \notin {Null, op.key}
  /\ Local([op EXCEPT !.cur = Toward(op.key, op.cur)])

FindEnd ==
  /\ op.at = "find" /\ op.cur \in {Null, op.key}
  /\ LET found == op.cur # Null
     IN  \/ op.name = "contains" /\ Return(found)
         \/ op.name = "insert" /\ found /\ Return(FALSE)
         \/ op.name = "insert" /\ ~found
            /\ \E r \in Rank : Local([op EXCEPT !.at = "insert", !.cur = root, !.rank = r])
         \/ op.name = "erase" /\ Local([op EXCEPT !.at = "delete", !.cur = root])
-----------------------------------------------------------------------------
(* iterativeInsert().  Among equal ranks the smaller key goes on top.      *)
Outranked ==
  /\ op.cur # Null
  /\ \/ op.rank < node[op.cur].rank
     \/ op.rank = node[op.cur].rank /\ op.key > op.cur

InsertDescend ==
  /\ op.at = "insert" /\ Outranked
  /\ Local([op EXCEPT !.prev = op.cur, !.cur = Toward(op.key, op.cur)])

InsertHere ==
  /\ op.at = "insert" /\ ~Outranked
  /\ LET below == op.cur
         new == [rank |-> op.rank,
                 left |-> IF below # Null /\ op.key >= below THEN below ELSE Null,
                 right |-> IF below # Null /\ op.key < below THEN below ELSE Null]
     IN  Replace(Extend(node, op.key, new), below, op.key)
  /\ op' = [op EXCEPT !.at = "unzip", !.prev = op.key]
  /\ UNCHANGED result

(* A round of the outer loop walks, to the right on the side of the        *)
(* smaller keys, as long as the keys stay on their side, and hooks what    *)
(* comes then to the last node of the other side.                          *)
UnzipStart ==
  /\ op.at = "unzip" /\ op.cur # Null
  /\ Local([op EXCEPT !.fix = op.prev,
                      !.at = IF op.cur < op.key THEN "unzipSmaller" ELSE "unzipLarger"])

StaysOnSide == /\ op.cur # Null
               /\ IF op.at = "unzipSmaller" THEN op.cur <= op.key ELSE op.cur >= op.key

UnzipWalk ==
  /\ op.at \in {"unzipSmaller", "unzipLarger"} /\ StaysOnSide
  /\ Local([op EXCEPT !.prev = op.cur,
                      !.cur = IF op.at = "unzipSmaller" THEN node[op.cur].right
                                                        ELSE node[op.cur].left])

UnzipHook ==
  /\ op.at \in {"unzipSmaller", "unzipLarger"} /\ ~StaysOnSide
  /\ node' = IF op.fix > op.key \/ (op.fix = op.key /\ op.prev > op.key)
             THEN [node EXCEPT ![op.fix].left = op.cur]
             ELSE [node EXCEPT ![op.fix].right = op.cur]
  /\ op' = [op EXCEPT !.at = "unzip"]
  /\ UNCHANGED <<root, result>>

UnzipDone == op.at = "unzip" /\ op.cur = Null /\ Return(TRUE)
-----------------------------------------------------------------------------
(* iterativeDelete(). *)
DeleteDescend ==
  /\ op.at = "delete" /\ op.cur \notin {Null, op.key}
  /\ Local([op EXCEPT !.prev = op.cur, !.cur = Toward(op.key, op.cur)])

DeleteMissing == op.at = "delete" /\ op.cur = Null /\ Return(FALSE)

DeleteHere ==
  /\ op.at = "delete" /\ op.cur = op.key
  /\ LET left == node[op.key].left
         right == node[op.key].right
         heir == IF left = Null THEN right
                 ELSE IF right = Null THEN left
                 ELSE IF node[left].rank >= node[right].rank THEN left ELSE right
     IN  /\ Replace(node, op.key, heir)
         /\ op' = [op EXCEPT !.at = "zip", !.left = left, !.right = right]
  /\ UNCHANGED result

ZipStart ==
  /\ op.at = "zip" /\ op.left # Null /\ op.right # Null
  /\ Local([op EXCEPT !.at = IF node[op.left].rank >= node[op.right].rank
                             THEN "zipLeft" ELSE "zipRight"])

LeftGoesOn  == op.left # Null /\ node[op.left].rank >= node[op.right].rank
RightGoesOn == op.right # Null /\ node[op.left].rank < node[op.right].rank

ZipLeftWalk ==
  /\ op.at = "zipLeft" /\ LeftGoesOn
  /\ Local([op EXCEPT !.prev = op.left, !.left = node[op.left].right])

ZipLeftHook ==
  /\ op.at = "zipLeft" /\ ~LeftGoesOn
  /\ node' = [node EXCEPT ![op.prev].right = op.right]
  /\ op' = [op EXCEPT !.at = "zip"]
  /\ UNCHANGED <<root, result>>

ZipRightWalk ==
  /\ op.at = "zipRight" /\ RightGoesOn
  /\ Local([op EXCEPT !.prev = op.right, !.right = node[op.right].left])

ZipRightHook ==
  /\ op.at = "zipRight" /\ ~RightGoesOn
  /\ node' = [node EXCEPT ![op.prev].left = op.left]
  /\ op' = [op EXCEPT !.at = "zip"]
  /\ UNCHANGED <<root, result>>

(* remove() deletes the node behind iterativeDelete().                     *)
ZipDone ==
  /\ op.at = "zip" /\ (op.left = Null \/ op.right = Null)
  /\ node' = Without(node, op.key)
  /\ Answer(TRUE)
  /\ UNCHANGED root
-----------------------------------------------------------------------------
Find == FindStep \/ FindEnd
Insert == InsertDescend \/ InsertHere \/ UnzipStart \/ UnzipWalk \/ UnzipHook \/ UnzipDone
Delete == \/ DeleteDescend \/ DeleteMissing \/ DeleteHere \/ ZipStart
          \/ ZipLeftWalk \/ ZipLeftHook \/ ZipRightWalk \/ ZipRightHook \/ ZipDone

NextZipTree ==
  \/ \E name \in {"insert", "erase", "contains"}, k \in Key : Call(name, k)
  \/ Find \/ Insert \/ Delete
-----------------------------------------------------------------------------
(* The keys below n, as long as no key is met twice.                       *)
Below ==
  LET keys[d \in 0 .. 10, n \in Key \cup {Null}] ==
        IF n = Null \/ d = 0 THEN {}
        ELSE {n} \cup keys[d - 1, node[n].left] \cup keys[d - 1, node[n].right]
  IN  keys

(* Between two calls the tree is a search tree on the nodes allocated, and *)
(* no node outranks the one above it, nor equals it on its left side.      *)
InShape ==
  Idle =>
    /\ Below[10, root] = DOMAIN node
    /\ \A n \in DOMAIN node :
         LET left == node[n].left
             right == node[n].right
         IN  /\ \A k \in Below[10, left] : k < n
             /\ \A k \in Below[10, right] : k > n
             /\ left # Null => node[left].rank < node[n].rank
             /\ right # Null => node[right].rank <= node[n].rank

Set == IF Idle THEN Below[10, root] ELSE op.before
=============================================================================
