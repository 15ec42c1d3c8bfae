---------------------------- MODULE RedBlackTree -----------------------------
(***************************************************************************)
(* The left-leaning red-black tree of pdatastructures/TMRedBlackTree.hpp.  *)
(* A call runs in a transaction and is one step here; each of its methods  *)
(* is an operator that takes the subtree it is called for and gives the    *)
(* subtree that the caller links in its place.  No two nodes share a       *)
(* child, so a subtree is a value.                                         *)
(***************************************************************************)
EXTENDS Naturals

CONSTANT Key

VARIABLES root,
          op,     \* the call under way: [name, key]
          result

treeVars == <<root, op, result>>

Null == [size |-> 0]
NoOp == [name |-> "none", key |-> 0]
Idle == op = NoOp

InitRedBlackTree == root = Null /\ op = NoOp /\ result = FALSE

isRed(x) == x # Null /\ x.color = "red"
Opposite(color) == IF color = "red" THEN "black" ELSE "red"
WithSize(h) == [h EXCEPT !.size = h.left.size + h.right.size + 1]
-----------------------------------------------------------------------------
(* make a left-leaning link lean to the right, and the reverse *)
rotateRight(h) ==
  LET x == h.left
  IN  [x EXCEPT !.right = WithSize([h EXCEPT !.left = x.right, !.color = "red"]),
                !.color = h.color, !.size = h.size]

rotateLeft(h) ==
  LET x == h.right
  IN  [x EXCEPT !.left = WithSize([h EXCEPT !.right = x.left, !.color = "red"]),
                !.color = h.color, !.size = h.size]

flipColors(h) ==
  [h EXCEPT !.color = Opposite(@), !.left.color = Opposite(@), !.right.color = Opposite(@)]

moveRedLeft(h) ==
  LET f == flipColors(h)
  IN  IF isRed(f.right.left)
      THEN flipColors(rotateLeft([f EXCEPT !.right = rotateRight(@)]))
      ELSE f

moveRedRight(h) ==
  LET f == flipColors(h)
  IN  IF isRed(f.left.left) THEN flipColors(rotateRight(f)) ELSE f

LeanLeft(h)  == IF isRed(h.right) THEN rotateLeft(h) ELSE h
LeanLeftIfAlone(h) == IF isRed(h.right) /\ ~isRed(h.left) THEN rotateLeft(h) ELSE h
SplitRedPair(h)    == IF isRed(h.left) /\ isRed(h.left.left) THEN rotateRight(h) ELSE h
SplitFour(h)       == IF isRed(h.left) /\ isRed(h.right) THEN flipColors(h) ELSE h

balance(h) == WithSize(SplitFour(SplitRedPair(LeanLeft(h))))
-----------------------------------------------------------------------------
(* put() *)
RECURSIVE put(_, _)
put(h, k) ==
  IF h = Null
  THEN [key |-> k, left |-> Null, right |-> Null, color |-> "red", size |-> 1]
  ELSE LET below == IF k < h.key THEN [h EXCEPT !.left = put(@, k)]
                    ELSE IF h.key < k THEN [h EXCEPT !.right = put(@, k)]
                    ELSE h
       IN  WithSize(SplitFour(SplitRedPair(LeanLeftIfAlone(below))))

RECURSIVE minimum(_)
minimum(x) == IF x.left = Null THEN x.key ELSE minimum(x.left)

NeedsRedLeft(h)  == ~isRed(h.left) /\ ~isRed(h.left.left)
NeedsRedRight(h) == ~isRed(h.right) /\ ~isRed(h.right.left)

RECURSIVE deleteMin(_)
deleteMin(h) ==
  IF h.left = Null THEN Null
  ELSE LET g == IF NeedsRedLeft(h) THEN moveRedLeft(h) ELSE h
       IN  balance([g EXCEPT !.left = deleteMin(@)])

(* On the way to the right a red left link is turned over first.           *)
TurnRight(h) == IF isRed(h.left) THEN rotateRight(h) ELSE h
BorrowRight(h) == IF NeedsRedRight(h) THEN moveRedRight(h) ELSE h

RECURSIVE deleteKey(_, _)
deleteKey(h, k) ==
  IF k < h.key
  THEN LET g == IF NeedsRedLeft(h) THEN moveRedLeft(h) ELSE h
       IN  balance([g EXCEPT !.left = deleteKey(@, k)])
  ELSE LET turned == TurnRight(h)
       IN  IF k = turned.key /\ turned.right = Null THEN Null
           ELSE LET g == BorrowRight(turned)
                IN  IF k = g.key
                    THEN balance([g EXCEPT !.key = minimum(g.right),
                                           !.right = deleteMin(@)])
                    ELSE balance([g EXCEPT !.right = deleteKey(@, k)])

RECURSIVE get(_, _)
get(x, k) ==
  x # Null /\ (IF k < x.key THEN get(x.left, k) ELSE x.key < k => get(x.right, k))
-----------------------------------------------------------------------------
Blacken(h) == IF h = Null THEN h ELSE [h EXCEPT !.color = "black"]

Call(name, k) ==
  /\ Idle
  /\ op' = [name |-> name, key |-> k]
  /\ result' = FALSE
  /\ UNCHANGED root

Return(tree, answer) == root' = tree /\ result' = answer /\ op' = NoOp

(* add(), which calls innerPut() *)
Add == op.name = "insert" /\ Return(Blacken(put(root, op.key)), ~get(root, op.key))

(* remove(), which calls innerGet() and innerRemove(): a root with two     *)
(* black children becomes red for a while.                                 *)
RemoveMissing == op.name = "erase" /\ ~get(root, op.key) /\ Return(root, FALSE)

RemoveFound ==
  /\ op.name = "erase" /\ get(root, op.key)
  /\ LET h == IF ~isRed(root.left) /\ ~isRed(root.right)
              THEN [root EXCEPT !.color = "red"] ELSE root
     IN  Return(Blacken(deleteKey(h, op.key)), TRUE)

Contains == op.name = "contains" /\ Return(root, get(root, op.key))

NextRedBlackTree ==
  \/ \E name \in {"insert", "erase", "contains"}, k \in Key : Call(name, k)
  \/ Add \/ RemoveMissing \/ RemoveFound \/ Contains
-----------------------------------------------------------------------------
RECURSIVE Keys(_)
Keys(x) == IF x = Null THEN {} ELSE Keys(x.left) \cup {x.key} \cup Keys(x.right)

(* What check() of the code is for: isBST(), whose comparisons are left    *)
(* out there ("TODO: port these two lines"), isSizeConsistent(), is23()    *)
(* and isBalanced().                                                       *)
RECURSIVE isBST(_), isSizeConsistent(_), is23(_), isBalanced(_, _), Blacks(_)
isBST(x) ==
  x # Null => /\ \A k \in Keys(x.left) : k < x.key
              /\ \A k \in Keys(x.right) : k > x.key
              /\ isBST(x.left) /\ isBST(x.right)

isSizeConsistent(x) ==
  x # Null => x = WithSize(x) /\ isSizeConsistent(x.left) /\ isSizeConsistent(x.right)

is23(x) ==
  x # Null => /\ ~isRed(x.right) /\ ~(isRed(x) /\ isRed(x.left))
              /\ is23(x.left) /\ is23(x.right)

Blacks(x) == IF x = Null THEN 0 ELSE Blacks(x.left) + (IF isRed(x) THEN 0 ELSE 1)

isBalanced(x, black) ==
  IF x = Null THEN black = 0
  ELSE LET below == IF isRed(x) THEN black ELSE black - 1
       IN  isBalanced(x.left, below) /\ isBalanced(x.right, below)

InShape ==
  /\ isBST(root) /\ isSizeConsistent(root) /\ is23(root) /\ isBalanced(root, Blacks(root))
  /\ ~isRed(root)

Set == Keys(root)
=============================================================================
