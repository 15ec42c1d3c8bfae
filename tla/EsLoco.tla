------------------------------- MODULE EsLoco -------------------------------
(***************************************************************************)
(* EsLoco, the "Extremely Simple memory aLOCatOr" that every header of     *)
(* ptms/ carries: blocks of a power of two, carved from the top of a pool, *)
(* and one intrusive stack of free blocks for each exponent.  All its      *)
(* stores are made inside a transaction of the PTM, so an operation is one *)
(* step here: what a power failure makes of half of one is the engine's    *)
(* promise (AllOrNothing in modules Trinity and Quadra).                   *)
(*                                                                         *)
(* Memory is counted in units of sizeof(block), the header of a block.     *)
(***************************************************************************)
EXTENDS Integers, FiniteSets

CONSTANTS First,         \* where init() leaves the top of the pool
          PoolEnd,       \* poolAddr + poolSize
          Request,       \* the sizes that the program asks for
          kMaxBlockSize, \* number of free lists
          IntBits        \* width of the type of the literal 1 in 1<<bsize

ASSUME EsLocoAssumption ==
  /\ First \in Nat /\ PoolEnd \in Nat
  /\ Request \subseteq Nat \ {0}
  /\ kMaxBlockSize \in Nat \ {0} /\ IntBits \in Nat \ {0}

Exponent == 0 .. kMaxBlockSize - 1
nullptr == -1

VARIABLES poolTop,   \* the top of the pool
          freelists, \* the head of the list of each exponent
          next,      \* block::next, for every block ever carved
          size,      \* block::size, likewise
          live       \* the blocks the program holds, and the size it asked for

poolVars == <<poolTop, freelists, next, size, live>>

InitEsLoco ==
  /\ poolTop = First
  /\ freelists = [e \in Exponent |-> nullptr]
  /\ next = [b \in {} |-> nullptr]
  /\ size = [b \in {} |-> 0]
  /\ live = {}
-----------------------------------------------------------------------------
highestBit(val) ==
  LET b == CHOOSE i \in 0 .. kMaxBlockSize : 2^i <= val /\ val < 2^(i + 1)
  IN  IF val > 2^b THEN b + 1 ELSE b

(* 1<<bsize, an int: the sign bit at IntBits - 1, and beyond it the count  *)
(* that x86 masks.                                                         *)
BlockBytes(bsize) ==
  IF bsize % IntBits = IntBits - 1 THEN -(2^(bsize % IntBits)) ELSE 2^(bsize % IntBits)

Holds(b, request) == live' = live \cup {[block |-> b, request |-> request]}
Put(f, b, v) == [x \in DOMAIN f \cup {b} |-> IF x = b THEN v ELSE f[x]]

MallocKeepsLinked(request) ==  \* mutant: the block stays in its free list
  LET bsize == highestBit(request + 1)
      b == freelists[bsize]
  IN  /\ b # nullptr
      /\ Holds(b, request)
      /\ UNCHANGED <<poolTop, freelists, next, size>>

(* malloc() finds a block in the free list. *)
MallocReuse(request) ==
  LET bsize == highestBit(request + 1)
      b == freelists[bsize]
  IN  /\ b # nullptr
      /\ freelists' = [freelists EXCEPT ![bsize] = next[b]]
      /\ Holds(b, request)
      /\ UNCHANGED <<poolTop, next, size>>

MallocForgetsHeader(request) ==  \* mutant: the header is left out of the size
  LET bsize == highestBit(request)
      b == poolTop
  IN  /\ freelists[bsize] = nullptr
      /\ b + BlockBytes(bsize) <= PoolEnd
      /\ poolTop' = b + BlockBytes(bsize)
      /\ size' = Put(size, b, bsize)
      /\ next' = Put(next, b, IF b \in DOMAIN next THEN next[b] ELSE nullptr)
      /\ Holds(b, request)
      /\ UNCHANGED freelists

(* malloc() carves a block from the top; block::next keeps what it was. *)
MallocNew(request) ==
  LET bsize == highestBit(request + 1)
      b == poolTop
  IN  /\ freelists[bsize] = nullptr
      /\ b + BlockBytes(bsize) <= PoolEnd
      /\ poolTop' = b + BlockBytes(bsize)
      /\ size' = Put(size, b, bsize)
      /\ next' = Put(next, b, IF b \in DOMAIN next THEN next[b] ELSE nullptr)
      /\ Holds(b, request)
      /\ UNCHANGED freelists

(* malloc() returns nullptr. *)
MallocFails(request) ==
  LET bsize == highestBit(request + 1)
  IN  /\ freelists[bsize] = nullptr
      /\ poolTop + BlockBytes(bsize) > PoolEnd
      /\ UNCHANGED poolVars

FreeHeadFirst(x) ==  \* mutant: the two stores of free() are swapped
  /\ freelists' = [freelists EXCEPT ![size[x.block]] = x.block]
  /\ next' = [next EXCEPT ![x.block] = x.block]
  /\ live' = live \ {x}
  /\ UNCHANGED <<poolTop, size>>

free(x) ==
  /\ next' = [next EXCEPT ![x.block] = freelists[size[x.block]]]
  /\ freelists' = [freelists EXCEPT ![size[x.block]] = x.block]
  /\ live' = live \ {x}
  /\ UNCHANGED <<poolTop, size>>

malloc(request) == MallocReuse(request) \/ MallocNew(request) \/ MallocFails(request)

NextEsLoco == \/ \E request \in Request : malloc(request)
              \/ \E x \in live : free(x)

SpecEsLoco == InitEsLoco /\ [][NextEsLoco]_poolVars
-----------------------------------------------------------------------------
Block == DOMAIN size
NumBlocks == Cardinality(Block)

(* The free list of e, block by block, one step past the last it can hold. *)
Chain(e) ==
  LET nth[n \in 0 .. NumBlocks] ==
        IF n = 0 THEN freelists[e]
        ELSE IF nth[n - 1] \in Block THEN next[nth[n - 1]] ELSE nullptr
  IN  nth

FreeBlocks(e) == LET nth == Chain(e) IN {nth[n] : n \in 0 .. NumBlocks} \ {nullptr}

(* The free lists are lists: each ends, holds blocks of its exponent only, *)
(* and no two share a block, although free() may be called in any order    *)
(* and leaves block::next of an allocated block as it was.                 *)
FreeListsSound ==
  \A e \in Exponent :
    /\ Chain(e)[NumBlocks] = nullptr
    /\ \A b \in FreeBlocks(e) : b \in Block /\ size[b] = e

(* Nothing is lost and nothing is handed out twice: a block that was       *)
(* carved is either held by the program, once, or in a free list.          *)
Accounted ==
  /\ \A x, y \in live : x.block = y.block => x = y
  /\ {x.block : x \in live} \cup UNION {FreeBlocks(e) : e \in Exponent} = Block
  /\ \A x \in live, e \in Exponent : x.block \notin FreeBlocks(e)

Span(x) == x.block .. x.block + x.request   \* the header and what was asked for

(* "Returns pointer to memory in pool, or nullptr" (malloc): the memory of *)
(* two objects never overlaps, and all of it is in the pool.               *)
ObjectsInPool ==
  /\ \A x \in live : Span(x) \subseteq First .. PoolEnd - 1
  /\ \A x, y \in live : x # y => Span(x) \cap Span(y) = {}
=============================================================================
