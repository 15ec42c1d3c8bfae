---------------------------- MODULE MCSequential ----------------------------
(***************************************************************************)
(* The parts in which one thing happens at a time, each behaviour with one *)
(* of them: Trinity's persistence engine, on a region with one word of the *)
(* allocator and two of the user, created by two stores to the first word  *)
(* (poolTop, set and then moved); and what runs inside transactions, the   *)
(* allocator and the data structures, one call after the other.            *)
(*                                                                         *)
(* The B-tree grows and shrinks with SmallKey; three levels whose inner    *)
(* nodes can lend each other children take more keys than TLC can afford   *)
(* with all calls, so there it starts from what inserting 1 to 10, upwards *)
(* or downwards, has built, and only erases.                               *)
(***************************************************************************)
EXTENDS Trinity, EsLoco, BTree

CONSTANTS SmallKey, ZipKey, Rank, RedBlackKey, HashKey, Capacity, Item, NUM_ITEMS, MaxNodes

VARIABLES part,
          struct, extra, call, answer  \* of the structures other than the B-tree

structVars == <<struct, extra, call, answer>>

MCCreateStores == <<<<1, 1>>, <<1, 0>>>>

ZipT == INSTANCE ZipTree WITH
  Key <- ZipKey, root <- struct, node <- extra, op <- call, result <- answer
RedBlack == INSTANCE RedBlackTree WITH
  Key <- RedBlackKey, root <- struct, op <- call, result <- answer
Hash == INSTANCE HashMap WITH
  Key <- HashKey, InitialCapacity <- Capacity,
  buckets <- struct, sizeHM <- extra, op <- call, result <- answer
List == INSTANCE LinkedListSet WITH
  Key <- HashKey, list <- struct, op <- call, result <- answer
Fat == INSTANCE FatLists WITH nodes <- struct, result <- answer

BTreeParts == {"tree", "shrinking"}
SetParts == {"zip", "redblack", "hash", "fixed", "list"}
-----------------------------------------------------------------------------
Leaf(keys) == [keys |-> keys, children |-> <<>>]
Inner(keys, children) == [keys |-> keys, children |-> children]

Upwards ==
  << Leaf(<<1>>), Inner(<<2>>, <<1, 3>>), Leaf(<<3>>), Leaf(<<5>>), Leaf(<<7>>),
     Inner(<<4>>, <<2, 7>>), Inner(<<6, 8>>, <<4, 5, 8>>), Leaf(<<9, 10>>), NoNode, NoNode >>

Downwards ==
  << Leaf(<<1, 2>>), Inner(<<3, 5>>, <<1, 8, 5>>), Leaf(<<10>>), Leaf(<<8>>), Leaf(<<6>>),
     Inner(<<7>>, <<2, 7>>), Inner(<<9>>, <<4, 3>>), Leaf(<<4>>), NoNode, NoNode >>

InitShrinking ==
  /\ root = 6 /\ node \in {Upwards, Downwards}
  /\ op = NoOp /\ target = 0 /\ result = FALSE

NoStruct == struct = 0 /\ extra = 0 /\ call = 0 /\ answer = 0

MCInit ==
  /\ part \in {"engine", "allocator", "queue", "stack"} \cup BTreeParts \cup SetParts
  /\ Init /\ InitEsLoco
  /\ IF part = "shrinking" THEN InitShrinking ELSE InitBTree
  /\ \/ part \in {"engine", "allocator"} \cup BTreeParts /\ NoStruct
     \/ part = "zip" /\ ZipT!InitZipTree
     \/ part = "redblack" /\ RedBlack!InitRedBlackTree /\ extra = 0
     \/ part \in {"hash", "fixed"} /\ Hash!InitHashMap
     \/ part = "list" /\ List!InitList /\ extra = 0
     \/ part = "queue" /\ Fat!InitQueue /\ extra = 0 /\ call = 0
     \/ part = "stack" /\ Fat!InitStack /\ extra = 0 /\ call = 0

Calls == CASE part = "tree" -> Idle => op'.key \in SmallKey
           [] part = "shrinking" -> Idle => op'.name = "erase"

NextStruct ==
  \/ part = "zip" /\ ZipT!NextZipTree
  \/ part = "redblack" /\ RedBlack!NextRedBlackTree /\ UNCHANGED extra
  \/ part = "hash" /\ Hash!NextHashMap
  \/ part = "fixed" /\ Hash!NextFixedSize
  \/ part = "list" /\ List!NextList /\ UNCHANGED extra
  \/ part = "queue" /\ Fat!NextQueue /\ UNCHANGED <<extra, call>>
  \/ part = "stack" /\ Fat!NextStack /\ UNCHANGED <<extra, call>>

MCNext ==
  \/ part = "engine" /\ Next /\ UNCHANGED <<part, poolVars, treeVars, structVars>>
  \/ part = "allocator" /\ NextEsLoco /\ UNCHANGED <<part, vars, treeVars, structVars>>
  \/ part \in BTreeParts /\ NextBTree /\ Calls /\ UNCHANGED <<part, vars, poolVars, structVars>>
  \/ NextStruct /\ UNCHANGED <<part, vars, poolVars, treeVars>>

allVars == <<part, vars, poolVars, treeVars, structVars>>
MCSpec == MCInit /\ [][MCNext]_allVars
-----------------------------------------------------------------------------
(* The properties of the engine are Trinity's, those of the allocator      *)
(* EsLoco's; HasRoom is BTree's.                                           *)

(* What each structure keeps between calls so that the next one finds its  *)
(* way: see each module.                                                   *)
InShape == CASE part \in BTreeParts -> Balanced
             [] part = "zip"      -> ZipT!InShape
             [] part = "redblack" -> RedBlack!InShape
             [] part = "hash"     -> Hash!InShape
             [] part = "fixed"    -> Hash!FixedInShape
             [] part = "list"     -> List!InShape
             [] OTHER             -> TRUE

(* Every set and map behaves as the set of its keys ("Returns true only if *)
(* the key was present", "returns false if the key is already in the       *)
(* set").                                                                  *)
SetOf == CASE part = "zip"      -> ZipT!Set
           [] part = "redblack" -> RedBlack!Set
           [] part = "hash"     -> Hash!Set
           [] part = "fixed"    -> Hash!FixedSet
           [] part = "list"     -> List!Set
           [] OTHER             -> Set

CallOf == IF part \in SetParts THEN [name |-> call.name, key |-> call.key]
                               ELSE [name |-> CallName, key |-> op.key]

Sets == INSTANCE KeySet WITH
  set <- SetOf, call <- CallOf, result <- IF part \in SetParts THEN answer ELSE result

ImplementsKeySet == Sets!Spec

(* Queues give items back in their order, and stacks in the reverse.       *)
OrderKept == [][/\ part = "queue" => Fat!FirstInFirstOut
                /\ part = "stack" => Fat!LastInFirstOut]_allVars

(* Not a property of the run: the README tells of its counterexample.      *)
DrainEmpties == [][part = "queue" => Fat!DrainEmpties]_allVars
=============================================================================
