--------------------------- MODULE VolatileReplica ---------------------------
(***************************************************************************)
(* What ptms/trinity/TrinityVRFC.hpp and ptms/quadra/QuadraVRFC.hpp have   *)
(* in common.  The program loads and stores a replica of its words in      *)
(* volatile memory and never touches the persistent region; a transaction  *)
(* logs the ranges it modifies, and only when it ends are the lines they   *)
(* lie in copied to the region, whole lines of several words each.  After  *)
(* a power failure the replica is copied back from the region.             *)
(*                                                                         *)
(* What a line of the region holds besides main and back, how it is        *)
(* stored, and how a region is recovered is up to the engine that extends  *)
(* this module.                                                            *)
(***************************************************************************)
EXTENDS Naturals, Sequences, PersistentMemory

CONSTANTS NumLines,     \* PMCacheLines of the region
          WordsPerLine, \* words of main in each (24 bytes in the code)
          Range_,       \* what one pstore(), tmMemcpy() or tmMemset() may cover:
                        \* sets of adjacent words, of one line or of several
          Val,          \* values of a word
          Zero,         \* the value of a word after memset()
          CreateStores, \* the stores <<range, val>> of the creating transaction
          MaxSeq,       \* bound: no transaction begins after this many
          MaxLog,       \* bound: entries of the log of a user's transaction
          MaxNesting    \* bound: depth of nested transactions

pmd  == 0                    \* the line of PMetadata
PCL  == 1 .. NumLines
Line == {pmd} \cup PCL
Addr == 1 .. NumLines * WordsPerLine

(* What an instance of this module assumes of its constants. *)
ReplicaAssumption ==
  /\ NumLines \in Nat /\ WordsPerLine \in Nat \ {0}
  /\ Range_ \subseteq SUBSET Addr /\ {} \notin Range_
  /\ Zero \in Val
  /\ CreateStores \in Seq(Range_ \X Val)
  /\ MaxSeq \in Nat /\ MaxLog \in Nat /\ MaxNesting \in Nat

VARIABLES pc,      \* where the process stands in the engine's code
          creating,\* mapVolatileRegion() is creating the region
          nested,  \* tl_nested_write_trans
          vr,      \* the volatile replica
          v_log,   \* the ranges the transaction has modified, in order
          todo,    \* what the loop under way has still to visit: <<round, line>>
          cur      \* the next store of the creating transaction

engineVars == <<pc, creating, nested, vr, v_log, todo, cur>>
vars == <<cache, pm, pwb, pc, creating, nested, vr, v_log, todo, cur>>

(* VR_2_PCL and PM_2_VR: the line of a word, the words of a line. *)
LineOf(a) == (a - 1) \div WordsPerLine + 1
WordsOf(l) == {a \in Addr : LineOf(a) = l}
Contents(l) == [a \in WordsOf(l) |-> vr[a]]
ZeroWords(l) == [a \in WordsOf(l) |-> Zero]

(* The mains of all lines, made continuous. *)
Mains(mem) == [a \in Addr |-> mem[LineOf(a)].main[a]]

InitReplica ==
  /\ pm = cache /\ pwb = {}
  /\ pc = "down" /\ creating = FALSE /\ nested = 0
  /\ vr = [a \in Addr |-> Zero]
  /\ v_log = <<>> /\ todo = {} /\ cur = 1

(* A loop goes through its rounds, and through the lines of each, upwards. *)
Precedes(x, y) == x[1] < y[1] \/ (x[1] = y[1] /\ x[2] < y[2])
IsNext(x) == x \in todo /\ \A y \in todo : x = y \/ Precedes(x, y)
-----------------------------------------------------------------------------
(* mapVolatileRegion() without a MAGIC_ID in the header: a new header, the *)
(* region and the replica cleared (the PWB of p_seq is the only one), and  *)
(* the transaction that creates the allocator.                             *)
OpenNew(header, zeroLines) ==
  /\ pc = "down" /\ ~cache[pmd].id
  /\ cache' = [l \in Line |-> IF l = pmd THEN header ELSE zeroLines[l]]
  /\ pwb' = {pmd}
  /\ vr' = [a \in Addr |-> Zero]
  /\ pc' = "tx" /\ creating' = TRUE /\ nested' = 1
  /\ UNCHANGED <<pm, v_log, todo, cur>>

(* recover() has returned: the mains are copied to the replica. *)
CopyToReplica ==
  /\ pc = "recover" /\ todo = {} /\ Fenced
  /\ vr' = Mains(cache)
  /\ pc' = "idle"
  /\ UNCHANGED <<cache, pm, pwb, creating, nested, v_log, todo, cur>>

BeginTx(seq) ==
  /\ pc = "idle" /\ seq <= MaxSeq
  /\ pc' = "tx" /\ nested' = 1
  /\ UNCHANGED <<cache, pm, pwb, creating, vr, v_log, todo, cur>>

BeginNestedTx ==
  /\ pc = "tx" /\ ~creating /\ nested < MaxNesting
  /\ nested' = nested + 1
  /\ UNCHANGED <<cache, pm, pwb, pc, creating, vr, v_log, todo, cur>>

(* pstore(), tmMemcpy(), tmMemset(): the range goes to the log, every time, *)
(* and the new value to the replica.                                       *)
Pstore(range, v) ==
  /\ pc = "tx"
  /\ v_log' = Append(v_log, range)
  /\ vr' = [a \in Addr |-> IF a \in range THEN v ELSE vr[a]]
  /\ cur' = IF creating THEN cur + 1 ELSE cur
  /\ UNCHANGED <<cache, pm, pwb, pc, creating, nested, todo>>

UserPstore ==
  /\ ~creating /\ Len(v_log) < MaxLog
  /\ \E range \in Range_, v \in Val : Pstore(range, v)

CreatePstore ==
  /\ creating /\ cur <= Len(CreateStores)
  /\ Pstore(CreateStores[cur][1], CreateStores[cur][2])

(* pmd->root is no persist<>: a plain store into the region's header. *)
CreateRoot ==
  /\ creating /\ pc = "tx" /\ cur = Len(CreateStores) + 1
  /\ Store(pmd, [cache[pmd] EXCEPT !.root = TRUE])
  /\ cur' = cur + 1
  /\ UNCHANGED <<pc, creating, nested, vr, v_log, todo>>

EndNestedTx ==
  /\ pc = "tx" /\ nested > 1
  /\ nested' = nested - 1
  /\ UNCHANGED <<cache, pm, pwb, pc, creating, vr, v_log, todo, cur>>

(* The lines of a range, and those that persistAndFlush() visits: the log  *)
(* is walked from its last entry to its first, a round for each.           *)
LinesOf(range) == {LineOf(a) : a \in range}
LinesLogged == UNION {{Len(v_log) - i} \X LinesOf(v_log[i]) : i \in DOMAIN v_log}

(* endTx() of the outermost transaction. *)
EndTx ==
  /\ pc = "tx" /\ nested = 1
  /\ creating => cur = Len(CreateStores) + 2
  /\ nested' = 0 /\ pc' = "flush" /\ todo' = LinesLogged
  /\ UNCHANGED <<cache, pm, pwb, creating, vr, v_log, cur>>

(* storeRange() of the next line: back, seq and main, in this order,       *)
(* unless the line is of this transaction already.                         *)
StoreRangeSkip(seq) ==
  /\ pc = "flush"
  /\ \E x \in todo : IsNext(x) /\ cache[x[2]].seq = seq /\ todo' = todo \ {x}
  /\ UNCHANGED <<cache, pm, pwb, pc, creating, nested, vr, v_log, cur>>

StoreRangeBack(seq, next) ==
  /\ pc = "flush"
  /\ \E x \in todo : /\ IsNext(x) /\ cache[x[2]].seq # seq
                     /\ Store(x[2], [cache[x[2]] EXCEPT !.back = cache[x[2]].main])
  /\ pc' = next
  /\ UNCHANGED <<creating, nested, vr, v_log, todo, cur>>

StoreRangeSeq(seq) ==
  /\ pc = "flushSeq"
  /\ \E x \in todo : IsNext(x) /\ Store(x[2], [cache[x[2]] EXCEPT !.seq = seq])
  /\ pc' = "flushMain"
  /\ UNCHANGED <<creating, nested, vr, v_log, todo, cur>>

(* The last PSYNC of endTx() has returned; creation goes on with the root. *)
EndTxDone ==
  /\ v_log' = <<>>
  /\ IF creating THEN pwb' = {pmd} /\ pc' = "createRoot"
                 ELSE pc' = "idle" /\ UNCHANGED pwb
  /\ UNCHANGED <<cache, pm, creating, nested, vr, todo, cur>>

CreateId ==
  /\ pc = "createRoot" /\ Fenced
  /\ StorePWB(pmd, [cache[pmd] EXCEPT !.id = TRUE])
  /\ pc' = "createId"
  /\ UNCHANGED <<creating, nested, vr, v_log, todo, cur>>

CreateDone ==
  /\ pc = "createId" /\ Fenced
  /\ pc' = "idle" /\ creating' = FALSE
  /\ UNCHANGED <<cache, pm, pwb, nested, vr, v_log, todo, cur>>
-----------------------------------------------------------------------------
(* The environment. *)
Evict ==
  /\ \E l \in Line : WriteBack(l)
  /\ UNCHANGED engineVars

(* The replica is lost with the process (its file is never read again). *)
Crash ==
  /\ PowerFailure
  /\ pc' = "down" /\ creating' = FALSE /\ nested' = 0
  /\ vr' = [a \in Addr |-> Zero]
  /\ v_log' = <<>> /\ todo' = {} /\ cur' = 1

Transaction(seq) ==
               \/ BeginTx(seq) \/ BeginNestedTx \/ UserPstore \/ EndNestedTx
               \/ CreatePstore \/ CreateRoot \/ EndTx \/ CreateId \/ CreateDone
=============================================================================
