----------------------------- MODULE MainAndBack -----------------------------
(***************************************************************************)
(* What the three persistence engines of ptms/romuluslog/ have in common:  *)
(* two copies of the data, main and back, in the two halves of the region, *)
(* a header that says which one recovery has to trust, and a volatile log  *)
(* of the words that a transaction has stored.  A word is a persist<>; the *)
(* words in Root are the root pointers.  The concurrency of the engines is *)
(* that of TrinityFC.hpp.                                                  *)
(***************************************************************************)
EXTENDS Naturals, Sequences, PersistentMemory

CONSTANTS NumWords,     \* persist<> words of the main half
          Root,         \* the words that are root pointers
          Val, Zero,    \* values of a word, and the one of a file never written
          CreateStores, \* the stores <<word, val>> of creation
          MaxNesting    \* bound: depth of nested transactions

Word == 1 .. NumWords
Heap == Word \ Root

ASSUME MainAndBackAssumption ==
  /\ NumWords \in Nat /\ Root \subseteq Word
  /\ Zero \in Val
  /\ CreateStores \in Seq(Heap \X Val)
  /\ MaxNesting \in Nat

(* The lines of the region: the header, then each word in each half. *)
pmd == <<"pmd", 0>>
Main(w) == <<"main", w>>
Back(w) == <<"back", w>>
Line == {pmd} \cup {Main(w) : w \in Word} \cup {Back(w) : w \in Word}

VARIABLES file,      \* does the file of the region exist?
          pc,        \* where the process stands in the engine's code
          nested,    \* tl_nested_write_trans of the thread in the engine
          appendLog, \* volatile: the words stored to since the log was cleared
          todo,      \* the words that the copy under way has still to copy
          cur,       \* the next store of creation
          settled    \* history: has a transaction whose log holds the stores
                     \* of creation committed in this region?

regionVars == <<cache, pm, pwb, file, pc, nested, appendLog, todo, cur, settled>>

Created == {CreateStores[i][1] : i \in DOMAIN CreateStores}
Flush(lines) == pwb' = pwb \cup lines /\ UNCHANGED <<cache, pm>>

InitRegion(header) ==
  /\ cache = [l \in Line |-> IF l = pmd THEN header ELSE Zero]
  /\ pm = cache
  /\ pwb = {}
  /\ file = FALSE /\ pc = "down" /\ nested = 0
  /\ appendLog = {} /\ todo = {} /\ cur = 1 /\ settled = FALSE

(* A step that only moves on, and one that waits for the PWBs first. *)
Goto(place) ==
  /\ pc' = place
  /\ UNCHANGED <<cache, pm, pwb, file, nested, appendLog, todo, cur, settled>>

FencedGoto(place) == Fenced /\ Goto(place)
-----------------------------------------------------------------------------
(* mapPersistentRegion() of RomLogFC and RomLog2FFC, a new file:           *)
(* PMetadata, and the stores of esloco.init(), outside of any transaction; *)
(* pstore() logs them all the same, and no PWB is issued for them.         *)
OpenNew ==
  /\ pc = "down" /\ ~file
  /\ file' = TRUE /\ pc' = "create"
  /\ UNCHANGED <<cache, pm, pwb, nested, appendLog, todo, cur, settled>>

CreatePstore ==
  /\ pc = "create" /\ cur <= Len(CreateStores)
  /\ LET w == CreateStores[cur][1]
     IN  /\ Store(Main(w), CreateStores[cur][2])
         /\ appendLog' = appendLog \cup {w}
  /\ cur' = cur + 1
  /\ UNCHANGED <<file, pc, nested, todo, settled>>

CreateId ==
  /\ pc = "create" /\ cur > Len(CreateStores) /\ Fenced
  /\ StorePWB(pmd, [cache[pmd] EXCEPT !.id = TRUE])
  /\ pc' = "createId"
  /\ UNCHANGED <<file, nested, appendLog, todo, cur, settled>>

CreateDone == pc = "createId" /\ FencedGoto("idle")

Create == OpenNew \/ CreatePstore \/ CreateId \/ CreateDone

BeginNestedTx ==
  /\ pc = "tx" /\ nested < MaxNesting
  /\ nested' = nested + 1
  /\ UNCHANGED <<cache, pm, pwb, file, pc, appendLog, todo, cur, settled>>

EndNestedTx ==
  /\ pc = "tx" /\ nested > 1
  /\ nested' = nested - 1
  /\ UNCHANGED <<cache, pm, pwb, file, pc, appendLog, todo, cur, settled>>

Nesting == BeginNestedTx \/ EndNestedTx

(* One word is copied from a half to the other. *)
Copy(to, from) ==
  /\ \E w \in todo : Store(<<to, w>>, cache[<<from, w>>]) /\ todo' = todo \ {w}
  /\ UNCHANGED <<file, pc, nested, appendLog, cur, settled>>

(* The environment.  A transaction commits in a write-back of the header. *)
Evict(Commits) ==
  /\ \E l \in Line : WriteBack(l)
  /\ settled' = (settled \/ (Commits /\ Created \subseteq appendLog))
  /\ UNCHANGED <<file, pc, nested, appendLog, todo, cur>>

Crash ==
  /\ PowerFailure
  /\ pc' = "down" /\ nested' = 0
  /\ appendLog' = {} /\ todo' = {} /\ cur' = 1
  /\ UNCHANGED <<file, settled>>
-----------------------------------------------------------------------------
(***************************************************************************)
(* What the invariants of the three engines are written with: the shape of *)
(* the region, and where cache and medium, or main and back, hold the same.*)
(***************************************************************************)
RegionShape ==
  /\ DOMAIN cache = Line /\ DOMAIN pm = Line
  /\ pwb \subseteq Line
  /\ cur \in Nat \ {0}
  /\ appendLog \subseteq Word /\ todo \subseteq Word

MainClean(w) == pm[Main(w)] = cache[Main(w)]
BackClean(w) == pm[Back(w)] = cache[Back(w)]
Same(w) == cache[Main(w)] = cache[Back(w)]
=============================================================================
