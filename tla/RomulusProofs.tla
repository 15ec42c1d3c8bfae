----------------------------- MODULE RomulusProofs -----------------------------
(***************************************************************************)
(* Theorems about the three engines of ptms/romuluslog/: what a            *)
(* transaction has committed survives, and nothing else does.  RomLogFC    *)
(* (module RomLog) comes first; F is RomLog2FFC and L is RomulusLog.       *)
(***************************************************************************)
EXTENDS RomLog, TLAPS

CONSTANT LogLimit
VARIABLES logEnabled, logSize, overflown

F == INSTANCE RomLog2F
L == INSTANCE RomulusLog
-----------------------------------------------------------------------------
(***************************************************************************)
(* RomLogFC.  First the lines of the region, and what a store and a write- *)
(* back leave alone.                                                       *)
(***************************************************************************)
LEMMA LineFacts ==
  /\ pmd \in Line
  /\ \A w \in Word : /\ Main(w) \in Line /\ Back(w) \in Line
                     /\ Main(w) # pmd /\ Back(w) # pmd
  /\ \A w, v \in Word : /\ Main(w) # Back(v)
                        /\ Main(w) = Main(v) => w = v
                        /\ Back(w) = Back(v) => w = v
  /\ \A l \in Line : l = pmd \/ \E w \in Word : l = Main(w) \/ l = Back(w)
BY DEF Line, pmd, Main, Back

LEMMA HeapFacts ==
  /\ Root \subseteq Word /\ Heap \subseteq Word /\ Created \subseteq Heap
  /\ Heap = Word \ Root /\ CreateStores \in Seq(Heap \X Val)
<1>1. CreateStores \in Seq(Heap \X Val) /\ Root \subseteq Word
  BY MainAndBackAssumption
<1>2. Created \subseteq Heap
  BY <1>1 DEF Created
<1>. QED BY <1>1, <1>2 DEF Heap

(* What is stored to, and what is not. *)
LEMMA HeaderStore ==
  ASSUME RegionShape, NEW h, cache' = [cache EXCEPT ![pmd] = h]
  PROVE  /\ DOMAIN cache' = Line /\ cache'[pmd] = h
         /\ \A w \in Word : cache'[Main(w)] = cache[Main(w)] /\ cache'[Back(w)] = cache[Back(w)]
BY LineFacts DEF RegionShape

LEMMA MainStore ==
  ASSUME RegionShape, NEW v \in Word, NEW x, cache' = [cache EXCEPT ![Main(v)] = x]
  PROVE  /\ DOMAIN cache' = Line /\ cache'[pmd] = cache[pmd] /\ cache'[Main(v)] = x
         /\ \A w \in Word : /\ w # v => cache'[Main(w)] = cache[Main(w)]
                            /\ cache'[Back(w)] = cache[Back(w)]
BY LineFacts DEF RegionShape

LEMMA BackStore ==
  ASSUME RegionShape, NEW v \in Word, NEW x, cache' = [cache EXCEPT ![Back(v)] = x]
  PROVE  /\ DOMAIN cache' = Line /\ cache'[pmd] = cache[pmd] /\ cache'[Back(v)] = x
         /\ \A w \in Word : /\ w # v => cache'[Back(w)] = cache[Back(w)]
                            /\ cache'[Main(w)] = cache[Main(w)]
BY LineFacts DEF RegionShape

(* The processor writes a line back: a word that was not behind stays so,  *)
(* and one whose PWB is done is not behind any more.                       *)
LEMMA WrittenBack ==
  ASSUME RegionShape, NEW l \in Line, WriteBack(l)
  PROVE  /\ DOMAIN pm' = Line /\ pwb' = pwb \ {l} /\ cache' = cache
         /\ pm'[l] = cache[l]
         /\ \A k \in Line : k # l => pm'[k] = pm[k]
         /\ \A w \in Word : /\ MainClean(w) \/ (Main(w) \in pwb /\ Main(w) \notin pwb') => MainClean(w)'
                            /\ BackClean(w) \/ (Back(w) \in pwb /\ Back(w) \notin pwb') => BackClean(w)'
         /\ \/ l = pmd /\ pm'[pmd] = cache[pmd]
            \/ l # pmd /\ pm'[pmd] = pm[pmd]
<1>1. pm' = [pm EXCEPT ![l] = cache[l]] /\ pwb' = pwb \ {l} /\ cache' = cache /\ DOMAIN pm = Line
  BY DEF WriteBack, RegionShape
<1>2. DOMAIN pm' = Line /\ pm'[l] = cache[l] /\ \A k \in Line : k # l => pm'[k] = pm[k]
  BY <1>1
<1>3. \A w \in Word : /\ MainClean(w) \/ (Main(w) \in pwb /\ Main(w) \notin pwb') => MainClean(w)'
                      /\ BackClean(w) \/ (Back(w) \in pwb /\ Back(w) \notin pwb') => BackClean(w)'
  BY <1>1, <1>2, LineFacts DEF MainClean, BackClean
<1>. QED BY <1>1, <1>2, <1>3, LineFacts
-----------------------------------------------------------------------------
State == {"IDLE", "MUTATING", "COPYING"}
Header == [id : BOOLEAN, state : State]
PC == {"down", "create", "createId", "recover", "recoverFence", "recoverSync",
       "idle", "begin", "tx", "fence", "sync", "apply", "backFence"}

RegionTypeOK ==
  /\ RegionShape
  /\ cache[pmd] \in Header /\ pm[pmd] \in Header
  /\ pc \in PC

(* The words that creation has stored to, outside of any transaction, are  *)
(* not in order until a transaction has copied them.                       *)
Known == IF settled THEN Heap ELSE Heap \ Created

(* The states of the header in the cache and in the medium, place by place *)
(* in the code.                                                            *)
InvHeader ==
  LET durable == pm[pmd].state
  IN  /\ pc = "down" => cache[pmd] = pm[pmd] /\ pwb = {}
      /\ pc \in {"create", "createId"} => state = "IDLE" /\ durable = "IDLE"
      /\ pc \in {"recover", "recoverFence"} => state # "IDLE" /\ durable = state
      /\ pc = "recoverSync" => state = "IDLE" /\ (pmd \in pwb \/ durable = "IDLE")
      /\ pc = "idle" => state = "IDLE" /\ durable \in {"IDLE", "COPYING"}
      /\ pc = "begin" => state = "MUTATING" /\ (pmd \in pwb \/ durable = "MUTATING")
      /\ pc \in {"tx", "fence"} => state = "MUTATING" /\ durable = "MUTATING"
      /\ pc = "sync" => /\ state = "COPYING" /\ durable \in {"MUTATING", "COPYING"}
                        /\ pmd \in pwb \/ durable = "COPYING"
      /\ pc \in {"apply", "backFence"} => state = "COPYING" /\ durable = "COPYING"

(* The log holds words only during creation, from there to the end of the  *)
(* first transaction, and during transactions.                             *)
InvLog ==
  /\ pc \in {"down", "recover", "recoverFence", "recoverSync"} => appendLog = {}
  /\ pc \in {"idle", "begin"} /\ appendLog # {} => ~settled /\ pm[pmd].state # "COPYING"
  /\ pc \in {"create", "createId", "idle", "begin"} => appendLog \subseteq Created
  /\ pc = "apply" => todo \subseteq appendLog
  /\ pc = "recover" /\ state = "MUTATING" => todo \subseteq Heap
  /\ pc \in {"create", "createId"} => ~settled
  /\ ~file => /\ pc = "down" /\ ~settled /\ state = "IDLE"
              /\ \A w \in Word : cache[Main(w)] = cache[Back(w)]

(* A word that is behind in the medium has its PWB issued. *)
InvMain ==
  \A w \in Word :
    \/ MainClean(w)
    \/ pc \in {"create", "createId", "idle", "begin", "tx"} /\ w \in appendLog
    \/ pc = "fence" /\ w \in appendLog /\ Main(w) \in pwb
    \/ pc = "recover" /\ state = "MUTATING" /\ w \in Heap
    \/ pc = "recoverFence" /\ state = "MUTATING" /\ w \in Heap /\ Main(w) \in pwb

InvBack ==
  \A w \in Word :
    \/ BackClean(w)
    \/ pc = "apply" /\ w \in appendLog
    \/ pc = "backFence" /\ w \in appendLog /\ Back(w) \in pwb
    \/ pc = "recover" /\ state = "COPYING"
    \/ pc = "recoverFence" /\ state = "COPYING" /\ Back(w) \in pwb

(* Where the two halves hold the same. *)
InvSame ==
  /\ pc \in {"create", "createId", "idle", "begin"} => \A w \in Known : Same(w)
  /\ pc = "down" /\ state = "IDLE" => \A w \in Known : Same(w)
  /\ pc = "recover" => \A w \in Heap \ todo : Same(w)
  /\ pc \in {"recoverFence", "recoverSync"} => \A w \in Heap : Same(w)
  /\ pc \in {"tx", "fence", "sync"} => \A w \in Known \ appendLog : Same(w)
  /\ pc = "apply" => \A w \in (Known \cup appendLog) \ todo : Same(w)
  /\ pc = "backFence" => \A w \in Known \cup appendLog : Same(w)

RomInv == RegionTypeOK /\ InvHeader /\ InvLog /\ InvMain /\ InvBack /\ InvSame
-----------------------------------------------------------------------------
LEMMA KnownFacts == Known \subseteq Heap
BY DEF Known

LEMMA HeaderSet ==
  ASSUME RegionTypeOK, NEW s \in State
  PROVE  SetState(s) \in Header /\ SetState(s).state = s
BY DEF RegionTypeOK, RegionShape, SetState, Header

LEMMA InitInv == Init => RomInv
<1>. SUFFICES ASSUME Init PROVE RomInv
  OBVIOUS
<1>. USE LineFacts DEF Init, InitRegion
<1>1. cache[pmd] = [id |-> FALSE, state |-> "IDLE"] /\ pm = cache /\ DOMAIN cache = Line
  OBVIOUS
<1>2. RegionTypeOK
  BY <1>1 DEF RegionTypeOK, RegionShape, Header, State, PC
<1>3. \A w \in Word : Same(w) /\ MainClean(w) /\ BackClean(w)
  BY <1>1 DEF Same, MainClean, BackClean
<1>4. InvHeader /\ InvLog
  BY <1>1, <1>3 DEF InvHeader, InvLog, state, Same
<1>. QED BY <1>1, <1>2, <1>3, <1>4, HeapFacts, KnownFacts DEF RomInv, InvMain, InvBack, InvSame
-----------------------------------------------------------------------------
(* Creation, outside of any transaction. *)
LEMMA CreateInv ==
  ASSUME RomInv, Create
  PROVE  RomInv'
<1>. USE LineFacts, HeapFacts, KnownFacts DEF RomInv
<1>0. Known' = Known /\ settled' = settled
  BY DEF Create, OpenNew, CreatePstore, CreateId, CreateDone, FencedGoto, Goto, Known
<1>1. CASE OpenNew
  <2>1. UNCHANGED <<cache, pm, pwb, appendLog, todo, cur>> /\ pc = "down" /\ ~file /\ pc' = "create" /\ file'
    BY <1>1 DEF OpenNew
  <2>. QED BY <1>0, <2>1 DEF RegionTypeOK, RegionShape, PC, InvHeader, InvLog, InvMain, InvBack, InvSame, MainClean,
           BackClean, Same, state
<1>2. CASE CreatePstore
  <2>. DEFINE v == CreateStores[cur][1]
  <2>1. cur \in DOMAIN CreateStores /\ v \in Created /\ v \in Word
    <3>1. cur \in 1 .. Len(CreateStores)
      BY <1>2 DEF CreatePstore, RegionTypeOK, RegionShape
    <3>. QED BY <3>1 DEF Created
  <2>2. /\ cache' = [cache EXCEPT ![Main(v)] = CreateStores[cur][2]]
        /\ UNCHANGED <<pm, pwb, pc, file, todo>> /\ pc = "create" /\ cur' = cur + 1
        /\ appendLog' = appendLog \cup {v}
    BY <1>2 DEF CreatePstore, Store
  <2>3. /\ DOMAIN cache' = Line /\ cache'[pmd] = cache[pmd]
        /\ \A w \in Word : /\ w # v => cache'[Main(w)] = cache[Main(w)]
                           /\ cache'[Back(w)] = cache[Back(w)]
    BY <2>1, <2>2, MainStore DEF RegionTypeOK
  <2>4. ~settled /\ v \notin Known
    BY <2>1, <2>2 DEF InvLog, Known
  <2>5. RegionTypeOK' /\ InvHeader' /\ InvLog'
    BY <1>0, <2>1, <2>2, <2>3 DEF RegionTypeOK, RegionShape, InvHeader, InvLog, state
  <2>. QED BY <1>0, <2>1, <2>2, <2>3, <2>4, <2>5 DEF InvMain, InvBack, InvSame, MainClean, BackClean, Same, state
<1>3. CASE CreateId
  <2>. DEFINE h == [cache[pmd] EXCEPT !.id = TRUE]
  <2>1. /\ cache' = [cache EXCEPT ![pmd] = h] /\ pwb' = pwb \cup {pmd} /\ pm' = pm
        /\ pc = "create" /\ pc' = "createId" /\ UNCHANGED <<file, appendLog, todo, cur>>
    BY <1>3 DEF CreateId, StorePWB
  <2>2. h \in Header /\ h.state = state
    BY DEF RegionTypeOK, RegionShape, Header, state
  <2>3. /\ DOMAIN cache' = Line /\ cache'[pmd] = h
        /\ \A w \in Word : cache'[Main(w)] = cache[Main(w)] /\ cache'[Back(w)] = cache[Back(w)]
    BY <2>1, <2>2, HeaderStore DEF RegionTypeOK
  <2>. QED BY <1>0, <2>1, <2>2, <2>3 DEF RegionTypeOK, RegionShape, PC, InvHeader, InvLog, InvMain, InvBack, InvSame,
           MainClean, BackClean, Same, state
<1>4. CASE CreateDone
  <2>1. UNCHANGED <<cache, pm, pwb, appendLog, todo, cur, file>> /\ pc = "createId" /\ pc' = "idle"
    BY <1>4 DEF CreateDone, FencedGoto, Goto
  <2>. QED BY <1>0, <2>1 DEF RegionTypeOK, RegionShape, PC, InvHeader, InvLog, InvMain, InvBack, InvSame, MainClean,
           BackClean, Same, state
<1>. QED BY <1>1, <1>2, <1>3, <1>4 DEF Create
-----------------------------------------------------------------------------
(* The constructor, on a region that exists. *)
LEMMA RecoverInv ==
  ASSUME RomInv, Recover
  PROVE  RomInv'
<1>. USE LineFacts, HeapFacts, KnownFacts DEF RomInv
<1>0. /\ Known' = Known /\ settled' = settled /\ pm' = pm /\ file' = file
      /\ appendLog' = appendLog /\ cur' = cur
  <2>1. CASE OpenExisting
    BY <2>1 DEF OpenExisting, Known
  <2>2. CASE RecoverCopy
    BY <2>2 DEF RecoverCopy, Copy, Store, Known
  <2>3. CASE RecoverFlush
    BY <2>3 DEF RecoverFlush, Flush, Known
  <2>4. CASE RecoverIdle
    BY <2>4 DEF RecoverIdle, StorePWB, Known
  <2>5. CASE RecoverDone
    BY <2>5 DEF RecoverDone, FencedGoto, Goto, Known
  <2>. QED BY <2>1, <2>2, <2>3, <2>4, <2>5 DEF Recover
<1>1. CASE OpenExisting
  <2>1. UNCHANGED <<cache, pwb>> /\ pc = "down" /\ file
    BY <1>1 DEF OpenExisting
  <2>2. \A w \in Word : MainClean(w) /\ BackClean(w)
    BY <2>1 DEF InvMain, InvBack
  <2>3. appendLog = {} /\ pm[pmd] = cache[pmd]
    BY <2>1 DEF InvLog, InvHeader
  <2>. QED BY <1>0, <1>1, <2>1, <2>2, <2>3 DEF OpenExisting, RegionTypeOK, RegionShape, PC, InvHeader, InvLog, InvMain,
           InvBack, InvSame, MainClean, BackClean, Same, state
<1>2. CASE RecoverCopy
  <2>0. pc = "recover" /\ pc' = "recover" /\ pwb' = pwb
    BY <1>2 DEF RecoverCopy, Copy, Store
  <2>1. CASE state = "COPYING"
    <3>1. PICK v \in todo : cache' = [cache EXCEPT ![Back(v)] = cache[Main(v)]] /\ todo' = todo \ {v}
      BY <1>2, <2>1 DEF RecoverCopy, Copy, Store, Back, Main
    <3>2. v \in Word
      BY DEF RegionTypeOK, RegionShape
    <3>3. /\ DOMAIN cache' = Line /\ cache'[pmd] = cache[pmd] /\ cache'[Back(v)] = cache[Main(v)]
          /\ \A w \in Word : /\ w # v => cache'[Back(w)] = cache[Back(w)]
                             /\ cache'[Main(w)] = cache[Main(w)]
      BY <3>1, <3>2, BackStore DEF RegionTypeOK
    <3>. QED BY <1>0, <2>0, <2>1, <3>1, <3>2, <3>3 DEF RegionTypeOK, RegionShape, PC, InvHeader, InvLog, InvMain, InvBack,
             InvSame, MainClean, BackClean, Same, state
  <2>2. CASE state = "MUTATING"
    <3>1. PICK v \in todo : cache' = [cache EXCEPT ![Main(v)] = cache[Back(v)]] /\ todo' = todo \ {v}
      BY <1>2, <2>2 DEF RecoverCopy, Copy, Store, Back, Main
    <3>2. v \in Word /\ v \in Heap
      BY <2>0, <2>2 DEF InvLog
    <3>3. /\ DOMAIN cache' = Line /\ cache'[pmd] = cache[pmd] /\ cache'[Main(v)] = cache[Back(v)]
          /\ \A w \in Word : /\ w # v => cache'[Main(w)] = cache[Main(w)]
                             /\ cache'[Back(w)] = cache[Back(w)]
      BY <3>1, <3>2, MainStore DEF RegionTypeOK
    <3>. QED BY <1>0, <2>0, <2>2, <3>1, <3>2, <3>3 DEF RegionTypeOK, RegionShape, PC, InvHeader, InvLog, InvMain, InvBack,
             InvSame, MainClean, BackClean, Same, state
  <2>. QED BY <2>0, <2>1, <2>2 DEF InvHeader, RegionTypeOK, RegionShape, Header, State, state
<1>3. CASE RecoverFlush
  <2>1. /\ cache' = cache /\ pc = "recover" /\ pc' = "recoverFence" /\ todo = {} /\ todo' = {}
        /\ pwb' = pwb \cup (IF state = "COPYING" THEN {Back(w) : w \in Word} ELSE {Main(w) : w \in Heap})
    BY <1>3 DEF RecoverFlush, Flush
  <2>2. pwb' \subseteq Line
    BY <2>1 DEF RegionTypeOK, RegionShape
  <2>. QED BY <1>0, <2>1, <2>2 DEF RegionTypeOK, RegionShape, PC, InvHeader, InvLog, InvMain, InvBack,
           InvSame, MainClean, BackClean, Same, state
<1>4. CASE RecoverIdle
  <2>. DEFINE h == SetState("IDLE")
  <2>1. /\ cache' = [cache EXCEPT ![pmd] = h] /\ pwb = {} /\ pwb' = {pmd} /\ todo' = todo
        /\ pc = "recoverFence" /\ pc' = "recoverSync"
    BY <1>4 DEF RecoverIdle, StorePWB, Fenced
  <2>2. h \in Header /\ h.state = "IDLE"
    BY HeaderSet DEF State
  <2>3. /\ DOMAIN cache' = Line /\ cache'[pmd] = h
        /\ \A w \in Word : cache'[Main(w)] = cache[Main(w)] /\ cache'[Back(w)] = cache[Back(w)]
    BY <2>1, <2>2, HeaderStore DEF RegionTypeOK
  <2>. QED BY <1>0, <2>1, <2>2, <2>3 DEF RegionTypeOK, RegionShape, PC, InvHeader, InvLog, InvMain, InvBack, InvSame,
           MainClean, BackClean, Same, state
<1>5. CASE RecoverDone
  <2>1. UNCHANGED <<cache, pwb, todo>> /\ pwb = {} /\ pc = "recoverSync" /\ pc' = "idle"
    BY <1>5 DEF RecoverDone, FencedGoto, Goto, Fenced
  <2>. QED BY <1>0, <2>1 DEF RegionTypeOK, RegionShape, PC, InvHeader, InvLog, InvMain, InvBack, InvSame, MainClean,
           BackClean, Same, state
<1>. QED BY <1>1, <1>2, <1>3, <1>4, <1>5 DEF Recover
-----------------------------------------------------------------------------
(* beginTx(), pstore() and nested transactions. *)
LEMMA BodyInv ==
  ASSUME RomInv, Begin \/ Pstore \/ Nesting
  PROVE  RomInv'
<1>. USE LineFacts, HeapFacts, KnownFacts DEF RomInv
<1>0. /\ Known' = Known /\ settled' = settled /\ pm' = pm /\ file' = file /\ cur' = cur /\ todo' = todo
  BY DEF Begin, BeginTx, BeginTxFence, Pstore, Nesting, BeginNestedTx, EndNestedTx, Store, StorePWB,
         FencedGoto, Goto, Known
<1>1. CASE BeginTx
  <2>. DEFINE h == SetState("MUTATING")
  <2>1. /\ cache' = [cache EXCEPT ![pmd] = h] /\ pwb' = pwb \cup {pmd}
        /\ pc = "idle" /\ pc' = "begin" /\ appendLog' = appendLog
    BY <1>1 DEF BeginTx, StorePWB
  <2>2. h \in Header /\ h.state = "MUTATING"
    BY HeaderSet DEF State
  <2>3. /\ DOMAIN cache' = Line /\ cache'[pmd] = h
        /\ \A w \in Word : cache'[Main(w)] = cache[Main(w)] /\ cache'[Back(w)] = cache[Back(w)]
    BY <2>1, <2>2, HeaderStore DEF RegionTypeOK
  <2>. QED BY <1>0, <2>1, <2>2, <2>3 DEF RegionTypeOK, RegionShape, PC, InvHeader, InvLog, InvMain, InvBack, InvSame,
           MainClean, BackClean, Same, state
<1>2. CASE BeginTxFence
  <2>1. UNCHANGED <<cache, pwb, appendLog>> /\ pwb = {} /\ pc = "begin" /\ pc' = "tx"
    BY <1>2 DEF BeginTxFence, FencedGoto, Goto, Fenced
  <2>. QED BY <1>0, <2>1 DEF RegionTypeOK, RegionShape, PC, InvHeader, InvLog, InvMain, InvBack, InvSame, MainClean,
           BackClean, Same, state
<1>3. CASE Pstore
  <2>1. PICK v \in Word, x \in Val :
          appendLog' = appendLog \cup {v} /\ cache' = [cache EXCEPT ![Main(v)] = x]
    BY <1>3 DEF Pstore, Store
  <2>2. pc = "tx" /\ pc' = "tx" /\ pwb' = pwb
    BY <1>3 DEF Pstore, Store
  <2>3. /\ DOMAIN cache' = Line /\ cache'[pmd] = cache[pmd]
        /\ \A w \in Word : /\ w # v => cache'[Main(w)] = cache[Main(w)]
                           /\ cache'[Back(w)] = cache[Back(w)]
    BY <2>1, MainStore DEF RegionTypeOK
  <2>. QED BY <1>0, <2>1, <2>2, <2>3 DEF RegionTypeOK, RegionShape, PC, InvHeader, InvLog, InvMain, InvBack, InvSame,
           MainClean, BackClean, Same, state
<1>4. CASE Nesting
  <2>1. UNCHANGED <<cache, pwb, appendLog, pc>>
    BY <1>4 DEF Nesting, BeginNestedTx, EndNestedTx
  <2>. QED BY <1>0, <2>1 DEF RegionTypeOK, RegionShape, PC, InvHeader, InvLog, InvMain, InvBack, InvSame, MainClean,
           BackClean, Same, state
<1>. QED BY <1>1, <1>2, <1>3, <1>4 DEF Begin
-----------------------------------------------------------------------------
(* endTx(). *)
LEMMA CommitInv ==
  ASSUME RomInv, Commit
  PROVE  RomInv'
<1>. USE LineFacts, HeapFacts, KnownFacts DEF RomInv
<1>0. Known' = Known /\ settled' = settled /\ pm' = pm /\ file' = file /\ cur' = cur
  <2>1. CASE EndTx
    BY <2>1 DEF EndTx, Flush, Known
  <2>2. CASE EndTxCopying
    BY <2>2 DEF EndTxCopying, StorePWB, Known
  <2>3. CASE EndTxSync
    BY <2>3 DEF EndTxSync, Known
  <2>4. CASE ApplyStores
    BY <2>4 DEF ApplyStores, Copy, Store, Known
  <2>5. CASE FlushBack
    BY <2>5 DEF FlushBack, Flush, Known
  <2>6. CASE EndTxIdle
    BY <2>6 DEF EndTxIdle, Store, Known
  <2>. QED BY <2>1, <2>2, <2>3, <2>4, <2>5, <2>6 DEF Commit
<1>1. CASE EndTx
  <2>1. /\ cache' = cache /\ pc = "tx" /\ pc' = "fence" /\ UNCHANGED <<todo, appendLog>>
        /\ pwb' = pwb \cup {Main(w) : w \in appendLog}
    BY <1>1 DEF EndTx, Flush
  <2>2. pwb' \subseteq Line
    BY <2>1 DEF RegionTypeOK, RegionShape
  <2>. QED BY <1>0, <2>1, <2>2 DEF RegionTypeOK, RegionShape, PC, InvHeader, InvLog, InvMain, InvBack,
           InvSame, MainClean, BackClean, Same, state
<1>2. CASE EndTxCopying
  <2>. DEFINE h == SetState("COPYING")
  <2>1. /\ cache' = [cache EXCEPT ![pmd] = h] /\ pwb = {} /\ pwb' = {pmd}
        /\ pc = "fence" /\ pc' = "sync" /\ UNCHANGED <<todo, appendLog>>
    BY <1>2 DEF EndTxCopying, StorePWB, Fenced
  <2>2. h \in Header /\ h.state = "COPYING"
    BY HeaderSet DEF State
  <2>3. /\ DOMAIN cache' = Line /\ cache'[pmd] = h
        /\ \A w \in Word : cache'[Main(w)] = cache[Main(w)] /\ cache'[Back(w)] = cache[Back(w)]
    BY <2>1, <2>2, HeaderStore DEF RegionTypeOK
  <2>. QED BY <1>0, <2>1, <2>2, <2>3 DEF RegionTypeOK, RegionShape, PC, InvHeader, InvLog, InvMain, InvBack, InvSame,
           MainClean, BackClean, Same, state
<1>3. CASE EndTxSync
  <2>1. /\ UNCHANGED <<cache, pwb, appendLog>> /\ pwb = {} /\ pc = "sync" /\ pc' = "apply"
        /\ todo' = appendLog
    BY <1>3 DEF EndTxSync, Fenced
  <2>. QED BY <1>0, <2>1 DEF RegionTypeOK, RegionShape, PC, InvHeader, InvLog, InvMain, InvBack, InvSame, MainClean,
           BackClean, Same, state
<1>4. CASE ApplyStores
  <2>1. PICK v \in todo : cache' = [cache EXCEPT ![Back(v)] = cache[Main(v)]] /\ todo' = todo \ {v}
    BY <1>4 DEF ApplyStores, Copy, Store, Back, Main
  <2>2. pc = "apply" /\ pc' = "apply" /\ UNCHANGED <<pwb, appendLog>>
    BY <1>4 DEF ApplyStores, Copy, Store
  <2>3. v \in Word /\ v \in appendLog
    BY <2>2 DEF InvLog, RegionTypeOK, RegionShape
  <2>4. /\ DOMAIN cache' = Line /\ cache'[pmd] = cache[pmd] /\ cache'[Back(v)] = cache[Main(v)]
        /\ \A w \in Word : /\ w # v => cache'[Back(w)] = cache[Back(w)]
                           /\ cache'[Main(w)] = cache[Main(w)]
    BY <2>1, <2>3, BackStore DEF RegionTypeOK
  <2>. QED BY <1>0, <2>1, <2>2, <2>3, <2>4 DEF RegionTypeOK, RegionShape, PC, InvHeader, InvLog, InvMain, InvBack,
           InvSame, MainClean, BackClean, Same, state
<1>5. CASE FlushBack
  <2>1. /\ cache' = cache /\ pc = "apply" /\ pc' = "backFence" /\ todo = {} /\ UNCHANGED <<todo, appendLog>>
        /\ pwb' = pwb \cup {Back(w) : w \in appendLog}
    BY <1>5 DEF FlushBack, Flush
  <2>2. pwb' \subseteq Line
    BY <2>1 DEF RegionTypeOK, RegionShape
  <2>. QED BY <1>0, <2>1, <2>2 DEF RegionTypeOK, RegionShape, PC, InvHeader, InvLog, InvMain, InvBack,
           InvSame, MainClean, BackClean, Same, state
<1>6. CASE EndTxIdle
  <2>. DEFINE h == SetState("IDLE")
  <2>1. /\ cache' = [cache EXCEPT ![pmd] = h] /\ pwb = {} /\ pwb' = {} /\ todo' = todo
        /\ pc = "backFence" /\ pc' = "idle" /\ appendLog' = {}
    BY <1>6 DEF EndTxIdle, Store, Fenced
  <2>2. h \in Header /\ h.state = "IDLE"
    BY HeaderSet DEF State
  <2>3. /\ DOMAIN cache' = Line /\ cache'[pmd] = h
        /\ \A w \in Word : cache'[Main(w)] = cache[Main(w)] /\ cache'[Back(w)] = cache[Back(w)]
    BY <2>1, <2>2, HeaderStore DEF RegionTypeOK
  <2>. QED BY <1>0, <2>1, <2>2, <2>3 DEF RegionTypeOK, RegionShape, PC, InvHeader, InvLog, InvMain, InvBack, InvSame,
           MainClean, BackClean, Same, state
<1>. QED BY <1>1, <1>2, <1>3, <1>4, <1>5, <1>6 DEF Commit
-----------------------------------------------------------------------------
(* What is known to be in order only grows at the commit of a transaction  *)
(* whose log holds the stores of creation.                                 *)
LEMMA EvictKnown ==
  ASSUME RomInv, Evict(CommitsCopying)
  PROVE  \/ Known' = Known
         \/ /\ Created \subseteq appendLog /\ Known' = Heap
            /\ pc \in {"sync", "apply", "backFence"}
<1>. USE LineFacts, HeapFacts, KnownFacts DEF RomInv
<1>1. PICK l \in Line : WriteBack(l)
  BY DEF Evict
<1>2. settled' = (settled \/ (CommitsCopying /\ Created \subseteq appendLog))
  BY DEF Evict
<1>3. Heap' = Heap /\ Created' = Created
  BY DEF Heap, Word, Created
<1>4. CASE settled \/ Created = {}
  BY <1>2, <1>3, <1>4 DEF Known
<1>5. CASE ~CommitsCopying \/ ~(Created \subseteq appendLog)
  BY <1>2, <1>3, <1>5 DEF Known
<1>6. CASE ~settled /\ Created # {} /\ CommitsCopying /\ Created \subseteq appendLog
  <2>1. settled' /\ Known' = Heap /\ appendLog # {}
    BY <1>2, <1>3, <1>6 DEF Known
  <2>2. cache[pmd].state = "COPYING" \/ pm[pmd].state = "COPYING"
    BY <1>1, <1>6, WrittenBack DEF CommitsCopying, RegionTypeOK
  <2>3. pc \in {"sync", "apply", "backFence"}
    BY <2>1, <2>2 DEF RegionTypeOK, RegionShape, PC, InvHeader, InvLog, state
  <2>. QED BY <2>1, <2>3, <1>6
<1>. QED BY <1>4, <1>5, <1>6

LEMMA EvictInv ==
  ASSUME RomInv, Evict(CommitsCopying)
  PROVE  RomInv'
<1>. USE LineFacts, HeapFacts, KnownFacts DEF RomInv
<1>1. PICK l \in Line : WriteBack(l)
  BY DEF Evict
<1>2. /\ UNCHANGED <<file, pc, appendLog, todo, cur, cache>>
      /\ settled' = (settled \/ (CommitsCopying /\ Created \subseteq appendLog))
  BY <1>1 DEF Evict, WriteBack
<1>3. Heap' = Heap /\ Word' = Word /\ Created' = Created
  BY DEF Heap, Word, Created
<1>4. /\ DOMAIN pm' = Line /\ pwb' = pwb \ {l} /\ pm'[pmd] \in Header
      /\ \A w \in Word : /\ MainClean(w) \/ (Main(w) \in pwb /\ Main(w) \notin pwb') => MainClean(w)'
                         /\ BackClean(w) \/ (Back(w) \in pwb /\ Back(w) \notin pwb') => BackClean(w)'
      /\ \/ l = pmd /\ pm'[pmd] = cache[pmd]
         \/ l # pmd /\ pm'[pmd] = pm[pmd]
  BY <1>1, WrittenBack DEF RegionTypeOK
<1>5. RegionTypeOK'
  BY <1>2, <1>4 DEF RegionTypeOK, RegionShape
<1>6. InvHeader'
  BY <1>2, <1>4 DEF InvHeader, state, RegionTypeOK, RegionShape, PC
<1>7. InvLog'
  <2>1. appendLog # {} /\ pc \in {"create", "createId", "idle", "begin"} => pm'[pmd].state # "COPYING"
    BY <1>2, <1>4 DEF InvLog, InvHeader, state
  <2>2. pc \in {"create", "createId"} \/ ~file => pm'[pmd].state # "COPYING"
    BY <1>2, <1>4 DEF InvLog, InvHeader, state
  <2>. QED BY <1>2, <1>3, <1>4, <2>1, <2>2 DEF InvLog, CommitsCopying, state
<1>8. InvMain'
  BY <1>2, <1>3, <1>4 DEF InvMain, state
<1>9. InvBack'
  BY <1>2, <1>3, <1>4 DEF InvBack, state
<1>10. InvSame'
  <2>1. pc' = pc /\ state' = state /\ todo' = todo /\ appendLog' = appendLog
    BY <1>2 DEF state
  <2>2. CASE Known' = Known
    BY <1>2, <1>3, <2>1, <2>2 DEF InvSame, Same
  <2>3. CASE Created \subseteq appendLog /\ Known' = Heap /\ pc \in {"sync", "apply", "backFence"}
    <3>1. Heap \subseteq Known \cup appendLog
      BY <2>3 DEF Known
    <3>2. \A w \in Heap : Same(w) <=> cache'[Main(w)] = cache'[Back(w)]
      BY <1>2 DEF Same
    <3>3. pc = "sync" => \A w \in Heap \ appendLog : Same(w)
      BY <2>3, <3>1 DEF InvSame
    <3>4. pc = "apply" => \A w \in (Heap \cup appendLog) \ todo : Same(w)
      BY <2>3, <3>1 DEF InvSame
    <3>5. pc = "backFence" => \A w \in Heap \cup appendLog : Same(w)
      BY <2>3, <3>1 DEF InvSame
    <3>. QED BY <1>2, <1>3, <2>1, <2>3, <3>3, <3>4, <3>5 DEF InvSame, Same
  <2>. QED BY <2>2, <2>3, EvictKnown
<1>. QED BY <1>5, <1>6, <1>7, <1>8, <1>9, <1>10

(* A power failure. *)
LEMMA CrashInv ==
  ASSUME RomInv, Crash
  PROVE  RomInv'
<1>. USE LineFacts, HeapFacts, KnownFacts DEF RomInv
<1>1. /\ cache' = pm /\ pm' = pm /\ pwb' = {} /\ pc' = "down" /\ appendLog' = {} /\ todo' = {} /\ cur' = 1
      /\ UNCHANGED <<file, settled>> /\ Known' = Known
  BY DEF Crash, PowerFailure, Known
<1>2. ~file => /\ state' = "IDLE"
               /\ \A w \in Word : pm[Main(w)] = pm[Back(w)]
  BY <1>1 DEF InvLog, InvHeader, InvMain, InvBack, MainClean, BackClean, state
<1>3. pm[pmd].state = "IDLE" => \A w \in Known : pm[Main(w)] = pm[Back(w)]
  <2>. SUFFICES ASSUME pm[pmd].state = "IDLE", NEW w \in Known
                PROVE  pm[Main(w)] = pm[Back(w)]
    OBVIOUS
  <2>1. pc \in {"down", "create", "createId", "recoverSync", "idle", "begin"}
    BY DEF InvHeader, RegionTypeOK, RegionShape, PC, state
  <2>2. pc = "down" => state = "IDLE"
    BY DEF InvHeader, state
  <2>3. Same(w)
    BY <2>1, <2>2 DEF InvSame
  <2>4. BackClean(w)
    BY <2>1 DEF InvBack
  <2>5. w \notin appendLog
    BY <2>1 DEF InvLog, Known
  <2>6. MainClean(w)
    BY <2>1, <2>5 DEF InvMain
  <2>. QED BY <2>3, <2>4, <2>6 DEF Same, MainClean, BackClean
<1>. QED BY <1>1, <1>2, <1>3 DEF RegionTypeOK, RegionShape, PC, InvHeader, InvLog, InvMain, InvBack, InvSame, MainClean,
         BackClean, Same, state
-----------------------------------------------------------------------------
LEMMA NextInv == RomInv /\ [Next]_regionVars => RomInv'
<1>. SUFFICES ASSUME RomInv, [Next]_regionVars PROVE RomInv'
  OBVIOUS
<1>1. CASE UNCHANGED regionVars
  BY <1>1 DEF RomInv, RegionTypeOK, RegionShape, InvHeader, InvLog, InvMain, InvBack, InvSame, MainClean, BackClean, Same,
     Known, state, regionVars
<1>. QED BY <1>1, CreateInv, RecoverInv, BodyInv, CommitInv, EvictInv, CrashInv DEF Next

(* The invariant of RomLogFC: which words of which half may be behind in   *)
(* the medium, and where the two halves agree, at every place of the code  *)
(* (beginTx, endTx, recover).                                              *)
THEOREM RomLogInvariant == Spec => []RomInv
BY InitInv, NextInv, PTL DEF Spec

(* What updateTx() or the constructor of RomLogFC has returned survives a  *)
(* power failure: whatever loads see, recovery would find.                 *)
THEOREM ReturnedIsDurable == Spec => []IdleIsDurable
<1>1. RomInv => IdleIsDurable
  BY DEF RomInv, IdleIsDurable, Recovered, InvHeader, InvLog, InvMain, MainClean
<1>. QED BY <1>1, RomLogInvariant, PTL

(* Before a transaction of RomLogFC touches main, back can undo it: the    *)
(* two halves of the medium agree on the heap.                             *)
THEOREM BackUndoes == Spec => []BackCanUndo
<1>1. RomInv => BackCanUndo
  BY HeapFacts DEF RomInv, BackCanUndo, InvLog, InvMain, InvBack, InvSame, MainClean, BackClean, Same, Known
<1>. QED BY <1>1, RomLogInvariant, PTL
-----------------------------------------------------------------------------
(* One write-back: what recovery would make of the heap stays as it was,   *)
(* or the transaction commits with all that it has stored.                 *)
LEMMA EvictStep ==
  ASSUME RomInv, Evict(CommitsCopying), settled
  PROVE  DurableHeap' = DurableHeap \/ (CommitPoint /\ DurableHeap' = VolatileHeap)
<1>. USE LineFacts, HeapFacts, KnownFacts DEF RomInv
<1>1. PICK l \in Line : WriteBack(l)
  BY DEF Evict
<1>2. /\ cache' = cache /\ pm'[l] = cache[l] /\ \A k \in Line : k # l => pm'[k] = pm[k]
      /\ \/ l = pmd /\ pm'[pmd] = cache[pmd]
         \/ l # pmd /\ pm'[pmd] = pm[pmd]
  BY <1>1, WrittenBack DEF RegionTypeOK
<1>3. Heap' = Heap /\ Known = Heap
  BY DEF Heap, Word, Known
<1>4. CASE l # pmd
  <2>1. \A w \in Heap : pm[pmd].state # "MUTATING" => pm'[Main(w)] = pm[Main(w)]
    BY <1>2, <1>4 DEF InvHeader, InvLog, InvMain, MainClean, state, RegionTypeOK, RegionShape, PC
  <2>2. \A w \in Heap : pm[pmd].state = "MUTATING" => pm'[Back(w)] = pm[Back(w)]
    BY <1>2, <1>4 DEF InvHeader, InvBack, BackClean, state, RegionTypeOK, RegionShape, PC
  <2>3. \A w \in Heap : Recovered(w)' = Recovered(w)
    BY <1>2, <1>3, <1>4, <2>1, <2>2 DEF Recovered
  <2>. QED BY <1>3, <2>3 DEF DurableHeap
<1>5. CASE l = pmd /\ pc # "sync"
  <2>1. \A w \in Word : pm'[Main(w)] = pm[Main(w)] /\ pm'[Back(w)] = pm[Back(w)]
    BY <1>2, <1>5
  <2>2. CASE pc \in {"recoverSync", "begin"}
    <3>1. \A w \in Heap : pm[Main(w)] = pm[Back(w)]
      BY <1>3, <2>2 DEF InvLog, InvMain, InvBack, InvSame, MainClean, BackClean, Same
    <3>2. \A w \in Heap : Recovered(w)' = Recovered(w)
      BY <1>3, <2>1, <3>1 DEF Recovered
    <3>. QED BY <1>3, <3>2 DEF DurableHeap
  <2>3. CASE pc \notin {"recoverSync", "begin"}
    <3>1. pm'[pmd].state = "MUTATING" <=> pm[pmd].state = "MUTATING"
      BY <1>2, <1>5, <2>3 DEF InvHeader, RegionTypeOK, RegionShape, PC, state
    <3>2. \A w \in Heap : Recovered(w)' = Recovered(w)
      BY <1>3, <2>1, <3>1 DEF Recovered
    <3>. QED BY <1>3, <3>2 DEF DurableHeap
  <2>. QED BY <2>2, <2>3
<1>6. CASE l = pmd /\ pc = "sync"
  <2>1. /\ \A w \in Word : pm'[Main(w)] = pm[Main(w)]
        /\ pm'[pmd].state = "COPYING" /\ pm[pmd].state \in {"MUTATING", "COPYING"}
    BY <1>2, <1>6 DEF InvHeader, state
  <2>2. CASE pm[pmd].state = "COPYING"
    <3>1. \A w \in Heap : Recovered(w)' = Recovered(w)
      BY <1>3, <2>1, <2>2 DEF Recovered
    <3>. QED BY <1>3, <3>1 DEF DurableHeap
  <2>3. CASE pm[pmd].state = "MUTATING"
    <3>1. \A w \in Heap : Recovered(w)' = cache[Main(w)]
      BY <1>2, <1>6, <2>1 DEF Recovered, InvMain, MainClean
    <3>. QED BY <1>3, <2>1, <2>3, <3>1 DEF DurableHeap, VolatileHeap, CommitPoint
  <2>. QED BY <2>1, <2>2, <2>3
<1>. QED BY <1>4, <1>5, <1>6

(* Transactions of RomLogFC are atomic on the heap: what a power failure   *)
(* would leave changes only when COPYING reaches the medium, and then to   *)
(* all that the transaction has stored.                                    *)
THEOREM HeapIsAtomic == Spec => [][HeapStep]_regionVars
<1>1. RomInv /\ [Next]_regionVars => [HeapStep]_regionVars
  <2>. SUFFICES ASSUME RomInv, Next PROVE HeapStep
    OBVIOUS
  <2>1. CASE Evict(CommitsCopying)
    BY <2>1, EvictStep DEF HeapStep
  <2>2. CASE Create \/ Recover
    <3>1. pm' = pm
      BY <2>2 DEF Create, OpenNew, CreatePstore, CreateId, CreateDone, Recover, OpenExisting, RecoverCopy,
         RecoverFlush, RecoverIdle, RecoverDone, Copy, Flush, Store, StorePWB, FencedGoto, Goto
    <3>. QED BY <3>1 DEF HeapStep, DurableHeap, Recovered
  <2>3. CASE Begin \/ Pstore \/ Nesting
    <3>1. pm' = pm
      BY <2>3 DEF Begin, BeginTx, BeginTxFence, Pstore, Nesting, BeginNestedTx, EndNestedTx, Store, StorePWB,
         FencedGoto, Goto
    <3>. QED BY <3>1 DEF HeapStep, DurableHeap, Recovered
  <2>4. CASE Commit \/ Crash
    <3>1. pm' = pm
      BY <2>4 DEF Commit, EndTx, EndTxCopying, EndTxSync, ApplyStores, FlushBack, EndTxIdle, Copy, Flush, Store,
         StorePWB, Crash, PowerFailure
    <3>. QED BY <3>1 DEF HeapStep, DurableHeap, Recovered
  <2>. QED BY <2>1, <2>2, <2>3, <2>4 DEF Next
<1>. QED BY <1>1, RomLogInvariant, PTL DEF Spec
-----------------------------------------------------------------------------
(***************************************************************************)
(* RomLog2FFC: what a transaction has committed survives on the heap, and  *)
(* nothing else does, unless the transaction is the first of a process     *)
(* whose inst has not reached the medium.                                  *)
(***************************************************************************)
LEMMA LineFacts2F ==
  /\ F!pmd \in F!Line
  /\ \A w \in F!Word : /\ F!Main(w) \in F!Line /\ F!Back(w) \in F!Line
                       /\ F!Main(w) # F!pmd /\ F!Back(w) # F!pmd
  /\ \A w, v \in F!Word : /\ F!Main(w) # F!Back(v)
                          /\ F!Main(w) = F!Main(v) => w = v
                          /\ F!Back(w) = F!Back(v) => w = v
  /\ \A l \in F!Line : l = F!pmd \/ \E w \in F!Word : l = F!Main(w) \/ l = F!Back(w)
BY DEF F!Line, F!pmd, F!Main, F!Back

LEMMA HeapFacts2F ==
  /\ Root \subseteq F!Word /\ F!Heap \subseteq F!Word /\ F!Created \subseteq F!Heap
  /\ F!Heap = F!Word \ Root /\ CreateStores \in Seq(F!Heap \X Val)
<1>1. CreateStores \in Seq(F!Heap \X Val) /\ Root \subseteq F!Word
  BY MainAndBackAssumption DEF Word, Heap, F!Word, F!Heap
<1>2. F!Created \subseteq F!Heap
  BY <1>1 DEF F!Created
<1>. QED BY <1>1, <1>2 DEF F!Heap

LEMMA HeaderStore2F ==
  ASSUME F!RegionShape, NEW h, cache' = [cache EXCEPT ![F!pmd] = h]
  PROVE  /\ DOMAIN cache' = F!Line /\ cache'[F!pmd] = h
         /\ \A w \in F!Word : cache'[F!Main(w)] = cache[F!Main(w)] /\ cache'[F!Back(w)] = cache[F!Back(w)]
BY LineFacts2F DEF F!RegionShape

LEMMA MainStore2F ==
  ASSUME F!RegionShape, NEW v \in F!Word, NEW x, cache' = [cache EXCEPT ![F!Main(v)] = x]
  PROVE  /\ DOMAIN cache' = F!Line /\ cache'[F!pmd] = cache[F!pmd] /\ cache'[F!Main(v)] = x
         /\ \A w \in F!Word : /\ w # v => cache'[F!Main(w)] = cache[F!Main(w)]
                              /\ cache'[F!Back(w)] = cache[F!Back(w)]
BY LineFacts2F DEF F!RegionShape

LEMMA BackStore2F ==
  ASSUME F!RegionShape, NEW v \in F!Word, NEW x, cache' = [cache EXCEPT ![F!Back(v)] = x]
  PROVE  /\ DOMAIN cache' = F!Line /\ cache'[F!pmd] = cache[F!pmd] /\ cache'[F!Back(v)] = x
         /\ \A w \in F!Word : /\ w # v => cache'[F!Back(w)] = cache[F!Back(w)]
                              /\ cache'[F!Main(w)] = cache[F!Main(w)]
BY LineFacts2F DEF F!RegionShape

LEMMA WrittenBack2F ==
  ASSUME F!RegionShape, NEW l \in F!Line, F!WriteBack(l)
  PROVE  /\ DOMAIN pm' = F!Line /\ pwb' = pwb \ {l} /\ cache' = cache
         /\ pm'[l] = cache[l]
         /\ \A k \in F!Line : k # l => pm'[k] = pm[k]
         /\ \A w \in F!Word : /\ F!MainClean(w) \/ (F!Main(w) \in pwb /\ F!Main(w) \notin pwb') => F!MainClean(w)'
                              /\ F!BackClean(w) \/ (F!Back(w) \in pwb /\ F!Back(w) \notin pwb') => F!BackClean(w)'
         /\ \/ l = F!pmd /\ pm'[F!pmd] = cache[F!pmd]
            \/ l # F!pmd /\ pm'[F!pmd] = pm[F!pmd]
<1>1. pm' = [pm EXCEPT ![l] = cache[l]] /\ pwb' = pwb \ {l} /\ cache' = cache /\ DOMAIN pm = F!Line
  BY DEF F!WriteBack, F!RegionShape
<1>2. DOMAIN pm' = F!Line /\ pm'[l] = cache[l] /\ \A k \in F!Line : k # l => pm'[k] = pm[k]
  BY <1>1
<1>3. \A w \in F!Word : /\ F!MainClean(w) \/ (F!Main(w) \in pwb /\ F!Main(w) \notin pwb') => F!MainClean(w)'
                        /\ F!BackClean(w) \/ (F!Back(w) \in pwb /\ F!Back(w) \notin pwb') => F!BackClean(w)'
  BY <1>1, <1>2, LineFacts2F DEF F!MainClean, F!BackClean
<1>. QED BY <1>1, <1>2, <1>3, LineFacts2F
-----------------------------------------------------------------------------
Header2F == [id : BOOLEAN, inst : {0, 1}]
PC2F == {"down", "create", "createId", "recover", "recoverSync", "idle", "tx", "fence", "sync", "apply"}

RegionTypeOK2F ==
  /\ F!RegionShape
  /\ cache[F!pmd] \in Header2F /\ pm[F!pmd] \in Header2F
  /\ pc \in PC2F

(* A word in the half that inst names, and in the other one, from which    *)
(* recovery would copy.                                                    *)
CurrentClean2F(w) == IF F!inst = 0 THEN F!MainClean(w) ELSE F!BackClean(w)
CurrentIssued2F(w) == IF F!inst = 0 THEN F!Main(w) \in pwb ELSE F!Back(w) \in pwb
OtherClean2F(w) == IF F!inst = 0 THEN F!BackClean(w) ELSE F!MainClean(w)

(* The words that creation has stored to, outside of any transaction, are  *)
(* not in order until a transaction has copied them.                       *)
Known2F == IF settled THEN F!Heap ELSE F!Heap \ F!Created

(* The medium has the cached inst, except from the restart of a process,   *)
(* which sets it to 0 without a PWB when both halves hold the same, to its *)
(* first commit; and while a transaction commits.                          *)
InvHeader2F ==
  /\ pc = "down" => pwb = {}
  /\ pc \notin {"idle", "tx", "fence", "sync"} => pm[F!pmd].inst = F!inst
  /\ pc \in {"create", "createId"} \/ ~file => F!inst = 0
  /\ pc = "idle" /\ pm[F!pmd].inst # F!inst => \A w \in F!Word : CurrentClean2F(w)
  /\ pc = "sync" => F!pmd \in pwb \/ pm[F!pmd].inst = F!inst

InvLog2F ==
  /\ pc \in {"down", "recover", "recoverSync"} => appendLog = {}
  /\ pc = "apply" => todo \subseteq appendLog
  /\ pc = "recover" => todo \subseteq F!Heap
  /\ pc \in {"create", "createId"} => ~settled
  /\ ~file => pc = "down" /\ ~settled

(* The half that a transaction stores to is behind in the medium only      *)
(* where the transaction has stored, or with the PWB that the last one has *)
(* issued; the other half never is.                                        *)
InvCurrent2F ==
  \A w \in F!Word :
    \/ CurrentClean2F(w)
    \/ pc \in {"create", "createId", "idle", "tx", "apply"} /\ w \in appendLog
    \/ pc \in {"idle", "tx", "fence", "recoverSync"} /\ CurrentIssued2F(w)
    \/ pc = "recover" /\ w \in F!Heap

InvOther2F == \A w \in F!Word : OtherClean2F(w)

(* Where the two halves hold the same. *)
InvSame2F ==
  /\ ~file => \A w \in F!Heap : F!Same(w)
  /\ pc \in {"create", "createId", "idle"} => \A w \in Known2F : F!Same(w)
  /\ pc = "recover" => \A w \in F!Heap \ todo : F!Same(w)
  /\ pc = "recoverSync" => \A w \in F!Heap : F!Same(w)
  /\ pc \in {"tx", "fence", "sync"} => \A w \in Known2F \ appendLog : F!Same(w)
  /\ pc = "apply" => \A w \in (Known2F \cup appendLog) \ todo : F!Same(w)

InstInv2F == RegionTypeOK2F /\ InvHeader2F /\ InvLog2F /\ InvCurrent2F /\ InvOther2F /\ InvSame2F
-----------------------------------------------------------------------------
LEMMA HeaderSet2F ==
  ASSUME RegionTypeOK2F, NEW i \in {0, 1}
  PROVE  F!SetInst(i) \in Header2F /\ F!SetInst(i).inst = i
BY DEF RegionTypeOK2F, F!SetInst, Header2F

LEMMA Halves2F == RegionTypeOK2F =>
  /\ pm[F!pmd].inst \in {0, 1} /\ 1 - F!inst \in {0, 1}
  /\ \/ /\ F!inst = 0 /\ \A w : /\ <<F!Half(F!inst), w>> = F!Main(w) /\ F!Current(w) = F!Main(w)
                                /\ <<F!Half(1 - F!inst), w>> = F!Back(w)
     \/ /\ F!inst = 1 /\ \A w : /\ <<F!Half(F!inst), w>> = F!Back(w) /\ F!Current(w) = F!Back(w)
                                /\ <<F!Half(1 - F!inst), w>> = F!Main(w)
BY DEF RegionTypeOK2F, Header2F, F!inst, F!Half, F!Main, F!Back, F!Current

(* A store to the half that inst names. *)
CurrentStored2F(v, x) ==
  \/ /\ F!inst = 0 /\ cache'[F!Main(v)] = x
     /\ \A w \in F!Word : /\ w # v => cache'[F!Main(w)] = cache[F!Main(w)]
                          /\ cache'[F!Back(w)] = cache[F!Back(w)]
  \/ /\ F!inst = 1 /\ cache'[F!Back(v)] = x
     /\ \A w \in F!Word : /\ w # v => cache'[F!Back(w)] = cache[F!Back(w)]
                          /\ cache'[F!Main(w)] = cache[F!Main(w)]

LEMMA CurrentStore2F ==
  ASSUME RegionTypeOK2F, NEW v \in F!Word, NEW x, cache' = [cache EXCEPT ![<<F!Half(F!inst), v>>] = x]
  PROVE  DOMAIN cache' = F!Line /\ cache'[F!pmd] = cache[F!pmd] /\ CurrentStored2F(v, x)
<1>1. CASE F!inst = 0
  <2>1. cache' = [cache EXCEPT ![F!Main(v)] = x]
    BY <1>1, Halves2F
  <2>. QED BY <1>1, <2>1, MainStore2F DEF CurrentStored2F, RegionTypeOK2F
<1>2. CASE F!inst = 1
  <2>1. cache' = [cache EXCEPT ![F!Back(v)] = x]
    BY <1>2, Halves2F
  <2>. QED BY <1>2, <2>1, BackStore2F DEF CurrentStored2F, RegionTypeOK2F
<1>. QED BY <1>1, <1>2, Halves2F

LEMMA KnownFacts2F == Known2F \subseteq F!Heap
BY DEF Known2F

LEMMA InitInv2F == F!Init => InstInv2F
<1>. SUFFICES ASSUME F!Init PROVE InstInv2F
  OBVIOUS
<1>. USE LineFacts2F DEF F!Init, F!InitRegion
<1>1. cache[F!pmd] = [id |-> FALSE, inst |-> 0] /\ pm = cache /\ DOMAIN cache = F!Line
  OBVIOUS
<1>2. RegionTypeOK2F
  BY <1>1 DEF RegionTypeOK2F, F!RegionShape, Header2F, PC2F
<1>3. \A w \in F!Word : F!Same(w) /\ F!MainClean(w) /\ F!BackClean(w)
  BY <1>1 DEF F!Same, F!MainClean, F!BackClean
<1>4. InvHeader2F /\ InvLog2F
  BY <1>1, <1>3 DEF InvHeader2F, InvLog2F, F!inst, CurrentClean2F
<1>5. InvCurrent2F /\ InvOther2F /\ InvSame2F
  BY <1>3, HeapFacts2F, KnownFacts2F DEF InvCurrent2F, InvOther2F, InvSame2F, CurrentClean2F, OtherClean2F
<1>. QED BY <1>2, <1>4, <1>5 DEF InstInv2F
-----------------------------------------------------------------------------
(* Creation, outside of any transaction. *)
LEMMA CreateInv2F ==
  ASSUME InstInv2F, F!Create
  PROVE  InstInv2F'
<1>. USE LineFacts2F, HeapFacts2F, KnownFacts2F DEF InstInv2F
<1>1. CASE F!OpenNew
  <2>1. /\ UNCHANGED <<cache, pm, pwb, appendLog, todo, cur, settled>>
        /\ pc = "down" /\ ~file /\ pc' = "create" /\ file'
    BY <1>1 DEF F!OpenNew
  <2>. QED BY <2>1 DEF RegionTypeOK2F, F!RegionShape, PC2F, InvHeader2F, InvLog2F, InvCurrent2F, InvOther2F,
           InvSame2F, CurrentClean2F, CurrentIssued2F, OtherClean2F, F!MainClean, F!BackClean, F!Same, Known2F, F!inst
<1>2. CASE F!CreatePstore
  <2>. DEFINE v == CreateStores[cur][1]
  <2>1. cur \in DOMAIN CreateStores /\ v \in F!Created /\ v \in F!Word
    <3>1. cur \in 1 .. Len(CreateStores)
      BY <1>2 DEF F!CreatePstore, RegionTypeOK2F, F!RegionShape
    <3>. QED BY <3>1 DEF F!Created
  <2>2. /\ cache' = [cache EXCEPT ![F!Main(v)] = CreateStores[cur][2]]
        /\ UNCHANGED <<pm, pwb, pc, file, todo, settled>> /\ pc = "create" /\ cur' = cur + 1
        /\ appendLog' = appendLog \cup {v}
    BY <1>2 DEF F!CreatePstore, F!Store
  <2>3. /\ DOMAIN cache' = F!Line /\ cache'[F!pmd] = cache[F!pmd]
        /\ \A w \in F!Word : /\ w # v => cache'[F!Main(w)] = cache[F!Main(w)]
                             /\ cache'[F!Back(w)] = cache[F!Back(w)]
    BY <2>1, <2>2, MainStore2F DEF RegionTypeOK2F
  <2>4. ~settled /\ v \notin Known2F /\ F!inst = 0 /\ file
    BY <2>1, <2>2 DEF InvLog2F, InvHeader2F, Known2F
  <2>. QED BY <2>1, <2>2, <2>3, <2>4 DEF RegionTypeOK2F, F!RegionShape, PC2F, InvHeader2F, InvLog2F, InvCurrent2F, InvOther2F,
           InvSame2F, CurrentClean2F, CurrentIssued2F, OtherClean2F, F!MainClean, F!BackClean, F!Same, Known2F, F!inst
<1>3. CASE F!CreateId
  <2>. DEFINE h == [cache[F!pmd] EXCEPT !.id = TRUE]
  <2>1. /\ cache' = [cache EXCEPT ![F!pmd] = h] /\ pwb' = pwb \cup {F!pmd}
        /\ pc = "create" /\ pc' = "createId" /\ UNCHANGED <<pm, appendLog, todo, cur, settled, file>>
    BY <1>3 DEF F!CreateId, F!StorePWB
  <2>2. h \in Header2F /\ h.inst = F!inst
    BY DEF RegionTypeOK2F, Header2F, F!inst
  <2>3. /\ DOMAIN cache' = F!Line /\ cache'[F!pmd] = h
        /\ \A w \in F!Word : cache'[F!Main(w)] = cache[F!Main(w)] /\ cache'[F!Back(w)] = cache[F!Back(w)]
    BY <2>1, <2>2, HeaderStore2F DEF RegionTypeOK2F
  <2>. QED BY <2>1, <2>2, <2>3 DEF RegionTypeOK2F, F!RegionShape, PC2F, InvHeader2F, InvLog2F, InvCurrent2F, InvOther2F,
           InvSame2F, CurrentClean2F, CurrentIssued2F, OtherClean2F, F!MainClean, F!BackClean, F!Same, Known2F, F!inst
<1>4. CASE F!CreateDone
  <2>1. UNCHANGED <<cache, pm, pwb, appendLog, todo, cur, settled, file>> /\ pc = "createId" /\ pc' = "idle"
    BY <1>4 DEF F!CreateDone, F!FencedGoto, F!Goto
  <2>. QED BY <2>1 DEF RegionTypeOK2F, F!RegionShape, PC2F, InvHeader2F, InvLog2F, InvCurrent2F, InvOther2F,
           InvSame2F, CurrentClean2F, CurrentIssued2F, OtherClean2F, F!MainClean, F!BackClean, F!Same, Known2F, F!inst
<1>. QED BY <1>1, <1>2, <1>3, <1>4 DEF F!Create
-----------------------------------------------------------------------------
(* The constructor, on a region that exists. *)
LEMMA RecoverInv2F ==
  ASSUME InstInv2F, F!Recover
  PROVE  InstInv2F'
<1>. USE LineFacts2F, HeapFacts2F, KnownFacts2F DEF InstInv2F
<1>1. CASE F!OpenExisting
  <2>1. /\ UNCHANGED <<cache, pm, pwb, appendLog, cur, settled, file>>
        /\ pc = "down" /\ pc' = "recover" /\ todo' = F!Heap /\ file
    BY <1>1 DEF F!OpenExisting
  <2>. QED BY <2>1 DEF RegionTypeOK2F, F!RegionShape, PC2F, InvHeader2F, InvLog2F, InvCurrent2F, InvOther2F,
           InvSame2F, CurrentClean2F, CurrentIssued2F, OtherClean2F, F!MainClean, F!BackClean, F!Same, Known2F, F!inst
<1>2. CASE F!RecoverCopy
  <2>1. PICK v \in todo : /\ cache' = [cache EXCEPT ![<<F!Half(F!inst), v>>] = cache[<<F!Half(1 - F!inst), v>>]]
                         /\ todo' = todo \ {v}
    BY <1>2 DEF F!RecoverCopy, F!Copy, F!Store
  <2>2. /\ pc = "recover" /\ pc' = "recover" /\ v \in F!Word
        /\ UNCHANGED <<pm, pwb, appendLog, cur, settled, file>>
    BY <1>2 DEF F!RecoverCopy, F!Copy, F!Store, RegionTypeOK2F, F!RegionShape
  <2>3. /\ DOMAIN cache' = F!Line /\ cache'[F!pmd] = cache[F!pmd]
        /\ CurrentStored2F(v, cache[<<F!Half(1 - F!inst), v>>])
    BY <2>1, <2>2, CurrentStore2F
  <2>4. F!Same(v)' /\ F!inst' = F!inst
    <3>1. F!inst' = F!inst
      BY <2>3 DEF F!inst
    <3>2. /\ F!inst = 0 => <<F!Half(1 - F!inst), v>> = F!Back(v)
          /\ F!inst = 1 => <<F!Half(1 - F!inst), v>> = F!Main(v)
      BY Halves2F
    <3>3. F!Same(v)'
      BY <2>2, <2>3, <3>2 DEF CurrentStored2F, F!Same
    <3>. QED BY <3>1, <3>3
  <2>5. \A w \in F!Word : /\ OtherClean2F(w) => OtherClean2F(w)'
                          /\ w # v => (CurrentClean2F(w) => CurrentClean2F(w)') /\ (F!Same(w) => F!Same(w)')
    BY <2>2, <2>3, <2>4 DEF CurrentStored2F, OtherClean2F, CurrentClean2F, F!MainClean, F!BackClean, F!Same
  <2>6. RegionTypeOK2F' /\ InvHeader2F' /\ InvLog2F'
    BY <2>1, <2>2, <2>3, <2>4 DEF RegionTypeOK2F, F!RegionShape, InvHeader2F, InvLog2F
  <2>7. InvCurrent2F' /\ InvOther2F'
    BY <2>1, <2>2, <2>5 DEF InvCurrent2F, InvOther2F, InvLog2F
  <2>8. InvSame2F'
    BY <2>1, <2>2, <2>4, <2>5 DEF InvSame2F, Known2F, InvLog2F, RegionTypeOK2F, F!RegionShape
  <2>. QED BY <2>6, <2>7, <2>8
<1>3. CASE F!RecoverFlush
  <2>1. /\ UNCHANGED <<cache, pm>> /\ pc = "recover" /\ pc' = "recoverSync" /\ todo = {}
        /\ UNCHANGED <<appendLog, todo, cur, settled, file>>
        /\ pwb' = pwb \cup {<<F!Half(F!inst), w>> : w \in F!Heap}
    BY <1>3 DEF F!RecoverFlush, F!Flush
  <2>2. pwb' \subseteq F!Line
    <3>1. \A w \in F!Word : <<F!Half(F!inst), w>> \in F!Line /\ F!Current(w) \in F!Line
      BY Halves2F
    <3>2. F!Heap \subseteq F!Word /\ appendLog \subseteq F!Word /\ pwb \subseteq F!Line
      BY DEF RegionTypeOK2F, F!RegionShape
    <3>. QED BY <2>1, <3>1, <3>2 DEF F!Current
  <2>. QED BY <2>1, <2>2, Halves2F DEF RegionTypeOK2F, F!RegionShape, PC2F, InvHeader2F, InvLog2F, InvCurrent2F, InvOther2F,
           InvSame2F, CurrentClean2F, CurrentIssued2F, OtherClean2F, F!MainClean, F!BackClean, F!Same, Known2F, F!inst
<1>4. CASE F!ResetInst
  <2>. DEFINE h == F!SetInst(0)
  <2>1. /\ cache' = [cache EXCEPT ![F!pmd] = h] /\ pwb = {} /\ pwb' = {}
        /\ pc = "recoverSync" /\ pc' = "idle"
        /\ UNCHANGED <<pm, appendLog, todo, cur, settled, file>>
    BY <1>4 DEF F!ResetInst, F!Store, F!Fenced
  <2>2. h \in Header2F /\ h.inst = 0
    BY HeaderSet2F, Halves2F
  <2>3. /\ DOMAIN cache' = F!Line /\ cache'[F!pmd] = h
        /\ \A w \in F!Word : cache'[F!Main(w)] = cache[F!Main(w)] /\ cache'[F!Back(w)] = cache[F!Back(w)]
    BY <2>1, <2>2, HeaderStore2F DEF RegionTypeOK2F
  <2>. QED BY <2>1, <2>2, <2>3, Halves2F DEF RegionTypeOK2F, F!RegionShape, PC2F, InvHeader2F, InvLog2F, InvCurrent2F, InvOther2F,
           InvSame2F, CurrentClean2F, CurrentIssued2F, OtherClean2F, F!MainClean, F!BackClean, F!Same, Known2F, F!inst
<1>. QED BY <1>1, <1>2, <1>3, <1>4 DEF F!Recover
-----------------------------------------------------------------------------
(* beginTx(), pstore() and nested transactions. *)
LEMMA BodyInv2F ==
  ASSUME InstInv2F, F!BeginTx \/ F!Pstore \/ F!Nesting
  PROVE  InstInv2F'
<1>. USE LineFacts2F, HeapFacts2F, KnownFacts2F DEF InstInv2F
<1>1. CASE F!BeginTx
  <2>1. UNCHANGED <<cache, pm, pwb, appendLog, todo, cur, settled, file>> /\ pc = "idle" /\ pc' = "tx"
    BY <1>1 DEF F!BeginTx
  <2>. QED BY <2>1 DEF RegionTypeOK2F, F!RegionShape, PC2F, InvHeader2F, InvLog2F, InvCurrent2F, InvOther2F,
           InvSame2F, CurrentClean2F, CurrentIssued2F, OtherClean2F, F!MainClean, F!BackClean, F!Same, Known2F, F!inst
<1>2. CASE F!Pstore
  <2>1. PICK v \in F!Word, x \in Val :
          appendLog' = appendLog \cup {v} /\ cache' = [cache EXCEPT ![<<F!Half(F!inst), v>>] = x]
    BY <1>2 DEF F!Pstore, F!Store, F!Current
  <2>2. pc = "tx" /\ pc' = "tx" /\ UNCHANGED <<pm, pwb, todo, cur, settled, file>>
    BY <1>2 DEF F!Pstore, F!Store
  <2>3. DOMAIN cache' = F!Line /\ cache'[F!pmd] = cache[F!pmd] /\ CurrentStored2F(v, x)
    BY <2>1, CurrentStore2F
  <2>. QED BY <2>1, <2>2, <2>3 DEF CurrentStored2F, RegionTypeOK2F, F!RegionShape, PC2F, InvHeader2F, InvLog2F, InvCurrent2F, InvOther2F,
           InvSame2F, CurrentClean2F, CurrentIssued2F, OtherClean2F, F!MainClean, F!BackClean, F!Same, Known2F, F!inst
<1>3. CASE F!Nesting
  <2>1. UNCHANGED <<cache, pm, pwb, pc, appendLog, todo, cur, settled, file>>
    BY <1>3 DEF F!Nesting, F!BeginNestedTx, F!EndNestedTx
  <2>. QED BY <2>1 DEF RegionTypeOK2F, F!RegionShape, PC2F, InvHeader2F, InvLog2F, InvCurrent2F, InvOther2F,
           InvSame2F, CurrentClean2F, CurrentIssued2F, OtherClean2F, F!MainClean, F!BackClean, F!Same, Known2F, F!inst
<1>. QED BY <1>1, <1>2, <1>3
-----------------------------------------------------------------------------
(* endTx(). *)
LEMMA CommitInv2F ==
  ASSUME InstInv2F, F!Commit
  PROVE  InstInv2F'
<1>. USE LineFacts2F, HeapFacts2F, KnownFacts2F DEF InstInv2F
<1>1. CASE F!EndTx
  <2>1. /\ UNCHANGED <<cache, pm>> /\ pc = "tx" /\ pc' = "fence"
        /\ UNCHANGED <<appendLog, todo, cur, settled, file>>
        /\ pwb' = pwb \cup {F!Current(w) : w \in appendLog}
    BY <1>1 DEF F!EndTx, F!Flush
  <2>2. pwb' \subseteq F!Line
    <3>1. \A w \in F!Word : <<F!Half(F!inst), w>> \in F!Line /\ F!Current(w) \in F!Line
      BY Halves2F
    <3>2. F!Heap \subseteq F!Word /\ appendLog \subseteq F!Word /\ pwb \subseteq F!Line
      BY DEF RegionTypeOK2F, F!RegionShape
    <3>. QED BY <2>1, <3>1, <3>2 DEF F!Current
  <2>. QED BY <2>1, <2>2, Halves2F DEF RegionTypeOK2F, F!RegionShape, PC2F, InvHeader2F, InvLog2F, InvCurrent2F, InvOther2F,
           InvSame2F, CurrentClean2F, CurrentIssued2F, OtherClean2F, F!MainClean, F!BackClean, F!Same, Known2F, F!inst
<1>2. CASE F!EndTxInst
  <2>. DEFINE h == F!SetInst(1 - F!inst)
  <2>1. /\ cache' = [cache EXCEPT ![F!pmd] = h] /\ pwb = {} /\ pwb' = {F!pmd}
        /\ pc = "fence" /\ pc' = "sync"
        /\ UNCHANGED <<pm, appendLog, todo, cur, settled, file>>
    BY <1>2 DEF F!EndTxInst, F!StorePWB, F!Fenced
  <2>2. h \in Header2F /\ h.inst = 1 - F!inst
    BY HeaderSet2F, Halves2F
  <2>3. /\ DOMAIN cache' = F!Line /\ cache'[F!pmd] = h
        /\ \A w \in F!Word : cache'[F!Main(w)] = cache[F!Main(w)] /\ cache'[F!Back(w)] = cache[F!Back(w)]
    BY <2>1, <2>2, HeaderStore2F DEF RegionTypeOK2F
  <2>. QED BY <2>1, <2>2, <2>3, Halves2F DEF RegionTypeOK2F, F!RegionShape, PC2F, InvHeader2F, InvLog2F, InvCurrent2F, InvOther2F,
           InvSame2F, CurrentClean2F, CurrentIssued2F, OtherClean2F, F!MainClean, F!BackClean, F!Same, Known2F, F!inst
<1>3. CASE F!EndTxSync
  <2>1. /\ UNCHANGED <<cache, pm, pwb, appendLog, cur, settled, file>> /\ pwb = {}
        /\ pc = "sync" /\ pc' = "apply" /\ todo' = appendLog
    BY <1>3 DEF F!EndTxSync, F!Fenced
  <2>. QED BY <2>1 DEF RegionTypeOK2F, F!RegionShape, PC2F, InvHeader2F, InvLog2F, InvCurrent2F, InvOther2F,
           InvSame2F, CurrentClean2F, CurrentIssued2F, OtherClean2F, F!MainClean, F!BackClean, F!Same, Known2F, F!inst
<1>4. CASE F!ApplyStores
  <2>1. PICK v \in todo : /\ cache' = [cache EXCEPT ![<<F!Half(F!inst), v>>] = cache[<<F!Half(1 - F!inst), v>>]]
                         /\ todo' = todo \ {v}
    BY <1>4 DEF F!ApplyStores, F!Copy, F!Store
  <2>2. /\ pc = "apply" /\ pc' = "apply" /\ v \in F!Word
        /\ UNCHANGED <<pm, pwb, appendLog, cur, settled, file>>
    BY <1>4 DEF F!ApplyStores, F!Copy, F!Store, RegionTypeOK2F, F!RegionShape
  <2>3. /\ DOMAIN cache' = F!Line /\ cache'[F!pmd] = cache[F!pmd]
        /\ CurrentStored2F(v, cache[<<F!Half(1 - F!inst), v>>])
    BY <2>1, <2>2, CurrentStore2F
  <2>4. F!Same(v)' /\ F!inst' = F!inst
    <3>1. F!inst' = F!inst
      BY <2>3 DEF F!inst
    <3>2. /\ F!inst = 0 => <<F!Half(1 - F!inst), v>> = F!Back(v)
          /\ F!inst = 1 => <<F!Half(1 - F!inst), v>> = F!Main(v)
      BY Halves2F
    <3>3. F!Same(v)'
      BY <2>2, <2>3, <3>2 DEF CurrentStored2F, F!Same
    <3>. QED BY <3>1, <3>3
  <2>5. \A w \in F!Word : /\ OtherClean2F(w) => OtherClean2F(w)'
                          /\ w # v => (CurrentClean2F(w) => CurrentClean2F(w)') /\ (F!Same(w) => F!Same(w)')
    BY <2>2, <2>3, <2>4 DEF CurrentStored2F, OtherClean2F, CurrentClean2F, F!MainClean, F!BackClean, F!Same
  <2>6. RegionTypeOK2F' /\ InvHeader2F' /\ InvLog2F'
    BY <2>1, <2>2, <2>3, <2>4 DEF RegionTypeOK2F, F!RegionShape, InvHeader2F, InvLog2F
  <2>7. InvCurrent2F' /\ InvOther2F'
    BY <2>1, <2>2, <2>5 DEF InvCurrent2F, InvOther2F, InvLog2F
  <2>8. InvSame2F'
    BY <2>1, <2>2, <2>4, <2>5 DEF InvSame2F, Known2F, InvLog2F, RegionTypeOK2F, F!RegionShape
  <2>. QED BY <2>6, <2>7, <2>8
<1>5. CASE F!EndTxDone
  <2>1. /\ UNCHANGED <<cache, pm>> /\ pc = "apply" /\ pc' = "idle" /\ todo = {} /\ appendLog' = {}
        /\ UNCHANGED <<todo, cur, settled, file>>
        /\ pwb' = pwb \cup {F!Current(w) : w \in appendLog}
    BY <1>5 DEF F!EndTxDone, F!Flush
  <2>2. pwb' \subseteq F!Line
    <3>1. \A w \in F!Word : <<F!Half(F!inst), w>> \in F!Line /\ F!Current(w) \in F!Line
      BY Halves2F
    <3>2. F!Heap \subseteq F!Word /\ appendLog \subseteq F!Word /\ pwb \subseteq F!Line
      BY DEF RegionTypeOK2F, F!RegionShape
    <3>. QED BY <2>1, <3>1, <3>2 DEF F!Current
  <2>. QED BY <2>1, <2>2, Halves2F DEF RegionTypeOK2F, F!RegionShape, PC2F, InvHeader2F, InvLog2F, InvCurrent2F, InvOther2F,
           InvSame2F, CurrentClean2F, CurrentIssued2F, OtherClean2F, F!MainClean, F!BackClean, F!Same, Known2F, F!inst
<1>. QED BY <1>1, <1>2, <1>3, <1>4, <1>5 DEF F!Commit
-----------------------------------------------------------------------------
(* The processor writes a line back. *)
LEMMA EvictInv2F ==
  ASSUME InstInv2F, F!Evict(F!CommitsInst)
  PROVE  InstInv2F'
<1>. USE LineFacts2F, HeapFacts2F, KnownFacts2F DEF InstInv2F
<1>1. PICK l \in F!Line : F!WriteBack(l)
  BY DEF F!Evict
<1>2. /\ UNCHANGED <<file, pc, appendLog, todo, cur, cache>> /\ F!inst' = F!inst
      /\ settled' = (settled \/ (F!CommitsInst /\ F!Created \subseteq appendLog))
  BY <1>1 DEF F!Evict, F!WriteBack, F!inst
<1>3. /\ DOMAIN pm' = F!Line /\ pwb' = pwb \ {l}
      /\ \A w \in F!Word : /\ F!MainClean(w) \/ (F!Main(w) \in pwb /\ F!Main(w) \notin pwb') => F!MainClean(w)'
                           /\ F!BackClean(w) \/ (F!Back(w) \in pwb /\ F!Back(w) \notin pwb') => F!BackClean(w)'
      /\ \/ l = F!pmd /\ pm'[F!pmd] = cache[F!pmd]
         \/ l # F!pmd /\ pm'[F!pmd] = pm[F!pmd]
  BY <1>1, WrittenBack2F DEF RegionTypeOK2F
<1>4. F!Heap' = F!Heap /\ F!Word' = F!Word /\ F!Created' = F!Created
  BY DEF F!Heap, F!Word, F!Created
<1>5. \/ Known2F' = Known2F /\ (settled' <=> settled)
      \/ pc = "sync" /\ F!Created \subseteq appendLog /\ settled' /\ Known2F' = F!Heap
  BY <1>2, <1>4 DEF Known2F, F!CommitsInst
<1>6. RegionTypeOK2F'
  BY <1>2, <1>3 DEF RegionTypeOK2F, F!RegionShape
<1>7. \A w \in F!Word : /\ CurrentClean2F(w) \/ (CurrentIssued2F(w) /\ ~CurrentIssued2F(w)') => CurrentClean2F(w)'
                        /\ OtherClean2F(w) => OtherClean2F(w)'
  BY <1>2, <1>3 DEF CurrentClean2F, CurrentIssued2F, OtherClean2F
<1>8. InvHeader2F'
  BY <1>2, <1>3, <1>4, <1>7 DEF InvHeader2F, F!inst
<1>9. InvLog2F'
  BY <1>2, <1>4, <1>5 DEF InvLog2F
<1>10. InvCurrent2F' /\ InvOther2F'
  BY <1>2, <1>4, <1>7 DEF InvCurrent2F, InvOther2F
<1>11. InvSame2F'
  <2>2. CASE Known2F' = Known2F
    BY <1>2, <1>4, <2>2 DEF InvSame2F, F!Same
  <2>3. CASE pc = "sync" /\ F!Created \subseteq appendLog /\ Known2F' = F!Heap
    <3>1. \A w \in F!Heap \ appendLog : F!Same(w)
      BY <2>3 DEF Known2F, InvSame2F
    <3>2. file
      BY <2>3 DEF InvLog2F
    <3>. QED BY <1>2, <1>4, <2>3, <3>1, <3>2 DEF InvSame2F, F!Same
  <2>. QED BY <1>5, <2>2, <2>3
<1>. QED BY <1>6, <1>8, <1>9, <1>10, <1>11

(* A power failure. *)
LEMMA CrashInv2F ==
  ASSUME InstInv2F, F!Crash
  PROVE  InstInv2F'
<1>. USE LineFacts2F, HeapFacts2F, KnownFacts2F DEF InstInv2F
<1>1. /\ cache' = pm /\ pm' = pm /\ pwb' = {} /\ pc' = "down" /\ appendLog' = {} /\ todo' = {} /\ cur' = 1
      /\ UNCHANGED <<file, settled>>
  BY DEF F!Crash, F!PowerFailure
<1>2. ~file => F!inst' = 0 /\ \A w \in F!Heap : pm[F!Main(w)] = pm[F!Back(w)]
  BY <1>1 DEF InvLog2F, InvHeader2F, InvSame2F, InvCurrent2F, InvOther2F, CurrentClean2F, OtherClean2F, F!Same, F!MainClean,
     F!BackClean, F!inst
<1>. QED BY <1>1, <1>2 DEF RegionTypeOK2F, F!RegionShape, PC2F, InvHeader2F, InvLog2F, InvCurrent2F, InvOther2F,
           InvSame2F, CurrentClean2F, CurrentIssued2F, OtherClean2F, F!MainClean, F!BackClean, F!Same, Known2F, F!inst
-----------------------------------------------------------------------------
LEMMA NextInv2F == InstInv2F /\ [F!Next]_(F!regionVars) => InstInv2F'
<1>. SUFFICES ASSUME InstInv2F, [F!Next]_(F!regionVars) PROVE InstInv2F'
  OBVIOUS
<1>1. CASE UNCHANGED F!regionVars
  BY <1>1 DEF InstInv2F, F!regionVars, RegionTypeOK2F, F!RegionShape, PC2F, InvHeader2F, InvLog2F, InvCurrent2F, InvOther2F,
           InvSame2F, CurrentClean2F, CurrentIssued2F, OtherClean2F, F!MainClean, F!BackClean, F!Same, Known2F, F!inst
<1>. QED BY <1>1, CreateInv2F, RecoverInv2F, BodyInv2F, CommitInv2F, EvictInv2F, CrashInv2F DEF F!Next

(* The invariant of RomLog2FFC: which words of which half may be behind in *)
(* the medium, and where the two halves agree, at every place of the code  *)
(* (beginTx, endTx, recover).                                              *)
THEOREM RomLog2FInvariant == F!Spec => []InstInv2F
BY InitInv2F, NextInv2F, PTL DEF F!Spec

(* What updateTx() or the constructor of RomLog2FFC has returned survives  *)
(* a power failure: what loads see of the heap is what the next process    *)
(* would load.                                                             *)
THEOREM ReturnedIsDurable2F == F!Spec => []F!IdleIsDurable
<1>1. ASSUME InstInv2F, pc = "idle", settled, NEW w \in F!Heap
      PROVE  F!Recovered(w) = cache[F!Current(w)]
  <2>1. F!Same(w) /\ OtherClean2F(w) /\ w \in F!Word /\ w \notin Root
    BY <1>1, HeapFacts2F DEF InstInv2F, InvSame2F, InvOther2F, Known2F
  <2>2. pm[F!pmd].inst = F!inst \/ CurrentClean2F(w)
    BY <1>1, <2>1 DEF InstInv2F, InvHeader2F
  <2>3. RegionTypeOK2F
    BY <1>1 DEF InstInv2F
  <2>. QED BY <2>1, <2>2, <2>3, Halves2F DEF F!Recovered, F!Same, OtherClean2F, CurrentClean2F, F!MainClean, F!BackClean
<1>2. InstInv2F => F!IdleIsDurable
  BY <1>1 DEF F!IdleIsDurable
<1>. QED BY <1>2, RomLog2FInvariant, PTL
-----------------------------------------------------------------------------
(* One write-back: what the next process would load stays as it was, or    *)
(* inst reaches the medium and names what the transaction has stored.      *)
LEMMA EvictStep2F ==
  ASSUME InstInv2F, F!Evict(F!CommitsInst), settled, ~F!Exposed
  PROVE  \/ F!DurableHeap' = F!DurableHeap
         \/ /\ pc = "sync" /\ pm'[F!pmd] = cache[F!pmd]
            /\ \A w \in F!Heap : F!DurableHeap'[w] = cache[<<F!Half(1 - F!inst), w>>]
<1>. USE LineFacts2F, HeapFacts2F DEF InstInv2F
<1>1. PICK l \in F!Line : F!WriteBack(l)
  BY DEF F!Evict
<1>2. /\ cache' = cache /\ pm'[l] = cache[l] /\ \A k \in F!Line : k # l => pm'[k] = pm[k]
      /\ \/ l = F!pmd /\ pm'[F!pmd] = cache[F!pmd]
         \/ l # F!pmd /\ pm'[F!pmd] = pm[F!pmd]
      /\ \A w \in F!Word : (F!MainClean(w) => F!MainClean(w)') /\ (F!BackClean(w) => F!BackClean(w)')
  BY <1>1, WrittenBack2F DEF RegionTypeOK2F
<1>3. F!Heap' = F!Heap /\ Root' = Root
  BY DEF F!Heap, F!Word
<1>4. \A w \in F!Word : /\ F!MainClean(w) => pm'[F!Main(w)] = pm[F!Main(w)]
                        /\ F!BackClean(w) => pm'[F!Back(w)] = pm[F!Back(w)]
  BY <1>2 DEF F!MainClean, F!BackClean
<1>5. CASE l # F!pmd
  <2>1. \A w \in F!Heap : pm[F!pmd].inst = F!inst \/ CurrentClean2F(w)
    BY DEF InvHeader2F, InvCurrent2F, F!Exposed
  <2>2. \A w \in F!Heap : F!Recovered(w)' = F!Recovered(w)
    BY <1>2, <1>3, <1>4, <1>5, <2>1, Halves2F DEF F!Recovered, InvOther2F, CurrentClean2F, OtherClean2F
  <2>. QED BY <1>3, <2>2 DEF F!DurableHeap
<1>6. CASE l = F!pmd /\ pc # "sync"
  <2>1. \A w \in F!Word : pm'[F!Main(w)] = pm[F!Main(w)] /\ pm'[F!Back(w)] = pm[F!Back(w)]
    BY <1>2, <1>6
  <2>2. CASE pm[F!pmd].inst = F!inst
    <3>1. \A w \in F!Heap : F!Recovered(w)' = F!Recovered(w)
      BY <1>2, <1>3, <1>6, <2>1, <2>2 DEF F!Recovered, F!inst
    <3>. QED BY <1>3, <3>1 DEF F!DurableHeap
  <2>3. CASE pm[F!pmd].inst # F!inst
    <3>1. pc = "idle"
      BY <1>6, <2>3 DEF InvHeader2F, F!Exposed
    <3>2. \A w \in F!Heap : pm[F!Main(w)] = pm[F!Back(w)]
      BY <2>3, <3>1 DEF InvHeader2F, InvOther2F, InvSame2F, Known2F, CurrentClean2F, OtherClean2F, F!MainClean, F!BackClean, F!Same
    <3>3. \A w \in F!Heap : F!Recovered(w)' = F!Recovered(w)
      BY <1>3, <2>1, <3>2 DEF F!Recovered
    <3>. QED BY <1>3, <3>3 DEF F!DurableHeap
  <2>. QED BY <2>2, <2>3
<1>7. CASE l = F!pmd /\ pc = "sync"
  <2>1. \A w \in F!Heap : F!Recovered(w)' = cache[<<F!Half(1 - F!inst), w>>]
    <3>1. pm'[F!pmd].inst = F!inst /\ \A w \in F!Heap : pm'[F!Main(w)] = pm[F!Main(w)] /\ pm'[F!Back(w)] = pm[F!Back(w)]
      BY <1>2, <1>7 DEF F!inst
    <3>2. CASE F!inst = 0
      <4>1. \A w \in F!Heap : F!Recovered(w)' = cache[F!Back(w)]
        BY <1>3, <3>1, <3>2 DEF F!Recovered, InvOther2F, OtherClean2F, F!BackClean
      <4>2. \A w \in F!Heap : <<F!Half(1 - F!inst), w>> = F!Back(w)
        BY <3>2, Halves2F
      <4>. QED BY <4>1, <4>2
    <3>3. CASE F!inst = 1
      <4>1. \A w \in F!Heap : F!Recovered(w)' = cache[F!Main(w)]
        BY <1>3, <3>1, <3>3 DEF F!Recovered, InvOther2F, OtherClean2F, F!MainClean
      <4>2. \A w \in F!Heap : <<F!Half(1 - F!inst), w>> = F!Main(w)
        BY <3>3, Halves2F
      <4>. QED BY <4>1, <4>2
    <3>. QED BY <3>2, <3>3, Halves2F
  <2>2. \A w \in F!Heap : F!DurableHeap'[w] = cache[<<F!Half(1 - F!inst), w>>]
    BY <1>3, <2>1 DEF F!DurableHeap
  <2>. QED BY <1>2, <1>7, <2>2
<1>. QED BY <1>5, <1>6, <1>7

(* Transactions of RomLog2FFC are atomic on the heap, unless exposed: what *)
(* a power failure would leave changes only when inst reaches the medium.  *)
THEOREM HeapIsAtomic2F == F!Spec => [][F!HeapStep]_(F!regionVars)
<1>1. InstInv2F /\ [F!Next]_(F!regionVars) => [F!HeapStep]_(F!regionVars)
  <2>. SUFFICES ASSUME InstInv2F, F!Next PROVE F!HeapStep
    OBVIOUS
  <2>1. CASE F!Evict(F!CommitsInst)
    BY <2>1, EvictStep2F DEF F!HeapStep
  <2>2. CASE F!Create \/ F!Recover
    <3>1. pm' = pm
      BY <2>2 DEF F!Create, F!OpenNew, F!CreatePstore, F!CreateId, F!CreateDone, F!Recover, F!OpenExisting, F!RecoverCopy,
         F!RecoverFlush, F!ResetInst, F!Copy, F!Flush, F!Store, F!StorePWB, F!FencedGoto, F!Goto
    <3>. QED BY <3>1 DEF F!HeapStep, F!DurableHeap, F!Recovered
  <2>3. CASE F!BeginTx \/ F!Pstore \/ F!Nesting
    <3>1. pm' = pm
      BY <2>3 DEF F!BeginTx, F!Pstore, F!Nesting, F!BeginNestedTx, F!EndNestedTx, F!Store
    <3>. QED BY <3>1 DEF F!HeapStep, F!DurableHeap, F!Recovered
  <2>4. CASE F!Commit \/ F!Crash
    <3>1. pm' = pm
      BY <2>4 DEF F!Commit, F!EndTx, F!EndTxInst, F!EndTxSync, F!ApplyStores, F!EndTxDone, F!Copy, F!Flush, F!Store, F!StorePWB,
         F!Crash, F!PowerFailure
    <3>. QED BY <3>1 DEF F!HeapStep, F!DurableHeap, F!Recovered
  <2>. QED BY <2>1, <2>2, <2>3, <2>4 DEF F!Next
<1>. QED BY <1>1, RomLog2FInvariant, PTL DEF F!Spec
-----------------------------------------------------------------------------
(***************************************************************************)
(* RomulusLog: as long as no transaction outgrows its log, what a          *)
(* transaction has committed survives, and nothing else does, whatever     *)
(* becomes of the creation of the region.                                  *)
(***************************************************************************)
LEMMA LineFactsL ==
  /\ L!pmd \in L!Line
  /\ \A w \in L!Word : /\ L!Main(w) \in L!Line /\ L!Back(w) \in L!Line
                       /\ L!Main(w) # L!pmd /\ L!Back(w) # L!pmd
  /\ \A w, v \in L!Word : /\ L!Main(w) # L!Back(v)
                          /\ L!Main(w) = L!Main(v) => w = v
                          /\ L!Back(w) = L!Back(v) => w = v
  /\ \A l \in L!Line : l = L!pmd \/ \E w \in L!Word : l = L!Main(w) \/ l = L!Back(w)
BY DEF L!Line, L!pmd, L!Main, L!Back

LEMMA HeapFactsL ==
  /\ Root \subseteq L!Word /\ L!Heap \subseteq L!Word /\ L!Created \subseteq L!Heap
  /\ L!Heap = L!Word \ Root /\ CreateStores \in Seq(L!Heap \X Val)
<1>1. CreateStores \in Seq(L!Heap \X Val) /\ Root \subseteq L!Word
  BY MainAndBackAssumption DEF Word, Heap, L!Word, L!Heap
<1>2. L!Created \subseteq L!Heap
  BY <1>1 DEF L!Created
<1>. QED BY <1>1, <1>2 DEF L!Heap

LEMMA HeaderStoreL ==
  ASSUME L!RegionShape, NEW h, cache' = [cache EXCEPT ![L!pmd] = h]
  PROVE  /\ DOMAIN cache' = L!Line /\ cache'[L!pmd] = h
         /\ \A w \in L!Word : cache'[L!Main(w)] = cache[L!Main(w)] /\ cache'[L!Back(w)] = cache[L!Back(w)]
BY LineFactsL DEF L!RegionShape

LEMMA MainStoreL ==
  ASSUME L!RegionShape, NEW v \in L!Word, NEW x, cache' = [cache EXCEPT ![L!Main(v)] = x]
  PROVE  /\ DOMAIN cache' = L!Line /\ cache'[L!pmd] = cache[L!pmd] /\ cache'[L!Main(v)] = x
         /\ \A w \in L!Word : /\ w # v => cache'[L!Main(w)] = cache[L!Main(w)]
                              /\ cache'[L!Back(w)] = cache[L!Back(w)]
BY LineFactsL DEF L!RegionShape

LEMMA BackStoreL ==
  ASSUME L!RegionShape, NEW v \in L!Word, NEW x, cache' = [cache EXCEPT ![L!Back(v)] = x]
  PROVE  /\ DOMAIN cache' = L!Line /\ cache'[L!pmd] = cache[L!pmd] /\ cache'[L!Back(v)] = x
         /\ \A w \in L!Word : /\ w # v => cache'[L!Back(w)] = cache[L!Back(w)]
                              /\ cache'[L!Main(w)] = cache[L!Main(w)]
BY LineFactsL DEF L!RegionShape

LEMMA WrittenBackL ==
  ASSUME L!RegionShape, NEW l \in L!Line, L!WriteBack(l)
  PROVE  /\ DOMAIN pm' = L!Line /\ pwb' = pwb \ {l} /\ cache' = cache
         /\ pm'[l] = cache[l]
         /\ \A k \in L!Line : k # l => pm'[k] = pm[k]
         /\ \A w \in L!Word : /\ L!MainClean(w) \/ (L!Main(w) \in pwb /\ L!Main(w) \notin pwb') => L!MainClean(w)'
                              /\ L!BackClean(w) \/ (L!Back(w) \in pwb /\ L!Back(w) \notin pwb') => L!BackClean(w)'
         /\ \/ l = L!pmd /\ pm'[L!pmd] = cache[L!pmd]
            \/ l # L!pmd /\ pm'[L!pmd] = pm[L!pmd]
<1>1. pm' = [pm EXCEPT ![l] = cache[l]] /\ pwb' = pwb \ {l} /\ cache' = cache /\ DOMAIN pm = L!Line
  BY DEF L!WriteBack, L!RegionShape
<1>2. DOMAIN pm' = L!Line /\ pm'[l] = cache[l] /\ \A k \in L!Line : k # l => pm'[k] = pm[k]
  BY <1>1
<1>3. \A w \in L!Word : /\ L!MainClean(w) \/ (L!Main(w) \in pwb /\ L!Main(w) \notin pwb') => L!MainClean(w)'
                        /\ L!BackClean(w) \/ (L!Back(w) \in pwb /\ L!Back(w) \notin pwb') => L!BackClean(w)'
  BY <1>1, <1>2, LineFactsL DEF L!MainClean, L!BackClean
<1>. QED BY <1>1, <1>2, <1>3, LineFactsL
-----------------------------------------------------------------------------
StateL == {"IDLE", "MUTATING", "COPYING"}
HeaderL == [id : BOOLEAN, state : StateL]
PCL == {"down", "create", "recover", "recoverFence", "idle", "begin", "tx", "fence", "sync",
        "apply", "backFence", "createFlush", "createFence", "createId"}

RegionTypeOKL ==
  /\ L!RegionShape
  /\ cache[L!pmd] \in HeaderL /\ pm[L!pmd] \in HeaderL
  /\ pc \in PCL

DurableL == pm[L!pmd] = cache[L!pmd]   \* the header is

(* The header in the cache and in the medium, place by place in the code.  *)
(* IDLE is stored without PWB, so at "idle" the medium has any state.      *)
InvHeaderL ==
  /\ pc \in {"down", "recover", "recoverFence", "tx", "fence", "apply", "backFence"} => DurableL
  /\ pc \in {"begin", "sync", "createFence", "createId"} => L!pmd \in pwb \/ DurableL
  /\ pc = "down" => pwb = {}
  /\ pc # "createId" => pm[L!pmd].id = cache[L!pmd].id
  /\ pc \in {"create", "createFlush", "createFence"} => L!Creating
  /\ pc \in {"recover", "recoverFence", "idle", "createId"} => ~L!Creating
  /\ pc \in {"create", "idle", "createFlush", "createFence", "createId"} => L!state = "IDLE"
  /\ pc \in {"begin", "tx", "fence"} => L!state = "MUTATING"
  /\ pc \in {"sync", "apply", "backFence"} => L!state = "COPYING"
  /\ pc \in {"recover", "recoverFence"} => L!state # "IDLE"
  /\ pc = "sync" => pm[L!pmd].state # "IDLE"
  /\ pc = "createId" => pm[L!pmd].state = "IDLE"

(* The log is that of the running transaction; when creation runs, it ends *)
(* up with the stores of creation and no others.                           *)
InvLogL ==
  /\ logEnabled
  /\ pc \notin {"tx", "fence", "sync", "apply"} => appendLog = {}
  /\ pc = "apply" => todo \subseteq appendLog
  /\ L!Creating => appendLog \subseteq L!Created
  /\ pc \in {"down", "create"} \/ (pc = "begin" /\ L!Creating) => cur = 1
  /\ pc = "tx" /\ L!Creating => \A i \in DOMAIN CreateStores : i < cur => CreateStores[i][1] \in appendLog
  /\ pc \in {"fence", "sync"} /\ L!Creating => L!Created \subseteq appendLog

(* A word that is behind in the medium is of the running transaction, or   *)
(* of the recovery under way, and its PWB is issued in time.               *)
InvMainL ==
  \A w \in L!Word :
    \/ L!MainClean(w)
    \/ pc = "tx" /\ w \in appendLog
    \/ pc = "fence" /\ w \in appendLog /\ L!Main(w) \in pwb
    \/ pc = "recover" /\ L!state = "MUTATING"
    \/ pc = "recoverFence" /\ L!state = "MUTATING" /\ L!Main(w) \in pwb

InvBackL ==
  \A w \in L!Word :
    \/ L!BackClean(w)
    \/ pc = "apply" /\ w \in appendLog
    \/ pc = "backFence" /\ L!Back(w) \in pwb /\ (L!Creating => w \in L!Created)
    \/ pc = "recover" /\ L!state = "COPYING"
    \/ pc = "recoverFence" /\ L!state = "COPYING" /\ L!Back(w) \in pwb

(* Where the two halves hold the same.  A creation that was cut short      *)
(* leaves the words that creation stores to in disorder, until the next    *)
(* one has copied them all.                                                *)
KnownL == IF L!Creating THEN L!Word \ L!Created ELSE L!Word

InvSameL ==
  /\ pc \in {"create", "begin", "tx"} => \A w \in KnownL \ appendLog : L!Same(w)
  /\ pc = "down" /\ (L!Creating \/ L!state = "IDLE") => \A w \in KnownL : L!Same(w)
  /\ pc \in {"fence", "sync"} => \A w \in L!Word \ appendLog : L!Same(w)
  /\ pc \in {"apply", "recover"} => \A w \in L!Word \ todo : L!Same(w)
  /\ pc \in {"recoverFence", "idle", "backFence", "createFlush", "createFence", "createId"}
       => \A w \in L!Word : L!Same(w)

InOrderL == InvLogL /\ InvMainL /\ InvBackL /\ InvSameL
RegionInvL == RegionTypeOKL /\ InvHeaderL /\ (~overflown => InOrderL)

(* Only createFile() has to do with a region that has no file. *)
InvFileL == ~file => pc = "down" /\ L!Creating

RomulusInvL == RegionInvL /\ InvFileL
-----------------------------------------------------------------------------
LEMMA HeaderSetL ==
  ASSUME RegionTypeOKL, NEW s \in StateL
  PROVE  L!SetState(s) \in HeaderL /\ L!SetState(s).state = s /\ L!SetState(s).id = cache[L!pmd].id
BY DEF RegionTypeOKL, L!SetState, HeaderL

LEMMA HeaderPartsL == RegionTypeOKL => /\ L!state \in StateL /\ pm[L!pmd].state \in StateL
                                       /\ cache[L!pmd].id \in BOOLEAN /\ pm[L!pmd].id \in BOOLEAN
BY DEF RegionTypeOKL, HeaderL, L!state

LEMMA InitInvL == L!Init => RomulusInvL
<1>. SUFFICES ASSUME L!Init PROVE RomulusInvL
  OBVIOUS
<1>. USE LineFactsL DEF L!Init, L!InitRegion, L!InitLog
<1>1. cache[L!pmd] = L!NewHeader /\ pm = cache /\ DOMAIN cache = L!Line
  OBVIOUS
<1>2. RegionTypeOKL
  BY <1>1 DEF RegionTypeOKL, L!RegionShape, HeaderL, StateL, PCL, L!NewHeader
<1>3. \A w \in L!Word : L!Same(w) /\ L!MainClean(w) /\ L!BackClean(w)
  BY <1>1 DEF L!Same, L!MainClean, L!BackClean
<1>4. InvHeaderL /\ InvLogL
  BY <1>1, <1>3 DEF InvHeaderL, InvLogL, L!state, L!Same, L!NewHeader, L!Creating, DurableL
<1>5. InvFileL
  BY <1>1 DEF InvFileL, L!Creating, L!NewHeader
<1>. QED BY <1>1, <1>2, <1>3, <1>4, <1>5, HeapFactsL DEF RomulusInvL, RegionInvL, InOrderL, InvMainL, InvBackL,
         InvSameL, KnownL
-----------------------------------------------------------------------------
(* createFile(). *)
LEMMA CreateInvL ==
  ASSUME RomulusInvL, L!CreateSteps
  PROVE  RegionInvL'
<1>. USE LineFactsL, HeapFactsL DEF RomulusInvL, RegionInvL
<1>1. CASE L!CreateFile
  <2>. DEFINE h == L!NewHeader
  <2>1. /\ cache' = [cache EXCEPT ![L!pmd] = h] /\ pm' = pm /\ pwb' = pwb \cup {L!pmd}
        /\ pc = "down" /\ pc' = "create"
        /\ UNCHANGED <<appendLog, todo, cur, L!logVars>>
        /\ file => L!Creating
    BY <1>1 DEF L!CreateFile, L!StorePWB
  <2>2. L!Creating
    BY <2>1 DEF InvFileL
  <2>3. h \in HeaderL /\ h.state = "IDLE" /\ h.id = FALSE
    BY DEF HeaderL, StateL, L!NewHeader
  <2>4. /\ DOMAIN cache' = L!Line /\ cache'[L!pmd] = h
        /\ \A w \in L!Word : cache'[L!Main(w)] = cache[L!Main(w)] /\ cache'[L!Back(w)] = cache[L!Back(w)]
    BY <2>1, HeaderStoreL DEF RegionTypeOKL
  <2>5. pm[L!pmd].id = FALSE /\ L!Creating' /\ L!state' = "IDLE"
    BY <2>1, <2>2, <2>3, <2>4, HeaderPartsL DEF InvHeaderL, L!Creating, L!state
  <2>6. RegionTypeOKL'
    BY <2>1, <2>3, <2>4 DEF RegionTypeOKL, L!RegionShape, PCL
  <2>7. InvHeaderL'
    BY <2>1, <2>3, <2>4, <2>5 DEF InvHeaderL
  <2>8. ~overflown => InvLogL'
    BY <2>1 DEF InOrderL, InvLogL, L!logVars
  <2>9. ~overflown => InvMainL' /\ InvBackL' /\ InvSameL'
    BY <2>1, <2>2, <2>4, <2>5 DEF InOrderL, InvLogL, InvMainL, InvBackL, InvSameL, L!MainClean, L!BackClean, L!Same, KnownL
  <2>. QED BY <2>1, <2>6, <2>7, <2>8, <2>9 DEF InOrderL, L!logVars
<1>2. CASE L!CreateLogged
  <2>. DEFINE v == CreateStores[cur][1]
  <2>1. cur \in DOMAIN CreateStores /\ v \in L!Created /\ v \in L!Word
    <3>1. cur \in 1 .. Len(CreateStores)
      BY <1>2 DEF L!CreateLogged, RegionTypeOKL, L!RegionShape
    <3>. QED BY <3>1 DEF L!Created
  <2>2. /\ cache' = [cache EXCEPT ![L!Main(v)] = CreateStores[cur][2]]
        /\ UNCHANGED <<pm, pwb, pc, todo, logEnabled, overflown>> /\ pc = "tx" /\ cur' = cur + 1
        /\ L!Creating /\ appendLog' = appendLog \cup {v}
    BY <1>2 DEF L!CreateLogged, L!Store, L!Log
  <2>3. /\ DOMAIN cache' = L!Line /\ cache'[L!pmd] = cache[L!pmd]
        /\ \A w \in L!Word : /\ w # v => cache'[L!Main(w)] = cache[L!Main(w)]
                             /\ cache'[L!Back(w)] = cache[L!Back(w)]
    BY <2>1, <2>2, MainStoreL DEF RegionTypeOKL
  <2>4. ~overflown => \A i \in DOMAIN CreateStores : i < cur' => CreateStores[i][1] \in appendLog'
    <3>1. DOMAIN CreateStores \subseteq Nat /\ cur \in Nat
      BY DEF RegionTypeOKL, L!RegionShape
    <3>2. \A i \in DOMAIN CreateStores : i < cur + 1 => i < cur \/ i = cur
      BY <3>1
    <3>. QED BY <2>2, <3>2 DEF InOrderL, InvLogL
  <2>5. RegionTypeOKL'
    BY <2>1, <2>2, <2>3 DEF RegionTypeOKL, L!RegionShape
  <2>6. InvHeaderL'
    BY <2>2, <2>3 DEF InvHeaderL, DurableL, L!state, L!Creating
  <2>7. ~overflown => InvLogL'
    BY <2>1, <2>2, <2>3, <2>4 DEF InOrderL, InvLogL, L!Creating
  <2>8. ~overflown => InvMainL' /\ InvBackL' /\ InvSameL'
    BY <2>2, <2>3 DEF InOrderL, InvMainL, InvBackL, InvSameL, L!MainClean, L!BackClean, L!Same, KnownL, L!state, L!Creating
  <2>. QED BY <2>2, <2>5, <2>6, <2>7, <2>8 DEF InOrderL
<1>3. CASE L!CreateFlush
  <2>1. /\ UNCHANGED <<cache, pm>> /\ pc = "createFlush" /\ pc' = "createFence"
        /\ UNCHANGED <<appendLog, todo, cur, L!logVars>>
        /\ pwb' = pwb \cup {L!pmd}
    BY <1>3 DEF L!CreateFlush, L!Flush
  <2>2. pwb' \subseteq L!Line
    BY <2>1 DEF RegionTypeOKL, L!RegionShape
  <2>. QED BY <2>1, <2>2 DEF RegionTypeOKL, L!RegionShape, PCL, InvHeaderL, InOrderL, InvLogL, InvMainL,
           InvBackL, InvSameL, L!MainClean, L!BackClean, L!Same, KnownL, DurableL, L!state, L!Creating, L!logVars
<1>4. CASE L!CreateMagic
  <2>. DEFINE h == [cache[L!pmd] EXCEPT !.id = TRUE]
  <2>1. /\ cache' = [cache EXCEPT ![L!pmd] = h] /\ pm' = pm /\ pwb = {} /\ pwb' = {L!pmd}
        /\ pc = "createFence" /\ pc' = "createId"
        /\ UNCHANGED <<appendLog, todo, cur, L!logVars>>
    BY <1>4 DEF L!CreateMagic, L!StorePWB, L!Fenced
  <2>2. h \in HeaderL /\ h.state = L!state /\ h.id = TRUE
    BY DEF RegionTypeOKL, HeaderL, L!state
  <2>3. /\ DOMAIN cache' = L!Line /\ cache'[L!pmd] = h
        /\ \A w \in L!Word : cache'[L!Main(w)] = cache[L!Main(w)] /\ cache'[L!Back(w)] = cache[L!Back(w)]
    BY <2>1, HeaderStoreL DEF RegionTypeOKL
  <2>. QED BY <2>1, <2>2, <2>3 DEF RegionTypeOKL, L!RegionShape, PCL, InvHeaderL, InOrderL, InvLogL, InvMainL,
           InvBackL, InvSameL, L!MainClean, L!BackClean, L!Same, KnownL, DurableL, L!state, L!Creating, L!logVars
<1>5. CASE L!CreateSync
  <2>1. /\ UNCHANGED <<cache, pm, pwb, appendLog, todo, cur, L!logVars>> /\ pwb = {}
        /\ pc = "createId" /\ pc' = "idle"
    BY <1>5 DEF L!CreateSync, L!CreateDone, L!FencedGoto, L!Goto, L!Fenced
  <2>. QED BY <2>1 DEF RegionTypeOKL, L!RegionShape, PCL, InvHeaderL, InOrderL, InvLogL, InvMainL,
           InvBackL, InvSameL, L!MainClean, L!BackClean, L!Same, KnownL, DurableL, L!state, L!Creating, L!logVars
<1>. QED BY <1>1, <1>2, <1>3, <1>4, <1>5 DEF L!CreateSteps
-----------------------------------------------------------------------------
(* The constructor on a region that has its id, and recover(). *)
LEMMA RecoverInvL ==
  ASSUME RomulusInvL, L!Recover
  PROVE  RegionInvL'
<1>. USE LineFactsL, HeapFactsL DEF RomulusInvL, RegionInvL, L!logVars
<1>1. CASE L!OpenExisting
  <2>1. /\ UNCHANGED <<cache, pm, pwb, appendLog, cur, L!logVars>> /\ pc = "down" /\ ~L!Creating
        /\ \/ L!state = "IDLE" /\ pc' = "idle" /\ todo' = todo
           \/ L!state # "IDLE" /\ pc' = "recover" /\ todo' = L!Word
    BY <1>1 DEF L!OpenExisting
  <2>. QED BY <2>1 DEF RegionTypeOKL, L!RegionShape, PCL, InvHeaderL, InOrderL, InvLogL, InvMainL,
           InvBackL, InvSameL, L!MainClean, L!BackClean, L!Same, KnownL, DurableL, L!state, L!Creating
<1>2. CASE L!RecoverCopy /\ L!state = "COPYING"
  <2>1. PICK v \in todo : cache' = [cache EXCEPT ![L!Back(v)] = cache[L!Main(v)]] /\ todo' = todo \ {v}
    BY <1>2 DEF L!RecoverCopy, L!Copy, L!Store, L!Back, L!Main
  <2>2. /\ pc = "recover" /\ pc' = "recover" /\ UNCHANGED <<pm, pwb>> /\ v \in L!Word
        /\ UNCHANGED <<appendLog, cur, L!logVars>>
    BY <1>2 DEF L!RecoverCopy, L!Copy, L!Store, RegionTypeOKL, L!RegionShape
  <2>3. /\ DOMAIN cache' = L!Line /\ cache'[L!pmd] = cache[L!pmd] /\ cache'[L!Back(v)] = cache[L!Main(v)]
        /\ \A w \in L!Word : /\ w # v => cache'[L!Back(w)] = cache[L!Back(w)]
                             /\ cache'[L!Main(w)] = cache[L!Main(w)]
    BY <2>1, <2>2, BackStoreL DEF RegionTypeOKL
  <2>. QED BY <1>2, <2>1, <2>2, <2>3 DEF RegionTypeOKL, L!RegionShape, PCL, InvHeaderL, InOrderL, InvLogL, InvMainL,
           InvBackL, InvSameL, L!MainClean, L!BackClean, L!Same, KnownL, DurableL, L!state, L!Creating
<1>3. CASE L!RecoverCopy /\ L!state = "MUTATING"
  <2>1. PICK v \in todo : cache' = [cache EXCEPT ![L!Main(v)] = cache[L!Back(v)]] /\ todo' = todo \ {v}
    BY <1>3 DEF L!RecoverCopy, L!Copy, L!Store, L!Back, L!Main
  <2>2. /\ pc = "recover" /\ pc' = "recover" /\ UNCHANGED <<pm, pwb>> /\ v \in L!Word
        /\ UNCHANGED <<appendLog, cur, L!logVars>>
    BY <1>3 DEF L!RecoverCopy, L!Copy, L!Store, RegionTypeOKL, L!RegionShape
  <2>3. /\ DOMAIN cache' = L!Line /\ cache'[L!pmd] = cache[L!pmd] /\ cache'[L!Main(v)] = cache[L!Back(v)]
        /\ \A w \in L!Word : /\ w # v => cache'[L!Main(w)] = cache[L!Main(w)]
                             /\ cache'[L!Back(w)] = cache[L!Back(w)]
    BY <2>1, <2>2, MainStoreL DEF RegionTypeOKL
  <2>. QED BY <1>3, <2>1, <2>2, <2>3 DEF RegionTypeOKL, L!RegionShape, PCL, InvHeaderL, InOrderL, InvLogL, InvMainL,
           InvBackL, InvSameL, L!MainClean, L!BackClean, L!Same, KnownL, DurableL, L!state, L!Creating
<1>4. CASE L!RecoverFlush
  <2>1. /\ UNCHANGED <<cache, pm>> /\ pc = "recover" /\ pc' = "recoverFence" /\ todo = {}
        /\ UNCHANGED <<appendLog, todo, cur, L!logVars>>
        /\ pwb' = pwb \cup {IF L!state = "COPYING" THEN L!Back(w) ELSE L!Main(w) : w \in L!Word}
    BY <1>4 DEF L!RecoverFlush, L!Flush
  <2>2. pwb' \subseteq L!Line
    BY <2>1 DEF RegionTypeOKL, L!RegionShape
  <2>3. L!state \in {"COPYING", "MUTATING"}
    BY <2>1, HeaderPartsL DEF InvHeaderL, StateL
  <2>. QED BY <2>1, <2>2, <2>3 DEF RegionTypeOKL, L!RegionShape, PCL, InvHeaderL, InOrderL, InvLogL, InvMainL,
           InvBackL, InvSameL, L!MainClean, L!BackClean, L!Same, KnownL, DurableL, L!state, L!Creating
<1>5. CASE L!RecoverIdle
  <2>. DEFINE h == L!SetState("IDLE")
  <2>1. /\ cache' = [cache EXCEPT ![L!pmd] = h] /\ pm' = pm /\ pwb = {} /\ pwb' = {}
        /\ pc = "recoverFence" /\ pc' = "idle"
        /\ UNCHANGED <<appendLog, todo, cur, L!logVars>>
    BY <1>5 DEF L!RecoverIdle, L!Store, L!Fenced
  <2>2. h \in HeaderL /\ h.state = "IDLE" /\ h.id = cache[L!pmd].id
    BY HeaderSetL DEF StateL
  <2>3. /\ DOMAIN cache' = L!Line /\ cache'[L!pmd] = h
        /\ \A w \in L!Word : cache'[L!Main(w)] = cache[L!Main(w)] /\ cache'[L!Back(w)] = cache[L!Back(w)]
    BY <2>1, <2>2, HeaderStoreL DEF RegionTypeOKL
  <2>. QED BY <2>1, <2>2, <2>3 DEF RegionTypeOKL, L!RegionShape, PCL, InvHeaderL, InOrderL, InvLogL, InvMainL,
           InvBackL, InvSameL, L!MainClean, L!BackClean, L!Same, KnownL, DurableL, L!state, L!Creating
<1>6. L!RecoverCopy => L!state \in {"COPYING", "MUTATING"}
  BY HeaderPartsL DEF L!RecoverCopy, InvHeaderL, StateL
<1>. QED BY <1>1, <1>2, <1>3, <1>4, <1>5, <1>6 DEF L!Recover
-----------------------------------------------------------------------------
(* begin_transaction(), pstore() and nested transactions. *)
LEMMA BodyInvL ==
  ASSUME RomulusInvL, L!Begin \/ L!Pstore \/ L!NestTx
  PROVE  RegionInvL'
<1>. USE LineFactsL, HeapFactsL DEF RomulusInvL, RegionInvL, L!logVars
<1>1. CASE L!BeginTx
  <2>. DEFINE h == L!SetState("MUTATING")
  <2>1. /\ cache' = [cache EXCEPT ![L!pmd] = h] /\ pm' = pm /\ pwb' = pwb \cup {L!pmd}
        /\ pc \in {"idle", "create"} /\ pc' = "begin"
        /\ UNCHANGED <<appendLog, todo, cur, L!logVars>>
    BY <1>1 DEF L!BeginTx, L!StorePWB
  <2>2. h \in HeaderL /\ h.state = "MUTATING" /\ h.id = cache[L!pmd].id
    BY HeaderSetL DEF StateL
  <2>3. /\ DOMAIN cache' = L!Line /\ cache'[L!pmd] = h
        /\ \A w \in L!Word : cache'[L!Main(w)] = cache[L!Main(w)] /\ cache'[L!Back(w)] = cache[L!Back(w)]
    BY <2>1, <2>2, HeaderStoreL DEF RegionTypeOKL
  <2>. QED BY <2>1, <2>2, <2>3 DEF RegionTypeOKL, L!RegionShape, PCL, InvHeaderL, InOrderL, InvLogL, InvMainL,
           InvBackL, InvSameL, L!MainClean, L!BackClean, L!Same, KnownL, DurableL, L!state, L!Creating
<1>2. CASE L!BeginTxFence
  <2>1. /\ UNCHANGED <<cache, pm, pwb, appendLog, todo, cur, L!logVars>> /\ pwb = {}
        /\ pc = "begin" /\ pc' = "tx"
    BY <1>2 DEF L!BeginTxFence, L!FencedGoto, L!Goto, L!Fenced
  <2>. QED BY <2>1 DEF RegionTypeOKL, L!RegionShape, PCL, InvHeaderL, InOrderL, InvLogL, InvMainL,
           InvBackL, InvSameL, L!MainClean, L!BackClean, L!Same, KnownL, DurableL, L!state, L!Creating
<1>3. CASE L!Pstore
  <2>1. PICK v \in L!Word, x \in Val :
          /\ cache' = [cache EXCEPT ![L!Main(v)] = x]
          /\ pwb' = pwb \/ pwb' = pwb \cup {L!Main(v)}
          /\ L!Log(v) \/ L!GiveUpLog
    BY <1>3 DEF L!Pstore, L!Store, L!StorePWB
  <2>2. pc = "tx" /\ pc' = "tx" /\ UNCHANGED <<pm, todo, cur>> /\ ~L!Creating
    BY <1>3 DEF L!Pstore, L!Store, L!StorePWB
  <2>3. /\ DOMAIN cache' = L!Line /\ cache'[L!pmd] = cache[L!pmd]
        /\ \A w \in L!Word : /\ w # v => cache'[L!Main(w)] = cache[L!Main(w)]
                             /\ cache'[L!Back(w)] = cache[L!Back(w)]
    BY <2>1, MainStoreL DEF RegionTypeOKL
  <2>4. pwb' \subseteq L!Line
    BY <2>1 DEF RegionTypeOKL, L!RegionShape
  <2>5. \/ appendLog' = appendLog \cup {v} /\ UNCHANGED <<logEnabled, overflown>>
        \/ overflown' /\ appendLog' = appendLog
    BY <2>1 DEF L!Log, L!GiveUpLog
  <2>. QED BY <2>1, <2>2, <2>3, <2>4, <2>5 DEF RegionTypeOKL, L!RegionShape, PCL, InvHeaderL, InOrderL, InvLogL, InvMainL,
           InvBackL, InvSameL, L!MainClean, L!BackClean, L!Same, KnownL, DurableL, L!state, L!Creating
<1>4. CASE L!NestTx
  <2>1. UNCHANGED <<cache, pm, pwb, pc, appendLog, todo, cur, L!logVars>>
    BY <1>4 DEF L!NestTx, L!Nesting, L!BeginNestedTx, L!EndNestedTx
  <2>. QED BY <2>1 DEF RegionTypeOKL, L!RegionShape, PCL, InvHeaderL, InOrderL, InvLogL, InvMainL,
           InvBackL, InvSameL, L!MainClean, L!BackClean, L!Same, KnownL, DurableL, L!state, L!Creating
<1>. QED BY <1>1, <1>2, <1>3, <1>4 DEF L!Begin
-----------------------------------------------------------------------------
(* end_transaction(). *)
LEMMA CommitInvL ==
  ASSUME RomulusInvL, L!Commit
  PROVE  RegionInvL'
<1>. USE LineFactsL, HeapFactsL DEF RomulusInvL, RegionInvL, L!logVars
<1>1. CASE L!EndTx
  <2>1. /\ UNCHANGED <<cache, pm>> /\ pc = "tx" /\ pc' = "fence" /\ (L!Creating => cur > Len(CreateStores))
        /\ UNCHANGED <<appendLog, todo, cur, L!logVars>>
        /\ pwb' = pwb \cup {L!Main(w) : w \in appendLog}
    BY <1>1 DEF L!EndTx, L!Flush
  <2>2. pwb' \subseteq L!Line
    BY <2>1 DEF RegionTypeOKL, L!RegionShape
  <2>3. L!Creating /\ ~overflown => L!Created \subseteq appendLog
    <3>1. DOMAIN CreateStores = 1 .. Len(CreateStores) /\ Len(CreateStores) \in Nat /\ cur \in Nat
      BY DEF RegionTypeOKL, L!RegionShape
    <3>2. L!Creating => \A i \in DOMAIN CreateStores : i < cur
      BY <2>1, <3>1
    <3>. QED BY <2>1, <3>2 DEF InOrderL, InvLogL, L!Created
  <2>. QED BY <2>1, <2>2, <2>3 DEF RegionTypeOKL, L!RegionShape, PCL, InvHeaderL, InOrderL, InvLogL, InvMainL,
           InvBackL, InvSameL, L!MainClean, L!BackClean, L!Same, KnownL, DurableL, L!state, L!Creating
<1>2. CASE L!EndTxCopying
  <2>. DEFINE h == L!SetState("COPYING")
  <2>1. /\ cache' = [cache EXCEPT ![L!pmd] = h] /\ pm' = pm /\ pwb = {} /\ pwb' = {L!pmd}
        /\ pc = "fence" /\ pc' = "sync"
        /\ UNCHANGED <<appendLog, todo, cur, L!logVars>>
    BY <1>2 DEF L!EndTxCopying, L!StorePWB, L!Fenced
  <2>2. h \in HeaderL /\ h.state = "COPYING" /\ h.id = cache[L!pmd].id
    BY HeaderSetL DEF StateL
  <2>3. /\ DOMAIN cache' = L!Line /\ cache'[L!pmd] = h
        /\ \A w \in L!Word : cache'[L!Main(w)] = cache[L!Main(w)] /\ cache'[L!Back(w)] = cache[L!Back(w)]
    BY <2>1, <2>2, HeaderStoreL DEF RegionTypeOKL
  <2>. QED BY <2>1, <2>2, <2>3 DEF RegionTypeOKL, L!RegionShape, PCL, InvHeaderL, InOrderL, InvLogL, InvMainL,
           InvBackL, InvSameL, L!MainClean, L!BackClean, L!Same, KnownL, DurableL, L!state, L!Creating
<1>3. CASE L!EndTxSync
  <2>1. /\ UNCHANGED <<cache, pm, pwb, appendLog, cur, L!logVars>> /\ pwb = {} /\ todo' = L!ToCopy
        /\ pc = "sync" /\ pc' = "apply"
    BY <1>3 DEF L!EndTxSync, L!Fenced
  <2>2. todo' \subseteq L!Word /\ (~overflown => todo' = appendLog)
    BY <2>1 DEF L!ToCopy, InOrderL, InvLogL, RegionTypeOKL, L!RegionShape
  <2>. QED BY <2>1, <2>2 DEF RegionTypeOKL, L!RegionShape, PCL, InvHeaderL, InOrderL, InvLogL, InvMainL,
           InvBackL, InvSameL, L!MainClean, L!BackClean, L!Same, KnownL, DurableL, L!state, L!Creating
<1>4. CASE L!ApplyLog
  <2>1. PICK v \in todo : cache' = [cache EXCEPT ![L!Back(v)] = cache[L!Main(v)]] /\ todo' = todo \ {v}
    BY <1>4 DEF L!ApplyLog, L!Copy, L!Store, L!Back, L!Main
  <2>2. /\ pc = "apply" /\ pc' = "apply" /\ UNCHANGED <<pm, pwb>> /\ v \in L!Word
        /\ UNCHANGED <<appendLog, cur, L!logVars>>
    BY <1>4 DEF L!ApplyLog, L!Copy, L!Store, RegionTypeOKL, L!RegionShape
  <2>3. /\ DOMAIN cache' = L!Line /\ cache'[L!pmd] = cache[L!pmd] /\ cache'[L!Back(v)] = cache[L!Main(v)]
        /\ \A w \in L!Word : /\ w # v => cache'[L!Back(w)] = cache[L!Back(w)]
                             /\ cache'[L!Main(w)] = cache[L!Main(w)]
    BY <2>1, <2>2, BackStoreL DEF RegionTypeOKL
  <2>. QED BY <1>4, <2>1, <2>2, <2>3 DEF RegionTypeOKL, L!RegionShape, PCL, InvHeaderL, InOrderL, InvLogL, InvMainL,
           InvBackL, InvSameL, L!MainClean, L!BackClean, L!Same, KnownL, DurableL, L!state, L!Creating
<1>5. CASE L!FlushBack
  <2>1. /\ UNCHANGED <<cache, pm>> /\ pc = "apply" /\ pc' = "backFence" /\ todo = {}
        /\ UNCHANGED <<todo, cur, overflown>> /\ appendLog' = {} /\ logEnabled'
        /\ pwb' = pwb \cup {L!Back(w) : w \in L!ToCopy}
    BY <1>5 DEF L!FlushBack, L!Flush
  <2>2. L!ToCopy \subseteq L!Word /\ (~overflown => L!ToCopy = appendLog)
    BY DEF L!ToCopy, InOrderL, InvLogL, RegionTypeOKL, L!RegionShape
  <2>3. pwb' \subseteq L!Line
    BY <2>1, <2>2 DEF RegionTypeOKL, L!RegionShape
  <2>. QED BY <2>1, <2>2, <2>3 DEF RegionTypeOKL, L!RegionShape, PCL, InvHeaderL, InOrderL, InvLogL, InvMainL,
           InvBackL, InvSameL, L!MainClean, L!BackClean, L!Same, KnownL, DurableL, L!state, L!Creating
<1>6. CASE L!EndTxIdle
  <2>. DEFINE h == L!SetState("IDLE")
  <2>1. /\ cache' = [cache EXCEPT ![L!pmd] = h] /\ pm' = pm /\ pwb = {} /\ pwb' = {}
        /\ pc = "backFence" /\ pc' = (IF L!Creating THEN "createFlush" ELSE "idle")
        /\ UNCHANGED <<appendLog, todo, cur, L!logVars>>
    BY <1>6 DEF L!EndTxIdle, L!Store, L!Fenced
  <2>2. h \in HeaderL /\ h.state = "IDLE" /\ h.id = cache[L!pmd].id
    BY HeaderSetL DEF StateL
  <2>3. /\ DOMAIN cache' = L!Line /\ cache'[L!pmd] = h
        /\ \A w \in L!Word : cache'[L!Main(w)] = cache[L!Main(w)] /\ cache'[L!Back(w)] = cache[L!Back(w)]
    BY <2>1, <2>2, HeaderStoreL DEF RegionTypeOKL
  <2>. QED BY <2>1, <2>2, <2>3 DEF RegionTypeOKL, L!RegionShape, PCL, InvHeaderL, InOrderL, InvLogL, InvMainL,
           InvBackL, InvSameL, L!MainClean, L!BackClean, L!Same, KnownL, DurableL, L!state, L!Creating
<1>. QED BY <1>1, <1>2, <1>3, <1>4, <1>5, <1>6 DEF L!Commit
-----------------------------------------------------------------------------
(* The processor writes a line back. *)
LEMMA EvictInvL ==
  ASSUME RomulusInvL, L!EvictLine
  PROVE  RegionInvL'
<1>. USE LineFactsL, HeapFactsL DEF RomulusInvL, RegionInvL, L!logVars
<1>1. PICK l \in L!Line : L!WriteBack(l)
  BY DEF L!EvictLine, L!Evict
<1>2. UNCHANGED <<pc, appendLog, todo, cur, cache, L!logVars>> /\ L!state' = L!state /\ L!Creating' = L!Creating
  BY <1>1 DEF L!EvictLine, L!Evict, L!WriteBack, L!state, L!Creating
<1>3. /\ DOMAIN pm' = L!Line /\ pwb' = pwb \ {l}
      /\ \A w \in L!Word : /\ L!MainClean(w) \/ (L!Main(w) \in pwb /\ L!Main(w) \notin pwb') => L!MainClean(w)'
                           /\ L!BackClean(w) \/ (L!Back(w) \in pwb /\ L!Back(w) \notin pwb') => L!BackClean(w)'
      /\ \/ l = L!pmd /\ pm'[L!pmd] = cache[L!pmd]
         \/ l # L!pmd /\ pm'[L!pmd] = pm[L!pmd]
  BY <1>1, WrittenBackL DEF RegionTypeOKL
<1>4. RegionTypeOKL'
  BY <1>2, <1>3 DEF RegionTypeOKL, L!RegionShape
<1>5. InvHeaderL'
  BY <1>2, <1>3 DEF InvHeaderL, DurableL, L!state
<1>6. ~overflown => InvLogL'
  BY <1>2 DEF InOrderL, InvLogL
<1>7. ~overflown => InvMainL'
  BY <1>2, <1>3 DEF InOrderL, InvMainL
<1>8. ~overflown => InvBackL'
  BY <1>2, <1>3 DEF InOrderL, InvBackL
<1>9. ~overflown => InvSameL'
  BY <1>2 DEF InOrderL, InvSameL, L!Same, KnownL
<1>. QED BY <1>2, <1>4, <1>5, <1>6, <1>7, <1>8, <1>9 DEF InOrderL

(* A power failure: what is left of a region that has its id and the state *)
(* IDLE has the same in both halves, and so has what is left of a creation *)
(* where it has stored nothing.                                            *)
LEMMA CrashInvL ==
  ASSUME RomulusInvL, L!CrashAll
  PROVE  RegionInvL'
<1>. USE LineFactsL, HeapFactsL DEF RomulusInvL, RegionInvL
<1>1. /\ cache' = pm /\ pm' = pm /\ pwb' = {} /\ pc' = "down" /\ appendLog' = {} /\ todo' = {} /\ cur' = 1
      /\ logEnabled' /\ overflown' = overflown
  BY DEF L!CrashAll, L!Crash, L!PowerFailure
<1>2. ASSUME ~overflown, pm[L!pmd].id, pm[L!pmd].state = "IDLE", NEW w \in L!Word
      PROVE  pm[L!Main(w)] = pm[L!Back(w)]
  <2>1. pc \in {"down", "idle", "begin", "createId"}
    BY <1>2 DEF InvHeaderL, RegionTypeOKL, PCL, DurableL, L!Creating, L!state
  <2>2. pc \in {"down", "begin"} => ~L!Creating
    BY <1>2 DEF InvHeaderL, L!Creating
  <2>3. pc = "down" => L!state = "IDLE"
    BY <1>2 DEF InvHeaderL, DurableL, L!state
  <2>4. appendLog = {}
    BY <1>2, <2>1 DEF InOrderL, InvLogL
  <2>5. L!Same(w) /\ L!MainClean(w) /\ L!BackClean(w)
    BY <1>2, <2>1, <2>2, <2>3, <2>4 DEF InOrderL, InvSameL, InvMainL, InvBackL, KnownL
  <2>. QED BY <2>5 DEF L!Same, L!MainClean, L!BackClean
<1>3. ASSUME ~overflown, ~pm[L!pmd].id, NEW w \in L!Word \ L!Created
      PROVE  pm[L!Main(w)] = pm[L!Back(w)]
  <2>1. L!Creating \/ pc = "createId"
    BY <1>3 DEF InvHeaderL, L!Creating
  <2>2. w \notin appendLog
    BY <1>3, <2>1 DEF InOrderL, InvLogL
  <2>3. pc \notin {"recover", "recoverFence", "idle"}
    BY <2>1 DEF InvHeaderL
  <2>4. pc = "apply" => w \notin todo
    BY <1>3, <2>2 DEF InOrderL, InvLogL
  <2>5. L!MainClean(w)
    BY <1>3, <2>2, <2>3 DEF InOrderL, InvMainL
  <2>6. L!BackClean(w)
    BY <1>3, <2>1, <2>2, <2>3 DEF InOrderL, InvBackL
  <2>7. L!Same(w)
    BY <1>3, <2>1, <2>2, <2>3, <2>4 DEF InOrderL, InvSameL, KnownL, RegionTypeOKL, PCL
  <2>. QED BY <2>5, <2>6, <2>7 DEF L!Same, L!MainClean, L!BackClean
<1>4. RegionTypeOKL' /\ InvHeaderL'
  BY <1>1 DEF RegionTypeOKL, L!RegionShape, PCL, InvHeaderL, DurableL, L!state, L!Creating
<1>5. ~overflown => InOrderL'
  <2>. SUFFICES ASSUME ~overflown PROVE InOrderL'
    OBVIOUS
  <2>1. InvLogL' /\ InvMainL' /\ InvBackL'
    BY <1>1 DEF InvLogL, InvMainL, InvBackL, L!MainClean, L!BackClean
  <2>2. pm[L!pmd].id /\ pm[L!pmd].state = "IDLE" => \A w \in L!Word : pm[L!Main(w)] = pm[L!Back(w)]
    BY <1>2
  <2>3. ~pm[L!pmd].id => \A w \in L!Word \ L!Created : pm[L!Main(w)] = pm[L!Back(w)]
    BY <1>3
  <2>4. InvSameL'
    BY <1>1, <2>2, <2>3 DEF InvSameL, L!Same, KnownL, L!Creating, L!state
  <2>. QED BY <2>1, <2>4 DEF InOrderL
<1>. QED BY <1>1, <1>4, <1>5
-----------------------------------------------------------------------------
LEMMA FileInvL ==
  ASSUME RomulusInvL, L!Next
  PROVE  InvFileL'
<1>. USE DEF RomulusInvL, RegionInvL, InvFileL
<1>1. CASE L!CreateSteps
  <2>1. file'
    BY <1>1 DEF L!CreateSteps, L!CreateFile, L!CreateLogged, L!CreateFlush, L!CreateMagic, L!CreateSync, L!CreateDone,
       L!FencedGoto, L!Goto
  <2>. QED BY <2>1
<1>2. CASE L!Recover
  <2>1. file'
    BY <1>2 DEF L!Recover, L!OpenExisting, L!RecoverCopy, L!RecoverFlush, L!RecoverIdle, L!Copy
  <2>. QED BY <2>1
<1>3. CASE L!Begin \/ L!Pstore \/ L!NestTx
  <2>1. file'
    BY <1>3 DEF L!Begin, L!BeginTx, L!BeginTxFence, L!Pstore, L!NestTx, L!Nesting, L!BeginNestedTx, L!EndNestedTx,
       L!FencedGoto, L!Goto
  <2>. QED BY <2>1
<1>4. CASE L!Commit
  <2>1. file'
    BY <1>4 DEF L!Commit, L!EndTx, L!EndTxCopying, L!EndTxSync, L!ApplyLog, L!FlushBack, L!EndTxIdle, L!Copy
  <2>. QED BY <2>1
<1>5. CASE L!EvictLine
  BY <1>5 DEF L!EvictLine, L!Evict, L!WriteBack, L!Creating
<1>6. CASE L!CrashAll
  BY <1>6 DEF L!CrashAll, L!Crash, L!PowerFailure, L!Creating, InvHeaderL, DurableL
<1>. QED BY <1>1, <1>2, <1>3, <1>4, <1>5, <1>6 DEF L!Next

LEMMA NextInvL == RomulusInvL /\ [L!Next]_(L!vars) => RomulusInvL'
<1>. SUFFICES ASSUME RomulusInvL, [L!Next]_(L!vars) PROVE RomulusInvL'
  OBVIOUS
<1>1. CASE UNCHANGED L!vars
  BY <1>1 DEF RegionTypeOKL, L!RegionShape, PCL, InvHeaderL, InOrderL, InvLogL, InvMainL,
           InvBackL, InvSameL, L!MainClean, L!BackClean, L!Same, KnownL, DurableL, L!state, L!Creating,
     RomulusInvL, RegionInvL, InvFileL, L!vars, L!regionVars, L!logVars
<1>2. CASE L!Next
  <2>1. RegionInvL'
    BY <1>2, CreateInvL, RecoverInvL, BodyInvL, CommitInvL, EvictInvL, CrashInvL DEF L!Next
  <2>. QED BY <1>2, <2>1, FileInvL DEF RomulusInvL
<1>. QED BY <1>1, <1>2

(* The invariant of RomulusLog: which words of which half may be behind in *)
(* the medium, and where the two halves agree, at every place of the code  *)
(* (createFile, begin_transaction, end_transaction, recover).              *)
THEOREM RomulusLogInvariant == L!Spec => []RomulusInvL
BY InitInvL, NextInvL, PTL DEF L!Spec

(* As long as no transaction has outgrown its log, what the constructor or *)
(* an update has returned survives a power failure.                        *)
THEOREM ReturnedIsDurableL == L!Spec => []L!IdleIsDurable
<1>1. ASSUME RomulusInvL, pc = "idle", ~overflown
      PROVE  L!DurableHeap = L!VolatileHeap
  <2>1. \A w \in L!Word : L!MainClean(w) /\ L!BackClean(w) /\ L!Same(w)
    BY <1>1 DEF RomulusInvL, RegionInvL, InOrderL, InvLogL, InvMainL, InvBackL, InvSameL
  <2>. QED BY <2>1 DEF L!DurableHeap, L!VolatileHeap, L!Recovered, L!MainClean, L!BackClean, L!Same
<1>2. RomulusInvL => L!IdleIsDurable
  BY <1>1 DEF L!IdleIsDurable
<1>. QED BY <1>2, RomulusLogInvariant, PTL

(* Before a transaction touches main, back can undo it. *)
THEOREM BackUndoesL == L!Spec => []L!BackCanUndo
<1>1. RomulusInvL => L!BackCanUndo
  BY DEF RomulusInvL, RegionInvL, L!BackCanUndo, InOrderL, InvLogL, InvMainL, InvBackL, InvSameL, L!MainClean, L!BackClean, L!Same, KnownL
<1>. QED BY <1>1, RomulusLogInvariant, PTL
-----------------------------------------------------------------------------
(* One write-back, as in RomLogProofs. *)
LEMMA EvictStepL ==
  ASSUME RomulusInvL, L!EvictLine, pm[L!pmd].id, ~overflown
  PROVE  \/ L!DurableHeap' = L!DurableHeap
         \/ /\ pm[L!pmd].state = "MUTATING" /\ pm'[L!pmd].state = "COPYING"
            /\ L!DurableHeap' = L!VolatileHeap
<1>. USE LineFactsL DEF RomulusInvL, RegionInvL
<1>1. PICK l \in L!Line : L!WriteBack(l)
  BY DEF L!EvictLine, L!Evict
<1>2. /\ cache' = cache /\ pm'[l] = cache[l] /\ \A k \in L!Line : k # l => pm'[k] = pm[k]
      /\ \/ l = L!pmd /\ pm'[L!pmd] = cache[L!pmd]
         \/ l # L!pmd /\ pm'[L!pmd] = pm[L!pmd]
  BY <1>1, WrittenBackL DEF RegionTypeOKL
<1>3. L!Word' = L!Word /\ ~L!Creating
  BY DEF L!Word, InvHeaderL, L!Creating
<1>4. CASE l # L!pmd
  <2>1. \A w \in L!Word : pm[L!pmd].state # "MUTATING" => pm'[L!Main(w)] = pm[L!Main(w)]
    BY <1>2, <1>4 DEF InvHeaderL, DurableL, InOrderL, InvMainL, L!MainClean, L!state
  <2>2. \A w \in L!Word : pm[L!pmd].state = "MUTATING" => pm'[L!Back(w)] = pm[L!Back(w)]
    BY <1>2, <1>4 DEF InvHeaderL, DurableL, InOrderL, InvBackL, L!BackClean, L!state
  <2>3. \A w \in L!Word : L!Recovered(w)' = L!Recovered(w)
    BY <1>2, <1>3, <1>4, <2>1, <2>2 DEF L!Recovered
  <2>. QED BY <1>3, <2>3 DEF L!DurableHeap
<1>5. CASE l = L!pmd /\ pc # "sync"
  <2>1. \A w \in L!Word : pm'[L!Main(w)] = pm[L!Main(w)] /\ pm'[L!Back(w)] = pm[L!Back(w)]
    BY <1>2, <1>5
  <2>2. CASE pc \in {"idle", "begin", "createId"}
    <3>1. \A w \in L!Word : pm[L!Main(w)] = pm[L!Back(w)]
      BY <1>3, <2>2 DEF InOrderL, InvLogL, InvMainL, InvBackL, InvSameL, KnownL, L!MainClean, L!BackClean, L!Same
    <3>2. \A w \in L!Word : L!Recovered(w)' = L!Recovered(w)
      BY <1>3, <2>1, <3>1 DEF L!Recovered
    <3>. QED BY <1>3, <3>2 DEF L!DurableHeap
  <2>3. CASE pc \notin {"idle", "begin", "createId"}
    <3>1. pm'[L!pmd] = pm[L!pmd]
      BY <1>2, <1>3, <1>5, <2>3 DEF InvHeaderL, DurableL, RegionTypeOKL, PCL
    <3>2. \A w \in L!Word : L!Recovered(w)' = L!Recovered(w)
      BY <1>3, <2>1, <3>1 DEF L!Recovered
    <3>. QED BY <1>3, <3>2 DEF L!DurableHeap
  <2>. QED BY <2>2, <2>3
<1>6. CASE l = L!pmd /\ pc = "sync"
  <2>1. /\ \A w \in L!Word : pm'[L!Main(w)] = pm[L!Main(w)] /\ pm[L!Main(w)] = cache[L!Main(w)]
        /\ pm'[L!pmd].state = "COPYING" /\ pm[L!pmd].state \in {"MUTATING", "COPYING"}
    BY <1>2, <1>6, HeaderPartsL DEF InvHeaderL, L!state, StateL, InOrderL, InvMainL, L!MainClean
  <2>2. \A w \in L!Word : L!Recovered(w)' = cache[L!Main(w)]
    BY <1>3, <2>1 DEF L!Recovered
  <2>3. L!DurableHeap' = L!VolatileHeap
    BY <1>3, <2>2 DEF L!DurableHeap, L!VolatileHeap
  <2>4. pm[L!pmd].state = "COPYING" => L!DurableHeap = L!VolatileHeap
    BY <2>1 DEF L!DurableHeap, L!VolatileHeap, L!Recovered
  <2>. QED BY <2>1, <2>3, <2>4
<1>. QED BY <1>4, <1>5, <1>6

(* As long as no transaction has outgrown its log, transactions are atomic *)
(* in what a power failure would leave.                                    *)
THEOREM HeapIsAtomicL == L!Spec => [][L!HeapStep]_(L!vars)
<1>1. RomulusInvL /\ [L!Next]_(L!vars) => [L!HeapStep]_(L!vars)
  <2>. SUFFICES ASSUME RomulusInvL, L!Next PROVE L!HeapStep
    OBVIOUS
  <2>1. CASE L!EvictLine
    BY <2>1, EvictStepL DEF L!HeapStep
  <2>2. CASE L!CreateSteps \/ L!Recover
    <3>1. pm' = pm
      BY <2>2 DEF L!CreateSteps, L!CreateFile, L!CreateLogged, L!CreateFlush, L!CreateMagic, L!CreateSync, L!CreateDone,
         L!Recover, L!OpenExisting, L!RecoverCopy, L!RecoverFlush, L!RecoverIdle, L!Copy, L!Flush, L!Store, L!StorePWB,
         L!FencedGoto, L!Goto
    <3>. QED BY <3>1 DEF L!HeapStep, L!DurableHeap, L!Recovered
  <2>3. CASE L!Begin \/ L!Pstore \/ L!NestTx
    <3>1. pm' = pm
      BY <2>3 DEF L!Begin, L!BeginTx, L!BeginTxFence, L!Pstore, L!NestTx, L!Nesting, L!BeginNestedTx, L!EndNestedTx, L!Store,
         L!StorePWB, L!FencedGoto, L!Goto
    <3>. QED BY <3>1 DEF L!HeapStep, L!DurableHeap, L!Recovered
  <2>4. CASE L!Commit \/ L!CrashAll
    <3>1. pm' = pm
      BY <2>4 DEF L!Commit, L!EndTx, L!EndTxCopying, L!EndTxSync, L!ApplyLog, L!FlushBack, L!EndTxIdle, L!Copy, L!Flush, L!Store,
         L!StorePWB, L!CrashAll, L!Crash, L!PowerFailure
    <3>. QED BY <3>1 DEF L!HeapStep, L!DurableHeap, L!Recovered
  <2>. QED BY <2>1, <2>2, <2>3, <2>4 DEF L!Next
<1>. QED BY <1>1, RomulusLogInvariant, PTL DEF L!Spec
=============================================================================
