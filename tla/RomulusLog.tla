----------------------------- MODULE RomulusLog -----------------------------
(***************************************************************************)
(* The persistence engine of ptms/romuluslog/RomulusLog.hpp and .cpp, the  *)
(* ancestor of RomLogFC.hpp: creation runs in a transaction, the id in the *)
(* header is read, the root pointers lie in the heap, and the log is given *)
(* up when a transaction has stored to a quarter of the region; all of     *)
(* main goes to back then.  used_size is taken to cover every word.        *)
(***************************************************************************)
EXTENDS MainAndBack

CONSTANT LogLimit  \* add_to_log() gives the log up beyond this size

VARIABLES logEnabled, logSize,
          overflown  \* history: has a transaction stored past its log?

logVars == <<logEnabled, logSize, overflown>>
vars == <<regionVars, logVars>>

state == cache[pmd].state
SetState(s) == [cache[pmd] EXCEPT !.state = s]
Creating == ~cache[pmd].id
NewHeader == [id |-> FALSE, state |-> "IDLE"]

InitLog == logEnabled = TRUE /\ logSize = 0 /\ overflown = FALSE
Init == InitRegion(NewHeader) /\ InitLog
-----------------------------------------------------------------------------
(* RomulusLog(): a file without its id is created again. *)
CreateFile ==
  /\ pc = "down" /\ (file => Creating)
  /\ file' = TRUE /\ pc' = "create"
  /\ StorePWB(pmd, NewHeader)
  /\ UNCHANGED <<nested, appendLog, todo, cur, settled, logVars>>

OpenExisting ==
  /\ pc = "down" /\ file /\ ~Creating
  /\ IF state = "IDLE" THEN pc' = "idle" /\ UNCHANGED todo
                       ELSE pc' = "recover" /\ todo' = Word
  /\ UNCHANGED <<cache, pm, pwb, file, nested, appendLog, cur, settled, logVars>>

(* recover(): copyMainToBack() or copyBackToMain(). *)
RecoverCopy ==
  /\ pc = "recover"
  /\ IF state = "COPYING" THEN Copy("back", "main") ELSE Copy("main", "back")
  /\ UNCHANGED logVars

RecoverFlush ==
  /\ pc = "recover" /\ todo = {}
  /\ Flush({IF state = "COPYING" THEN Back(w) ELSE Main(w) : w \in Word})
  /\ pc' = "recoverFence"
  /\ UNCHANGED <<file, nested, appendLog, todo, cur, settled, logVars>>

RecoverIdle ==
  /\ pc = "recoverFence" /\ Fenced
  /\ Store(pmd, SetState("IDLE"))
  /\ pc' = "idle"
  /\ UNCHANGED <<file, nested, appendLog, todo, cur, settled, logVars>>

Recover == OpenExisting \/ RecoverCopy \/ RecoverFlush \/ RecoverIdle
-----------------------------------------------------------------------------
(* begin_transaction(), which ns_write_transaction() repeats.              *)
BeginTx ==
  /\ pc \in {"idle", "create"}
  /\ nested' = 1
  /\ StorePWB(pmd, SetState("MUTATING"))
  /\ pc' = "begin"
  /\ UNCHANGED <<file, appendLog, todo, cur, settled, logVars>>

BeginTxFence == pc = "begin" /\ FencedGoto("tx") /\ UNCHANGED logVars

(* add_to_log(): a word that is among the last entries is not added again. *)
Log(w) ==
  /\ logEnabled /\ (logSize <= LogLimit \/ Creating)
  /\ \/ appendLog' = appendLog \cup {w} /\ logSize' = logSize + 1
     \/ w \in appendLog /\ UNCHANGED <<appendLog, logSize>>
  /\ UNCHANGED <<logEnabled, overflown>>

GiveUpLog ==
  /\ ~logEnabled \/ (logSize > LogLimit /\ ~Creating)
  /\ logEnabled' = FALSE /\ overflown' = TRUE
  /\ UNCHANGED <<appendLog, logSize>>

(* pstore(), and put_object(), which flushes its root pointer by itself.   *)
Pstore ==
  /\ pc = "tx" /\ ~Creating
  /\ \E w \in Word, v \in Val :
       /\ IF w \in Root THEN StorePWB(Main(w), v) ELSE Store(Main(w), v)
       /\ Log(w) \/ GiveUpLog
  /\ UNCHANGED <<file, pc, nested, todo, cur, settled>>

CreateLogged ==
  /\ pc = "tx" /\ Creating /\ cur <= Len(CreateStores)
  /\ LET w == CreateStores[cur][1]
     IN  Store(Main(w), CreateStores[cur][2]) /\ Log(w)
  /\ cur' = cur + 1
  /\ UNCHANGED <<file, pc, nested, todo, settled>>

NestTx == ~Creating /\ Nesting /\ UNCHANGED logVars

(* end_transaction(): apply_pwb() flushes what the log holds, whether the  *)
(* log has been given up or not.                                           *)
EndTx ==
  /\ pc = "tx" /\ nested = 1 /\ (Creating => cur > Len(CreateStores))
  /\ nested' = 0
  /\ Flush({Main(w) : w \in appendLog})
  /\ pc' = "fence"
  /\ UNCHANGED <<file, appendLog, todo, cur, settled, logVars>>

EndTxCopying ==
  /\ pc = "fence" /\ Fenced
  /\ StorePWB(pmd, SetState("COPYING"))
  /\ pc' = "sync"
  /\ UNCHANGED <<file, nested, appendLog, todo, cur, settled, logVars>>

ToCopy == IF logEnabled THEN appendLog ELSE Word

EndTxSync ==
  /\ pc = "sync" /\ Fenced
  /\ pc' = "apply" /\ todo' = ToCopy
  /\ UNCHANGED <<cache, pm, pwb, file, nested, appendLog, cur, settled, logVars>>

ApplyLog == pc = "apply" /\ Copy("back", "main") /\ UNCHANGED logVars

FlushBack ==
  /\ pc = "apply" /\ todo = {}
  /\ Flush({Back(w) : w \in ToCopy})
  /\ appendLog' = {} /\ logEnabled' = TRUE /\ logSize' = 0
  /\ pc' = "backFence"
  /\ UNCHANGED <<file, nested, todo, cur, settled, overflown>>

EndTxIdle ==
  /\ pc = "backFence" /\ Fenced
  /\ Store(pmd, SetState("IDLE"))
  /\ pc' = IF Creating THEN "createFlush" ELSE "idle"
  /\ UNCHANGED <<file, nested, appendLog, todo, cur, settled, logVars>>

(* The last steps of createFile(). *)
CreateFlush ==
  /\ pc = "createFlush"
  /\ Flush({pmd})
  /\ pc' = "createFence"
  /\ UNCHANGED <<file, nested, appendLog, todo, cur, settled, logVars>>

CreateMagic ==
  /\ pc = "createFence" /\ Fenced
  /\ StorePWB(pmd, [cache[pmd] EXCEPT !.id = TRUE])
  /\ pc' = "createId"
  /\ UNCHANGED <<file, nested, appendLog, todo, cur, settled, logVars>>

CreateSync == CreateDone /\ UNCHANGED logVars

EvictLine == Evict(FALSE) /\ UNCHANGED logVars
CrashAll == Crash /\ logEnabled' = TRUE /\ logSize' = 0 /\ UNCHANGED overflown

CreateSteps == CreateFile \/ CreateLogged \/ CreateFlush \/ CreateMagic \/ CreateSync
Begin == BeginTx \/ BeginTxFence
Commit == EndTx \/ EndTxCopying \/ EndTxSync \/ ApplyLog \/ FlushBack \/ EndTxIdle

Next == \/ CreateSteps \/ Recover
        \/ Begin \/ Pstore \/ NestTx \/ Commit
        \/ EvictLine \/ CrashAll

Spec == Init /\ [][Next]_vars
-----------------------------------------------------------------------------
(* What recover() makes of a word of a region that has its id. *)
Recovered(w) == IF pm[pmd].state = "MUTATING" THEN pm[Back(w)] ELSE pm[Main(w)]
DurableHeap == [w \in Word |-> Recovered(w)]
VolatileHeap == [w \in Word |-> cache[Main(w)]]

(* As long as no transaction has stored past its log, whenever it or the   *)
(* constructor has returned a power failure would leave what loads see.    *)
IdleIsDurable == pc = "idle" /\ ~overflown => DurableHeap = VolatileHeap

(* And as long as none has, what a power failure would leave changes only  *)
(* when COPYING reaches the medium, to all that the transaction stored.    *)
HeapStep ==
  pm[pmd].id /\ ~overflown /\ DurableHeap' # DurableHeap =>
    /\ pm[pmd].state = "MUTATING" /\ pm'[pmd].state = "COPYING"
    /\ DurableHeap' = VolatileHeap

(* Until the next transaction has made MUTATING durable, back can undo     *)
(* whatever it does to main.                                               *)
BackCanUndo ==
  pc \in {"idle", "begin"} /\ ~Creating /\ ~overflown => \A w \in Word : pm[Back(w)] = pm[Main(w)]

(* "PSYNC() here to have ACID Durability on the mutations done to 'main'"  *)
(* (ns_write_transaction()): of large transactions, too.                   *)
LargeAreDurable == pc = "idle" => DurableHeap = VolatileHeap
=============================================================================
