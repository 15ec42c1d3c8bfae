-------------------------- MODULE TrinityFCProofs ---------------------------
(***************************************************************************)
(* Theorems about module TrinityFC: what CombiningProofs shows of the      *)
(* threads and TrinityProofs of the persistence engine, put together; and  *)
(* TrinityFC implements DurableTM, for every set of threads, every region  *)
(* and every set of update functions: threads that announce, combine, read *)
(* and lose power behave as if each transaction took effect at one moment  *)
(* of its call, for the other threads and for the medium alike.            *)
(***************************************************************************)
EXTENDS TrinityFC, FiniteSets, FiniteSetTheorems, TLAPS

Comb == INSTANCE CombiningProofs
Eng == INSTANCE TrinityProofs WITH pc <- epc

LEMMA Assumptions ==
  Comb!RegistryAssumption /\ Comb!CombAssumption /\ Eng!TrinityAssumption
BY FCAssumption DEF Comb!RegistryAssumption, Comb!CombAssumption, Eng!TrinityAssumption,
                    Eng!Addr, Val, MaxNesting
-----------------------------------------------------------------------------
(* The steps TrinityFC takes are those the two modules of proofs are       *)
(* about: two instances of one module agree.                               *)
LEMMA SameRegistry ==
  ASSUME NEW t \in Thread
  PROVE  /\ FC!Register(t) <=> Comb!Register(t)
         /\ FC!EndThread(t) <=> Comb!EndThread(t)
BY DEF FC!Register, FC!EndThread, FC!GetTID, FC!RegisterStep, FC!SlotUsed, FC!SlotFree,
       FC!ClaimWon, FC!ClaimLost, FC!MaxTooLow, FC!RaiseMax, FC!MaxCovers, FC!NextSlot,
       FC!Deregister, FC!Registered, FC!Registering, FC!NOT_ASSIGNED, FC!Out, FC!Slot,
       FC!registryVars, FC!lockVars, FC!combVars,
       Comb!Register, Comb!EndThread, Comb!GetTID, Comb!RegisterStep, Comb!SlotUsed,
       Comb!SlotFree, Comb!ClaimWon, Comb!ClaimLost, Comb!MaxTooLow, Comb!RaiseMax,
       Comb!MaxCovers, Comb!NextSlot, Comb!Deregister, Comb!Registered, Comb!Registering,
       Comb!NOT_ASSIGNED, Comb!Out, Comb!Slot, Comb!registryVars, Comb!lockVars, Comb!combVars

LEMMA SamePrologue ==
  ASSUME NEW t \in Thread
  PROVE  FC!Prologue(t) <=> Comb!Prologue(t)
BY DEF FC!Prologue, FC!TryLock, FC!CheckDone, FC!StartCopy, FC!CopyNext, FC!NothingToDo,
       FC!StartWait, FC!Wait, FC!SeesFree, FC!SeesTaken, FC!CASWon, FC!CASLost, FC!StartScan,
       FC!ScanStep, FC!ScanEnd, FC!ExclusiveUnlock, FC!Goto, FC!At, FC!NoComb, FC!NoWriter,
       FC!ToDo, FC!Slot, FC!registryVars, FC!lockVars,
       Comb!Prologue, Comb!TryLock, Comb!CheckDone, Comb!StartCopy, Comb!CopyNext,
       Comb!NothingToDo, Comb!StartWait, Comb!Wait, Comb!SeesFree, Comb!SeesTaken, Comb!CASWon,
       Comb!CASLost, Comb!StartScan, Comb!ScanStep, Comb!ScanEnd, Comb!ExclusiveUnlock,
       Comb!Goto, Comb!At, Comb!NoComb, Comb!NoWriter, Comb!ToDo, Comb!Slot,
       Comb!registryVars, Comb!lockVars

LEMMA SameCombined ==
  ASSUME NEW t \in Thread
  PROVE  /\ FC!Announce(t) <=> Comb!Announce(t)
         /\ FC!BeginCombined(t) <=> Comb!BeginCombined(t)
         /\ FC!SkipFunction(t) <=> Comb!SkipFunction(t)
         /\ FC!RunFunction(t) <=> Comb!RunFunction(t)
         /\ FC!EndCombined(t) <=> Comb!EndCombined(t)
         /\ FC!Epilogue(t) <=> Comb!Epilogue(t)
BY DEF FC!Announce, FC!BeginCombined, FC!SkipFunction, FC!RunFunction, FC!EndCombined,
       FC!Epilogue, FC!ClearNext, FC!Unlock, FC!ExclusiveUnlock, FC!InLoop, FC!Current,
       FC!NextOne, FC!Goto, FC!Registered, FC!NOT_ASSIGNED, FC!NoComb, FC!NoWriter, FC!Slot,
       FC!registryVars, FC!lockVars,
       Comb!Announce, Comb!BeginCombined, Comb!SkipFunction, Comb!RunFunction, Comb!EndCombined,
       Comb!Epilogue, Comb!ClearNext, Comb!Unlock, Comb!ExclusiveUnlock, Comb!InLoop,
       Comb!Current, Comb!NextOne, Comb!Goto, Comb!Registered, Comb!NOT_ASSIGNED, Comb!NoComb,
       Comb!NoWriter, Comb!Slot, Comb!registryVars, Comb!lockVars

LEMMA SameReads ==
  ASSUME NEW t \in Thread
  PROVE  /\ FC!StartRead(t) <=> Comb!StartRead(t)
         /\ FC!LockRead(t) <=> Comb!LockRead(t)
         /\ FC!EndRead(t) <=> Comb!EndRead(t)
BY DEF FC!StartRead, FC!LockRead, FC!EndRead, FC!Arrive, FC!AcquireShared, FC!EnterShared,
       FC!GiveWay, FC!Depart, FC!StopSpinning, FC!SharedUnlock, FC!Goto, FC!Registered,
       FC!NOT_ASSIGNED, FC!registryVars, FC!combVars,
       Comb!StartRead, Comb!LockRead, Comb!EndRead, Comb!Arrive, Comb!AcquireShared,
       Comb!EnterShared, Comb!GiveWay, Comb!Depart, Comb!StopSpinning, Comb!SharedUnlock,
       Comb!Goto, Comb!Registered, Comb!NOT_ASSIGNED, Comb!registryVars, Comb!combVars

LEMMA SameInit ==
  /\ FC!Init <=> Comb!Init
  /\ Engine!Init <=> Eng!Init
BY DEF FC!Init, FC!RegistryInit, FC!LockInit, FC!CombInit, FC!NOT_ASSIGNED, FC!Out, FC!Slot,
       FC!NoWriter, FC!NoComb,
       Comb!Init, Comb!RegistryInit, Comb!LockInit, Comb!CombInit, Comb!NOT_ASSIGNED, Comb!Out,
       Comb!Slot, Comb!NoWriter, Comb!NoComb,
       Engine!Init, Engine!Line, Engine!Addr, Engine!pmd, Engine!NoStore,
       Eng!Init, Eng!Line, Eng!Addr, Eng!pmd, Eng!NoStore

LEMMA SameBoot ==
  /\ Engine!Open <=> Eng!Open
  /\ Engine!Recover <=> Eng!Recover
  /\ Engine!Create <=> Eng!Create
BY DEF Engine!Open, Engine!OpenExisting, Engine!OpenNew, Engine!Recover, Engine!RecoverSkip,
       Engine!RecoverMain, Engine!RecoverSeq, Engine!RecoverDone, Engine!Scanned,
       Engine!Create, Engine!CreatePstore, Engine!CreateRoot, Engine!CreateFlushRoot,
       Engine!CreateId, Engine!CreateDone, Engine!Pstore, Engine!PstoreBack,
       Engine!PstoreAgain, Engine!Store, Engine!StorePWB, Engine!Fenced, Engine!p_seq,
       Engine!pmd, Engine!Addr,
       Eng!Open, Eng!OpenExisting, Eng!OpenNew, Eng!Recover, Eng!RecoverSkip,
       Eng!RecoverMain, Eng!RecoverSeq, Eng!RecoverDone, Eng!Scanned,
       Eng!Create, Eng!CreatePstore, Eng!CreateRoot, Eng!CreateFlushRoot,
       Eng!CreateId, Eng!CreateDone, Eng!Pstore, Eng!PstoreBack,
       Eng!PstoreAgain, Eng!Store, Eng!StorePWB, Eng!Fenced, Eng!p_seq,
       Eng!pmd, Eng!Addr

LEMMA SameTx ==
  /\ Engine!BeginTx <=> Eng!BeginTx
  /\ \A a \in Addr, v \in Val : Engine!Pstore(a, v) <=> Eng!Pstore(a, v)
  /\ Engine!PstoreSeq <=> Eng!PstoreSeq
  /\ Engine!PstoreMain <=> Eng!PstoreMain
  /\ Engine!EndTx <=> Eng!EndTx
  /\ Engine!EndTxIncrement <=> Eng!EndTxIncrement
  /\ Engine!EndTxSync <=> Eng!EndTxSync
  /\ Engine!Evict <=> Eng!Evict
  /\ Engine!Crash <=> Eng!Crash
BY DEF Engine!BeginTx, Engine!Pstore, Engine!PstoreBack, Engine!PstoreAgain, Engine!PstoreSeq,
       Engine!PstoreMain, Engine!EndTx, Engine!EndTxIncrement, Engine!EndTxSync, Engine!Evict,
       Engine!Crash, Engine!Store, Engine!StorePWB, Engine!Fenced, Engine!WriteBack,
       Engine!PowerFailure, Engine!p_seq, Engine!pmd, Engine!Line, Engine!Addr,
       Engine!NoStore, Engine!engineVars,
       Eng!BeginTx, Eng!Pstore, Eng!PstoreBack, Eng!PstoreAgain, Eng!PstoreSeq,
       Eng!PstoreMain, Eng!EndTx, Eng!EndTxIncrement, Eng!EndTxSync, Eng!Evict,
       Eng!Crash, Eng!Store, Eng!StorePWB, Eng!Fenced, Eng!WriteBack,
       Eng!PowerFailure, Eng!p_seq, Eng!pmd, Eng!Line, Eng!Addr,
       Eng!NoStore, Eng!engineVars
-----------------------------------------------------------------------------
(* Threads call transactions only when the region is open, and the engine  *)
(* is out of its idle state only for a combiner that applies functions.    *)
InvTurn ==
  /\ Booting => \A t \in Thread : pc[t] = "out"
  /\ ~Booting /\ epc # "idle" => \E t \in Thread : pc[t] = "apply"

(* The functions of the calls, and where the running one is. *)
InvFunction ==
  /\ fn \in [Thread -> Seq(Addr)]
  /\ next \in Nat \ {0}

FCInv == /\ Comb!CombInv
         /\ Eng!TypeOK /\ Eng!RecoveryInv
         /\ InvTurn /\ InvFunction

LEMMA FCInitInv == Init => FCInv
<1>. SUFFICES ASSUME Init PROVE FCInv
  OBVIOUS
<1>1. Comb!Init /\ Eng!Init /\ pc = [t \in Thread |-> "out"] /\ epc = "down"
  BY SameInit DEF Init, Comb!Init, Comb!CombInit, Eng!Init
<1>2. Comb!CombInv
  BY <1>1, Comb!CombInitInv, Assumptions
<1>3. Eng!TypeOK /\ Eng!RecoveryInv
  BY <1>1, Eng!InitType, Eng!InitInv, Assumptions
<1>4. InvTurn
  BY <1>1 DEF InvTurn, Booting
<1>5. InvFunction
  BY DEF Init, InvFunction
<1>. QED BY <1>2, <1>3, <1>4, <1>5 DEF FCInv

(* Each step, but for a power failure, is one of flat combining's or       *)
(* leaves the threads alone.                                               *)
LEMMA CombSteps ==
  ASSUME [Next]_vars, ~Crash
  PROVE  [Comb!Next]_(Comb!vars)
<1>1. CASE Boot \/ Evict \/ UNCHANGED vars
  BY <1>1 DEF Boot, Evict, vars, combining, Comb!vars
<1>2. ASSUME NEW t \in Thread, Register(t) \/ CallUpdate(t) \/ Combine(t) \/ BeginTx(t)
      PROVE  Comb!Next
  BY <1>2, SameRegistry, SamePrologue, SameCombined
     DEF Register, CallUpdate, Combine, BeginTx, Comb!Next, Comb!WriteStep
<1>3. ASSUME NEW t \in Thread, Increment(t) \/ FinishStore(t) \/ FunctionEnds(t) \/ EndTx(t)
      PROVE  [Comb!Next]_(Comb!vars)
  BY <1>3, SameCombined
     DEF Increment, FinishStore, FunctionEnds, EndTx, combining, Comb!Next, Comb!WriteStep, Comb!vars
<1>4. ASSUME NEW t \in Thread, StartRead(t) \/ LockRead(t) \/ Load(t) \/ EndRead(t)
      PROVE  [Comb!Next]_(Comb!vars)
  BY <1>4, SameReads
     DEF StartRead, LockRead, Load, EndRead, combining, Comb!Next, Comb!ReadStep, Comb!vars
<1>. QED BY <1>1, <1>2, <1>3, <1>4 DEF Next

LEMMA CrashRestarts == Crash => Comb!Init' /\ epc' = "down" /\ InvFunction'
BY DEF Crash, Engine!Crash, InvFunction, FC!NOT_ASSIGNED, FC!Out, FC!Slot, FC!NoWriter, FC!NoComb,
       Comb!Init, Comb!RegistryInit, Comb!LockInit, Comb!CombInit, Comb!NOT_ASSIGNED, Comb!Out,
       Comb!Slot, Comb!NoWriter, Comb!NoComb

(* The function under way is one of the announced ones. *)
LEMMA RunningFunction ==
  ASSUME FCInv, NEW t \in Thread, Runs(t)
  PROVE  /\ pc[t] = "apply" /\ ~Booting
         /\ FC!Current(t) \in Thread /\ Running(t) \in Seq(Addr)
<1>1. pc[t] = "apply" /\ comb[t].next < comb[t].max /\ comb[t].lfc[comb[t].next] # NoFunction
  BY DEF Runs, FC!InLoop, FC!Current
<1>2. comb[t].next \in Comb!Slot
  BY <1>1, Comb!LoopIndex, Assumptions DEF FCInv, Comb!HasMax
<1>3. comb[t].lfc[comb[t].next] \in Thread
  BY <1>1, <1>2 DEF FCInv, Comb!CombInv, Comb!CombTypeOK
<1>. QED BY <1>1, <1>3 DEF FCInv, InvTurn, InvFunction, Running, FC!Current

LEMMA EngSteps ==
  ASSUME FCInv, [Next]_vars
  PROVE  [Eng!Next]_(Eng!vars)
<1>1. CASE Boot \/ Evict \/ Crash
  BY <1>1, SameBoot, SameTx
     DEF Boot, Evict, Crash, Eng!Next, Engine!Commit, Eng!Commit
<1>2. ASSUME NEW t \in Thread, Register(t) \/ CallUpdate(t) \/ Combine(t)
                               \/ StartRead(t) \/ LockRead(t) \/ Load(t) \/ EndRead(t)
      PROVE  UNCHANGED Eng!vars
  BY <1>2 DEF Register, CallUpdate, Combine, StartRead, LockRead, Load, EndRead, engine, Eng!vars
<1>3. ASSUME NEW t \in Thread, BeginTx(t) \/ FinishStore(t) \/ FunctionEnds(t) \/ EndTx(t)
      PROVE  [Eng!Next]_(Eng!vars)
  BY <1>3, SameTx DEF BeginTx, FinishStore, FunctionEnds, EndTx, engine, Eng!Next, Eng!Commit, Eng!vars
<1>4. ASSUME NEW t \in Thread, Increment(t)
      PROVE  Eng!Next
  <2>. DEFINE a == Running(t)[next]
              v == (cache[a].main + 1) % Modulus
  <2>1. Runs(t) /\ next <= Len(Running(t)) /\ Engine!Pstore(a, v)
    BY <1>4 DEF Increment
  <2>2. a \in Addr /\ ~creating
    BY <2>1, RunningFunction DEF FCInv, InvFunction, Booting
  <2>3. v \in Val
    <3>1. cache[a].main \in Val
      BY <2>2 DEF FCInv, Eng!TypeOK, Addr, Engine!Addr, Eng!Addr, Eng!Persist
    <3>. QED BY <3>1, FCAssumption DEF Val
  <2>. QED BY <2>1, <2>2, <2>3, SameTx DEF Eng!Next, Eng!UserPstore, Addr, Engine!Addr, Eng!Addr
<1>. QED BY <1>1, <1>2, <1>3, <1>4 DEF Next, vars, engine, Eng!vars

(* A step of a thread that leaves the engine alone moves it out of, or     *)
(* into, no "apply".                                                       *)
LEMMA CombineKeepsApply ==
  ASSUME FCInv, NEW t \in Thread, Combine(t)
  PROVE  pc[t] # "out" /\ \A u \in Thread : pc[u] = "apply" => pc'[u] = "apply"
<1>1. pc \in [Thread -> {"out", "try", "check", "copy", "copying", "wait", "begin",
                         "apply", "clear", "read"}]
  BY DEF FCInv, Comb!CombInv, Comb!CombTypeOK
<1>2. CASE FC!Prologue(t)
  BY <1>1, <1>2 DEF FC!Prologue, FC!TryLock, FC!CheckDone, FC!StartCopy, FC!CopyNext,
                    FC!NothingToDo, FC!StartWait, FC!Wait, FC!Goto
<1>3. CASE FC!SkipFunction(t) \/ FC!Epilogue(t)
  BY <1>1, <1>3 DEF FC!SkipFunction, FC!Epilogue, FC!ClearNext, FC!Unlock, FC!InLoop, FC!Goto
<1>. QED BY <1>2, <1>3 DEF Combine

(* The constructor ends with the engine idle. *)
LEMMA BootGoesOn ==
  ASSUME Boot
  PROVE  Booting /\ pc' = pc /\ (Booting' \/ epc' = "idle")
<1>1. pc' = pc /\ Booting
  BY DEF Boot, combining
<1>2. Booting' \/ epc' = "idle"
  BY <1>1
     DEF Booting, Boot, Engine!Open, Engine!OpenExisting, Engine!OpenNew, Engine!Recover,
         Engine!RecoverSkip, Engine!RecoverMain, Engine!RecoverSeq, Engine!RecoverDone,
         Engine!Create, Engine!CreatePstore, Engine!Pstore, Engine!PstoreBack,
         Engine!PstoreAgain, Engine!CreateRoot, Engine!CreateFlushRoot, Engine!CreateId,
         Engine!CreateDone, Engine!Commit, Engine!EndTx, Engine!EndTxIncrement,
         Engine!EndTxSync, Engine!PstoreSeq, Engine!PstoreMain
<1>. QED BY <1>1, <1>2

LEMMA TurnKept ==
  ASSUME FCInv, [Next]_vars
  PROVE  InvTurn'
<1>. USE DEF InvTurn, Booting
<1>0. pc \in [Thread -> {"out", "try", "check", "copy", "copying", "wait", "begin",
                         "apply", "clear", "read"}]
  BY DEF FCInv, Comb!CombInv, Comb!CombTypeOK
<1>1. CASE Boot
  BY <1>1, BootGoesOn DEF FCInv
<1>2. CASE Evict \/ UNCHANGED vars
  BY <1>2 DEF Evict, Engine!Evict, Engine!engineVars, vars, combining, engine, FCInv
<1>3. CASE Crash
  BY <1>3 DEF Crash, Engine!Crash
<1>4. ASSUME NEW t \in Thread, Register(t) \/ CallUpdate(t) \/ StartRead(t)
      PROVE  InvTurn'
  <2>1. ~Booting /\ epc' = epc /\ creating' = creating
    BY <1>4 DEF Register, CallUpdate, StartRead, engine
  <2>2. \A u \in Thread : pc[u] = "apply" => pc'[u] = "apply"
    BY <1>0, <1>4 DEF Register, CallUpdate, StartRead, FC!Register, FC!EndThread, FC!Announce,
                      FC!StartRead, FC!Goto, FC!combVars
  <2>. QED BY <2>1, <2>2 DEF FCInv
<1>5. ASSUME NEW t \in Thread, Combine(t)
      PROVE  InvTurn'
  <2>1. epc' = epc /\ creating' = creating
    BY <1>5 DEF Combine, engine
  <2>. QED BY <1>5, <2>1, CombineKeepsApply DEF FCInv
<1>6. ASSUME NEW t \in Thread, BeginTx(t)
      PROVE  InvTurn'
  BY <1>0, <1>6 DEF BeginTx, FC!BeginCombined, FC!Goto, Engine!BeginTx, FCInv
<1>7. ASSUME NEW t \in Thread, Increment(t) \/ FinishStore(t) \/ FunctionEnds(t)
      PROVE  InvTurn'
  <2>1. pc' = pc /\ Runs(t)
    BY <1>7 DEF Increment, FinishStore, FunctionEnds, combining, FC!RunFunction
  <2>2. creating' = creating /\ (epc' = epc \/ epc' \in {"tx", "pstoreSeq", "pstoreMain"})
    BY <1>7 DEF Increment, FinishStore, FunctionEnds, engine, Engine!Pstore, Engine!PstoreBack,
                Engine!PstoreAgain, Engine!PstoreSeq, Engine!PstoreMain
  <2>. QED BY <2>1, <2>2, RunningFunction
<1>8. ASSUME NEW t \in Thread, EndTx(t)
      PROVE  InvTurn'
  <2>1. pc[t] = "apply" /\ creating' = creating
    BY <1>8 DEF EndTx, Engine!EndTx, Engine!EndTxIncrement, Engine!EndTxSync
  <2>2. CASE pc' = pc /\ epc' \in {"fence", "sync"}
    BY <2>1, <2>2 DEF FCInv
  <2>3. CASE epc' = "idle" /\ FC!EndCombined(t)
    BY <1>0, <2>1, <2>3 DEF FCInv, FC!EndCombined, FC!Goto
  <2>. QED BY <1>8, <2>2, <2>3
           DEF EndTx, Engine!EndTx, Engine!EndTxIncrement, Engine!EndTxSync, combining
<1>9. ASSUME NEW t \in Thread, LockRead(t) \/ Load(t) \/ EndRead(t)
      PROVE  InvTurn'
  <2>1. epc' = epc /\ creating' = creating /\ rd[t] # "out"
    BY <1>9 DEF LockRead, Load, EndRead, engine, FC!LockRead, FC!EndRead, FC!AcquireShared,
                FC!EnterShared, FC!GiveWay, FC!Depart, FC!StopSpinning, FC!SharedUnlock
  <2>2. pc[t] = "read"
    BY <2>1 DEF FCInv, Comb!CombInv, Comb!InvPlaces
  <2>3. \A u \in Thread : pc[u] = "apply" => pc'[u] = "apply"
    BY <1>0, <1>9, <2>2 DEF LockRead, Load, EndRead, combining, FC!LockRead, FC!EndRead, FC!Goto,
                            FC!combVars
  <2>. QED BY <2>1, <2>2, <2>3 DEF FCInv
<1>. QED BY <1>1, <1>2, <1>3, <1>4, <1>5, <1>6, <1>7, <1>8, <1>9 DEF Next

LEMMA FunctionKept ==
  ASSUME FCInv, [Next]_vars
  PROVE  InvFunction'
<1>. USE DEF InvFunction, FCInv
<1>1. ASSUME NEW t \in Thread, CallUpdate(t)
      PROVE  InvFunction'
  <2>1. PICK f \in Function : fn' = [fn EXCEPT ![t] = f]
    BY <1>1 DEF CallUpdate
  <2>2. f \in Seq(Addr)
    BY FCAssumption DEF Addr, Engine!Addr
  <2>. QED BY <1>1, <2>1, <2>2 DEF CallUpdate
<1>2. CASE Crash
  BY <1>2, CrashRestarts
<1>3. CASE \E t \in Thread : Increment(t) \/ FunctionEnds(t)
  BY <1>3 DEF Increment, FunctionEnds
<1>4. CASE UNCHANGED <<fn, next>>
  BY <1>4
<1>. QED BY <1>1, <1>2, <1>3, <1>4
         DEF Next, vars, Boot, Evict, Register, Combine, BeginTx, FinishStore, EndTx, StartRead,
             LockRead, Load, EndRead

LEMMA CombStart == Comb!Init => Comb!CombInv
BY Comb!CombInitInv, Assumptions

LEMMA FCNextInv ==
  ASSUME FCInv, [Next]_vars
  PROVE  FCInv'
<1>1. Comb!CombInv'
  <2>1. CASE Crash
    <3>1. Comb!Init' => Comb!CombInv'
      BY CombStart, PTL
    <3>. QED BY <2>1, <3>1, CrashRestarts
  <2>2. CASE ~Crash
    BY <2>2, CombSteps, Comb!CombNextInv, Assumptions DEF FCInv
  <2>. QED BY <2>1, <2>2
<1>2. [Eng!Next]_(Eng!vars)
  BY EngSteps
<1>3. Eng!TypeOK'
  BY <1>2, Eng!NextType, Assumptions DEF FCInv, Eng!RecoveryInv
<1>4. Eng!RecoveryInv'
  BY <1>2, <1>3, Eng!NextInv, Assumptions DEF FCInv
<1>. QED BY <1>1, <1>3, <1>4, TurnKept, FunctionKept DEF FCInv

(* The threads' invariant and the engine's hold together, and the engine   *)
(* is where the combiner of the moment has taken it (beginTx, endTx).      *)
THEOREM ComposedInvariant == Spec => []FCInv
BY FCInitInv, FCNextInv, PTL DEF Spec

(* While a read-only transaction loads words, no transaction of the engine *)
(* is under way, and what it loads is durable.                             *)
THEOREM ReadsSeeDurable == Spec => []ReadsAreDurable
<1>1. ASSUME FCInv, NEW t \in Thread, rd[t] = "shared"
      PROVE  epc = "idle" /\ Engine!DurableMem = Engine!VolatileMem
  <2>1. pc[t] = "read" /\ ~Booting
    BY <1>1 DEF FCInv, Comb!CombInv, Comb!InvPlaces, InvTurn
  <2>2. \A u \in Thread : pc[u] # "apply"
    BY <1>1, <2>1, Comb!MutationsAlone, Assumptions DEF FCInv, Comb!ReadersSeeNoMutation
  <2>3. epc = "idle"
    BY <1>1, <2>1, <2>2 DEF FCInv, InvTurn
  <2>4. Eng!DurableMem = Eng!VolatileMem
    BY <1>1, <2>3, Eng!IdleMemIsDurable, Assumptions DEF FCInv, Eng!IdleIsDurable
  <2>. QED BY <2>3, <2>4
           DEF Engine!DurableMem, Engine!VolatileMem, Engine!Recovered, Engine!Addr, Engine!pmd,
               Eng!DurableMem, Eng!VolatileMem, Eng!Recovered, Eng!Addr, Eng!pmd
<1>2. FCInv => ReadsAreDurable
  BY <1>1 DEF ReadsAreDurable
<1>. QED BY <1>2, ComposedInvariant, PTL
-----------------------------------------------------------------------------
(* The function of a call that has not returned has run, and the combiner  *)
(* has yet to tell.                                                        *)
Untold(u) == FC!InUpdate(u) /\ runs[u] = 1 /\ fc[tid[u]] = u

(* A store of the running function is in the middle of pstore().           *)
InFlight == epc \in {"pstoreSeq", "pstoreMain"} /\ ~creating
StoredUpTo == IF InFlight THEN next - 1 ELSE next

(* The increments the running transaction has made so far, word by word.   *)
Incremented(u, i) ==
  \/ Untold(u)
  \/ \E t \in Thread : Runs(t) /\ FC!Current(t) = u /\ i < StoredUpTo
IncsOf(u, a) == {i \in DOMAIN fn[u] : fn[u][i] = a /\ Incremented(u, i)}
Incs(a) == UNION {{u} \X IncsOf(u, a) : u \in Thread}

(* A transaction is under way that the medium does not have yet.           *)
Active == ~Booting /\ ~Durable

(* What loads see is what the medium has and those increments.             *)
InvWork ==
  Active => \A a \in Addr :
    /\ IsFiniteSet(Incs(a))
    /\ cache[a].main = (Eng!StoreMem[a] + Cardinality(Incs(a))) % Modulus

InvInFlight ==
  InFlight => /\ \E t \in Thread : Runs(t) /\ next - 1 \in DOMAIN Running(t)
                                   /\ store.addr = Running(t)[next - 1]
              /\ store.val = (cache[store.addr].main + 1) % Modulus

(* Between two functions, the next one starts at its first store.          *)
InvNext == (\A t \in Thread : ~Runs(t)) => next = 1

(* endTx() comes when the combiner's loop is through, and the combiner has *)
(* at least one function to run.                                           *)
InvEnding ==
  epc \in {"fence", "sync"} /\ ~creating
    => \A t \in Thread : pc[t] = "apply" => comb[t].next >= comb[t].max
InvToDo == \A t \in Thread : pc[t] \in {"wait", "begin", "apply"} => FC!ToDo(t) # {}

(* A reader has loaded words of one state. *)
InvSeen ==
  /\ seen \in [Thread -> [Addr -> 0 .. Modulus]]
  /\ \A t \in Thread :
    /\ rd[t] # "shared" => seen[t] = NotRead
    /\ \A a \in Addr : seen[t][a] \in {Modulus, cache[a].main}

LinInv == FCInv /\ Eng!InvCreation /\ InvWork /\ InvInFlight
          /\ InvNext /\ InvEnding /\ InvToDo /\ InvSeen
-----------------------------------------------------------------------------
(* The call of a thread, case by case. *)
OpFacts ==
  \A t \in Thread :
    /\ FC!InUpdate(t) => Op(t) = [kind |-> "update", fn |-> fn[t], done |-> Done(t)]
    /\ pc[t] = "read" => Op(t) = [kind |-> "read",
                                  result |-> IF \A a \in Addr : seen[t][a] # Modulus
                                             THEN seen[t] ELSE NotRead]
    /\ pc[t] = "out" => Op(t) = [kind |-> "none"]

LEMMA OpOf == OpFacts
<1>1. ASSUME NEW t \in Thread, FC!InUpdate(t)
      PROVE  Op(t) = [kind |-> "update", fn |-> fn[t], done |-> Done(t)]
  BY <1>1 DEF Op, FC!InUpdate
<1>2. ASSUME NEW t \in Thread, pc[t] = "read"
      PROVE  Op(t) = [kind |-> "read", result |-> IF \A a \in Addr : seen[t][a] # Modulus
                                                  THEN seen[t] ELSE NotRead]
  BY <1>2 DEF Op, FC!InUpdate
<1>3. ASSUME NEW t \in Thread, pc[t] = "out"
      PROVE  Op(t) = [kind |-> "none"]
  BY <1>3 DEF Op, FC!InUpdate
<1>. QED BY <1>1, <1>2, <1>3 DEF OpFacts

LEMMA OpsOf == OpFacts /\ OpFacts'
BY OpOf, PTL

(* The two instances of the engine describe one store. *)
SameStores ==
  /\ Engine!StoreMem = Eng!StoreMem
  /\ Engine!VolatileMem = Eng!VolatileMem
  /\ Engine!InitMem = Eng!InitMem

LEMMA SameStore == SameStores
BY DEF SameStores, Engine!StoreMem, Engine!DurableMem, Engine!VolatileMem, Engine!Recovered,
       Engine!InitMem, Engine!Addr, Engine!pmd, Eng!StoreMem, Eng!DurableMem, Eng!VolatileMem,
       Eng!Recovered, Eng!InitMem, Eng!Addr, Eng!pmd

LEMMA StoreIs == Engine!StoreMem = Eng!StoreMem /\ Engine!StoreMem' = Eng!StoreMem'
<1>1. SameStores /\ SameStores'
  BY SameStore, PTL
<1>. QED BY <1>1 DEF SameStores

LEMMA SamePm == ASSUME pm' = pm PROVE Eng!StoreMem' = Eng!StoreMem
BY Eng!SameMem, Assumptions

LEMMA SameCardinality == \A S : TM!Cardinality(S) = Cardinality(S)
BY DEF TM!Cardinality, Cardinality

LEMMA ModStep ==
  ASSUME NEW M \in Nat \ {0}, NEW x \in Nat
  PROVE  ((x % M) + 1) % M = (x + 1) % M
<1>. DEFINE q == x \div M
            r == x % M
<1>1. r \in 0 .. M - 1 /\ q \in Int /\ x = M * q + r
  OBVIOUS
<1>. HIDE DEF q, r
<1>2. CASE r + 1 < M
  <2>1. (r + 1) % M = r + 1
    BY <1>1, <1>2
  <2>2. x + 1 = M * q + (r + 1)
    BY <1>1
  <2>3. (x + 1) % M = r + 1
    BY <1>1, <1>2, <2>2
  <2>. QED BY <2>1, <2>3 DEF r
<1>3. CASE r + 1 = M
  <2>1. (r + 1) % M = 0
    BY <1>1, <1>3
  <2>2. x + 1 = M * (q + 1)
    BY <1>1, <1>3
  <2>3. (x + 1) % M = 0
    BY <1>1, <1>3, <2>2
  <2>. QED BY <2>1, <2>3 DEF r
<1>. QED BY <1>1, <1>2, <1>3

LEMMA ModSmall ==
  ASSUME NEW M \in Nat \ {0}, NEW x \in 0 .. M - 1
  PROVE  (x + 0) % M = x
OBVIOUS
-----------------------------------------------------------------------------
(* What the two invariants say of each other's components. *)
CombPlaces == {"out", "try", "check", "copy", "copying", "wait", "begin", "apply", "clear", "read"}

LEMMA Types ==
  ASSUME FCInv
  PROVE  /\ pc \in [Thread -> CombPlaces]
         /\ fc \in [Comb!Slot -> Thread \cup {NoFunction}]
         /\ comb \in [Thread -> [max : Int, lfc : [Comb!Slot -> Thread \cup {NoFunction}],
                                 next : Nat]]
         /\ runs \in [Thread -> Nat]
         /\ tid \in [Thread -> Comb!Slot \cup {-1}]
         /\ DOMAIN rd = Thread
         /\ fn \in [Thread -> Seq(Addr)] /\ next \in Nat \ {0}
BY DEF FCInv, Comb!CombInv, Comb!CombTypeOK, Comb!LockTypeOK, Comb!RegistryTypeOK,
       Comb!RegistryInv, Comb!NOT_ASSIGNED, InvFunction, CombPlaces

LEMMA ApplyAlone ==
  ASSUME FCInv, NEW t \in Thread, pc[t] \in {"begin", "apply", "clear"}
  PROVE  /\ ~Booting
         /\ \A u \in Thread \ {t} :
              pc[u] \notin {"copy", "copying", "wait", "begin", "apply", "clear"}
         /\ \A u \in Thread : rd[u] # "shared"
<1>1. ~Booting
  BY DEF FCInv, InvTurn
<1>2. Comb!ReadersSeeNoMutation
  BY Comb!MutationsAlone, Assumptions DEF FCInv
<1>3. rd[t] # "shared"
  BY DEF FCInv, Comb!CombInv, Comb!InvPlaces
<1>. QED BY <1>1, <1>2, <1>3 DEF Comb!ReadersSeeNoMutation

LEMMA IdleOutsideOfApply ==
  ASSUME FCInv, NEW t \in Thread, pc[t] \in {"begin", "clear"}
  PROVE  epc = "idle"
BY ApplyAlone DEF FCInv, InvTurn

(* The function under way is that of a call that waits for it. *)
LEMMA CurrentIs ==
  ASSUME FCInv, NEW t \in Thread, Runs(t)
  PROVE  LET u == FC!Current(t)
         IN  /\ u \in Thread /\ FC!InUpdate(u) /\ runs[u] = 0 /\ fc[tid[u]] = u
             /\ tid[u] = comb[t].next /\ comb[t].next \in Comb!Slot
<1>1. pc[t] = "apply" /\ comb[t].next < comb[t].max /\ comb[t].lfc[comb[t].next] # NoFunction
  BY DEF Runs, FC!InLoop, FC!Current
<1>2. comb[t].next \in Comb!Slot
  BY <1>1, Comb!LoopIndex, Assumptions DEF FCInv, Comb!HasMax
<1>3. Comb!Pending(t, comb[t].next) /\ comb[t].next >= comb[t].next
  BY <1>1, <1>2 DEF Comb!Pending, Comb!Slot
<1>. QED BY <1>1, <1>2, <1>3, Comb!PendingIsAlive, Assumptions
         DEF FCInv, FC!Current, FC!InUpdate, Comb!InUpdate

(* The calls whose functions have run but have not been told are those in  *)
(* the combiner's copy up to where its loop stands, and none but in the    *)
(* middle of its transaction.                                              *)
LEMMA UntoldHasCombiner ==
  ASSUME FCInv, NEW u \in Thread, Untold(u)
  PROVE  \E t \in Thread : pc[t] \in {"apply", "clear"} /\ Comb!Ran(t, tid[u])
BY Assumptions DEF Untold, FCInv, Comb!CombInv, Comb!InvRuns, Comb!HasRun, Comb!Ran,
     Comb!InUpdate, FC!InUpdate, Comb!CombAssumption

LEMMA RanIsUntold ==
  ASSUME FCInv, NEW t \in Thread, NEW s \in Comb!Slot, Comb!Ran(t, s)
  PROVE  LET u == comb[t].lfc[s] IN u \in Thread /\ Untold(u) /\ tid[u] = s
<1>. DEFINE u == comb[t].lfc[s]
<1>1. fc[s] = u /\ u # NoFunction /\ u \in Thread
  BY Comb!RanIsPending, Assumptions, Types DEF FCInv, Comb!Ran
<1>2. Comb!InUpdate(u) /\ tid[u] = s
  BY <1>1 DEF FCInv, Comb!CombInv, Comb!InvAnnounced
<1>3. runs[u] = 1
  BY <1>1, <1>2 DEF FCInv, Comb!CombInv, Comb!InvRuns, Comb!HasRun
<1>. QED BY <1>1, <1>2, <1>3 DEF Untold, FC!InUpdate, Comb!InUpdate

(* The phase of the store, in the terms of this module. *)
LEMMA PhaseIs ==
  FCInv => /\ Eng!StorePhase = "active" <=> Active
           /\ Eng!StorePhase = "down" <=> Booting
           /\ Eng!StorePhase = "idle" <=> ~Booting /\ epc = "idle"
           /\ Booting => Eng!StoreWork = Eng!StoreMem
           /\ ~Booting => Eng!StoreWork = Eng!VolatileMem
<1>. SUFFICES ASSUME FCInv
              PROVE  /\ Eng!StorePhase = "active" <=> Active
                     /\ Eng!StorePhase = "down" <=> Booting
                     /\ Eng!StorePhase = "idle" <=> ~Booting /\ epc = "idle"
                     /\ Booting => Eng!StoreWork = Eng!StoreMem
                     /\ ~Booting => Eng!StoreWork = Eng!VolatileMem
  OBVIOUS
<1>1. Eng!PhaseFacts
  BY Eng!PhaseOf, Assumptions DEF FCInv
<1>. QED BY <1>1 DEF Eng!PhaseFacts, Active, Booting, Durable, Eng!Down, Eng!IsDurable,
                     Eng!p_seq, Eng!pmd, Engine!pmd
LEMMA PhaseActive == FCInv => (Eng!StorePhase = "active" <=> Active)
BY PhaseIs

LEMMA PhaseAfter == FCInv' => (Eng!StorePhase = "active" <=> Active)'
BY PhaseActive, PTL
-----------------------------------------------------------------------------
(* A step of one thread leaves the others where they are. *)
LEMMA OthersStay ==
  ASSUME FCInv, NEW u \in Thread, NEW t \in Thread \ {u},
         \/ Register(u) \/ CallUpdate(u) \/ Combine(u) \/ BeginTx(u) \/ Increment(u)
         \/ FinishStore(u) \/ FunctionEnds(u) \/ EndTx(u)
         \/ StartRead(u) \/ LockRead(u) \/ Load(u) \/ EndRead(u)
  PROVE  /\ pc'[t] = pc[t] /\ comb'[t] = comb[t] /\ rd'[t] = rd[t] /\ tid'[t] = tid[t]
         /\ fn'[t] = fn[t]
<1>. USE Types
<1>1. CASE Register(u)
  BY <1>1 DEF Register, FC!Register, FC!EndThread, FC!GetTID, FC!RegisterStep, FC!SlotUsed,
              FC!SlotFree, FC!ClaimWon, FC!ClaimLost, FC!MaxTooLow, FC!RaiseMax, FC!MaxCovers,
              FC!Deregister, FC!lockVars, FC!combVars
<1>2. CASE CallUpdate(u)
  BY <1>2 DEF CallUpdate, FC!Announce, FC!Goto, FC!registryVars, FC!lockVars
<1>3. CASE Combine(u)
  <2>1. CASE FC!TryLock(u) \/ FC!CheckDone(u) \/ FC!StartCopy(u) \/ FC!CopyNext(u)
    BY <1>3, <2>1 DEF Combine, FC!TryLock, FC!CheckDone, FC!StartCopy, FC!CopyNext, FC!Goto,
       FC!SeesFree, FC!SeesTaken, FC!CASWon, FC!CASLost, FC!registryVars, FC!lockVars
  <2>2. CASE FC!NothingToDo(u) \/ FC!StartWait(u) \/ FC!Wait(u)
    BY <1>3, <2>2 DEF Combine, FC!NothingToDo, FC!StartWait, FC!Wait, FC!Goto, FC!StartScan,
       FC!ScanStep, FC!ScanEnd, FC!ExclusiveUnlock, FC!registryVars, FC!lockVars
  <2>3. CASE FC!SkipFunction(u) \/ FC!Epilogue(u)
    BY <1>3, <2>3 DEF Combine, FC!SkipFunction, FC!Epilogue, FC!ClearNext, FC!Unlock, FC!NextOne,
       FC!Goto, FC!ExclusiveUnlock, FC!registryVars, FC!lockVars
  <2>. QED BY <1>3, <2>1, <2>2, <2>3 DEF Combine, FC!Prologue
<1>4. CASE BeginTx(u) \/ FunctionEnds(u) \/ EndTx(u)
  BY <1>4 DEF BeginTx, FunctionEnds, EndTx, FC!BeginCombined, FC!RunFunction, FC!EndCombined,
              FC!NextOne, FC!Goto, combining, FC!registryVars, FC!lockVars
<1>5. CASE Increment(u) \/ FinishStore(u)
  BY <1>5 DEF Increment, FinishStore, combining
<1>6. CASE StartRead(u) \/ LockRead(u) \/ Load(u) \/ EndRead(u)
  BY <1>6 DEF StartRead, LockRead, Load, EndRead, FC!StartRead, FC!LockRead, FC!EndRead,
              FC!Arrive, FC!AcquireShared, FC!EnterShared, FC!GiveWay, FC!Depart,
              FC!StopSpinning, FC!SharedUnlock, FC!Goto, combining, FC!registryVars, FC!combVars
<1>. QED BY <1>1, <1>2, <1>3, <1>4, <1>5, <1>6

(* The place in the combiner's loop where a function runs moves on when it *)
(* ends, and by no other step.                                             *)
LEMMA RunsKept ==
  ASSUME FCInv, [Next]_vars, ~Crash, NEW t \in Thread, Runs(t), ~FunctionEnds(t)
  PROVE  /\ pc'[t] = "apply" /\ comb'[t] = comb[t]
         /\ Runs(t)' /\ FC!Current(t)' = FC!Current(t)
<1>1. pc[t] = "apply" /\ comb[t].next < comb[t].max /\ FC!Current(t) # NoFunction
  BY DEF Runs, FC!InLoop
<1>2. pc'[t] = pc[t] /\ comb'[t] = comb[t]
  <2>1. CASE Boot \/ Evict \/ UNCHANGED vars
    BY <2>1 DEF Boot, Evict, vars, combining
  <2>2. ASSUME NEW u \in Thread \ {t},
               \/ Register(u) \/ CallUpdate(u) \/ Combine(u) \/ BeginTx(u) \/ Increment(u)
               \/ FinishStore(u) \/ FunctionEnds(u) \/ EndTx(u)
               \/ StartRead(u) \/ LockRead(u) \/ Load(u) \/ EndRead(u)
        PROVE  pc'[t] = pc[t] /\ comb'[t] = comb[t]
    BY <2>2, OthersStay
  <2>3. CASE Increment(t) \/ FinishStore(t) \/ Load(t)
    BY <2>3 DEF Increment, FinishStore, Load, combining
  <2>4. CASE Register(t) \/ CallUpdate(t) \/ BeginTx(t) \/ StartRead(t) \/ LockRead(t) \/ EndRead(t)
    BY <1>1, <2>4 DEF Register, CallUpdate, BeginTx, StartRead, LockRead, EndRead, FC!Register,
       FC!EndThread, FC!Announce, FC!BeginCombined, FC!StartRead, FC!LockRead, FC!EndRead
  <2>5. CASE Combine(t)
    BY <1>1, <2>5 DEF Combine, FC!Prologue, FC!TryLock, FC!CheckDone, FC!StartCopy, FC!CopyNext,
       FC!NothingToDo, FC!StartWait, FC!Wait, FC!SkipFunction, FC!Epilogue, FC!ClearNext,
       FC!Unlock, FC!InLoop
  <2>6. ~EndTx(t) 
    BY <1>1, Types DEF EndTx
  <2>. QED BY <2>1, <2>2, <2>3, <2>4, <2>5, <2>6 DEF Next
<1>. QED BY <1>1, <1>2 DEF Runs, FC!InLoop, FC!Current

(* And it moves to one where no increment has been made.                   *)
OneApplies == \A t, u \in Thread : pc[t] = "apply" /\ pc[u] = "apply" => t = u

LEMMA OneCombines == FCInv => OneApplies
BY ApplyAlone DEF OneApplies

LEMMA RunsNew ==
  ASSUME FCInv, InvNext, [Next]_vars, NEW t \in Thread, Runs(t)', ~Runs(t)
  PROVE  next' = 1
<1>1. CASE Crash
  BY <1>1 DEF Crash
<1>2. CASE ~Crash /\ \E u \in Thread : FunctionEnds(u)
  BY <1>2 DEF FunctionEnds
<1>3. CASE ~Crash /\ \A u \in Thread : ~FunctionEnds(u)
  <2>0. OneApplies'
    BY FCNextInv, OneCombines, PTL
  <2>1. \A u \in Thread : ~Runs(u)
    BY <1>3, <2>0, RunsKept DEF Runs, FC!InLoop, OneApplies
  <2>2. next = 1
    BY <2>1 DEF InvNext
  <2>. QED BY <1>3, <2>1, <2>2
           DEF Next, vars, Boot, Evict, Register, CallUpdate, Combine, BeginTx, Increment,
               FinishStore, EndTx, StartRead, LockRead, Load, EndRead
<1>. QED BY <1>1, <1>2, <1>3

LEMMA NextKept ==
  ASSUME FCInv, InvNext, [Next]_vars
  PROVE  InvNext'
<1>. SUFFICES ASSUME \A t \in Thread : ~Runs(t)' PROVE next' = 1
  BY DEF InvNext
<1>1. CASE Crash \/ \E u \in Thread : FunctionEnds(u)
  BY <1>1 DEF Crash, FunctionEnds
<1>2. CASE ~Crash /\ \A u \in Thread : ~FunctionEnds(u)
  <2>1. \A t \in Thread : ~Runs(t)
    BY <1>2, RunsKept
  <2>. QED BY <1>2, <2>1
           DEF InvNext, Next, vars, Boot, Evict, Register, CallUpdate, Combine, BeginTx, Increment,
               FinishStore, EndTx, StartRead, LockRead, Load, EndRead
<1>. QED BY <1>1, <1>2

(* What a step does to the combiner's own place in its loop. *)
LEMMA ApplyMoves ==
  ASSUME FCInv, NEW t \in Thread, pc'[t] = "apply",
         \/ Register(t) \/ CallUpdate(t) \/ Combine(t)
         \/ StartRead(t) \/ LockRead(t) \/ Load(t) \/ EndRead(t)
  PROVE  FC!SkipFunction(t) \/ (pc[t] = "apply" /\ comb' = comb)
<1>. USE Types
<1>1. CASE Register(t) \/ CallUpdate(t)
  BY <1>1 DEF Register, CallUpdate, FC!Register, FC!EndThread, FC!Announce, FC!Goto, FC!combVars
<1>2. CASE Combine(t)
  BY <1>2 DEF Combine, FC!Prologue, FC!TryLock, FC!CheckDone, FC!StartCopy, FC!CopyNext,
     FC!NothingToDo, FC!StartWait, FC!Wait, FC!Epilogue, FC!ClearNext, FC!Unlock, FC!InLoop, FC!Goto
<1>3. CASE StartRead(t) \/ LockRead(t) \/ Load(t) \/ EndRead(t)
  BY <1>3 DEF StartRead, LockRead, Load, EndRead, FC!StartRead, FC!LockRead, FC!EndRead, FC!Goto,
              FC!combVars, combining
<1>. QED BY <1>1, <1>2, <1>3

LEMMA EndingKept ==
  ASSUME FCInv, InvEnding, [Next]_vars
  PROVE  InvEnding'
<1>. SUFFICES ASSUME epc' \in {"fence", "sync"}, ~creating', NEW t \in Thread, pc'[t] = "apply"
              PROVE  comb'[t].next >= comb'[t].max
  BY DEF InvEnding
<1>1. CASE Boot
  BY <1>1, BootGoesOn DEF Booting
<1>2. CASE Evict \/ UNCHANGED vars
  BY <1>2 DEF Evict, Engine!Evict, Engine!engineVars, vars, combining, engine, InvEnding
<1>3. CASE Crash
  BY <1>3 DEF Crash, Engine!Crash
<1>4. ASSUME NEW u \in Thread, Register(u) \/ CallUpdate(u) \/ Combine(u)
                               \/ StartRead(u) \/ LockRead(u) \/ Load(u) \/ EndRead(u)
      PROVE  comb'[t].next >= comb'[t].max
  <2>1. epc' = epc /\ creating' = creating
    BY <1>4 DEF Register, CallUpdate, Combine, StartRead, LockRead, Load, EndRead, engine
  <2>2. CASE u # t
    BY <1>4, <2>1, <2>2, OthersStay DEF InvEnding
  <2>3. CASE u = t
    <3>1. ~FC!SkipFunction(t)
      BY <2>1, Types DEF FC!SkipFunction, FC!InLoop, InvEnding
    <3>. QED BY <1>4, <2>1, <2>3, <3>1, ApplyMoves DEF InvEnding
  <2>. QED BY <2>2, <2>3
<1>5. ASSUME NEW u \in Thread, BeginTx(u) \/ Increment(u) \/ FinishStore(u) \/ FunctionEnds(u)
      PROVE  FALSE
  BY <1>5 DEF BeginTx, Increment, FinishStore, FunctionEnds, Engine!BeginTx, Engine!Pstore,
              Engine!PstoreBack, Engine!PstoreAgain, Engine!PstoreSeq, Engine!PstoreMain, engine
<1>6. ASSUME NEW u \in Thread, EndTx(u)
      PROVE  comb'[t].next >= comb'[t].max
  <2>1. pc[u] = "apply" /\ comb[u].next >= comb[u].max /\ UNCHANGED combining
    BY <1>6 DEF EndTx, Engine!EndTxSync
  <2>2. t = u
    BY <2>1, OneCombines DEF OneApplies, combining
  <2>. QED BY <2>1, <2>2 DEF combining
<1>. QED BY <1>1, <1>2, <1>3, <1>4, <1>5, <1>6 DEF Next

LEMMA ToDoKept ==
  ASSUME FCInv, InvToDo, [Next]_vars
  PROVE  InvToDo'
<1>. SUFFICES ASSUME NEW t \in Thread, pc'[t] \in {"wait", "begin", "apply"}
              PROVE  FC!ToDo(t)' # {}
  BY DEF InvToDo
<1>. USE Types
<1>0. ASSUME comb'[t].lfc = comb[t].lfc, pc[t] \in {"wait", "begin", "apply"}
      PROVE  FC!ToDo(t)' # {}
  BY <1>0 DEF InvToDo, FC!ToDo
<1>1. CASE Boot \/ Evict \/ UNCHANGED vars
  BY <1>0, <1>1 DEF Boot, Evict, vars, combining
<1>2. CASE Crash
  BY <1>2 DEF Crash
<1>3. ASSUME NEW u \in Thread \ {t},
               \/ Register(u) \/ CallUpdate(u) \/ Combine(u) \/ BeginTx(u) \/ Increment(u)
               \/ FinishStore(u) \/ FunctionEnds(u) \/ EndTx(u)
               \/ StartRead(u) \/ LockRead(u) \/ Load(u) \/ EndRead(u)
        PROVE  FC!ToDo(t)' # {}
  BY <1>0, <1>3, OthersStay
<1>4. CASE \/ Register(t) \/ CallUpdate(t) \/ StartRead(t) \/ LockRead(t) \/ Load(t) \/ EndRead(t)
           \/ Increment(t) \/ FinishStore(t)
  <2>1. comb' = comb /\ (pc'[t] = pc[t] \/ pc'[t] \in {"try", "read", "out"})
    BY <1>4 DEF Register, CallUpdate, StartRead, LockRead, Load, EndRead, Increment, FinishStore,
                FC!Register, FC!EndThread, FC!Announce, FC!StartRead, FC!LockRead, FC!EndRead,
                FC!Goto, FC!combVars, combining
  <2>. QED BY <1>0, <2>1
<1>5. CASE Combine(t)
  <2>1. CASE FC!StartWait(t)
    BY <2>1 DEF FC!StartWait, FC!ToDo
  <2>2. CASE FC!Wait(t)
    BY <1>0, <2>2 DEF FC!Wait
  <2>3. CASE FC!SkipFunction(t)
    <3>1. comb'[t].lfc = comb[t].lfc /\ pc[t] = "apply"
      BY <2>3 DEF FC!SkipFunction, FC!NextOne, FC!InLoop
    <3>. QED BY <1>0, <3>1
  <2>4. CASE \/ FC!TryLock(t) \/ FC!CheckDone(t) \/ FC!StartCopy(t) \/ FC!CopyNext(t)
             \/ FC!NothingToDo(t) \/ FC!Epilogue(t)
    BY <2>4 DEF FC!TryLock, FC!CheckDone, FC!StartCopy, FC!CopyNext, FC!NothingToDo, FC!Epilogue,
                FC!ClearNext, FC!Unlock, FC!InLoop, FC!Goto
  <2>. QED BY <1>5, <2>1, <2>2, <2>3, <2>4 DEF Combine, FC!Prologue
<1>6. CASE BeginTx(t) \/ FunctionEnds(t)
  <2>1. comb'[t].lfc = comb[t].lfc /\ pc[t] \in {"begin", "apply"}
    BY <1>6 DEF BeginTx, FunctionEnds, FC!BeginCombined, FC!RunFunction, FC!NextOne, FC!InLoop
  <2>. QED BY <1>0, <2>1
<1>7. CASE EndTx(t)
  <2>1. comb'[t].lfc = comb[t].lfc /\ pc[t] = "apply"
    BY <1>7 DEF EndTx, FC!EndCombined, combining
  <2>. QED BY <1>0, <2>1
<1>8. ASSUME NEW u \in Thread,
             \/ Register(u) \/ CallUpdate(u) \/ Combine(u) \/ BeginTx(u) \/ Increment(u)
             \/ FinishStore(u) \/ FunctionEnds(u) \/ EndTx(u)
             \/ StartRead(u) \/ LockRead(u) \/ Load(u) \/ EndRead(u)
      PROVE  FC!ToDo(t)' # {}
  <2>1. CASE u # t
    BY <1>3, <1>8, <2>1
  <2>2. CASE u = t
    BY <1>4, <1>5, <1>6, <1>7, <1>8, <2>2
  <2>. QED BY <2>1, <2>2
<1>. QED BY <1>1, <1>2, <1>8 DEF Next
-----------------------------------------------------------------------------
LEMMA CacheTypes ==
  ASSUME FCInv
  PROVE  \A a \in Addr : a \in DOMAIN cache /\ cache[a] \in [main : Val, back : Val, seq : Nat]
BY DEF FCInv, Eng!TypeOK, Eng!Line, Eng!Addr, Engine!Addr, Addr, Eng!Persist

(* A call's function stays what it is while it runs. *)
LEMMA FnKept ==
  ASSUME FCInv, [Next]_vars, ~Crash, NEW u \in Thread, FC!InUpdate(u)
  PROVE  fn'[u] = fn[u]
<1>1. ASSUME NEW t \in Thread, CallUpdate(t)
      PROVE  fn'[u] = fn[u]
  BY <1>1, Types DEF CallUpdate, FC!Announce, FC!InUpdate
<1>2. CASE UNCHANGED fn
  BY <1>2
<1>. QED BY <1>1, <1>2
         DEF Next, vars, Boot, Evict, Register, Combine, BeginTx, Increment, FinishStore,
             FunctionEnds, EndTx, StartRead, LockRead, Load, EndRead

LEMMA RunningKept ==
  ASSUME FCInv, [Next]_vars, ~Crash, NEW t \in Thread, Runs(t), ~FunctionEnds(t)
  PROVE  /\ Runs(t)' /\ FC!Current(t)' = FC!Current(t) /\ Running(t)' = Running(t)
         /\ FC!Current(t) \in Thread /\ Running(t) \in Seq(Addr)
BY RunsKept, FnKept, CurrentIs, Types DEF Running

(* The value and the persist of the store under way do not change.         *)
LEMMA InFlightStays ==
  ASSUME FCInv, InvInFlight, [Next]_vars, ~Crash, InFlight, UNCHANGED <<store, next>>,
         \A a \in Addr : cache'[a].main = cache[a].main, \A t \in Thread : ~FunctionEnds(t)
  PROVE  InvInFlight'
<1>1. PICK t \in Thread : /\ Runs(t) /\ next - 1 \in DOMAIN Running(t)
                          /\ store.addr = Running(t)[next - 1]
  BY DEF InvInFlight
<1>2. /\ Runs(t)' /\ Running(t)' = Running(t) /\ Running(t) \in Seq(Addr)
  BY <1>1, RunningKept
<1>3. store.addr \in Addr
  BY <1>1, <1>2
<1>. QED BY <1>1, <1>2, <1>3 DEF InvInFlight

LEMMA InFlightKept ==
  ASSUME FCInv, InvInFlight, [Next]_vars
  PROVE  InvInFlight'
<1>. SUFFICES ASSUME InFlight' PROVE InvInFlight'
  BY DEF InvInFlight
<1>. epc' \in {"pstoreSeq", "pstoreMain"} /\ ~creating'
  BY DEF InFlight
<1>1. CASE Boot \/ Crash
  BY <1>1, BootGoesOn DEF Booting, Crash, Engine!Crash
<1>2. ASSUME NEW u \in Thread, BeginTx(u) \/ EndTx(u) \/ FunctionEnds(u)
      PROVE  FALSE
  BY <1>2 DEF BeginTx, EndTx, FunctionEnds, Engine!BeginTx, Engine!EndTx, Engine!EndTxIncrement,
              Engine!EndTxSync, engine
<1>3. ASSUME NEW u \in Thread, Increment(u)
      PROVE  InvInFlight'
  <2>. DEFINE a == Running(u)[next]
              v == (cache[a].main + 1) % Modulus
  <2>1. /\ Runs(u) /\ next <= Len(Running(u)) /\ Engine!PstoreBack(a, v) /\ next' = next + 1
    BY <1>3 DEF Increment, Engine!Pstore, Engine!PstoreAgain
  <2>2. ~FunctionEnds(u) /\ ~Crash
    BY <2>1, <1>2 DEF Crash, Engine!Crash
  <2>3. /\ Runs(u)' /\ Running(u)' = Running(u) /\ Running(u) \in Seq(Addr)
    BY <2>1, <2>2, RunningKept
  <2>4. next \in DOMAIN Running(u) /\ next' - 1 = next /\ a \in Addr
    BY <2>1, <2>3, Types
  <2>5. store' = [addr |-> a, val |-> v] /\ cache'[a].main = cache[a].main
    BY <2>1, <2>4, CacheTypes DEF Engine!PstoreBack, Engine!Store
  <2>. QED BY <2>3, <2>4, <2>5 DEF InvInFlight
<1>4. ASSUME NEW u \in Thread, FinishStore(u)
      PROVE  InvInFlight'
  <2>1. Engine!PstoreSeq /\ next' = next
    BY <1>4 DEF FinishStore, Engine!PstoreMain
  <2>2. InFlight /\ store' = store
    BY <2>1 DEF Engine!PstoreSeq, InFlight
  <2>3. \A a \in Addr : cache'[a].main = cache[a].main
    BY <2>1, CacheTypes DEF Engine!PstoreSeq, Engine!Store
  <2>. QED BY <1>2, <1>4, <2>1, <2>2, <2>3, InFlightStays DEF Crash, Engine!Crash
<1>5. CASE Evict \/ UNCHANGED vars
  BY <1>1, <1>2, <1>5, InFlightStays
     DEF Evict, Engine!Evict, Engine!WriteBack, Engine!engineVars, vars, engine, InFlight
<1>6. ASSUME NEW u \in Thread, Register(u) \/ CallUpdate(u) \/ Combine(u)
                               \/ StartRead(u) \/ LockRead(u) \/ Load(u) \/ EndRead(u)
      PROVE  InvInFlight'
  <2>1. UNCHANGED <<engine, next>>
    BY <1>6 DEF Register, CallUpdate, Combine, StartRead, LockRead, Load, EndRead
  <2>. QED BY <1>1, <1>2, <2>1, InFlightStays DEF engine, InFlight
<1>. QED BY <1>1, <1>2, <1>3, <1>4, <1>5, <1>6 DEF Next
-----------------------------------------------------------------------------
(* Loads of a reader are of words that no store changes. *)
LEMMA SeenKept ==
  ASSUME FCInv, InvSeen, [Next]_vars
  PROVE  InvSeen'
<1>. USE Types
<1>0. NotRead \in [Addr -> 0 .. Modulus] /\ \A a \in Addr : NotRead[a] = Modulus
  BY FCAssumption DEF NotRead
<1>1. CASE Crash
  <2>1. seen' = [t \in Thread |-> NotRead]
    BY <1>1 DEF Crash
  <2>. HIDE DEF NotRead
  <2>2. seen' \in [Thread -> [Addr -> 0 .. Modulus]] /\ \A t \in Thread : seen'[t] = NotRead
    BY <1>0, <2>1
  <2>3. NotRead' = NotRead
    BY DEF NotRead
  <2>. QED BY <1>0, <2>2, <2>3 DEF InvSeen
<1>2. ASSUME \A t \in Thread : rd[t] # "shared", UNCHANGED seen,
             \A t \in Thread : rd'[t] = rd[t]
      PROVE  InvSeen'
  <2>1. \A t \in Thread : seen[t] = NotRead
    BY <1>2 DEF InvSeen
  <2>2. \A t \in Thread, a \in Addr : seen[t][a] = Modulus
    BY <2>1 DEF NotRead
  <2>. QED BY <1>2, <2>1, <2>2 DEF InvSeen, NotRead
<1>3. CASE Boot
  <2>1. \A t \in Thread : rd[t] = "out"
    BY <1>3, BootGoesOn DEF FCInv, InvTurn, Comb!CombInv, Comb!InvPlaces
  <2>. QED BY <1>2, <1>3, <2>1 DEF Boot, combining
<1>4. ASSUME NEW u \in Thread, BeginTx(u) \/ Increment(u) \/ FinishStore(u)
                               \/ FunctionEnds(u) \/ EndTx(u)
      PROVE  InvSeen'
  <2>1. pc[u] \in {"begin", "apply"}
    BY <1>4 DEF BeginTx, Increment, FinishStore, FunctionEnds, EndTx, Runs, FC!InLoop,
                FC!BeginCombined
  <2>2. UNCHANGED <<seen, rd>>
    BY <1>4 DEF BeginTx, Increment, FinishStore, FunctionEnds, EndTx, FC!BeginCombined,
                FC!RunFunction, FC!EndCombined, FC!lockVars, combining
  <2>. QED BY <1>2, <2>1, <2>2, ApplyAlone
<1>5. CASE Evict \/ UNCHANGED vars
  BY <1>5 DEF Evict, Engine!Evict, Engine!WriteBack, vars, engine, combining, InvSeen
<1>6. ASSUME NEW u \in Thread, Register(u) \/ CallUpdate(u) \/ Combine(u) \/ StartRead(u) \/ LockRead(u)
      PROVE  InvSeen'
  <2>1. UNCHANGED <<cache, seen>>
    BY <1>6 DEF Register, CallUpdate, Combine, StartRead, LockRead, engine
  <2>2. \A t \in Thread : rd'[t] # "shared" => rd[t] # "shared"
    <3>1. ASSUME NEW t \in Thread \ {u} PROVE rd'[t] = rd[t]
      BY <1>6, OthersStay
    <3>2. rd'[u] # "shared" => rd[u] # "shared"
      BY <1>6 DEF Register, CallUpdate, Combine, StartRead, LockRead, FC!Register, FC!EndThread,
         FC!Announce, FC!Prologue, FC!TryLock, FC!CheckDone, FC!StartCopy, FC!CopyNext,
         FC!NothingToDo, FC!StartWait, FC!Wait, FC!StartScan, FC!ScanStep, FC!ScanEnd,
         FC!SeesFree, FC!SeesTaken, FC!CASWon, FC!CASLost, FC!ExclusiveUnlock, FC!SkipFunction,
         FC!Epilogue, FC!ClearNext, FC!Unlock, FC!StartRead, FC!LockRead, FC!Arrive,
         FC!AcquireShared, FC!EnterShared, FC!GiveWay, FC!Depart, FC!StopSpinning, FC!lockVars
    <3>. QED BY <3>1, <3>2
  <2>. QED BY <2>1, <2>2 DEF InvSeen
<1>7. ASSUME NEW u \in Thread, Load(u)
      PROVE  InvSeen'
  <2>1. PICK a \in Addr : /\ rd[u] = "shared" /\ seen[u][a] = Modulus
                          /\ seen' = [seen EXCEPT ![u][a] = cache[a].main]
    BY <1>7 DEF Load
  <2>2. UNCHANGED <<cache, rd>>
    BY <1>7 DEF Load, engine, combining
  <2>3. cache[a].main \in 0 .. Modulus
    BY CacheTypes, FCAssumption DEF Val
  <2>. QED BY <2>1, <2>2, <2>3 DEF InvSeen
<1>8. ASSUME NEW u \in Thread, EndRead(u)
      PROVE  InvSeen'
  <2>1. seen' = [seen EXCEPT ![u] = NotRead] /\ cache' = cache /\ rd' = [rd EXCEPT ![u] = "out"]
    BY <1>8 DEF EndRead, engine, FC!EndRead, FC!SharedUnlock
  <2>2. NotRead \in [Addr -> 0 .. Modulus]
    BY FCAssumption DEF NotRead
  <2>. QED BY <2>1, <2>2 DEF InvSeen, NotRead
<1>. QED BY <1>1, <1>3, <1>4, <1>5, <1>6, <1>7, <1>8 DEF Next
-----------------------------------------------------------------------------
(* What a step does to the call of a thread. *)
ThreadStep(t) ==
  \/ Register(t) \/ CallUpdate(t) \/ Combine(t) \/ BeginTx(t) \/ Increment(t)
  \/ FinishStore(t) \/ FunctionEnds(t) \/ EndTx(t)
  \/ StartRead(t) \/ LockRead(t) \/ Load(t) \/ EndRead(t)

Returns(t) == FC!CheckDone(t) \/ FC!NothingToDo(t) \/ FC!Unlock(t)

LEMMA CallStays ==
  ASSUME FCInv, NEW t \in Thread, NEW u \in Thread, FC!InUpdate(u),
         ThreadStep(t), ~FunctionEnds(t), ~(Combine(t) /\ FC!ClearNext(t))
  PROVE  /\ tid'[u] = tid[u] /\ runs'[u] = runs[u] /\ fc'[tid[u]] = fc[tid[u]]
         /\ fn'[u] = fn[u]
         /\ FC!InUpdate(u)' \/ (u = t /\ Combine(t) /\ Returns(t))
<1>. USE Types DEF ThreadStep
<1>0. Comb!InUpdate(u) /\ Comb!Registered(u)
  BY DEF Comb!InUpdate, FC!InUpdate, FCInv, Comb!CombInv, Comb!InvPlaces
<1>1. CASE Register(t)
  <2>1. u # t
    BY <1>1 DEF Register, FC!Register, FC!EndThread, FC!InUpdate
  <2>. QED BY <1>1, <2>1, OthersStay
           DEF Register, FC!Register, FC!EndThread, FC!combVars, FC!InUpdate
<1>2. CASE CallUpdate(t)
  <2>1. u # t /\ fc' = [fc EXCEPT ![tid[t]] = t] /\ runs' = [runs EXCEPT ![t] = 0]
    BY <1>2 DEF CallUpdate, FC!Announce, FC!InUpdate
  <2>2. tid[t] # tid[u]
    BY <1>0, <2>1, Comb!OwnEntry, Assumptions DEF FCInv
  <2>. QED BY <1>2, <2>1, <2>2, OthersStay DEF FC!InUpdate
<1>3. CASE Combine(t)
  <2>1. tid' = tid /\ runs' = runs /\ fc' = fc /\ fn' = fn
    BY <1>3 DEF Combine, FC!Prologue, FC!TryLock, FC!CheckDone, FC!StartCopy, FC!CopyNext,
       FC!NothingToDo, FC!StartWait, FC!Wait, FC!SkipFunction, FC!Epilogue, FC!Unlock,
       FC!registryVars
  <2>2. CASE u # t
    BY <1>3, <2>1, <2>2, OthersStay DEF FC!InUpdate
  <2>3. CASE u = t /\ ~Returns(t)
    BY <1>3, <2>1, <2>3 DEF Returns, Combine, FC!Prologue, FC!TryLock, FC!StartCopy,
       FC!CopyNext, FC!StartWait, FC!Wait, FC!SkipFunction, FC!Epilogue, FC!Goto, FC!InUpdate
  <2>. QED BY <1>3, <2>1, <2>2, <2>3
<1>4. CASE BeginTx(t) \/ EndTx(t)
  <2>1. tid' = tid /\ runs' = runs /\ fc' = fc /\ fn' = fn
    BY <1>4 DEF BeginTx, EndTx, FC!BeginCombined, FC!EndCombined, FC!registryVars, combining
  <2>2. FC!InUpdate(u)'
    BY <1>4 DEF BeginTx, EndTx, FC!BeginCombined, FC!EndCombined, FC!Goto, combining, FC!InUpdate
  <2>. QED BY <2>1, <2>2
<1>5. CASE Increment(t) \/ FinishStore(t) \/ Load(t)
  BY <1>5 DEF Increment, FinishStore, Load, combining, FC!InUpdate
<1>6. CASE StartRead(t) \/ LockRead(t) \/ EndRead(t)
  <2>1. tid' = tid /\ runs' = runs /\ fc' = fc /\ fn' = fn
    BY <1>6 DEF StartRead, LockRead, EndRead, FC!StartRead, FC!LockRead, FC!EndRead,
                FC!registryVars, FC!combVars
  <2>2. u # t
    BY <1>6 DEF StartRead, LockRead, EndRead, FC!StartRead, FC!LockRead, FC!EndRead, FC!InUpdate
  <2>. QED BY <1>6, <2>1, <2>2, OthersStay DEF FC!InUpdate
<1>. QED BY <1>1, <1>2, <1>3, <1>4, <1>5, <1>6

LEMMA NewCall ==
  ASSUME FCInv, NEW t \in Thread, NEW u \in Thread, ThreadStep(t),
         ~FC!InUpdate(u), FC!InUpdate(u)'
  PROVE  u = t /\ CallUpdate(t) /\ runs'[u] = 0
<1>. USE Types DEF ThreadStep
<1>1. u = t
  BY OthersStay DEF FC!InUpdate
<1>2. ~Combine(t)
  BY <1>1 DEF Combine, FC!Prologue, FC!TryLock, FC!CheckDone, FC!StartCopy, FC!CopyNext,
     FC!NothingToDo, FC!StartWait, FC!Wait, FC!SkipFunction, FC!Epilogue, FC!ClearNext,
     FC!Unlock, FC!InUpdate, FC!InLoop
<1>3. ~BeginTx(t) /\ ~Increment(t) /\ ~FinishStore(t) /\ ~FunctionEnds(t) /\ ~EndTx(t)
  BY <1>1 DEF BeginTx, Increment, FinishStore, FunctionEnds, EndTx, FC!BeginCombined, Runs,
     FC!InLoop, FC!InUpdate
<1>4. ~StartRead(t) /\ ~LockRead(t) /\ ~Load(t) /\ ~EndRead(t) /\ ~Register(t)
  BY <1>1 DEF StartRead, LockRead, Load, EndRead, FC!StartRead, FC!LockRead, FC!EndRead,
     FC!Goto, FC!InUpdate, combining, Register, FC!Register, FC!EndThread, FC!combVars
<1>5. CallUpdate(t)
  BY <1>2, <1>3, <1>4
<1>. QED BY <1>1, <1>5 DEF CallUpdate, FC!Announce

(* A call returns when it has been told. *)
LEMMA ReturnIsTold ==
  ASSUME FCInv, NEW t \in Thread, Combine(t), Returns(t), ~FC!InUpdate(t)'
  PROVE  fc[tid[t]] = NoFunction /\ runs[t] = 1
<1>. USE Types
<1>0. Comb!InUpdate(t) /\ Comb!Registered(t) /\ runs' = runs /\ fc' = fc
  BY DEF Returns, Combine, FC!CheckDone, FC!NothingToDo, FC!Unlock, Comb!InUpdate, FCInv,
         Comb!CombInv, Comb!InvPlaces
<1>00. tid[t] \in Comb!Slot
  BY <1>0, Comb!OwnEntry, Assumptions DEF FCInv
<1>1. CASE FC!CheckDone(t)
  <2>1. fc[tid[t]] = NoFunction
    BY <1>1 DEF FC!CheckDone, FC!Goto, FC!InUpdate
  <2>. QED BY <1>0, <2>1 DEF FCInv, Comb!CombInv, Comb!InvRuns, Comb!HasRun
<1>2. CASE FC!NothingToDo(t)
  <2>1. pc[t] = "copying" /\ comb[t].next >= comb[t].max /\ comb[t].lfc[tid[t]] = NoFunction
    BY <1>00, <1>2 DEF FC!NothingToDo, FC!ToDo, FC!Slot, Comb!Slot
  <2>2. tid[t] < comb[t].max
    BY <2>1 DEF FCInv, Comb!CombInv, Comb!InvBounds, Comb!HasMax
  <2>3. tid[t] < comb[t].next
    BY <1>00, <2>1, <2>2 DEF Comb!Slot
  <2>4. fc[tid[t]] = NoFunction
    BY <2>1, <2>3 DEF FCInv, Comb!CombInv, Comb!InvOwn
  <2>. QED BY <1>0, <2>4 DEF FCInv, Comb!CombInv, Comb!InvRuns, Comb!HasRun
<1>3. CASE FC!Unlock(t)
  <2>1. pc[t] = "clear" /\ comb[t].next >= comb[t].max
    BY <1>3 DEF FC!Unlock
  <2>2. tid[t] < comb[t].max
    BY <2>1 DEF FCInv, Comb!CombInv, Comb!InvBounds, Comb!HasMax
  <2>3. tid[t] < comb[t].next
    BY <1>00, <2>1, <2>2 DEF Comb!Slot
  <2>4. fc[tid[t]] = NoFunction
    BY <2>1, <2>3 DEF FCInv, Comb!CombInv, Comb!InvOwn
  <2>. QED BY <1>0, <2>4 DEF FCInv, Comb!CombInv, Comb!InvRuns, Comb!HasRun
<1>. QED BY <1>1, <1>2, <1>3 DEF Returns
-----------------------------------------------------------------------------
(* The increments a transaction has made are changed by its stores alone.  *)
LEMMA UntoldKept ==
  ASSUME FCInv, [Next]_vars, Active, ~Crash, \A t \in Thread : ~FunctionEnds(t),
         NEW u \in Thread
  PROVE  Untold(u)' <=> Untold(u)
<1>1. ~Boot
  BY DEF Boot, Active
<1>2. CASE Evict \/ UNCHANGED vars
  BY <1>2 DEF Evict, vars, combining, Untold, FC!InUpdate
<1>3. ASSUME NEW t \in Thread, ThreadStep(t)
      PROVE  Untold(u)' <=> Untold(u)
  <2>1. ~(Combine(t) /\ FC!ClearNext(t))
    BY IdleOutsideOfApply DEF FC!ClearNext, FC!InLoop, Active, Durable
  <2>2. CASE FC!InUpdate(u)
    <3>1. CASE FC!InUpdate(u)'
      BY <1>3, <2>1, <2>2, <3>1, CallStays DEF Untold
    <3>2. CASE ~FC!InUpdate(u)'
      <4>1. fc[tid[u]] = NoFunction
        BY <1>3, <2>1, <2>2, <3>2, CallStays, ReturnIsTold
      <4>. QED BY <3>2, <4>1, FCAssumption DEF Untold
    <3>. QED BY <3>1, <3>2
  <2>3. CASE ~FC!InUpdate(u)
    BY <1>3, <2>3, NewCall DEF Untold
  <2>. QED BY <2>2, <2>3
<1>. QED BY <1>1, <1>2, <1>3 DEF Next, ThreadStep

LEMMA IncrementedIs ==
  ASSUME FCInv, InvNext, [Next]_vars, Active, ~Crash, \A t \in Thread : ~FunctionEnds(t),
         NEW u \in Thread, NEW i \in Nat \ {0}
  PROVE  Incremented(u, i)' <=>
           Untold(u) \/ \E t \in Thread : Runs(t) /\ FC!Current(t) = u /\ i < StoredUpTo'
<1>1. Untold(u)' <=> Untold(u)
  BY UntoldKept
<1>2. ASSUME NEW t \in Thread, Runs(t)
      PROVE  Runs(t)' /\ FC!Current(t)' = FC!Current(t)
  BY <1>2, RunsKept
<1>3. ASSUME NEW t \in Thread, Runs(t)', ~Runs(t)
      PROVE  ~(i < StoredUpTo')
  BY <1>3, RunsNew DEF StoredUpTo
<1>. QED BY <1>1, <1>2, <1>3 DEF Incremented

LEMMA IncrementsOfCalls ==
  ASSUME FCInv, NEW u \in Thread, NEW i, Incremented(u, i)
  PROVE  FC!InUpdate(u)
BY CurrentIs DEF Incremented, Untold

LEMMA IncsKept ==
  ASSUME FCInv, InvNext, [Next]_vars, Active, ~Crash, \A t \in Thread : ~FunctionEnds(t),
         StoredUpTo' = StoredUpTo
  PROVE  \A a \in Addr : Incs(a)' = Incs(a)
<1>. SUFFICES ASSUME NEW a \in Addr PROVE Incs(a)' = Incs(a)
  OBVIOUS
<1>1. ASSUME NEW u \in Thread, NEW i \in Nat \ {0}
      PROVE  Incremented(u, i)' <=> Incremented(u, i)
  BY <1>1, IncrementedIs DEF Incremented
<1>2. fn' \in [Thread -> Seq(Addr)] /\ fn \in [Thread -> Seq(Addr)]
  BY FCNextInv, Types DEF FCInv, InvFunction
<1>3. ASSUME NEW u \in Thread PROVE IncsOf(u, a)' = IncsOf(u, a)
  <2>1. DOMAIN fn[u] \subseteq Nat \ {0} /\ DOMAIN fn'[u] \subseteq Nat \ {0}
    BY <1>2
  <2>2. CASE fn'[u] = fn[u]
    BY <1>1, <2>1, <2>2 DEF IncsOf
  <2>3. CASE fn'[u] # fn[u]
    <3>1. ~FC!InUpdate(u)
      BY <2>3, FnKept
    <3>2. \A i : ~Incremented(u, i)
      BY <3>1, IncrementsOfCalls
    <3>. QED BY <1>1, <2>1, <3>2 DEF IncsOf
  <2>. QED BY <2>2, <2>3
<1>. QED BY <1>3 DEF Incs

LEMMA StoreIsVal ==
  ASSUME FCInv, ~Booting
  PROVE  \A a \in Addr : Eng!StoreMem[a] \in Val /\ Eng!StoreMem[a] \in Nat
<1>1. ~Eng!Down
  BY DEF Booting, Eng!Down
<1>2. Eng!StoreMem = Eng!DurableMem
  BY <1>1, Eng!InUse, Assumptions DEF FCInv
<1>3. ASSUME NEW a \in Addr PROVE pm[a].back \in Val /\ pm[a].main \in Val
  BY DEF FCInv, Eng!TypeOK, Eng!Persist, Addr, Engine!Addr, Eng!Addr
<1>4. Val \subseteq Nat
  BY FCAssumption DEF Val
<1>. QED BY <1>2, <1>3, <1>4 DEF Eng!DurableMem, Eng!Recovered, Addr, Engine!Addr, Eng!Addr

(* A store to main is one more of them. *)
LEMMA OneMore ==
  ASSUME FCInv, InvNext, InvWork, [Next]_vars, Active, ~Crash,
         \A t \in Thread : ~FunctionEnds(t),
         NEW t \in Thread, Runs(t), NEW n \in DOMAIN Running(t),
         StoredUpTo = n, StoredUpTo' = n + 1, fn' = fn, Eng!StoreMem' = Eng!StoreMem,
         NEW b \in Addr, Running(t)[n] = b,
         \A a \in Addr : cache'[a].main = IF a = b THEN (cache[a].main + 1) % Modulus
                                          ELSE cache[a].main
  PROVE  InvWork'
<1>. DEFINE u == FC!Current(t)
<1>0. u \in Thread /\ ~Untold(u) /\ fn[u] = Running(t) /\ fn[u] \in Seq(Addr) /\ n \in Nat \ {0}
  BY CurrentIs, Types DEF Untold, Running
<1>00. \A v \in Thread : Runs(v) => v = t
  BY OneCombines DEF OneApplies, Runs, FC!InLoop
<1>1. ASSUME NEW v \in Thread, NEW i \in Nat \ {0}
      PROVE  Incremented(v, i)' <=> Incremented(v, i) \/ (v = u /\ i = n)
  <2>1. Incremented(v, i) <=> Untold(v) \/ (v = u /\ i < n)
    BY <1>00 DEF Incremented
  <2>2. Incremented(v, i)' <=> Untold(v) \/ (v = u /\ i < n + 1)
    BY <1>00, IncrementedIs
  <2>. QED BY <1>0, <2>1, <2>2
<1>2. ~Incremented(u, n)
  BY <1>0, <1>00 DEF Incremented
<1>3. ASSUME NEW v \in Thread, NEW a \in Addr
      PROVE  IncsOf(v, a)' = IF v = u /\ a = b THEN IncsOf(v, a) \cup {n} ELSE IncsOf(v, a)
  <2>1. DOMAIN fn[v] \subseteq Nat \ {0}
    BY Types
  <2>2. CASE v = u /\ a = b
    BY <1>0, <1>1, <2>1, <2>2 DEF IncsOf
  <2>3. CASE ~(v = u /\ a = b)
    BY <1>0, <1>1, <2>1, <2>3 DEF IncsOf
  <2>. QED BY <2>2, <2>3
<1>4. ASSUME NEW a \in Addr, a # b
      PROVE  Incs(a)' = Incs(a)
  BY <1>3, <1>4 DEF Incs
<1>5. Incs(b)' = Incs(b) \cup {<<u, n>>} /\ <<u, n>> \notin Incs(b)
  <2>1. n \notin IncsOf(u, b)
    BY <1>2 DEF IncsOf
  <2>2. Incs(b)' = Incs(b) \cup {<<u, n>>}
    BY <1>0, <1>3 DEF Incs
  <2>. QED BY <2>1, <2>2 DEF Incs
<1>6. ASSUME NEW a \in Addr
      PROVE  /\ IsFiniteSet(Incs(a)')
             /\ cache'[a].main = (Eng!StoreMem[a] + Cardinality(Incs(a)')) % Modulus
  <2>1. /\ IsFiniteSet(Incs(a))
        /\ cache[a].main = (Eng!StoreMem[a] + Cardinality(Incs(a))) % Modulus
    BY DEF InvWork
  <2>2. CASE a # b
    BY <1>4, <2>1, <2>2
  <2>3. CASE a = b
    <3>1. IsFiniteSet(Incs(a)') /\ Cardinality(Incs(a)') = Cardinality(Incs(a)) + 1
      BY <1>5, <2>1, <2>3, FS_AddElement
    <3>2. Cardinality(Incs(a)) \in Nat
      BY <2>1, FS_CardinalityType
    <3>3. Eng!StoreMem[a] \in Nat
      BY StoreIsVal DEF Active
    <3>. DEFINE x == Eng!StoreMem[a] + Cardinality(Incs(a))
    <3>4. x \in Nat /\ Eng!StoreMem[a] + Cardinality(Incs(a)') = x + 1
      BY <3>1, <3>2, <3>3
    <3>5. ((x % Modulus) + 1) % Modulus = (x + 1) % Modulus
      BY <3>4, ModStep, FCAssumption
    <3>6. cache'[a].main = ((x % Modulus) + 1) % Modulus
      BY <2>1, <2>3
    <3>. QED BY <3>1, <3>4, <3>5, <3>6
  <2>. QED BY <2>2, <2>3
<1>. QED BY <1>6 DEF InvWork

(* A step that stores to no main, inside of a transaction. *)
LEMMA WorkSame ==
  ASSUME FCInv, InvNext, InvWork, [Next]_vars, Active, ~Crash,
         \A t \in Thread : ~FunctionEnds(t), StoredUpTo' = StoredUpTo,
         Eng!StoreMem' = Eng!StoreMem, \A a \in Addr : cache'[a].main = cache[a].main
  PROVE  InvWork'
BY IncsKept DEF InvWork

LEMMA WorkBegins ==
  ASSUME FCInv, InvNext, NEW t \in Thread, BeginTx(t)
  PROVE  InvWork'
<1>1. /\ pc[t] = "begin" /\ epc = "idle" /\ pc' = [pc EXCEPT ![t] = "apply"] /\ epc' = "tx"
      /\ UNCHANGED <<fc, tid, runs, cache, pm, fn, next>>
  BY DEF BeginTx, FC!BeginCombined, FC!Goto, Engine!BeginTx, FC!registryVars
<1>2. \A u \in Thread : ~Untold(u)
  BY <1>1, ApplyAlone, UntoldHasCombiner
<1>3. \A u \in Thread : ~Untold(u)'
  BY <1>1, <1>2, Types DEF Untold, FC!InUpdate
<1>4. next = 1
  BY <1>1, ApplyAlone DEF InvNext, Runs, FC!InLoop
<1>5. \A u \in Thread, i \in Nat \ {0} : ~Incremented(u, i)'
  BY <1>1, <1>3, <1>4 DEF Incremented, StoredUpTo, InFlight
<1>6. \A u \in Thread : DOMAIN fn'[u] \subseteq Nat \ {0}
  BY <1>1, Types
<1>7. \A a \in Addr : Incs(a)' = {}
  BY <1>5, <1>6 DEF Incs, IncsOf
<1>8. Eng!StoreMem' = Eng!StoreMem
  BY <1>1, SamePm
<1>9. Eng!StoreMem = Eng!VolatileMem
  BY <1>1, Eng!IdleMem, Assumptions DEF FCInv, Eng!IdleFacts
<1>10. ~Booting
  BY <1>1, ApplyAlone
<1>11. ASSUME NEW a \in Addr
       PROVE  /\ IsFiniteSet(Incs(a)')
              /\ cache'[a].main = (Eng!StoreMem'[a] + Cardinality(Incs(a)')) % Modulus
  <2>1. cache'[a].main = Eng!StoreMem[a] /\ Eng!StoreMem[a] \in Val
    BY <1>1, <1>9, <1>10, StoreIsVal DEF Eng!VolatileMem, Addr, Engine!Addr, Eng!Addr
  <2>2. Eng!StoreMem[a] = (Eng!StoreMem[a] + 0) % Modulus
    BY <2>1, ModSmall, FCAssumption DEF Val
  <2>. QED BY <1>7, <1>8, <2>1, <2>2, FS_EmptySet
<1>. QED BY <1>11 DEF InvWork

(* When a function ends, the increments of a call are those of a call that *)
(* has yet to be told.                                                     *)
LEMMA WorkPassesOn ==
  ASSUME FCInv, InvWork, NEW t \in Thread, FunctionEnds(t)
  PROVE  InvWork'
<1>. DEFINE u == FC!Current(t)
<1>1. /\ Runs(t) /\ epc = "tx" /\ next > Len(Running(t)) /\ next' = 1
      /\ runs' = [runs EXCEPT ![u] = @ + 1]
      /\ UNCHANGED <<pc, fc, tid, cache, pm, epc, creating, fn>>
  BY DEF FunctionEnds, FC!RunFunction, FC!registryVars, engine
<1>2. /\ u \in Thread /\ FC!InUpdate(u) /\ runs[u] = 0 /\ fc[tid[u]] = u
      /\ fn[u] = Running(t) /\ fn[u] \in Seq(Addr)
  BY <1>1, CurrentIs, Types DEF Running
<1>3. \A v \in Thread : Runs(v) => v = t
  BY <1>1, OneCombines DEF OneApplies, Runs, FC!InLoop
<1>4. \A v \in Thread : Untold(v)' <=> Untold(v) \/ v = u
  BY <1>1, <1>2, Types DEF Untold, FC!InUpdate
<1>5. StoredUpTo = next /\ StoredUpTo' = 1
  BY <1>1 DEF StoredUpTo, InFlight
<1>6. ASSUME NEW v \in Thread, NEW i \in DOMAIN fn[v]
      PROVE  Incremented(v, i)' <=> Incremented(v, i)
  <2>0. i \in Nat \ {0} /\ (v = u => i < next)
    BY <1>1, <1>2, Types
  <2>1. Incremented(v, i) <=> Untold(v) \/ (v = u /\ i < next)
    BY <1>1, <1>3, <1>5 DEF Incremented
  <2>2. Incremented(v, i)' <=> Untold(v) \/ v = u
    BY <1>4, <1>5, <2>0 DEF Incremented
  <2>. QED BY <2>0, <2>1, <2>2
<1>7. \A a \in Addr, v \in Thread : IncsOf(v, a)' = IncsOf(v, a)
  BY <1>1, <1>6 DEF IncsOf
<1>8. \A a \in Addr : Incs(a)' = Incs(a)
  BY <1>7 DEF Incs
<1>9. Eng!StoreMem' = Eng!StoreMem /\ (Active' <=> Active)
  BY <1>1, SamePm DEF Active, Booting, Durable
<1>. QED BY <1>1, <1>8, <1>9 DEF InvWork

LEMMA WorkKept ==
  ASSUME LinInv, [Next]_vars
  PROVE  InvWork'
<1>. SUFFICES ASSUME Active', ~Crash, \A t \in Thread : ~FunctionEnds(t) /\ ~BeginTx(t)
              PROVE  InvWork'
  BY WorkBegins, WorkPassesOn DEF LinInv, InvWork, Active, Booting, Crash, Engine!Crash
<1>. USE DEF LinInv
<1>1. ~Boot
  BY BootGoesOn DEF Active, Durable
<1>2. CASE Evict
  <2>1. UNCHANGED <<cache, epc, creating, next>>
    BY <1>2 DEF Evict, Engine!Evict, Engine!WriteBack, Engine!engineVars
  <2>2. Eng!TypeOK /\ Eng!TypeOK' /\ Eng!RecoveryInv /\ Eng!InvCreation /\ Eng!Evict
    BY <1>2, FCNextInv, SameTx DEF FCInv, Evict
  <2>3. Eng!DurableNow \/ UNCHANGED <<Eng!StoreMem, Eng!StoreWork, Eng!StorePhase>>
    BY <2>2, Eng!EvictStep, Assumptions
  <2>4. Eng!StorePhase' = "active"
    BY PhaseAfter, FCNextInv
  <2>5. Eng!StoreMem' = Eng!StoreMem /\ Eng!StorePhase = "active"
    BY <2>3, <2>4 DEF Eng!DurableNow
  <2>6. Active
    BY <2>5, PhaseIs
  <2>. QED BY <2>1, <2>5, <2>6, WorkSame DEF StoredUpTo, InFlight
<1>3. CASE UNCHANGED vars
  <2>1. UNCHANGED <<cache, pm, epc, creating, next>>
    BY <1>3 DEF vars, engine
  <2>2. Active
    BY <2>1 DEF Active, Booting, Durable
  <2>. QED BY <2>1, <2>2, SamePm, WorkSame DEF StoredUpTo, InFlight
<1>4. ASSUME NEW t \in Thread, Register(t) \/ CallUpdate(t) \/ Combine(t)
                               \/ StartRead(t) \/ LockRead(t) \/ Load(t) \/ EndRead(t)
      PROVE  InvWork'
  <2>1. UNCHANGED <<cache, pm, epc, creating, next>>
    BY <1>4 DEF Register, CallUpdate, Combine, StartRead, LockRead, Load, EndRead, engine
  <2>2. Active
    BY <2>1 DEF Active, Booting, Durable
  <2>. QED BY <2>1, <2>2, SamePm, WorkSame DEF StoredUpTo, InFlight
<1>5. ASSUME NEW t \in Thread, Increment(t)
      PROVE  InvWork'
  <2>. DEFINE b == Running(t)[next]
              v == (cache[b].main + 1) % Modulus
  <2>1. /\ Runs(t) /\ next <= Len(Running(t)) /\ next' = next + 1 /\ fn' = fn
        /\ epc = "tx" /\ pm' = pm /\ creating' = creating
        /\ Engine!PstoreBack(b, v) \/ Engine!PstoreAgain(b, v)
    BY <1>5 DEF Increment, Engine!Pstore, Engine!PstoreBack, Engine!PstoreAgain, Engine!Store,
                Engine!StorePWB
  <2>2. ~Booting /\ Running(t) \in Seq(Addr)
    BY <2>1, RunningFunction
  <2>3. next \in DOMAIN Running(t) /\ b \in Addr /\ next \in Nat \ {0}
    BY <2>1, <2>2, Types
  <2>4. Active /\ StoredUpTo = next /\ Eng!StoreMem' = Eng!StoreMem
    BY <2>1, <2>2, SamePm DEF Active, Durable, StoredUpTo, InFlight
  <2>5. CASE Engine!PstoreBack(b, v)
    <3>1. StoredUpTo' = next
      BY <2>1, <2>2, <2>3, <2>5
         DEF Engine!PstoreBack, StoredUpTo, InFlight, Booting
    <3>2. \A a \in Addr : cache'[a].main = cache[a].main
      BY <2>5, CacheTypes DEF Engine!PstoreBack, Engine!Store
    <3>. QED BY <2>4, <3>1, <3>2, WorkSame
  <2>6. CASE Engine!PstoreAgain(b, v)
    <3>1. StoredUpTo' = next + 1
      BY <2>1, <2>6 DEF Engine!PstoreAgain, StoredUpTo, InFlight
    <3>2. \A a \in Addr : cache'[a].main = IF a = b THEN v ELSE cache[a].main
      BY <2>6, CacheTypes DEF Engine!PstoreAgain, Engine!StorePWB
    <3>. QED BY <2>1, <2>3, <2>4, <3>1, <3>2, OneMore
  <2>. QED BY <2>1, <2>5, <2>6
<1>6. ASSUME NEW t \in Thread, FinishStore(t)
      PROVE  InvWork'
  <2>1. /\ Runs(t) /\ next' = next /\ fn' = fn /\ pm' = pm /\ creating' = creating
        /\ Engine!PstoreSeq \/ Engine!PstoreMain
    BY <1>6 DEF FinishStore, Engine!PstoreSeq, Engine!PstoreMain, Engine!Store, Engine!StorePWB
  <2>2. ~Booting /\ epc \in {"pstoreSeq", "pstoreMain"} /\ next \in Nat \ {0}
    BY <2>1, RunningFunction, Types DEF Engine!PstoreSeq, Engine!PstoreMain
  <2>3. InFlight /\ ~creating /\ StoredUpTo = next - 1 /\ Active /\ Eng!StoreMem' = Eng!StoreMem
    BY <2>1, <2>2, SamePm DEF Active, Durable, StoredUpTo, InFlight, Booting
  <2>4. CASE Engine!PstoreSeq
    <3>1. StoredUpTo' = next - 1
      BY <2>1, <2>3, <2>4 DEF Engine!PstoreSeq, StoredUpTo, InFlight
    <3>2. \A a \in Addr : cache'[a].main = cache[a].main
      BY <2>4, CacheTypes DEF Engine!PstoreSeq, Engine!Store
    <3>. QED BY <2>3, <3>1, <3>2, WorkSame
  <2>5. CASE Engine!PstoreMain
    <3>. DEFINE b == store.addr
    <3>1. StoredUpTo' = (next - 1) + 1
      BY <2>1, <2>2, <2>5 DEF Engine!PstoreMain, StoredUpTo, InFlight
    <3>2. PICK u \in Thread : /\ Runs(u) /\ next - 1 \in DOMAIN Running(u)
                              /\ b = Running(u)[next - 1]
      BY <2>3 DEF InvInFlight
    <3>3. b \in Addr
      BY <3>2, RunningFunction
    <3>4. store.val = (cache[b].main + 1) % Modulus
      BY <2>3 DEF InvInFlight
    <3>5. \A a \in Addr : cache'[a].main = IF a = b THEN (cache[b].main + 1) % Modulus
                                           ELSE cache[a].main
      BY <2>5, <3>3, <3>4, CacheTypes DEF Engine!PstoreMain, Engine!StorePWB
    <3>. QED BY <2>1, <2>3, <3>1, <3>2, <3>3, <3>5, OneMore
  <2>. QED BY <2>1, <2>4, <2>5
<1>7. ASSUME NEW t \in Thread, EndTx(t)
      PROVE  InvWork'
  <2>1. ~Engine!EndTxSync
    BY DEF Engine!EndTxSync, Active, Durable
  <2>2. /\ epc \in {"tx", "fence"} /\ epc' \in {"fence", "sync"} /\ creating' = creating
        /\ pm' = pm /\ next' = next /\ ~Booting
    BY <1>7, <2>1 DEF EndTx, Engine!EndTx, Engine!EndTxIncrement, Engine!StorePWB, Active, Booting
  <2>3. \A a \in Addr : cache'[a].main = cache[a].main
    BY <1>7, <2>1, CacheTypes
       DEF EndTx, Engine!EndTx, Engine!EndTxIncrement, Engine!StorePWB, Engine!pmd, Engine!Addr, Addr
  <2>4. Active /\ StoredUpTo' = StoredUpTo /\ Eng!StoreMem' = Eng!StoreMem
    BY <2>2, SamePm DEF Active, Durable, StoredUpTo, InFlight
  <2>. QED BY <2>3, <2>4, WorkSame
<1>. QED BY <1>1, <1>2, <1>3, <1>4, <1>5, <1>6, <1>7 DEF Next
-----------------------------------------------------------------------------
(* The invariant holds. *)
LEMMA LinInit == Init => LinInv
<1>. SUFFICES ASSUME Init PROVE LinInv
  OBVIOUS
<1>1. FCInv
  BY FCInitInv
<1>2. /\ Eng!Init /\ epc = "down" /\ next = 1 /\ pc = [t \in Thread |-> "out"]
      /\ seen = [t \in Thread |-> NotRead]
  BY SameInit DEF Init, Eng!Init, Comb!Init, Comb!CombInit
<1>3. Eng!InvCreation
  BY <1>2, Eng!CreationInit, Assumptions
<1>4. InvWork /\ InvInFlight /\ InvNext /\ InvEnding /\ InvToDo
  BY <1>2 DEF InvWork, Active, Booting, InvInFlight, InFlight, InvNext, InvEnding, InvToDo
<1>5. InvSeen
  <2>1. NotRead \in [Addr -> 0 .. Modulus] /\ \A a \in Addr : NotRead[a] = Modulus
    BY FCAssumption DEF NotRead
  <2>. HIDE DEF NotRead
  <2>. QED BY <1>2, <2>1 DEF InvSeen
<1>. QED BY <1>1, <1>3, <1>4, <1>5 DEF LinInv

LEMMA LinNext ==
  ASSUME LinInv, [Next]_vars
  PROVE  LinInv'
<1>1. FCInv'
  BY FCNextInv DEF LinInv
<1>2. Eng!InvCreation'
  BY EngSteps, Eng!CreationNext, Assumptions DEF LinInv, FCInv
<1>. QED BY <1>1, <1>2, WorkKept, InFlightKept, NextKept, EndingKept, ToDoKept, SeenKept
         DEF LinInv
-----------------------------------------------------------------------------
(* A call looks as it did. *)
LEMMA OpSame ==
  ASSUME NEW u \in Thread,
         \/ FC!InUpdate(u) /\ FC!InUpdate(u)' /\ fn'[u] = fn[u] /\ (Done(u)' <=> Done(u))
         \/ pc[u] = "read" /\ pc'[u] = "read" /\ seen'[u] = seen[u]
         \/ /\ pc[u] = "read" /\ pc'[u] = "read"
            /\ \E a \in Addr : seen[u][a] = Modulus
            /\ \E a \in Addr : seen'[u][a] = Modulus
         \/ pc[u] = "out" /\ pc'[u] = "out"
  PROVE  Op(u)' = Op(u)
<1>. USE OpsOf DEF OpFacts
<1>1. CASE FC!InUpdate(u) /\ FC!InUpdate(u)' /\ fn'[u] = fn[u] /\ (Done(u)' <=> Done(u))
  <2>1. Done(u)' = Done(u)
    BY <1>1 DEF Done
  <2>. QED BY <1>1, <2>1
<1>2. CASE pc[u] = "read" /\ pc'[u] = "read" /\ seen'[u] = seen[u]
  BY <1>2 DEF NotRead
<1>3. CASE /\ pc[u] = "read" /\ pc'[u] = "read"
           /\ \E a \in Addr : seen[u][a] = Modulus
           /\ \E a \in Addr : seen'[u][a] = Modulus
  BY <1>3 DEF NotRead
<1>4. CASE pc[u] = "out" /\ pc'[u] = "out"
  BY <1>4
<1>. QED BY <1>1, <1>2, <1>3, <1>4

(* No step of a thread makes a transaction durable but a write-back, and   *)
(* none takes that back but the start of the next transaction.             *)
LEMMA DurableKept ==
  ASSUME FCInv, NEW t \in Thread, ThreadStep(t), ~BeginTx(t)
  PROVE  Durable' <=> Durable
<1>. USE DEF ThreadStep
<1>1. CASE \/ Register(t) \/ CallUpdate(t) \/ Combine(t) \/ FunctionEnds(t)
           \/ StartRead(t) \/ LockRead(t) \/ Load(t) \/ EndRead(t)
  <2>1. UNCHANGED <<cache, pm, epc>>
    BY <1>1 DEF Register, CallUpdate, Combine, FunctionEnds, StartRead, LockRead, Load, EndRead,
                engine
  <2>. QED BY <2>1 DEF Durable
<1>2. CASE Increment(t) \/ FinishStore(t)
  BY <1>2 DEF Increment, FinishStore, Engine!Pstore, Engine!PstoreBack, Engine!PstoreAgain,
              Engine!PstoreSeq, Engine!PstoreMain, Durable
<1>3. CASE EndTx(t)
  <2>1. ~Booting /\ pc[t] = "apply"
    BY <1>3, ApplyAlone DEF EndTx
  <2>2. ~Eng!Down
    BY <2>1 DEF Booting, Eng!Down
  <2>3. CASE Engine!EndTx
    BY <2>3 DEF Engine!EndTx, Durable
  <2>4. CASE Engine!EndTxIncrement
    <3>1. epc = "fence" /\ epc' = "sync" /\ pm' = pm
          /\ cache' = [cache EXCEPT ![Engine!pmd] = [cache[Engine!pmd] EXCEPT !.p_seq = Engine!p_seq + 1]]
      BY <2>4 DEF Engine!EndTxIncrement, Engine!StorePWB
    <3>2. pm[Eng!pmd] = cache[Eng!pmd]
      BY <2>2, <3>1, Eng!InUse, Assumptions DEF FCInv
    <3>3. Engine!pmd \in DOMAIN cache /\ cache[Engine!pmd] \in [root : BOOLEAN, id : BOOLEAN, p_seq : Nat]
      BY DEF FCInv, Eng!TypeOK, Eng!PMetadata, Engine!pmd, Eng!pmd, Eng!Line
    <3>. QED BY <3>1, <3>2, <3>3 DEF Durable, Engine!pmd, Eng!pmd, Engine!p_seq
  <2>5. CASE Engine!EndTxSync
    <3>1. epc = "sync" /\ epc' = "idle" /\ Engine!Fenced /\ ~creating
      BY <2>5 DEF Engine!EndTxSync
    <3>2. pm[Eng!pmd] = cache[Eng!pmd]
      BY <3>1 DEF Engine!Fenced, Eng!pmd, FCInv, Eng!RecoveryInv, Eng!InvHeader
    <3>. QED BY <3>1, <3>2 DEF Durable, Eng!pmd, Engine!pmd
  <2>. QED BY <1>3, <2>3, <2>4, <2>5 DEF EndTx
<1>. QED BY <1>1, <1>2, <1>3

LEMMA DoneKept ==
  ASSUME FCInv, NEW t \in Thread, ThreadStep(t),
         NEW u \in Thread, FC!InUpdate(u), FC!InUpdate(u)'
  PROVE  Done(u)' <=> Done(u)
<1>1. CASE BeginTx(t)
  <2>1. pc[t] = "begin" /\ UNCHANGED <<fc, tid, runs>>
    BY <1>1 DEF BeginTx, FC!BeginCombined, FC!registryVars
  <2>2. ~Untold(u)
    BY <2>1, ApplyAlone, UntoldHasCombiner
  <2>. QED BY <2>1, <2>2 DEF Done, Untold
<1>2. CASE FunctionEnds(t)
  <2>1. /\ runs' = [runs EXCEPT ![FC!Current(t)] = @ + 1]
        /\ UNCHANGED <<fc, tid, epc>> /\ epc = "tx" /\ Runs(t)
    BY <1>2 DEF FunctionEnds, FC!RunFunction, FC!registryVars, engine
  <2>2. ~Durable /\ ~Durable'
    BY <2>1 DEF Durable
  <2>3. CASE u = FC!Current(t)
    BY <2>1, <2>2, <2>3, CurrentIs DEF Done
  <2>4. CASE u # FC!Current(t)
    BY <2>1, <2>2, <2>4, Types DEF Done
  <2>. QED BY <2>3, <2>4
<1>3. CASE Combine(t) /\ FC!ClearNext(t)
  <2>1. pc[t] = "clear" /\ UNCHANGED <<runs, epc>>
    BY <1>3 DEF Combine, FC!ClearNext, FC!InLoop, engine
  <2>2. Durable /\ Durable'
    BY <2>1, IdleOutsideOfApply DEF Durable
  <2>. QED BY <2>1, <2>2 DEF Done
<1>4. CASE ~BeginTx(t) /\ ~FunctionEnds(t) /\ ~(Combine(t) /\ FC!ClearNext(t))
  BY <1>4, CallStays, DurableKept DEF Done
<1>. QED BY <1>1, <1>2, <1>3, <1>4

LEMMA OthersOps ==
  ASSUME FCInv, InvSeen, NEW t \in Thread, ThreadStep(t), NEW u \in Thread \ {t}
  PROVE  Op(u)' = Op(u)
<1>1. pc'[u] = pc[u] /\ fn'[u] = fn[u]
  BY OthersStay DEF ThreadStep
<1>2. seen'[u] = seen[u]
  BY DEF ThreadStep, Register, CallUpdate, Combine, BeginTx, Increment, FinishStore, FunctionEnds,
         EndTx, StartRead, LockRead, Load, EndRead, InvSeen
<1>3. CASE FC!InUpdate(u)
  <2>1. FC!InUpdate(u)'
    BY <1>1, <1>3 DEF FC!InUpdate
  <2>. QED BY <1>1, <1>3, <2>1, DoneKept, OpSame
<1>4. CASE pc[u] \in {"read", "out"}
  BY <1>1, <1>2, <1>4, OpSame
<1>. QED BY <1>3, <1>4 DEF FC!InUpdate

LEMMA MemKept ==
  ASSUME NEW t \in Thread, ThreadStep(t)
  PROVE  Engine!StoreMem' = Engine!StoreMem
<1>1. pm' = pm
  BY DEF ThreadStep, Register, CallUpdate, Combine, BeginTx, Increment, FinishStore, FunctionEnds,
         EndTx, StartRead, LockRead, Load, EndRead, engine, Engine!BeginTx, Engine!Pstore,
         Engine!PstoreBack, Engine!PstoreAgain, Engine!PstoreSeq, Engine!PstoreMain,
         Engine!EndTx, Engine!EndTxIncrement, Engine!EndTxSync, Engine!Store, Engine!StorePWB
<1>. QED BY <1>1, SamePm, StoreIs
-----------------------------------------------------------------------------
(* The abstract transactional memory, in the terms of this module. *)
Ops == [t \in Thread |-> Op(t)]
Stays == UNCHANGED <<Engine!StoreMem, Ops>>
TMStep == [TM!Next]_(TM!tmVars)

LEMMA StaysIsStep == Stays => TMStep
BY DEF Stays, TMStep, Ops, TM!tmVars

LEMMA OpsSame ==
  ASSUME \A u \in Thread : Op(u)' = Op(u)
  PROVE  Ops' = Ops
BY DEF Ops

LEMMA OneOp ==
  ASSUME NEW t \in Thread, NEW o, Op(t)' = o,
         \A u \in Thread \ {t} : Op(u)' = Op(u)
  PROVE  TM!SetOp(t, o)
<1>1. \A u \in Thread : Ops'[u] = IF u = t THEN o ELSE Ops[u]
  BY DEF Ops
<1>2. Ops' = [Ops EXCEPT ![t] = o]
  BY <1>1 DEF Ops
<1>. QED BY <1>2 DEF TM!SetOp, Ops

(* The steps the abstract memory does not see.                             *)
LEMMA QuietStep ==
  ASSUME FCInv, InvSeen, NEW t \in Thread, ThreadStep(t),
         \/ FC!InUpdate(t) /\ FC!InUpdate(t)' /\ fn'[t] = fn[t]
         \/ Op(t)' = Op(t)
  PROVE  Stays
<1>1. Op(t)' = Op(t)
  BY DoneKept, OpSame
<1>. QED BY <1>1, OthersOps, OpsSame, MemKept DEF Stays

LEMMA UpdateSteps ==
  ASSUME FCInv, InvSeen, NEW t \in Thread,
         \/ Combine(t) /\ FC!InUpdate(t)'
         \/ BeginTx(t) \/ Increment(t) \/ FinishStore(t) \/ FunctionEnds(t) \/ EndTx(t)
  PROVE  Stays
<1>. USE Types DEF ThreadStep
<1>1. FC!InUpdate(t) /\ fn' = fn
  BY DEF Combine, BeginTx, Increment, FinishStore, FunctionEnds, EndTx, FC!Prologue, FC!TryLock,
         FC!CheckDone, FC!StartCopy, FC!CopyNext, FC!NothingToDo, FC!StartWait, FC!Wait,
         FC!SkipFunction, FC!Epilogue, FC!ClearNext, FC!Unlock, FC!BeginCombined, Runs,
         FC!InLoop, FC!InUpdate
<1>2. FC!InUpdate(t)'
  BY <1>1 DEF BeginTx, Increment, FinishStore, FunctionEnds, EndTx, FC!BeginCombined,
         FC!RunFunction, FC!EndCombined, FC!Goto, FC!InUpdate, combining
<1>. QED BY <1>1, <1>2, QuietStep

LEMMA CallUpdateStep ==
  ASSUME FCInv, InvSeen, NEW t \in Thread, CallUpdate(t)
  PROVE  TMStep
<1>. USE Types DEF ThreadStep
<1>1. PICK f \in Function : fn' = [fn EXCEPT ![t] = f]
  BY DEF CallUpdate
<1>2. pc[t] = "out" /\ pc'[t] = "try" /\ runs'[t] = 0
  BY DEF CallUpdate, FC!Announce, FC!Goto
<1>3. Op(t) = [kind |-> "none"]
  BY <1>2, OpsOf DEF OpFacts
<1>4. Done(t)' = FALSE
  BY <1>2 DEF Done
<1>5. Op(t)' = [kind |-> "update", fn |-> f, done |-> FALSE]
  <2>1. Op(t)' = [kind |-> "update", fn |-> fn'[t], done |-> Done(t)']
    BY <1>2, OpsOf DEF OpFacts, FC!InUpdate
  <2>. QED BY <1>1, <1>4, <2>1
<1>6. TM!SetOp(t, TM!Update(f, FALSE))
  BY <1>5, OneOp, OthersOps DEF TM!Update
<1>7. TM!CallUpdate(t)
  BY <1>3, <1>6, MemKept DEF TM!CallUpdate, TM!NoOp
<1>. QED BY <1>7 DEF TMStep, TM!Next

LEMMA ReturnUpdateStep ==
  ASSUME FCInv, InvSeen, NEW t \in Thread, Combine(t), ~FC!InUpdate(t)'
  PROVE  TMStep
<1>. USE Types DEF ThreadStep
<1>1. FC!InUpdate(t)
  BY DEF Combine, FC!Prologue, FC!TryLock, FC!CheckDone, FC!StartCopy, FC!CopyNext,
         FC!NothingToDo, FC!StartWait, FC!Wait, FC!SkipFunction, FC!Epilogue, FC!ClearNext,
         FC!Unlock, FC!InLoop, FC!InUpdate
<1>2. Returns(t)
  <2>1. ~FC!ClearNext(t)
    BY <1>1 DEF FC!ClearNext, FC!InUpdate
  <2>2. ~FunctionEnds(t)
    BY <1>1 DEF FunctionEnds, FC!RunFunction, FC!InUpdate
  <2>. QED BY <1>1, <2>1, <2>2, CallStays
<1>3. Done(t)
  BY <1>2, ReturnIsTold, FCAssumption DEF Done
<1>4. pc'[t] = "out"
  BY <1>2 DEF Returns, FC!CheckDone, FC!NothingToDo, FC!Unlock, FC!Goto, FC!InUpdate
<1>5. Op(t).kind = "update" /\ Op(t).done
  BY <1>1, <1>3, OpsOf DEF OpFacts
<1>6. Op(t)' = [kind |-> "none"]
  BY <1>4, OpsOf DEF OpFacts
<1>7. TM!SetOp(t, TM!NoOp)
  BY <1>6, OneOp, OthersOps DEF TM!NoOp
<1>8. TM!ReturnUpdate(t)
  BY <1>5, <1>7, MemKept DEF TM!ReturnUpdate
<1>. QED BY <1>8 DEF TMStep, TM!Next

LEMMA StartReadStep ==
  ASSUME FCInv, InvSeen, NEW t \in Thread, StartRead(t)
  PROVE  TMStep
<1>. USE Types DEF ThreadStep
<1>1. pc[t] = "out" /\ pc'[t] = "read" /\ seen' = seen
  BY DEF StartRead, FC!StartRead, FC!Goto
<1>2. rd[t] = "out"
  BY <1>1 DEF FCInv, Comb!CombInv, Comb!InvPlaces
<1>3. seen[t] = NotRead
  BY <1>2 DEF InvSeen
<1>4. Op(t) = [kind |-> "none"]
  BY <1>1, OpsOf DEF OpFacts
<1>5. Op(t)' = [kind |-> "read", result |-> NotRead]
  BY <1>1, <1>3, OpsOf DEF OpFacts, NotRead
<1>6. TM!SetOp(t, TM!Read(TM!NotRead))
  BY <1>5, OneOp, OthersOps DEF TM!Read, TM!NotRead, NotRead
<1>7. TM!CallRead(t)
  BY <1>4, <1>6, MemKept DEF TM!CallRead, TM!NoOp
<1>. QED BY <1>7 DEF TMStep, TM!Next

LEMMA ReaderIdle ==
  ASSUME FCInv, NEW t \in Thread, rd[t] = "shared"
  PROVE  epc = "idle" /\ Eng!VolatileMem = Eng!StoreMem
<1>1. pc[t] = "read" /\ ~Booting
  BY DEF FCInv, Comb!CombInv, Comb!InvPlaces, InvTurn
<1>2. \A u \in Thread : pc[u] # "apply"
  BY ApplyAlone
<1>3. epc = "idle"
  BY <1>1, <1>2 DEF FCInv, InvTurn
<1>. QED BY <1>3, Eng!IdleMem, Assumptions DEF FCInv, Eng!IdleFacts

(* The last load of a reader completes a state of the store. *)
LEMMA LoadStep ==
  ASSUME FCInv, InvSeen, InvSeen', NEW t \in Thread, Load(t)
  PROVE  TMStep
<1>. USE Types DEF ThreadStep
<1>1. PICK a \in Addr : seen[t][a] = Modulus /\ rd[t] = "shared"
  BY DEF Load
<1>2. pc[t] = "read" /\ pc' = pc /\ cache' = cache
  BY <1>1 DEF FCInv, Comb!CombInv, Comb!InvPlaces, Load, combining, engine
<1>3. CASE \E b \in Addr : seen'[t][b] = Modulus
  <2>1. Op(t)' = Op(t)
    BY <1>1, <1>2, <1>3, OpSame
  <2>. QED BY <2>1, QuietStep, StaysIsStep
<1>4. CASE \A b \in Addr : seen'[t][b] # Modulus
  <2>1. epc = "idle" /\ Eng!VolatileMem = Eng!StoreMem
    BY <1>1, ReaderIdle
  <2>2. seen'[t] \in [Addr -> 0 .. Modulus] /\ \A b \in Addr : seen'[t][b] = cache[b].main
    BY <1>2, <1>4 DEF InvSeen
  <2>3. Eng!VolatileMem = [b \in Addr |-> cache[b].main]
    BY DEF Eng!VolatileMem, Eng!Addr, Addr, Engine!Addr
  <2>4. seen'[t] = Engine!StoreMem
    BY <2>1, <2>2, <2>3, StoreIs
  <2>5. Op(t) = [kind |-> "read", result |-> NotRead]
    BY <1>1, <1>2, OpsOf DEF OpFacts
  <2>6. Op(t)' = [kind |-> "read", result |-> Engine!StoreMem]
    <3>1. Op(t)' = [kind |-> "read", result |-> seen'[t]]
      BY <1>2, <1>4, OpsOf DEF OpFacts
    <3>. QED BY <2>4, <3>1
  <2>7. TM!SetOp(t, TM!Read(Engine!StoreMem))
    BY <2>6, OneOp, OthersOps DEF TM!Read
  <2>8. TM!Snapshot(t)
    BY <2>5, <2>7, MemKept DEF TM!Snapshot, TM!Read, TM!NotRead, NotRead
  <2>. QED BY <2>8 DEF TMStep, TM!Next
<1>. QED BY <1>3, <1>4

LEMMA EndReadStep ==
  ASSUME FCInv, InvSeen, NEW t \in Thread, EndRead(t)
  PROVE  TMStep
<1>. USE Types DEF ThreadStep
<1>1. pc[t] = "read" /\ pc'[t] = "out" /\ \A a \in Addr : seen[t][a] # Modulus
  BY DEF EndRead, FC!EndRead, FC!Goto
<1>2. Op(t) = [kind |-> "read", result |-> seen[t]]
  BY <1>1, OpsOf DEF OpFacts
<1>3. seen[t] # NotRead
  <2>1. 1 \in Addr
    BY FCAssumption DEF Addr, Engine!Addr
  <2>. QED BY <1>1, <2>1 DEF NotRead
<1>4. Op(t)' = [kind |-> "none"]
  BY <1>1, OpsOf DEF OpFacts
<1>5. TM!SetOp(t, TM!NoOp)
  BY <1>4, OneOp, OthersOps DEF TM!NoOp
<1>6. TM!ReturnRead(t)
  BY <1>2, <1>3, <1>5, MemKept DEF TM!ReturnRead, TM!NotRead, NotRead
<1>. QED BY <1>6 DEF TMStep, TM!Next
-----------------------------------------------------------------------------
(* The steps of no thread. *)
LEMMA BootStep ==
  ASSUME FCInv, Boot
  PROVE  Stays
<1>1. \A u \in Thread : pc[u] = "out" /\ pc'[u] = "out"
  BY BootGoesOn DEF FCInv, InvTurn
<1>2. pm' = pm
  BY DEF Boot, Engine!Open, Engine!OpenExisting, Engine!OpenNew, Engine!Recover,
         Engine!RecoverSkip, Engine!RecoverMain, Engine!RecoverSeq, Engine!RecoverDone,
         Engine!Create, Engine!CreatePstore, Engine!Pstore, Engine!PstoreBack,
         Engine!PstoreAgain, Engine!CreateRoot, Engine!CreateFlushRoot, Engine!CreateId,
         Engine!CreateDone, Engine!Commit, Engine!EndTx, Engine!EndTxIncrement,
         Engine!EndTxSync, Engine!PstoreSeq, Engine!PstoreMain, Engine!Store, Engine!StorePWB
<1>. QED BY <1>1, <1>2, OpSame, OpsSame, SamePm, StoreIs DEF Stays

LEMMA CrashStep ==
  ASSUME FCInv, Crash
  PROVE  TMStep
<1>1. \A u \in Thread : pc'[u] = "out"
  BY DEF Crash
<1>2. pm' = pm
  BY DEF Crash, Engine!Crash, Engine!PowerFailure
<1>3. \A u \in Thread : Op(u)' = [kind |-> "none"]
  BY <1>1, OpsOf DEF OpFacts
<1>4. Ops' = [u \in Thread |-> [kind |-> "none"]]
  BY <1>3 DEF Ops
<1>5. TM!Crash
  BY <1>2, <1>4, SamePm, StoreIs DEF TM!Crash, TM!NoOp, Ops
<1>. QED BY <1>5 DEF TMStep, TM!Next

(* The functions of a transaction that becomes durable.                    *)
LEMMA SomeUntold ==
  ASSUME LinInv, epc = "sync", ~Booting
  PROVE  /\ \E u \in Thread : Untold(u)
         /\ \A t \in Thread : ~Runs(t)
<1>. USE Types DEF LinInv
<1>1. PICK t \in Thread : pc[t] = "apply"
  BY DEF FCInv, InvTurn
<1>2. comb[t].next >= comb[t].max
  BY <1>1 DEF InvEnding, Booting
<1>3. PICK s \in Comb!Slot : comb[t].lfc[s] # NoFunction
  BY <1>1 DEF InvToDo, FC!ToDo, FC!Slot, Comb!Slot
<1>4. s < comb[t].max
  BY <1>3 DEF FCInv, Comb!CombInv, Comb!InvBounds
<1>5. Comb!Ran(t, s)
  BY <1>1, <1>2, <1>3, <1>4 DEF Comb!Ran, Comb!Slot
<1>6. \E u \in Thread : Untold(u)
  BY <1>5, RanIsUntold
<1>7. \A u \in Thread : ~Runs(u)
  BY <1>1, <1>2, OneCombines DEF OneApplies, Runs, FC!InLoop
<1>. QED BY <1>6, <1>7

LEMMA DoneUpdate ==
  ASSUME NEW o, NEW f, o = [kind |-> "update", fn |-> f, done |-> FALSE]
  PROVE  [o EXCEPT !.done = TRUE] = [kind |-> "update", fn |-> f, done |-> TRUE]
<1>1. PICK b : b = FALSE
  OBVIOUS
<1>2. PICK c : c = TRUE
  OBVIOUS
<1>3. o = [kind |-> "update", fn |-> f, done |-> b]
  BY <1>1, Zenon
<1>4. [o EXCEPT !.done = c] = [kind |-> "update", fn |-> f, done |-> c]
  BY <1>3
<1>. QED BY <1>2, <1>4, Zenon

LEMMA EvictStep ==
  ASSUME LinInv, LinInv', Evict
  PROVE  TMStep
<1>. USE Types DEF LinInv
<1>1. UNCHANGED <<combining, cache, epc, creating, fn, seen>>
  BY DEF Evict, Engine!Evict, Engine!WriteBack, Engine!engineVars
<1>2. UNCHANGED <<pc, fc, tid, runs>>
  BY <1>1 DEF combining
<1>3. Eng!TypeOK /\ Eng!TypeOK' /\ Eng!RecoveryInv /\ Eng!InvCreation /\ Eng!Evict
  BY SameTx DEF FCInv, Evict
<1>4. Eng!DurableNow \/ UNCHANGED <<Eng!StoreMem, Eng!StoreWork, Eng!StorePhase>>
  BY <1>3, Eng!EvictStep, Assumptions
<1>5. (Booting' <=> Booting) /\ (Booting => \A u \in Thread : pc[u] = "out")
  BY <1>1 DEF Booting, FCInv, InvTurn
<1>6. ASSUME NEW u \in Thread, FC!InUpdate(u), Durable' <=> Durable
      PROVE  Op(u)' = Op(u)
  BY <1>1, <1>2, <1>6, OpSame DEF Done, FC!InUpdate
<1>7. ASSUME NEW u \in Thread, ~FC!InUpdate(u)
      PROVE  Op(u)' = Op(u)
  BY <1>1, <1>2, <1>7, OpSame DEF FC!InUpdate
<1>8. CASE UNCHANGED <<Eng!StoreMem, Eng!StoreWork, Eng!StorePhase>>
  <2>1. Active' <=> Active
    BY <1>8, PhaseActive, PhaseAfter
  <2>2. ~Booting => (Durable' <=> Durable)
    BY <1>5, <2>1 DEF Active
  <2>3. \A u \in Thread : Op(u)' = Op(u)
    BY <1>5, <1>6, <1>7, <2>2 DEF FC!InUpdate
  <2>. QED BY <1>8, <2>3, OpsSame, StoreIs, StaysIsStep DEF Stays
<1>9. CASE Eng!DurableNow
  <2>1. Active /\ ~Active' /\ Eng!StoreMem' = Eng!VolatileMem
    BY <1>9, PhaseActive, PhaseAfter DEF Eng!DurableNow
  <2>2. ~Booting /\ ~Durable /\ Durable' /\ epc = "sync"
    BY <1>1, <1>5, <2>1 DEF Active, Durable
  <2>. DEFINE S == {u \in Thread : Untold(u)}
  <2>3. S # {} /\ \A t \in Thread : ~Runs(t)
    BY <2>2, SomeUntold
  <2>4. ASSUME NEW u \in S
        PROVE  /\ u \in Thread
               /\ Op(u) = [kind |-> "update", fn |-> fn[u], done |-> FALSE]
               /\ Op(u)' = [kind |-> "update", fn |-> fn[u], done |-> TRUE]
    <3>1. FC!InUpdate(u) /\ FC!InUpdate(u)' /\ Done(u) = FALSE /\ Done(u)' = TRUE
      BY <1>2, <2>2, <2>4 DEF Untold, Done, FC!InUpdate
    <3>. QED BY <1>1, <3>1, OpsOf DEF OpFacts
  <2>5. ASSUME NEW u \in Thread \ S PROVE Op(u)' = Op(u)
    <3>1. CASE FC!InUpdate(u)
      <4>1. Done(u)' <=> Done(u)
        BY <1>2, <2>2, <3>1 DEF Untold, Done
      <4>. QED BY <1>1, <1>2, <3>1, <4>1, OpSame DEF FC!InUpdate
    <3>. QED BY <1>7, <3>1
  <2>6. ASSUME NEW a \in Addr PROVE Incs(a) = TM!Increments(S, a)
    <3>1. \A u \in S : Ops[u].fn = fn[u]
      BY <2>4 DEF Ops
    <3>2. \A u \in Thread : \A i \in DOMAIN fn[u] : Incremented(u, i) <=> u \in S
      BY <2>3 DEF Incremented
    <3>3. \A u \in S : IncsOf(u, a) = {i \in DOMAIN Ops[u].fn : Ops[u].fn[i] = a}
      BY <3>1, <3>2 DEF IncsOf
    <3>4. \A u \in Thread \ S : IncsOf(u, a) = {}
      BY <3>2 DEF IncsOf
    <3>5. Incs(a) = UNION {{u} \X {i \in DOMAIN Ops[u].fn : Ops[u].fn[i] = a} : u \in S}
      BY <3>3, <3>4 DEF Incs
    <3>. QED BY <3>5 DEF TM!Increments, Ops
  <2>7. Engine!StoreMem' = [a \in Addr |-> (Engine!StoreMem[a] + TM!Cardinality(TM!Increments(S, a))) % Modulus]
    <3>1. \A a \in Addr : cache[a].main = (Eng!StoreMem[a] + Cardinality(Incs(a))) % Modulus
      BY <2>1 DEF InvWork
    <3>2. Eng!VolatileMem = [a \in Addr |-> cache[a].main]
      BY DEF Eng!VolatileMem, Eng!Addr, Addr, Engine!Addr
    <3>. QED BY <2>1, <2>6, <3>1, <3>2, StoreIs, SameCardinality
  <2>8. Ops' = [u \in Thread |-> IF u \in S THEN [Ops[u] EXCEPT !.done = TRUE] ELSE Ops[u]]
    <3>1. ASSUME NEW u \in S PROVE Op(u)' = [Op(u) EXCEPT !.done = TRUE]
      <4>1. /\ Op(u) = [kind |-> "update", fn |-> fn[u], done |-> FALSE]
            /\ Op(u)' = [kind |-> "update", fn |-> fn[u], done |-> TRUE]
        BY <2>4
      <4>. QED BY <4>1, DoneUpdate
    <3>2. ASSUME NEW u \in Thread
          PROVE  Op(u)' = IF u \in S THEN [Ops[u] EXCEPT !.done = TRUE] ELSE Ops[u]
      BY <2>5, <3>1 DEF Ops
    <3>. QED BY <3>2 DEF Ops
  <2>9. \A u \in S : Ops[u].kind = "update" /\ ~Ops[u].done
    BY <2>4 DEF Ops
  <2>10. TM!Commit(S)
    BY <2>7, <2>8, <2>9 DEF TM!Commit, Ops
  <2>. QED BY <2>3, <2>10 DEF TMStep, TM!Next
<1>. QED BY <1>4, <1>8, <1>9
-----------------------------------------------------------------------------
LEMMA StepImplements ==
  ASSUME LinInv, LinInv', [Next]_vars
  PROVE  TMStep
<1>. USE DEF LinInv
<1>1. CASE UNCHANGED vars
  <2>1. UNCHANGED <<pc, fc, tid, runs, epc, pm, cache, fn, seen>>
    BY <1>1 DEF vars, combining, engine
  <2>2. \A u \in Thread : Op(u)' = Op(u)
    BY <2>1, OpSame DEF Done, Durable, FC!InUpdate
  <2>. QED BY <2>1, <2>2, OpsSame, SamePm, StoreIs, StaysIsStep DEF Stays
<1>2. CASE Boot
  BY <1>2, BootStep, StaysIsStep
<1>3. CASE Evict \/ Crash
  BY <1>3, EvictStep, CrashStep
<1>4. ASSUME NEW t \in Thread, Combine(t) \/ BeginTx(t) \/ Increment(t) \/ FinishStore(t)
                               \/ FunctionEnds(t) \/ EndTx(t)
      PROVE  TMStep
  BY <1>4, UpdateSteps, ReturnUpdateStep, StaysIsStep
<1>5. ASSUME NEW t \in Thread, Register(t)
      PROVE  TMStep
  <2>1. pc[t] = "out" /\ pc' = pc
    BY <1>5 DEF Register, FC!Register, FC!EndThread, FC!combVars
  <2>2. Op(t)' = Op(t)
    BY <2>1, OpSame
  <2>. QED BY <1>5, <2>2, QuietStep, StaysIsStep DEF ThreadStep
<1>6. ASSUME NEW t \in Thread, LockRead(t)
      PROVE  TMStep
  <2>1. pc[t] = "read" /\ pc' = pc /\ seen' = seen
    BY <1>6 DEF LockRead, FC!LockRead, FC!combVars
  <2>2. Op(t)' = Op(t)
    BY <2>1, OpSame
  <2>. QED BY <1>6, <2>2, QuietStep, StaysIsStep DEF ThreadStep
<1>7. ASSUME NEW t \in Thread, CallUpdate(t) \/ StartRead(t) \/ Load(t) \/ EndRead(t)
      PROVE  TMStep
  BY <1>7, CallUpdateStep, StartReadStep, LoadStep, EndReadStep
<1>. QED BY <1>1, <1>2, <1>3, <1>4, <1>5, <1>6, <1>7 DEF Next

LEMMA InitImplements == Init => TM!Init
<1>. SUFFICES ASSUME Init PROVE TM!Init
  OBVIOUS
<1>1. Eng!Init /\ \A t \in Thread : pc[t] = "out"
  BY SameInit DEF Init, Comb!Init, Comb!CombInit
<1>2. Eng!StoreMem = Eng!InitMem
  <2>1. ~pm[Eng!pmd].id
    BY <1>1 DEF Eng!Init, Eng!pmd, Eng!Line
  <2>. QED BY <2>1 DEF Eng!StoreMem
<1>3. \A t \in Thread : Op(t) = [kind |-> "none"]
  BY <1>1, OpsOf DEF OpFacts
<1>4. Engine!StoreMem = Engine!InitMem
  BY <1>2, SameStore DEF SameStores
<1>. QED BY <1>3, <1>4 DEF TM!Init, TM!NoOp

(* Flat combining over the engine of Trinity gives durable linearizable    *)
(* transactions: each takes effect at one moment of its call, for the      *)
(* other threads and for what a power failure leaves.                      *)
THEOREM TransactionsAreDurablyLinearizable == Spec => DurablyLinearizable
<1>1. LinInv /\ LinInv' /\ [Next]_vars => [TM!Next]_(TM!tmVars)
  BY StepImplements DEF TMStep
<1>2. LinInv /\ [Next]_vars => LinInv'
  BY LinNext
<1>. QED BY <1>1, <1>2, LinInit, InitImplements, PTL DEF Spec, DurablyLinearizable, TM!Spec
=============================================================================
