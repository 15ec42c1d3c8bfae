------------------------------ MODULE MCEngines ------------------------------
(***************************************************************************)
(* Persistence engines on small regions, each behaviour with one of them:  *)
(* those of ptms/romuluslog/ with a root pointer, a word of the allocator  *)
(* that creation stores to and a word of the user; Quadra's with a word of *)
(* the allocator that creation stores to twice and a word of the user; and *)
(* TrinityVR's with two lines of two words, whose stores cover one word or *)
(* two that lie in different lines.  QuadraVR's engine, on two such lines  *)
(* stored to word by word, has a specification of its own, QuadraVRSpec.   *)
(*                                                                         *)
(* "QuadraUnshared" is Quadra once more, in the behaviours in which no     *)
(* transaction shares the count of the last one: those implement           *)
(* DurableStore, the others need not.                                      *)
(***************************************************************************)
EXTENDS MainAndBack

CONSTANTS LogLimit, MaxSeq, Engine

VARIABLES engine,
          logEnabled, logSize, overflown,     \* of RomulusLog
          creating, v_seq, v_log, store, vr   \* of Quadra, and of TrinityVR

MCCreateStores == <<<<2, 1>>>>
QuadraStores == <<<<1, 1>>, <<2, 1>>, <<1, 0>>>>
ReplicaStores == <<<<{1}, 1>>, <<{2}, 1>>, <<{1}, 0>>>>

R == INSTANCE RomLog
F == INSTANCE RomLog2F
L == INSTANCE RomulusLog
Q == INSTANCE Quadra WITH NumPersists <- 2, CreateStores <- QuadraStores
T == INSTANCE TrinityVR WITH NumLines <- 2, WordsPerLine <- 2,
                             Range_ <- {{1}, {2}, {3}, {2, 3}}, MaxLog <- 2,
                             CreateStores <- ReplicaStores
V == INSTANCE QuadraVR WITH NumLines <- 2, WordsPerLine <- 2,
                            Range_ <- {{1}, {2}, {3}}, MaxLog <- 2,
                            CreateStores <- <<<<{1}, 0>>>>

ASSUME EnginesAssumption ==
  Q!QuadraAssumption /\ T!ReplicaAssumption /\ V!ReplicaAssumption

logVars == <<logEnabled, logSize, overflown>>
mainAndBackVars == <<file, appendLog, settled>>
txVars == <<creating, v_seq, v_log, store, vr>>
vars == <<engine, regionVars, logVars, txVars>>

InitOthers == creating = FALSE /\ v_seq = 1 /\ v_log = {} /\ store = {} /\ vr = {}

Init ==
  /\ engine \in Engine
  /\ L!InitLog
  /\ \/ engine = "RomLog" /\ R!Init /\ InitOthers
     \/ engine = "RomLog2F" /\ F!Init /\ InitOthers
     \/ engine = "RomulusLog" /\ L!Init /\ InitOthers
     \/ engine \in {"Quadra", "QuadraUnshared"} /\ Q!Init /\ appendLog = {} /\ settled = FALSE /\ vr = {}
     \/ engine = "TrinityVR" /\ T!Init /\ file = FALSE /\ appendLog = {} /\ settled = FALSE
                             /\ v_seq = 1 /\ store = {}

Next ==
  /\ UNCHANGED engine
  /\ \/ engine = "RomLog" /\ R!Next /\ UNCHANGED <<logVars, txVars>>
     \/ engine = "RomLog2F" /\ F!Next /\ UNCHANGED <<logVars, txVars>>
     \/ engine = "RomulusLog" /\ L!Next /\ UNCHANGED txVars
     \/ /\ engine \in {"Quadra", "QuadraUnshared"} /\ Q!Next
        /\ engine = "QuadraUnshared" => ~Q!SharesCount'
        /\ UNCHANGED <<logVars, appendLog, settled, vr>>
     \/ engine = "TrinityVR" /\ T!Next /\ UNCHANGED <<logVars, mainAndBackVars, v_seq, store>>

Spec == Init /\ [][Next]_vars

QuadraVRInit ==
  /\ engine = "QuadraVR" /\ V!Init /\ L!InitLog
  /\ file = FALSE /\ appendLog = {} /\ settled = FALSE /\ store = {}

QuadraVRNext == V!Next /\ UNCHANGED <<engine, logVars, mainAndBackVars, store>>

QuadraVRSpec == QuadraVRInit /\ [][QuadraVRNext]_vars

(* What updateTx() and the constructor have returned from survives a power *)
(* failure: see each engine.                                               *)
IdleIsDurable == CASE engine = "RomLog"     -> R!IdleIsDurable
                   [] engine = "RomLog2F"   -> F!IdleIsDurable
                   [] engine = "RomulusLog" -> L!IdleIsDurable
                   [] engine \in {"Quadra", "QuadraUnshared"} -> Q!IdleIsDurable
                   [] engine = "TrinityVR"  -> T!ReplicaExpendable
                   [] engine = "QuadraVR"   -> V!IdleIsDurable

(* What updateTx() stores survives as a whole or not at all: see each      *)
(* engine (TrinityVR's is part of ImplementsStore).                        *)
AllOrNothing == [][CASE engine = "RomLog"     -> R!HeapStep
                     [] engine = "RomLog2F"   -> F!HeapStep
                     [] engine = "RomulusLog" -> L!HeapStep
                     [] engine \in {"Quadra", "QuadraUnshared"} -> Q!CommitStep
                     [] engine = "TrinityVR"  -> TRUE]_vars

(* The half that the next transaction will not touch can undo it: see each *)
(* engine.                                                                 *)
BackCanUndo == /\ engine = "RomLog" => R!BackCanUndo
               /\ engine = "RomulusLog" => L!BackCanUndo

(* Quadra, as long as no transaction shares a count, and TrinityVR         *)
(* implement DurableStore, on the regions that each of them runs on;       *)
(* another engine's region stands for one never opened.                    *)
QuadraStore == INSTANCE DurableStore WITH
  Addr <- Q!Addr, InitMem <- Q!InitMem,
  mem   <- IF engine = "QuadraUnshared" THEN Q!StoreMem ELSE Q!InitMem,
  work  <- IF engine = "QuadraUnshared" THEN Q!StoreWork ELSE Q!InitMem,
  phase <- IF engine = "QuadraUnshared" THEN Q!StorePhase ELSE "down"

ReplicaStore == INSTANCE DurableStore WITH
  Addr <- T!Addr, InitMem <- T!InitMem,
  mem   <- IF engine = "TrinityVR" THEN T!StoreMem ELSE T!InitMem,
  work  <- IF engine = "TrinityVR" THEN T!StoreWork ELSE T!InitMem,
  phase <- IF engine = "TrinityVR" THEN T!StorePhase ELSE "down"

ImplementsStore == QuadraStore!Spec /\ ReplicaStore!Spec

(* Not properties of the runs: what the counterexamples of the README are  *)
(* about, for an Engine of one element.                                    *)
RootsAllOrNothing == R!RootsAllOrNothing
CreationIsDurable == R!CreationIsDurable
StaleInst == F!StaleInst
RootsAreDurable == F!RootsAreDurable
LargeAreDurable == L!LargeAreDurable
=============================================================================
