------------------------------ MODULE TrinityFC ------------------------------
(***************************************************************************)
(* ptms/trinity/TrinityFC.hpp as a whole: the threads of FlatCombining     *)
(* with the persistence engine of Trinity.  A combiner's transaction is    *)
(* the engine's: beginTx(), the stores of each function through pstore(),  *)
(* endTx(); a read-only transaction loads the words one by one; power may  *)
(* fail anywhere, and the next process creates or recovers the region      *)
(* before its threads start.                                               *)
(***************************************************************************)
EXTENDS Integers, Sequences

CONSTANTS Thread, MaxThreads, NoFunction,
          NumPersists, Zero, CreateStores, MaxSeq,
          Modulus,   \* values of a word: 0 .. Modulus - 1
          Function   \* the update functions: sequences of words to increment

Val == 0 .. Modulus - 1
MaxNesting == 1      \* functions do not nest transactions here

ASSUME FCAssumption ==
  /\ MaxThreads \in Nat \ {0} /\ NoFunction \notin Thread
  /\ NumPersists \in Nat \ {0} /\ MaxSeq \in Nat
  /\ Modulus \in Nat \ {0} /\ Zero \in Val
  /\ CreateStores \in Seq((1 .. NumPersists) \X Val)
  /\ Function \subseteq Seq(1 .. NumPersists)

VARIABLES usedTID, maxTid, tid, reg, writers, states, wr, rd, pc, fc, comb, runs,
          cache, pm, pwb, epc, creating, nested, cur, store,
          fn,    \* the function of each thread's call
          next,  \* the next store of the function that is running
          seen   \* what each read-only transaction has loaded

combining == <<usedTID, maxTid, tid, reg, writers, states, wr, rd, pc, fc, comb, runs>>
engine == <<cache, pm, pwb, epc, creating, nested, cur, store>>
vars == <<combining, engine, fn, next, seen>>

FC == INSTANCE FlatCombining
Engine == INSTANCE Trinity WITH pc <- epc
Addr == Engine!Addr

NotRead == [a \in Addr |-> Modulus]

Init ==
  /\ FC!Init /\ Engine!Init
  /\ fn = [t \in Thread |-> <<>>] /\ next = 1
  /\ seen = [t \in Thread |-> NotRead]
-----------------------------------------------------------------------------
(* The constructor, before any thread of the program runs a transaction.   *)
Booting == epc \in {"down", "recover", "recoverSeq"} \/ creating

Boot ==
  /\ Booting
  /\ \/ Engine!Open \/ Engine!Recover \/ Engine!Create \/ Engine!Commit
     \/ Engine!PstoreSeq \/ Engine!PstoreMain
  /\ UNCHANGED <<combining, fn, next, seen>>

Register(t) ==
  /\ ~Booting
  /\ FC!Register(t) \/ FC!EndThread(t)
  /\ UNCHANGED <<engine, fn, next, seen>>

CallUpdate(t) ==
  /\ ~Booting
  /\ FC!Announce(t)
  /\ \E f \in Function : fn' = [fn EXCEPT ![t] = f]
  /\ UNCHANGED <<engine, next, seen>>

Combine(t) ==
  /\ FC!Prologue(t) \/ FC!SkipFunction(t) \/ FC!Epilogue(t)
  /\ UNCHANGED <<engine, fn, next, seen>>

BeginTx(t) ==
  /\ FC!BeginCombined(t) /\ Engine!BeginTx
  /\ UNCHANGED <<fn, next, seen>>

(* The function at lfc[next] runs: ++ on each of its words, through        *)
(* pload() and pstore().                                                   *)
Running(t) == fn[FC!Current(t)]
Runs(t) == FC!InLoop(t, "apply") /\ FC!Current(t) # NoFunction

Increment(t) ==
  /\ Runs(t) /\ next <= Len(Running(t))
  /\ LET a == Running(t)[next] IN Engine!Pstore(a, (cache[a].main + 1) % Modulus)
  /\ next' = next + 1
  /\ UNCHANGED <<combining, fn, seen>>

FinishStore(t) ==
  /\ Runs(t)
  /\ Engine!PstoreSeq \/ Engine!PstoreMain
  /\ UNCHANGED <<combining, fn, next, seen>>

FunctionEnds(t) ==
  /\ Runs(t) /\ epc = "tx" /\ next > Len(Running(t))
  /\ FC!RunFunction(t)
  /\ next' = 1
  /\ UNCHANGED <<engine, fn, seen>>

EndTxEarlyNotice(t) ==  \* mutant: the others are told before PSYNC
  \/ /\ pc[t] = "apply" /\ comb[t].next >= comb[t].max
     /\ \/ Engine!EndTx /\ UNCHANGED combining
        \/ Engine!EndTxIncrement /\ FC!EndCombined(t)
     /\ UNCHANGED <<fn, next, seen>>
  \/ Engine!EndTxSync /\ UNCHANGED <<combining, fn, next, seen>>

EndTx(t) ==
  /\ pc[t] = "apply" /\ comb[t].next >= comb[t].max
  /\ \/ (Engine!EndTx \/ Engine!EndTxIncrement) /\ UNCHANGED combining
     \/ Engine!EndTxSync /\ FC!EndCombined(t)
  /\ UNCHANGED <<fn, next, seen>>
-----------------------------------------------------------------------------
StartRead(t) ==
  /\ ~Booting
  /\ FC!StartRead(t)
  /\ UNCHANGED <<engine, fn, next, seen>>

LockRead(t) == FC!LockRead(t) /\ UNCHANGED <<engine, fn, next, seen>>

(* One load of the function of a read-only transaction. *)
Load(t) ==
  /\ rd[t] = "shared"
  /\ \E a \in Addr :
       /\ seen[t][a] = Modulus
       /\ \A b \in Addr : b < a => seen[t][b] # Modulus
       /\ seen' = [seen EXCEPT ![t][a] = cache[a].main]
  /\ UNCHANGED <<combining, engine, fn, next>>

EndRead(t) ==
  /\ \A a \in Addr : seen[t][a] # Modulus
  /\ FC!EndRead(t)
  /\ seen' = [seen EXCEPT ![t] = NotRead]
  /\ UNCHANGED <<engine, fn, next>>
-----------------------------------------------------------------------------
Evict == Engine!Evict /\ UNCHANGED <<combining, fn, next, seen>>

(* A power failure ends the process and all its threads. *)
Crash ==
  /\ Engine!Crash
  /\ usedTID' = [s \in FC!Slot |-> FALSE] /\ maxTid' = -1
  /\ tid' = [t \in Thread |-> FC!NOT_ASSIGNED] /\ reg' = [t \in Thread |-> FC!Out]
  /\ writers' = FALSE /\ states' = [s \in FC!Slot |-> FALSE]
  /\ wr' = [t \in Thread |-> FC!NoWriter] /\ rd' = [t \in Thread |-> "out"]
  /\ pc' = [t \in Thread |-> "out"] /\ fc' = [s \in FC!Slot |-> NoFunction]
  /\ comb' = [t \in Thread |-> FC!NoComb] /\ runs' = [t \in Thread |-> 0]
  /\ fn' = [t \in Thread |-> <<>>] /\ next' = 1
  /\ seen' = [t \in Thread |-> NotRead]

Next == \/ Boot \/ Evict \/ Crash
        \/ \E t \in Thread :
             \/ Register(t) \/ CallUpdate(t) \/ Combine(t) \/ BeginTx(t)
             \/ Increment(t) \/ FinishStore(t) \/ FunctionEnds(t) \/ EndTx(t)
             \/ StartRead(t) \/ LockRead(t) \/ Load(t) \/ EndRead(t)

Spec == Init /\ [][Next]_vars
-----------------------------------------------------------------------------
(* A transaction has taken effect when its p_seq is durable; the functions *)
(* it ran are those still announced that have run.                         *)
Durable == epc = "idle" \/ (epc = "sync" /\ pm[Engine!pmd].p_seq = cache[Engine!pmd].p_seq)

Done(t) == runs[t] = 1 /\ (fc[tid[t]] # t \/ Durable)

(* The call that thread t is in. *)
Op(t) ==
  CASE FC!InUpdate(t) -> [kind |-> "update", fn |-> fn[t], done |-> Done(t)]
    [] pc[t] = "read" -> [kind |-> "read",
                          result |-> IF \A a \in Addr : seen[t][a] # Modulus
                                     THEN seen[t] ELSE NotRead]
    [] OTHER -> [kind |-> "none"]

TM == INSTANCE DurableTM WITH InitMem <- Engine!InitMem, mem <- Engine!StoreMem,
                              op <- [t \in Thread |-> Op(t)]

(* README: "durable linearizable (ACID) transactions".  Threads that       *)
(* announce, combine, read and crash behave as if each transaction took    *)
(* effect, in the caches and on the medium, at one moment of its call.     *)
DurablyLinearizable == TM!Spec

(* Two steps of two actors that must never meet: while a read-only         *)
(* transaction loads words, the engine is between transactions, and what   *)
(* is loaded cannot be lost any more.                                      *)
ReadsAreDurable ==
  \A t \in Thread : rd[t] = "shared" =>
    epc = "idle" /\ Engine!DurableMem = Engine!VolatileMem
=============================================================================
