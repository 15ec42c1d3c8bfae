---------------------------- MODULE FlatCombining ----------------------------
(***************************************************************************)
(* ns_write_transaction() and ns_read_transaction() of the headers whose   *)
(* name ends in FC: a thread announces its function in fc[tid], and then   *)
(* either gets the writers' lock, and runs every announced function in one *)
(* transaction, or finds that another thread has run its function.  The    *)
(* transaction itself is the engine's (module TrinityFC composes the two); *)
(* here beginTx() and endTx() are a step each, and so is a function.       *)
(***************************************************************************)
EXTENDS CRWWPLock, FiniteSets

CONSTANT NoFunction   \* nullptr

ASSUME CombAssumption == NoFunction \notin Thread

VARIABLES pc,    \* where each thread stands in its transaction
          fc,    \* the announced function of each thread id: the thread
                 \* whose stack holds it
          comb,  \* a combiner's maxTid, its copy lfc of fc, and loop index
          runs   \* how often the function of each thread's last call has run

combVars == <<pc, fc, comb, runs>>
vars == <<usedTID, maxTid, tid, reg, writers, states, wr, rd, pc, fc, comb, runs>>

NoComb == [max |-> 0, lfc |-> [s \in Slot |-> NoFunction], next |-> 0]

CombInit ==
  /\ pc = [t \in Thread |-> "out"]
  /\ fc = [s \in Slot |-> NoFunction]
  /\ comb = [t \in Thread |-> NoComb]
  /\ runs = [t \in Thread |-> 0]

Init == RegistryInit /\ LockInit /\ CombInit

Goto(t, place) == pc' = [pc EXCEPT ![t] = place]
-----------------------------------------------------------------------------
(* A thread's first transaction gets it an id; a thread may end between    *)
(* two transactions.                                                       *)
Register(t) ==
  /\ pc[t] = "out"
  /\ GetTID(t) \/ RegisterStep(t)
  /\ UNCHANGED <<lockVars, combVars>>

EndThread(t) ==
  /\ pc[t] = "out"
  /\ Deregister(t)
  /\ UNCHANGED <<lockVars, combVars>>

(* "Add our mutation to the array of flat combining" *)
Announce(t) ==
  /\ pc[t] = "out" /\ Registered(t)
  /\ fc' = [fc EXCEPT ![tid[t]] = t]
  /\ runs' = [runs EXCEPT ![t] = 0]
  /\ Goto(t, "try")
  /\ UNCHANGED <<registryVars, lockVars, comb>>

(* One round of the loop around tryExclusiveLock(). *)
TryLock(t) ==
  /\ pc[t] = "try"
  /\ \/ SeesFree(t) /\ UNCHANGED pc
     \/ CASWon(t) /\ Goto(t, "copy")
     \/ (SeesTaken(t) \/ CASLost(t)) /\ Goto(t, "check")
  /\ UNCHANGED <<registryVars, fc, comb, runs>>

(* "Check if another thread executed my mutation" *)
CheckDone(t) ==
  /\ pc[t] = "check"
  /\ Goto(t, IF fc[tid[t]] = NoFunction THEN "out" ELSE "try")
  /\ UNCHANGED <<registryVars, lockVars, fc, comb, runs>>

(* "Save a local copy of the flat combining array" *)
StartCopy(t) ==
  /\ pc[t] = "copy"
  /\ comb' = [comb EXCEPT ![t].max = maxTid]
  /\ Goto(t, "copying")
  /\ UNCHANGED <<registryVars, lockVars, fc, runs>>

TakeNext(t) ==  \* mutant: the function is taken out of fc when it is copied
  /\ pc[t] = "copying" /\ comb[t].next < comb[t].max
  /\ LET i == comb[t].next
     IN  /\ comb' = [comb EXCEPT ![t].lfc[i] = fc[i], ![t].next = i + 1]
         /\ fc' = [fc EXCEPT ![i] = NoFunction]
  /\ UNCHANGED <<registryVars, lockVars, pc, runs>>

CopyNext(t) ==
  /\ pc[t] = "copying" /\ comb[t].next < comb[t].max
  /\ LET i == comb[t].next
         copy == [comb[t].lfc EXCEPT ![i] = fc[i]]
     IN  comb' = [comb EXCEPT ![t] = [max |-> comb[t].max, lfc |-> copy, next |-> i + 1]]
  /\ UNCHANGED <<registryVars, lockVars, pc, fc, runs>>

ToDo(t) == {s \in Slot : comb[t].lfc[s] # NoFunction}

NothingToDoLocked(t) ==  \* mutant: the early return forgets to unlock
  /\ pc[t] = "copying" /\ comb[t].next >= comb[t].max
  /\ ToDo(t) = {}
  /\ wr' = [wr EXCEPT ![t] = NoWriter]
  /\ comb' = [comb EXCEPT ![t] = NoComb]
  /\ Goto(t, "out")
  /\ UNCHANGED <<registryVars, writers, states, rd, fc, runs>>

(* "Check if there is at least one operation to apply" *)
NothingToDo(t) ==
  /\ pc[t] = "copying" /\ comb[t].next >= comb[t].max
  /\ ToDo(t) = {}
  /\ ExclusiveUnlock(t)
  /\ comb' = [comb EXCEPT ![t] = NoComb]
  /\ Goto(t, "out")
  /\ UNCHANGED <<registryVars, fc, runs>>

NoWait(t) ==  \* mutant: the combiner does not wait for readers
  /\ pc[t] = "copying" /\ comb[t].next >= comb[t].max
  /\ ToDo(t) # {}
  /\ Goto(t, "begin")
  /\ UNCHANGED <<registryVars, lockVars, fc, comb, runs>>

StartWait(t) ==
  /\ pc[t] = "copying" /\ comb[t].next >= comb[t].max
  /\ ToDo(t) # {}
  /\ Goto(t, "wait")
  /\ UNCHANGED <<registryVars, lockVars, fc, comb, runs>>

Wait(t) ==
  /\ pc[t] = "wait"
  /\ \/ (StartScan(t) \/ ScanStep(t)) /\ UNCHANGED pc
     \/ ScanEnd(t) /\ Goto(t, "begin")
  /\ UNCHANGED <<registryVars, fc, comb, runs>>

(* beginTx(), "Apply all mutativeFunc", endTx(). *)
BeginCombined(t) ==
  /\ pc[t] = "begin"
  /\ comb' = [comb EXCEPT ![t].next = 0]
  /\ Goto(t, "apply")
  /\ UNCHANGED <<registryVars, lockVars, fc, runs>>

InLoop(t, place) == pc[t] = place /\ comb[t].next < comb[t].max
Current(t) == comb[t].lfc[comb[t].next]
NextOne(t) == comb' = [comb EXCEPT ![t].next = @ + 1]

SkipFunction(t) ==
  /\ InLoop(t, "apply") /\ Current(t) = NoFunction
  /\ NextOne(t)
  /\ UNCHANGED <<registryVars, lockVars, pc, fc, runs>>

(* The function at lfc[next] has run to its end. *)
RunFunction(t) ==
  /\ InLoop(t, "apply") /\ Current(t) # NoFunction
  /\ runs' = [runs EXCEPT ![Current(t)] = @ + 1]
  /\ NextOne(t)
  /\ UNCHANGED <<registryVars, lockVars, pc, fc>>

EndCombined(t) ==
  /\ pc[t] = "apply" /\ comb[t].next >= comb[t].max
  /\ comb' = [comb EXCEPT ![t].next = 0]
  /\ Goto(t, "clear")
  /\ UNCHANGED <<registryVars, lockVars, fc, runs>>

ClearNothing(t) ==  \* mutant: fc keeps the functions that have run
  /\ InLoop(t, "clear")
  /\ NextOne(t)
  /\ UNCHANGED <<registryVars, lockVars, pc, fc, runs>>

(* "Inform the other threads their transactions are committed/durable" *)
ClearNext(t) ==
  /\ InLoop(t, "clear")
  /\ fc' = IF Current(t) = NoFunction THEN fc
           ELSE [fc EXCEPT ![comb[t].next] = NoFunction]
  /\ NextOne(t)
  /\ UNCHANGED <<registryVars, lockVars, pc, runs>>

Unlock(t) ==
  /\ pc[t] = "clear" /\ comb[t].next >= comb[t].max
  /\ ExclusiveUnlock(t)
  /\ comb' = [comb EXCEPT ![t] = NoComb]
  /\ Goto(t, "out")
  /\ UNCHANGED <<registryVars, fc, runs>>
-----------------------------------------------------------------------------
(* ns_read_transaction() *)
StartRead(t) ==
  /\ pc[t] = "out" /\ Registered(t)
  /\ Arrive(t)
  /\ Goto(t, "read")
  /\ UNCHANGED <<registryVars, fc, comb, runs>>

LockRead(t) ==
  /\ pc[t] = "read"
  /\ AcquireShared(t) \/ (rd[t] = "again" /\ Arrive(t))
  /\ UNCHANGED <<registryVars, combVars>>

EndRead(t) ==
  /\ pc[t] = "read"
  /\ SharedUnlock(t)
  /\ Goto(t, "out")
  /\ UNCHANGED <<registryVars, fc, comb, runs>>
-----------------------------------------------------------------------------
(* What the combiner does before and after the engine's transaction.       *)
Prologue(t) == TryLock(t) \/ CheckDone(t) \/ StartCopy(t) \/ CopyNext(t)
               \/ NothingToDo(t) \/ StartWait(t) \/ Wait(t)
Epilogue(t) == ClearNext(t) \/ Unlock(t)

(* The steps of a transaction that has been called. *)
WriteStep(t) == \/ Prologue(t) \/ BeginCombined(t) \/ SkipFunction(t) \/ RunFunction(t)
                \/ EndCombined(t) \/ Epilogue(t)
ReadStep(t)  == LockRead(t) \/ EndRead(t)

Next == \E t \in Thread : \/ Register(t) \/ EndThread(t)
                          \/ Announce(t) \/ WriteStep(t)
                          \/ StartRead(t) \/ ReadStep(t)

(* The scheduler runs every thread that is inside a transaction: the code  *)
(* spins and yields but never sleeps on a condition, and functions end.    *)
Fairness ==
  \A t \in Thread :
    /\ WF_vars(Registering(t) /\ Register(t))
    /\ WF_vars(WriteStep(t))
    /\ WF_vars(ReadStep(t))

Spec == Init /\ [][Next]_vars /\ Fairness
-----------------------------------------------------------------------------
CombTypeOK ==
  /\ LockTypeOK
  /\ pc \in [Thread -> {"out", "try", "check", "copy", "copying", "wait", "begin",
                        "apply", "clear", "read"}]
  /\ fc \in [Slot -> Thread \cup {NoFunction}]
  /\ comb \in [Thread -> [max : Int, lfc : [Slot -> Thread \cup {NoFunction}], next : Nat]]
  /\ runs \in [Thread -> Nat]

InUpdate(t) == pc[t] \notin {"out", "read"}

(* A combiner never calls a function of a call that has returned (it lives *)
(* on the caller's stack), nor one that has run already: what it copied    *)
(* from fc is still announced when its turn comes.                         *)
NoDanglingFunction ==
  \A t \in Thread : pc[t] \in {"begin", "apply"} =>
    \A s \in ToDo(t) :
      (pc[t] = "begin" \/ s >= comb[t].next) =>
        LET u == comb[t].lfc[s]
        IN  InUpdate(u) /\ tid[u] = s /\ fc[s] = u /\ runs[u] = 0

(* The mutations of a combiner and the body of a read-only transaction     *)
(* never overlap, nor do two combiners.                                    *)
ReadersSeeNoMutation ==
  \A t, u \in Thread : pc[t] \in {"begin", "apply", "clear"} /\ u # t =>
    /\ rd[u] # "shared"
    /\ pc[u] \notin {"copy", "copying", "wait", "begin", "apply", "clear"}

(* updateTx() returns only when its function has run exactly once, by its  *)
(* own thread or by another.                                               *)
ExactlyOnce ==
  [][\A t \in Thread : InUpdate(t) /\ ~InUpdate(t)' => runs'[t] = 1]_vars

(* "Progress: Blocking (starvation-free)": every updateTx() returns,       *)
(* however many others keep combining and reading.                         *)
UpdateReturns == \A t \in Thread : InUpdate(t) ~> ~InUpdate(t)
=============================================================================
