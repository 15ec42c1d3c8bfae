----------------------------- MODULE TrinityTL2 -----------------------------
(***************************************************************************)
(* The persistence of ptms/trinity/TrinityTL2.hpp.  The lock of a word is  *)
(* in its persist<>, next to main and back, and so in the medium: seq of a *)
(* locked word is p_seq of the thread that locked it, one word of the      *)
(* header per thread.  region[a] is the word's back.                       *)
(***************************************************************************)
EXTENDS TL2

(* The lines as the caches have them. *)
PersistLine(a) == [main |-> mem[a], back |-> region[a], lseq |-> lock[LockOf(a)]]

InitTrinityTL2 ==
  /\ InitTL2
  /\ region = mem
  /\ pm = [l \in Line |-> IF l \in Addr THEN PersistLine(l) ELSE 1]

(* A persist<> is one word. *)
CallTL2(t) == Call(t, {p \in Program : \A i \in DOMAIN p : Cardinality(p[i].range) = 1})

(* beginTx(): an update stores rClock to its p_seq and issues the PWB; the *)
(* compare-and-swap of the first pstore() waits for it.                    *)
BeginTL2(t) ==
  /\ BeginTx(t)
  /\ IF IsUpdate(call[t].prog)
     THEN /\ p_seq' = [p_seq EXCEPT ![t] = gClock]
          /\ pwb' = pwb \cup {<<t, PseqLine(t)>>}
     ELSE UNCHANGED <<p_seq, pwb>>
  /\ UNCHANGED <<mem, region, pm>>

TakeLockTL2(t) ==
  /\ Fenced(t)
  /\ TakeLock(t, p_seq[t])
  /\ writeSet' = IF lock[LockAt(t)].owner = t THEN writeSet
                 ELSE [writeSet EXCEPT ![t] = Append(@, Op(t).range)]

FailLockTL2(t) == FailLock(t) /\ UNCHANGED writeSet
StoreWordTL2(t) == StoreWord(t) /\ UNCHANGED writeSet

(* endTx() of a validated transaction: the PWBs, ... *)
CommitFlush(t) ==
  /\ pc[t] = "commit"
  /\ pwb' = pwb \cup {<<t, a>> : a \in Written(t)}
  /\ Goto(t, "faa")
  /\ UNCHANGED <<phase, gClock, lock, mem, region, p_seq, pm, txVars, histVars>>

(* ... gClock.fetch_add(), which is a fence, and p_seq; nextClock is kept  *)
(* in rClock[t] from here on ...                                           *)
TickTL2(t) ==
  /\ gClock' = gClock + 1
  /\ rClock' = [rClock EXCEPT ![t] = gClock + 1]
  /\ p_seq' = [p_seq EXCEPT ![t] = gClock + 1]
  /\ pwb' = pwb \cup {<<t, PseqLine(t)>>}

CommitTick(t) ==
  /\ pc[t] = "faa" /\ Fenced(t)
  /\ TickTL2(t)
  /\ Goto(t, "sync")
  /\ UNCHANGED <<phase, lock, mem, region, pm, call, readSet, writeSet, histVars>>

(* ... PSYNC and applyOnBack(). *)
CommitSync(t) ==
  /\ pc[t] = "sync" /\ Fenced(t)
  /\ region' = [a \in Addr |-> IF a \in Written(t) THEN mem[a] ELSE region[a]]
  /\ Goto(t, "unlock")
  /\ UNCHANGED <<phase, gClock, lock, mem, p_seq, pm, pwb, txVars, histVars>>

(* abortTx(): rollbackMain(), word by word, and the PWBs; fetch_add() and  *)
(* p_seq; PFENCE.                                                          *)
Abort(t) ==
  /\ pc[t] = "abort"
  /\ IF k[t] <= Len(writeSet[t])
     THEN /\ LET a == Min(writeSet[t][k[t]])
             IN  mem' = [mem EXCEPT ![a] = region[a]]
          /\ Advance(t)
          /\ UNCHANGED pwb
     ELSE /\ pwb' = pwb \cup {<<t, a>> : a \in Written(t)}
          /\ Goto(t, "abortFaa")
          /\ UNCHANGED mem
  /\ UNCHANGED <<phase, gClock, lock, region, p_seq, pm, txVars, histVars>>

AbortTick(t) ==
  /\ pc[t] = "abortFaa" /\ Fenced(t)
  /\ TickTL2(t)
  /\ Goto(t, "abortSync")
  /\ UNCHANGED <<phase, lock, mem, region, pm, call, readSet, writeSet, histVars>>

AbortSync(t) ==
  /\ pc[t] = "abortSync" /\ Fenced(t)
  /\ Goto(t, "unlockAborted")
  /\ UNCHANGED <<phase, gClock, lock, regionVars, txVars, histVars>>

EvictTL2 ==
  /\ \E l \in Line :
       /\ pm' = [pm EXCEPT ![l] = IF l \in Addr THEN PersistLine(l) ELSE p_seq[0 - l]]
       /\ pwb' = {w \in pwb : w[2] # l}
       /\ LogCommit(l)
  /\ UNCHANGED <<phase, gClock, lock, mem, region, p_seq, pc, txVars, k, calls, returned>>

CrashTL2 ==
  /\ CrashThreads
  /\ mem' = [a \in Addr |-> pm[a].main] /\ region' = [a \in Addr |-> pm[a].back]
  /\ lock' = [l \in Lock |-> IF \E a \in Addr : LockOf(a) = l
                             THEN pm[CHOOSE a \in Addr : LockOf(a) = l].lseq ELSE Free(0)]
  /\ p_seq' = [t \in Thread |-> pm[PseqLine(t)]]
  /\ gClock' = 1

LockedWords == {a \in Addr : lock[LockOf(a)].owner # NoTid}

(* recover(): a word that is locked is reverted if its transaction is the  *)
(* one that p_seq of its thread names, and committed otherwise.  (Written  *)
(* back in between, the line is still locked and recovers the same way.)   *)
RecoverWord ==
  /\ phase = "recover" /\ LockedWords # {}
  /\ LET a == Min(LockedWords)
         lseq == lock[LockOf(a)]
     IN  /\ IF lseq.seq = p_seq[lseq.owner]
            THEN mem' = [mem EXCEPT ![a] = region[a]] /\ UNCHANGED region
            ELSE region' = [region EXCEPT ![a] = mem[a]] /\ UNCHANGED mem
         /\ lock' = [lock EXCEPT ![LockOf(a)] = Free(0)]
         /\ pwb' = pwb \cup {<<Min(Thread), a>>}
  /\ UNCHANGED <<phase, gClock, p_seq, pm, pc, txVars, k, histVars>>

RecoverDoneClockReset ==  \* mutant: the clock starts from 1 again
  /\ phase = "recover" /\ LockedWords = {} /\ pwb = {}
  /\ gClock' = 1
  /\ phase' = "up"
  /\ UNCHANGED <<lock, regionVars, pc, txVars, k, histVars>>

(* PSYNC, and the clock from the highest p_seq: that of the thread which   *)
(* created the region is 2.                                                *)
RecoverDoneTL2 ==
  /\ phase = "recover" /\ LockedWords = {} /\ pwb = {}
  /\ gClock' = Max({2} \cup {p_seq[t] : t \in Thread})
  /\ phase' = "up"
  /\ UNCHANGED <<lock, regionVars, pc, txVars, k, histVars>>

NextTrinityTL2 ==
  \/ \E t \in Thread : \/ Concurrency(t) \/ CallTL2(t) \/ BeginTL2(t)
                       \/ TakeLockTL2(t) \/ FailLockTL2(t) \/ StoreWordTL2(t)
                       \/ CommitFlush(t) \/ CommitTick(t) \/ CommitSync(t)
                       \/ Abort(t) \/ AbortTick(t) \/ AbortSync(t)
  \/ EvictTL2 \/ CrashTL2 \/ RecoverWord \/ RecoverDoneTL2

(* What a power failure now would leave. *)
DurableTL2 ==
  [a \in Addr |-> LET line == pm[a]
                  IN  IF line.lseq.owner # NoTid /\ line.lseq.seq = pm[PseqLine(line.lseq.owner)]
                      THEN line.back ELSE line.main]

=============================================================================
