---------------------------- MODULE TrinityVRTL2 ----------------------------
(***************************************************************************)
(* The persistence of ptms/trinity/TrinityVRTL2.hpp.  Loads and stores go  *)
(* to a volatile replica (mem) and the locks are an array in DRAM; a       *)
(* transaction reaches persistent memory when it commits.  region[a] is    *)
(* the PMCacheLine of word a, which holds no other word here: its main and *)
(* back, and its tseq, the tid and the p_seq of who stored it last.        *)
(***************************************************************************)
EXTENDS TL2

InitTrinityVRTL2 ==
  /\ InitTL2
  /\ region = [a \in Addr |-> [main |-> InitVal, back |-> InitVal, tid |-> NoTid, seq |-> 0]]
  /\ pm = [l \in Line |-> IF l \in Addr THEN region[l] ELSE 1]

BeginVR(t) == BeginTx(t) /\ UNCHANGED regionVars

(* logLockRange() logs the range before it takes the first lock. *)
LogRange(t) ==
  writeSet' = IF k[t] = 1 THEN [writeSet EXCEPT ![t] = Append(@, Op(t).range)] ELSE writeSet

TakeLockVR(t) == TakeLock(t, 0) /\ LogRange(t)
FailLockVR(t) == FailLock(t) /\ LogRange(t)
StoreWordVR(t) == StoreWord(t) /\ LogRange(t)

(* The lines that persistAndFlush() visits, the last range first. *)
LinesToPersist(t) ==
  FlattenSeq([i \in 1 .. Len(writeSet[t]) |-> WordsIn(writeSet[t][Len(writeSet[t]) + 1 - i])])

(* storeRange(): three ordered stores for a line, k counts them, and the   *)
(* PWB; a line that has this transaction's tseq is passed over.            *)
CommitLine(t) ==
  LET a == LinesToPersist(t)[(k[t] + 2) \div 3]
      mine == region[a].tid = t /\ region[a].seq = p_seq[t]
  IN  /\ pc[t] = "commit" /\ k[t] <= 3 * Len(LinesToPersist(t))
      /\ IF k[t] % 3 = 1 /\ mine
         THEN k' = [k EXCEPT ![t] = @ + 3] /\ UNCHANGED <<region, pwb>>
         ELSE /\ region' = CASE k[t] % 3 = 1 -> [region EXCEPT ![a].back = region[a].main]
                             [] k[t] % 3 = 2 -> [region EXCEPT ![a].tid = t, ![a].seq = p_seq[t]]
                             [] OTHER        -> [region EXCEPT ![a].main = mem[a]]
              /\ pwb' = IF k[t] % 3 = 0 THEN pwb \cup {<<t, a>>} ELSE pwb
              /\ k' = [k EXCEPT ![t] = @ + 1]
      /\ UNCHANGED <<phase, gClock, lock, mem, p_seq, pm, pc, txVars, histVars>>

(* gClock.fetch_add(), which is a fence, p_seq and its PWB, ... *)
CommitTickVR(t) ==
  /\ pc[t] = "commit" /\ k[t] > 3 * Len(LinesToPersist(t)) /\ Fenced(t)
  /\ gClock' = gClock + 1
  /\ rClock' = [rClock EXCEPT ![t] = gClock + 1]
  /\ p_seq' = [p_seq EXCEPT ![t] = @ + 1]
  /\ pwb' = pwb \cup {<<t, PseqLine(t)>>}
  /\ Goto(t, "sync")
  /\ UNCHANGED <<phase, lock, mem, region, pm, call, readSet, writeSet, histVars>>

(* ... PSYNC. *)
CommitSyncVR(t) ==
  /\ pc[t] = "sync" /\ Fenced(t)
  /\ Goto(t, "unlock")
  /\ UNCHANGED <<phase, gClock, lock, regionVars, txVars, histVars>>

WordsToUndoAll(t) ==  \* mutant: the last range is reverted whoever has its locks
  FlattenSeq([i \in 1 .. Len(writeSet[t]) |-> WordsIn(writeSet[t][i])])

(* rollbackVR(): all ranges of the log, the last one only if this thread   *)
(* has all of its locks.                                                   *)
WordsToUndo(t) ==
  LET n == Len(writeSet[t])
      last == IF n > 0 /\ \A i \in DOMAIN LocksWritten(writeSet[t][n]) :
                            lock[LocksWritten(writeSet[t][n])[i]].owner = t
              THEN n ELSE n - 1
  IN  FlattenSeq([i \in 1 .. last |-> WordsIn(writeSet[t][i])])

RollbackWord(t) ==
  /\ pc[t] = "abort" /\ k[t] <= Len(WordsToUndo(t))
  /\ LET a == WordsToUndo(t)[k[t]]
     IN  mem' = [mem EXCEPT ![a] = region[a].main]
  /\ Advance(t)
  /\ UNCHANGED <<phase, gClock, lock, region, p_seq, pm, pwb, txVars, histVars>>

AbortTickVR(t) ==
  /\ pc[t] = "abort" /\ k[t] > Len(WordsToUndo(t))
  /\ gClock' = gClock + 1
  /\ rClock' = [rClock EXCEPT ![t] = gClock + 1]
  /\ Goto(t, "unlockAborted")
  /\ UNCHANGED <<phase, lock, regionVars, call, readSet, writeSet, histVars>>

EvictVR ==
  /\ \E l \in Line :
       /\ pm' = [pm EXCEPT ![l] = IF l \in Addr THEN region[l] ELSE p_seq[0 - l]]
       /\ pwb' = {w \in pwb : w[2] # l}
       /\ LogCommit(l)
  /\ UNCHANGED <<phase, gClock, lock, mem, region, p_seq, pc, txVars, k, calls, returned>>

(* The replica is lost; k[Min(Thread)] counts the lines recovered. *)
CrashVR ==
  /\ CrashThreads
  /\ mem' = [a \in Addr |-> InitVal]
  /\ region' = [a \in Addr |-> pm[a]]
  /\ p_seq' = [t \in Thread |-> pm[PseqLine(t)]]
  /\ lock' = [l \in Lock |-> Free(0)] /\ gClock' = 1

Uncommitted(line, pseq) == line.tid # NoTid /\ line.seq = pseq[line.tid]

(* recover(): a line is reverted if its transaction is the one that p_seq  *)
(* of its thread names.                                                    *)
RecoverLine ==
  LET a == k[Min(Thread)]
  IN  /\ phase = "recover" /\ a \in Addr
      /\ region' = [region EXCEPT ![a].tid = NoTid, ![a].seq = 0,
                                  ![a].main = IF Uncommitted(region[a], p_seq)
                                              THEN region[a].back ELSE @]
      /\ pwb' = pwb \cup {<<Min(Thread), a>>}
      /\ Advance(Min(Thread))
      /\ UNCHANGED <<phase, gClock, lock, mem, p_seq, pm, txVars, histVars>>

(* PSYNC, and mapVolatileRegion() copies all mains to the replica. *)
RecoverDoneVR ==
  /\ phase = "recover" /\ k[Min(Thread)] \notin Addr /\ pwb = {}
  /\ mem' = [a \in Addr |-> region[a].main]
  /\ k' = [t \in Thread |-> 1]
  /\ phase' = "up"
  /\ UNCHANGED <<gClock, lock, region, p_seq, pm, pwb, pc, txVars, histVars>>

NextTrinityVRTL2 ==
  \/ \E t \in Thread : \/ Concurrency(t) \/ Call(t, Program) \/ BeginVR(t)
                       \/ TakeLockVR(t) \/ FailLockVR(t) \/ StoreWordVR(t)
                       \/ CommitLine(t) \/ CommitTickVR(t) \/ CommitSyncVR(t)
                       \/ RollbackWord(t) \/ AbortTickVR(t)
  \/ EvictVR \/ CrashVR \/ RecoverLine \/ RecoverDoneVR

(* What a power failure now would leave. *)
DurableVR ==
  LET pseq == [t \in Thread |-> pm[PseqLine(t)]]
  IN  [a \in Addr |-> IF Uncommitted(pm[a], pseq) THEN pm[a].back ELSE pm[a].main]

=============================================================================
