--------------------------------- MODULE TL2 ---------------------------------
(***************************************************************************)
(* The concurrency control of ptms/trinity/TrinityTL2.hpp and              *)
(* TrinityVRTL2.hpp, after TL2: transactions of several threads run at the *)
(* same time, each word is protected by a lock with a sequence, a global   *)
(* clock tells which words have changed since a transaction began.  Locks  *)
(* are taken at the first store (eager), the new value is stored in place, *)
(* and a transaction that meets a lock or a newer sequence aborts, rolls   *)
(* back, and starts again.                                                 *)
(*                                                                         *)
(* How a transaction becomes durable, and is rolled back, is up to the     *)
(* module that extends this one.                                           *)
(***************************************************************************)
EXTENDS TransactionHistory

CONSTANTS NumLocks,  \* a lock protects the words that are equal modulo NumLocks
          MaxClock   \* bound: no transaction begins once gClock is above it

Lock == 0 .. NumLocks - 1
NoTid == 0                 \* a thread's number is its tid + 1
PseqLine(t) == 0 - t       \* the line of pmd->p_seq[t]
Line == Addr \cup {PseqLine(t) : t \in Thread}

ASSUME TL2Assumption ==
  /\ NoTid \notin Thread /\ IsFiniteSet(Thread) /\ NumLocks \in Nat \ {0} /\ MaxClock \in Nat
  /\ Program \subseteq Seq([op : {"load", "store"}, range : SUBSET Addr])

VARIABLES phase,    \* "up", or "recover" until the constructor has returned
          gClock,   \* the global clock
          lock,     \* [owner, seq] of each lock
          mem,      \* the words as loads see them
          region,   \* what else the line of a word holds, see the engines
          p_seq,    \* pmd->p_seq of each thread
          pm,       \* the lines in the medium
          pwb,      \* <<t, l>>: t has issued a PWB of l that a fence of t waits for
          pc,       \* where each thread stands
          rClock, readSet, writeSet, \* its OpData
          k         \* how far it is in the loop under way

regionVars == <<mem, region, p_seq, pm, pwb>>
txVars == <<call, rClock, readSet, writeSet>>
vars == <<phase, gClock, lock, regionVars, pc, txVars, k, histVars>>

Free(seq) == [owner |-> NoTid, seq |-> seq]

InitTL2 ==
  /\ InitHistory
  /\ phase = "up" /\ gClock = 2
  /\ lock = [l \in Lock |-> Free(0)]
  /\ mem = [a \in Addr |-> InitVal]
  /\ p_seq = [t \in Thread |-> 1]
  /\ pwb = {}
  /\ pc = [t \in Thread |-> "idle"]
  /\ rClock = [t \in Thread |-> 0]
  /\ readSet = [t \in Thread |-> <<>>] /\ writeSet = [t \in Thread |-> <<>>]
  /\ k = [t \in Thread |-> 1]
-----------------------------------------------------------------------------
(* Words and locks.  A range is a set of adjacent words.                   *)
LockOf(a) == a % NumLocks
From(first, last) == [i \in 1 .. last - first + 1 |-> first + i - 1]

(* The locks that a store of the range takes, from mBeg up to mEnd; and    *)
(* those that a load checks, which takes the end of the table into account.*)
LocksWritten(range) == From(LockOf(Min(range)), LockOf(Max(range)))

LocksRead(range) ==
  IF LockOf(Max(range)) < LockOf(Min(range))
  THEN From(0, LockOf(Min(range))) \o From(LockOf(Max(range)), NumLocks - 1)
  ELSE LocksWritten(range)

Fenced(t) == ~\E l \in Line : <<t, l>> \in pwb

(* isUnlockedOrLockedByMe() *)
Accessible(t, l) ==
  lock[l].owner = t \/ (lock[l].owner = NoTid /\ lock[l].seq <= rClock[t])

AtOp(t, op) == pc[t] = "run" /\ ~AtEnd(t) /\ Op(t).op = op
Goto(t, where) == pc' = [pc EXCEPT ![t] = where] /\ k' = [k EXCEPT ![t] = 1]
Advance(t) == k' = [k EXCEPT ![t] = @ + 1] /\ UNCHANGED pc
-----------------------------------------------------------------------------
(* updateTx() or readTx() is called. *)
Call(t, programs) ==
  /\ phase = "up" /\ pc[t] = "idle"
  /\ NewCall(t, programs)
  /\ Goto(t, "begin")
  /\ UNCHANGED <<phase, gClock, lock, regionVars, rClock, readSet, writeSet>>

(* beginTx(), in the first attempt or a later one: the clock is read. *)
BeginTx(t) ==
  /\ pc[t] = "begin" /\ gClock <= MaxClock
  /\ rClock' = [rClock EXCEPT ![t] = gClock]
  /\ readSet' = [readSet EXCEPT ![t] = <<>>]
  /\ writeSet' = [writeSet EXCEPT ![t] = <<>>]
  /\ call' = [call EXCEPT ![t].pos = 1, ![t].reads = {}]
  /\ Goto(t, "run")
  /\ UNCHANGED <<phase, gClock, lock, histVars>>

(* pload(): first the words, one by one, ... *)
LoadWord(t) ==
  /\ AtOp(t, "load") /\ k[t] <= Cardinality(Op(t).range)
  /\ LET a == WordsIn(Op(t).range)[k[t]]
     IN  call' = [call EXCEPT ![t].reads = Reading(t, a, mem[a])]
  /\ Advance(t)
  /\ UNCHANGED <<phase, gClock, lock, regionVars, rClock, readSet, writeSet, histVars>>

(* ... then their locks, which go to the read set of an update.  (Trinity- *)
(* TL2 leaves out those it owns, which validate() would accept anyway.)    *)
CheckLoad(t) ==
  LET locks == LocksRead(Op(t).range)
      i     == k[t] - Cardinality(Op(t).range)
  IN  /\ AtOp(t, "load") /\ i >= 1
      /\ readSet' = [readSet EXCEPT ![t] = IF i = 1 /\ IsUpdate(call[t].prog) THEN @ \o locks
                                           ELSE @]
      /\ IF Accessible(t, locks[i])
         THEN IF i < Len(locks)
              THEN Advance(t) /\ UNCHANGED call
              ELSE Goto(t, "run") /\ call' = [call EXCEPT ![t].pos = @ + 1]
         ELSE Goto(t, "abort") /\ UNCHANGED call
      /\ UNCHANGED <<phase, gClock, lock, regionVars, rClock, writeSet, histVars>>

(* pstore(): the locks of the range, one by one.  The load of a lock and   *)
(* the compare-and-swap are one step: a lock that changes in between is    *)
(* taken, or its new sequence is above rClock, and both abort.             *)
LockAt(t) == LocksWritten(Op(t).range)[k[t]]

TakeLock(t, seq) ==
  /\ AtOp(t, "store") /\ k[t] <= Len(LocksWritten(Op(t).range))
  /\ Accessible(t, LockAt(t))
  /\ lock' = IF lock[LockAt(t)].owner = t THEN lock
             ELSE [lock EXCEPT ![LockAt(t)] = [owner |-> t, seq |-> seq]]
  /\ Advance(t)
  /\ UNCHANGED <<phase, gClock, regionVars, call, rClock, readSet, histVars>>

FailLock(t) ==
  /\ AtOp(t, "store") /\ k[t] <= Len(LocksWritten(Op(t).range))
  /\ ~Accessible(t, LockAt(t))
  /\ Goto(t, "abort")
  /\ UNCHANGED <<phase, gClock, lock, regionVars, call, rClock, readSet, histVars>>

(* The locks are taken: the new values, in place. *)
StoreWord(t) ==
  LET i == k[t] - Len(LocksWritten(Op(t).range))
      a == WordsIn(Op(t).range)[i]
  IN  /\ AtOp(t, "store") /\ i >= 1
      /\ mem' = [mem EXCEPT ![a] = call[t].id]
      /\ IF i < Cardinality(Op(t).range)
         THEN Advance(t) /\ UNCHANGED call
         ELSE Goto(t, "run") /\ call' = [call EXCEPT ![t].pos = @ + 1]
      /\ UNCHANGED <<phase, gClock, lock, region, p_seq, pm, pwb, rClock, readSet, histVars>>
-----------------------------------------------------------------------------
Written(t) == UNION {writeSet[t][i] : i \in DOMAIN writeSet[t]}

Finished(t) == pc[t] = "run" /\ AtEnd(t)

(* endTx() of a transaction that has stored nothing. *)
EndReadOnly(t) ==
  /\ Finished(t) /\ writeSet[t] = <<>>
  /\ log' = Append(log, Effect(t, {})) /\ returned' = returned \cup {call[t].id}
  /\ Goto(t, "idle")
  /\ UNCHANGED <<phase, gClock, lock, regionVars, txVars, calls>>

EndTx(t) ==
  /\ Finished(t) /\ writeSet[t] # <<>>
  /\ Goto(t, "validate")
  /\ UNCHANGED <<phase, gClock, lock, regionVars, txVars, histVars>>

(* ReadSet::validate(), one lock after the other. *)
Validate(t) ==
  /\ pc[t] = "validate"
  /\ IF k[t] > Len(readSet[t]) THEN Goto(t, "commit")
     ELSE IF Accessible(t, readSet[t][k[t]]) THEN Advance(t)
     ELSE Goto(t, "abort")
  /\ UNCHANGED <<phase, gClock, lock, regionVars, txVars, histVars>>

(* unlock(nextClock): after a commit or an abort, lock after lock. *)
LocksTaken(t) == {l \in Lock : lock[l].owner = t}

Unlock(t) ==
  /\ pc[t] \in {"unlock", "unlockAborted"} /\ LocksTaken(t) # {}
  /\ lock' = [lock EXCEPT ![Min(LocksTaken(t))] = Free(rClock[t])]
  /\ UNCHANGED <<phase, gClock, regionVars, pc, txVars, k, histVars>>

(* The transaction returns, or the next attempt begins. *)
Return(t) ==
  /\ pc[t] = "unlock" /\ LocksTaken(t) = {}
  /\ returned' = returned \cup {call[t].id}
  /\ Goto(t, "idle")
  /\ UNCHANGED <<phase, gClock, lock, regionVars, txVars, calls, log>>

Retry(t) ==
  /\ pc[t] = "unlockAborted" /\ LocksTaken(t) = {}
  /\ Goto(t, "begin")
  /\ UNCHANGED <<phase, gClock, lock, regionVars, txVars, histVars>>

Concurrency(t) ==
  \/ LoadWord(t) \/ CheckLoad(t)
  \/ EndReadOnly(t) \/ EndTx(t) \/ Validate(t) \/ Unlock(t) \/ Return(t) \/ Retry(t)

(* The history after a write-back of line l: the transaction whose p_seq   *)
(* it makes durable has taken effect.                                      *)
Committing(t, l) == l = PseqLine(t) /\ pc[t] = "sync" /\ pm[l] # p_seq[t]

LogCommit(l) ==
  log' = IF \E t \in Thread : Committing(t, l)
         THEN Append(log, Effect(0 - l, Written(0 - l))) ELSE log

(* A power failure ends all calls. *)
CrashThreads ==
  /\ phase' = "recover" /\ pwb' = {}
  /\ pc' = [t \in Thread |-> "idle"] /\ call' = [t \in Thread |-> NoCall]
  /\ rClock' = [t \in Thread |-> 0] /\ k' = [t \in Thread |-> 1]
  /\ readSet' = [t \in Thread |-> <<>>] /\ writeSet' = [t \in Thread |-> <<>>]
  /\ returned' = {log[i].id : i \in DOMAIN log}
  /\ UNCHANGED <<pm, calls, log>>
=============================================================================
