------------------------------ MODULE CRWWPLock ------------------------------
(***************************************************************************)
(* class CRWWPSpinLock: a spin lock for writers, and a read indicator with *)
(* one flag per thread id.  A writer that holds the spin lock scans the    *)
(* flags until it has seen each of them down; a reader raises its flag,    *)
(* and takes it down again if it then finds the spin lock taken.  The scan *)
(* goes up to maxTid, so the ids of module ThreadRegistry are part of the  *)
(* argument.                                                               *)
(*                                                                         *)
(* The atomics of the two sides of the hand-shake (arrive, isLocked, the   *)
(* compare-and-swap, the loads of isEmpty) are sequentially consistent in  *)
(* the code; the release stores (depart, unlock) are ordered after what    *)
(* the thread did before.                                                  *)
(***************************************************************************)
EXTENDS ThreadRegistry

VARIABLES writers,  \* SpinLock.writers: is it taken?
          states,   \* the flag of each thread id: is it READING?
          wr,       \* where each thread stands as a writer: at, next (the flag
                    \* its scan looks at next) and max (the maxTid it scans to)
          rd        \* where each thread stands as a reader

lockVars == <<writers, states, wr, rd>>

NoWriter == [at |-> "out", next |-> 0, max |-> 0]

LockInit ==
  /\ writers = FALSE
  /\ states = [s \in Slot |-> FALSE]
  /\ wr = [t \in Thread |-> NoWriter]
  /\ rd = [t \in Thread |-> "out"]

At(t, place) == wr' = [wr EXCEPT ![t].at = place]
-----------------------------------------------------------------------------
(* tryExclusiveLock(): a load, and a compare-and-swap if it saw 0. *)
SeesFree(t) ==
  /\ wr[t].at = "out" /\ ~writers
  /\ At(t, "cas")
  /\ UNCHANGED <<writers, states, rd>>

SeesTaken(t) ==
  /\ wr[t].at = "out" /\ writers
  /\ UNCHANGED lockVars

CASWon(t) ==
  /\ wr[t].at = "cas" /\ ~writers
  /\ writers' = TRUE /\ At(t, "locked")
  /\ UNCHANGED <<states, rd>>

CASLost(t) ==
  /\ wr[t].at = "cas" /\ writers
  /\ At(t, "out")
  /\ UNCHANGED <<writers, states, rd>>

StartShortScan(t) ==  \* mutant: the scan leaves out the last flag
  /\ wr[t].at \in {"locked", "wait"}
  /\ wr' = [wr EXCEPT ![t] = [at |-> "scan", next |-> 0, max |-> maxTid - 1]]
  /\ UNCHANGED <<writers, states, rd>>

(* waitForReaders(): isEmpty() reads maxTid, then the flags in order; it   *)
(* starts again whenever it sees one up.                                   *)
StartScan(t) ==
  /\ wr[t].at \in {"locked", "wait"}
  /\ wr' = [wr EXCEPT ![t] = [at |-> "scan", next |-> 0, max |-> maxTid]]
  /\ UNCHANGED <<writers, states, rd>>

ScanStep(t) ==
  /\ wr[t].at = "scan" /\ wr[t].next < wr[t].max
  /\ \/ states[wr[t].next] /\ wr' = [wr EXCEPT ![t] = [NoWriter EXCEPT !.at = "wait"]]
     \/ ~states[wr[t].next] /\ wr' = [wr EXCEPT ![t].next = @ + 1]
  /\ UNCHANGED <<writers, states, rd>>

ScanEnd(t) ==
  /\ wr[t].at = "scan" /\ wr[t].next >= wr[t].max
  /\ wr' = [wr EXCEPT ![t] = [NoWriter EXCEPT !.at = "exclusive"]]
  /\ UNCHANGED <<writers, states, rd>>

ExclusiveUnlock(t) ==
  /\ wr[t].at \in {"locked", "exclusive"}
  /\ writers' = FALSE /\ wr' = [wr EXCEPT ![t] = NoWriter]
  /\ UNCHANGED <<states, rd>>
-----------------------------------------------------------------------------
(* sharedLock(): arrive, look at the spin lock, and if it is taken depart, *)
(* wait until it is free and start again.                                  *)
Arrive(t) ==
  /\ rd[t] \in {"out", "again"}
  /\ states' = [states EXCEPT ![tid[t]] = TRUE]
  /\ rd' = [rd EXCEPT ![t] = "arrived"]
  /\ UNCHANGED <<writers, wr>>

EnterShared(t) ==
  /\ rd[t] = "arrived" /\ ~writers
  /\ rd' = [rd EXCEPT ![t] = "shared"]
  /\ UNCHANGED <<writers, states, wr>>

GiveWayFlagUp(t) ==  \* mutant: a reader waits without depart()
  /\ rd[t] = "arrived" /\ writers
  /\ rd' = [rd EXCEPT ![t] = "spin"]
  /\ UNCHANGED <<writers, states, wr>>

GiveWay(t) ==
  /\ rd[t] = "arrived" /\ writers
  /\ rd' = [rd EXCEPT ![t] = "depart"]
  /\ UNCHANGED <<writers, states, wr>>

Depart(t) ==
  /\ rd[t] = "depart"
  /\ states' = [states EXCEPT ![tid[t]] = FALSE]
  /\ rd' = [rd EXCEPT ![t] = "spin"]
  /\ UNCHANGED <<writers, wr>>

NeverSpin(t) ==  \* mutant: a reader tries again at once
  /\ rd[t] = "spin"
  /\ rd' = [rd EXCEPT ![t] = "again"]
  /\ UNCHANGED <<writers, states, wr>>

StopSpinning(t) ==
  /\ rd[t] = "spin" /\ ~writers
  /\ rd' = [rd EXCEPT ![t] = "again"]
  /\ UNCHANGED <<writers, states, wr>>

SharedUnlock(t) ==
  /\ rd[t] = "shared"
  /\ states' = [states EXCEPT ![tid[t]] = FALSE]
  /\ rd' = [rd EXCEPT ![t] = "out"]
  /\ UNCHANGED <<writers, wr>>

AcquireShared(t) == EnterShared(t) \/ GiveWay(t) \/ Depart(t) \/ StopSpinning(t)
TryExclusive(t)  == SeesFree(t) \/ SeesTaken(t) \/ CASWon(t) \/ CASLost(t)
WaitForReaders(t) == StartScan(t) \/ ScanStep(t) \/ ScanEnd(t)
-----------------------------------------------------------------------------
LockTypeOK ==
  /\ RegistryTypeOK
  /\ writers \in BOOLEAN
  /\ states \in [Slot -> BOOLEAN]
  /\ wr \in [Thread -> [at : {"out", "cas", "locked", "wait", "scan", "exclusive"},
                        next : Nat, max : Int]]
  /\ rd \in [Thread -> {"out", "arrived", "shared", "depart", "spin", "again"}]

HoldsSpinLock(t) == wr[t].at \in {"locked", "wait", "scan", "exclusive"}

(* A writer that waitForReaders() has let through is alone: no other       *)
(* writer has the spin lock and no reader is inside, although readers      *)
(* arrive, and threads register and end, while the flags are scanned.      *)
MutualExclusion ==
  \A t, u \in Thread :
    /\ t # u /\ HoldsSpinLock(t) => ~HoldsSpinLock(u)
    /\ wr[t].at = "exclusive" => rd[u] # "shared"

(* No flag is left up behind: when no thread is a reader, every flag is    *)
(* down, whoever had the slot before; a stale one would block every later  *)
(* writer for ever.                                                        *)
NoStaleFlag ==
  \A s \in Slot : states[s] =>
    \E t \in Thread : tid[t] = s /\ rd[t] \in {"arrived", "shared", "depart"}

(* Writer preference ("starvation-free for writers"): once a writer has    *)
(* the spin lock, readers that keep coming cannot keep it from getting in. *)
WriterPreference ==
  \A t \in Thread : wr[t].at \in {"wait", "scan"} ~> wr[t].at = "exclusive"
=============================================================================
