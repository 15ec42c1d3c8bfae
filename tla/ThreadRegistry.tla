--------------------------- MODULE ThreadRegistry ---------------------------
(***************************************************************************)
(* class ThreadRegistry, the same in every header of ptms/: a thread takes *)
(* the first free slot of usedTID the first time it needs an id, and gives *)
(* it back when it ends.  maxTid bounds the slots that the rest of the     *)
(* code ever looks at.                                                     *)
(***************************************************************************)
EXTENDS Integers

CONSTANTS Thread,      \* the threads that live at the same time
          MaxThreads   \* REGISTRY_MAX_THREADS

ASSUME RegistryAssumption == MaxThreads \in Nat \ {0}

Slot == 0 .. MaxThreads - 1
NOT_ASSIGNED == -1

VARIABLES usedTID,  \* the slots in use
          maxTid,   \* highest slot in use so far, plus one
          tid,      \* tl_tcico.tid of each thread
          reg       \* where each thread stands in register_thread_new():
                    \* at, the slot it tries, and the maxTid it has read

registryVars == <<usedTID, maxTid, tid, reg>>

Out == [at |-> "out", slot |-> 0, max |-> 0]

RegistryInit ==
  /\ usedTID = [s \in Slot |-> FALSE]
  /\ maxTid = -1
  /\ tid = [t \in Thread |-> NOT_ASSIGNED]
  /\ reg = [t \in Thread |-> Out]

Registered(t) == tid[t] # NOT_ASSIGNED
Registering(t) == reg[t].at # "out"

(* getTID() of a thread that has no slot. *)
GetTID(t) ==
  /\ ~Registered(t) /\ ~Registering(t)
  /\ reg' = [reg EXCEPT ![t] = [Out EXCEPT !.at = "scan"]]
  /\ UNCHANGED <<usedTID, maxTid, tid>>

NextSlot(t) ==
  reg' = [reg EXCEPT ![t] = [at |-> "scan", slot |-> reg[t].slot + 1, max |-> 0]]

(* The slot is used: try the next one. *)
SlotUsed(t) ==
  /\ reg[t].at = "scan" /\ reg[t].slot \in Slot
  /\ usedTID[reg[t].slot]
  /\ NextSlot(t)
  /\ UNCHANGED <<usedTID, maxTid, tid>>

SlotFree(t) ==
  /\ reg[t].at = "scan" /\ reg[t].slot \in Slot
  /\ ~usedTID[reg[t].slot]
  /\ reg' = [reg EXCEPT ![t].at = "claim"]
  /\ UNCHANGED <<usedTID, maxTid, tid>>

ClaimBlindly(t) ==  \* mutant: a plain store in place of the compare-and-swap
  /\ reg[t].at = "claim"
  /\ usedTID' = [usedTID EXCEPT ![reg[t].slot] = TRUE]
  /\ reg' = [reg EXCEPT ![t].at = "load"]
  /\ UNCHANGED <<maxTid, tid>>

(* The compare-and-swap on usedTID, won or lost. *)
ClaimWon(t) ==
  /\ reg[t].at = "claim" /\ ~usedTID[reg[t].slot]
  /\ usedTID' = [usedTID EXCEPT ![reg[t].slot] = TRUE]
  /\ reg' = [reg EXCEPT ![t].at = "load"]
  /\ UNCHANGED <<maxTid, tid>>

ClaimLost(t) ==
  /\ reg[t].at = "claim" /\ usedTID[reg[t].slot]
  /\ NextSlot(t)
  /\ UNCHANGED <<usedTID, maxTid, tid>>

(* The loop that raises maxTid until it covers the slot. *)
MaxTooLow(t) ==
  /\ reg[t].at = "load" /\ maxTid <= reg[t].slot
  /\ reg' = [reg EXCEPT ![t].at = "raise", ![t].max = maxTid]
  /\ UNCHANGED <<usedTID, maxTid, tid>>

RaiseMaxTwice(t) ==  \* mutant: tid+2 in place of tid+1
  /\ reg[t].at = "raise"
  /\ maxTid' = IF maxTid = reg[t].max THEN reg[t].slot + 2 ELSE maxTid
  /\ reg' = [reg EXCEPT ![t].at = "load", ![t].max = 0]
  /\ UNCHANGED <<usedTID, tid>>

RaiseMaxToSlot(t) ==  \* mutant: tid in place of tid+1
  /\ reg[t].at = "raise"
  /\ maxTid' = IF maxTid = reg[t].max THEN reg[t].slot ELSE maxTid
  /\ reg' = [reg EXCEPT ![t].at = "load", ![t].max = 0]
  /\ UNCHANGED <<usedTID, tid>>

RaiseMax(t) ==
  /\ reg[t].at = "raise"
  /\ maxTid' = IF maxTid = reg[t].max THEN reg[t].slot + 1 ELSE maxTid
  /\ reg' = [reg EXCEPT ![t].at = "load", ![t].max = 0]
  /\ UNCHANGED <<usedTID, tid>>

MaxReaches(t) ==  \* mutant: the loop stops when maxTid equals the slot
  /\ reg[t].at = "load" /\ maxTid >= reg[t].slot
  /\ tid' = [tid EXCEPT ![t] = reg[t].slot]
  /\ reg' = [reg EXCEPT ![t] = Out]
  /\ UNCHANGED <<usedTID, maxTid>>

MaxCovers(t) ==
  /\ reg[t].at = "load" /\ maxTid > reg[t].slot
  /\ tid' = [tid EXCEPT ![t] = reg[t].slot]
  /\ reg' = [reg EXCEPT ![t] = Out]
  /\ UNCHANGED <<usedTID, maxTid>>

DeregisterLeak(t) ==  \* mutant: the slot stays marked as used
  /\ Registered(t)
  /\ tid' = [tid EXCEPT ![t] = NOT_ASSIGNED]
  /\ UNCHANGED <<usedTID, maxTid, reg>>

(* The thread ends: ~ThreadCheckInCheckOut() frees the slot. *)
Deregister(t) ==
  /\ Registered(t)
  /\ usedTID' = [usedTID EXCEPT ![tid[t]] = FALSE]
  /\ tid' = [tid EXCEPT ![t] = NOT_ASSIGNED]
  /\ UNCHANGED <<maxTid, reg>>

RegisterStep(t) ==
  \/ SlotUsed(t) \/ SlotFree(t) \/ ClaimWon(t) \/ ClaimLost(t)
  \/ MaxTooLow(t) \/ RaiseMax(t) \/ MaxCovers(t)
-----------------------------------------------------------------------------
RegistryTypeOK ==
  /\ usedTID \in [Slot -> BOOLEAN]
  /\ maxTid \in Int /\ maxTid <= MaxThreads
  /\ tid \in [Thread -> Slot \cup {NOT_ASSIGNED}]
  /\ reg \in [Thread -> [at : {"out", "scan", "claim", "load", "raise"},
                         slot : 0 .. MaxThreads, max : -1 .. MaxThreads]]

(* The slot a thread has won the compare-and-swap for. *)
Holds(t, s) == tid[t] = s \/ (reg[t].at \in {"load", "raise"} /\ reg[t].slot = s)

(* An id is one thread's alone while it holds it, and is marked as used:   *)
(* two threads never share an entry of fc, of the read indicator or of any *)
(* other array that is indexed by tid.                                     *)
UniqueTID ==
  \A t \in Thread, s \in Slot : Holds(t, s)
    => usedTID[s] /\ \A u \in Thread \ {t} : ~Holds(u, s)

(* The loops over 0 .. maxTid - 1 (isEmpty(), flat combining) miss no      *)
(* thread that has got its id, whoever raised maxTid last.                 *)
MaxTidCovers == \A t \in Thread : Registered(t) => tid[t] < maxTid

(* A thread that scans slots which others free and take behind its back    *)
(* never runs off the end of the array ("Too many threads") unless more    *)
(* threads live at the same time than there are slots.                     *)
NeverFull == \A t \in Thread : reg[t].at = "scan" => reg[t].slot \in Slot

(* "Progress condition: wait-free bounded": whatever the others do, a      *)
(* thread that registers gets its id.                                      *)
RegistrationEnds == \A t \in Thread : Registering(t) ~> Registered(t)
=============================================================================
