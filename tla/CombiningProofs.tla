---------------------------- MODULE CombiningProofs ----------------------------
(***************************************************************************)
(* Theorems about module FlatCombining: the thread ids, the lock and the   *)
(* flat combining over them, for every set of threads and every number of  *)
(* slots.                                                                  *)
(***************************************************************************)
EXTENDS FlatCombining, FiniteSets, FiniteSetTheorems, TLAPS

(***************************************************************************)
(* The registry: no slot has two holders, and maxTid covers them.          *)
(***************************************************************************)
(* A slot that is marked as used has a holder. *)
SlotsHeld == \A s \in Slot : usedTID[s] => \E t \in Thread : Holds(t, s)

(* What a thread in register_thread_new() knows. *)
InvRegistering ==
  \A t \in Thread :
    /\ Registering(t) => ~Registered(t)
    /\ reg[t].at \in {"claim", "load", "raise"} => reg[t].slot \in Slot
    /\ reg[t].at = "raise" => reg[t].max <= reg[t].slot

RegistryInv ==
  /\ RegistryTypeOK /\ maxTid >= -1
  /\ UniqueTID /\ SlotsHeld /\ MaxTidCovers /\ InvRegistering

LEMMA SlotFacts == Slot \subseteq Nat /\ NOT_ASSIGNED \notin Slot /\ NOT_ASSIGNED \in Int
BY RegistryAssumption DEF Slot, NOT_ASSIGNED

LEMMA RegistryInitInv == RegistryInit => RegistryInv
BY SlotFacts, RegistryAssumption
   DEF RegistryInit, RegistryInv, RegistryTypeOK, UniqueTID, SlotsHeld, MaxTidCovers,
       InvRegistering, Holds, Registered, Registering, Out, NOT_ASSIGNED, Slot

(* What a step of register_thread_new() makes of the thread's own place.   *)
RegPlace == [at : {"out", "scan", "claim", "load", "raise"},
             slot : 0 .. MaxThreads, max : -1 .. MaxThreads]

Moves(t, at, slot, max) ==
  /\ reg' \in [Thread -> RegPlace]
  /\ reg'[t].at = at /\ reg'[t].slot = slot /\ reg'[t].max = max
  /\ \A u \in Thread \ {t} : reg'[u] = reg[u]

LEMMA MovesTo ==
  ASSUME RegistryTypeOK, NEW t \in Thread, NEW r \in RegPlace, reg' = [reg EXCEPT ![t] = r]
  PROVE  Moves(t, r.at, r.slot, r.max)
BY DEF RegistryTypeOK, RegPlace, Moves

LEMMA RegistryMoves ==
  ASSUME RegistryInv, NEW t \in Thread
  PROVE  /\ GetTID(t) => Moves(t, "scan", 0, 0)
         /\ SlotUsed(t) \/ ClaimLost(t) => Moves(t, "scan", reg[t].slot + 1, 0)
         /\ SlotFree(t) => Moves(t, "claim", reg[t].slot, reg[t].max)
         /\ ClaimWon(t) => Moves(t, "load", reg[t].slot, reg[t].max)
         /\ MaxTooLow(t) => Moves(t, "raise", reg[t].slot, maxTid)
         /\ RaiseMax(t) => Moves(t, "load", reg[t].slot, 0)
         /\ MaxCovers(t) => Moves(t, "out", 0, 0)
<1>. USE SlotFacts, RegistryAssumption
<1>. reg \in [Thread -> RegPlace] /\ reg[t] \in RegPlace
  BY DEF RegistryInv, RegistryTypeOK, RegPlace
<1>. RegistryTypeOK /\ maxTid \in -1 .. MaxThreads
  BY DEF RegistryInv, RegistryTypeOK
<1>. /\ 0 \in 0 .. MaxThreads /\ 0 \in -1 .. MaxThreads
     /\ \A k \in Slot : k + 1 \in 0 .. MaxThreads
  BY DEF Slot
<1>1. ASSUME GetTID(t) PROVE Moves(t, "scan", 0, 0)
  <2>. DEFINE r == [at |-> "scan", slot |-> 0, max |-> 0]
  <2>1. r \in RegPlace
    BY DEF RegPlace
  <2>2. [Out EXCEPT !.at = "scan"] = r
    BY DEF Out
  <2>3. reg' = [reg EXCEPT ![t] = r]
    BY <1>1, <2>2 DEF GetTID
  <2>. QED BY <2>1, <2>3, MovesTo
<1>2. ASSUME SlotUsed(t) \/ ClaimLost(t) PROVE Moves(t, "scan", reg[t].slot + 1, 0)
  <2>. DEFINE r == [at |-> "scan", slot |-> reg[t].slot + 1, max |-> 0]
  <2>1. reg[t].slot \in Slot
    BY <1>2 DEF SlotUsed, ClaimLost, RegistryInv, InvRegistering
  <2>2. r \in RegPlace
    BY <2>1 DEF RegPlace
  <2>3. reg' = [reg EXCEPT ![t] = r]
    BY <1>2 DEF SlotUsed, ClaimLost, NextSlot
  <2>. QED BY <2>2, <2>3, MovesTo
<1>3. ASSUME NEW place \in {"claim", "load"}, reg' = [reg EXCEPT ![t].at = place]
      PROVE  Moves(t, place, reg[t].slot, reg[t].max)
  <2>. DEFINE r == [reg[t] EXCEPT !.at = place]
  <2>1. r \in RegPlace /\ r.at = place /\ r.slot = reg[t].slot /\ r.max = reg[t].max
    BY DEF RegPlace
  <2>2. reg' = [reg EXCEPT ![t] = r]
    BY <1>3
  <2>. QED BY <2>1, <2>2, MovesTo
<1>4. ASSUME MaxTooLow(t) PROVE Moves(t, "raise", reg[t].slot, maxTid)
  <2>. DEFINE r == [reg[t] EXCEPT !.at = "raise", !.max = maxTid]
  <2>1. r \in RegPlace /\ r.at = "raise" /\ r.slot = reg[t].slot /\ r.max = maxTid
    BY DEF RegPlace
  <2>2. reg' = [reg EXCEPT ![t] = r]
    BY <1>4 DEF MaxTooLow
  <2>. QED BY <2>1, <2>2, MovesTo
<1>5. ASSUME RaiseMax(t) PROVE Moves(t, "load", reg[t].slot, 0)
  <2>. DEFINE r == [reg[t] EXCEPT !.at = "load", !.max = 0]
  <2>1. r \in RegPlace /\ r.at = "load" /\ r.slot = reg[t].slot /\ r.max = 0
    BY DEF RegPlace
  <2>2. reg' = [reg EXCEPT ![t] = r]
    BY <1>5 DEF RaiseMax
  <2>. QED BY <2>1, <2>2, MovesTo
<1>6. ASSUME MaxCovers(t) PROVE Moves(t, "out", 0, 0)
  <2>1. Out \in RegPlace /\ reg' = [reg EXCEPT ![t] = Out]
    BY <1>6 DEF MaxCovers, Out, RegPlace
  <2>. QED BY <2>1, MovesTo DEF Out
<1>7. SlotFree(t) => reg' = [reg EXCEPT ![t].at = "claim"]
  BY DEF SlotFree
<1>8. ClaimWon(t) => reg' = [reg EXCEPT ![t].at = "load"]
  BY DEF ClaimWon
<1>. QED BY <1>1, <1>2, <1>3, <1>4, <1>5, <1>6, <1>7, <1>8

(* A step of one thread moves maxTid only up, and leaves the ids of the    *)
(* other threads alone.                                                    *)
LEMMA RegistryFrame ==
  ASSUME RegistryInv, NEW t \in Thread, GetTID(t) \/ RegisterStep(t) \/ Deregister(t)
  PROVE  /\ RegistryTypeOK' /\ maxTid' >= maxTid /\ maxTid' >= -1
         /\ \A u \in Thread \ {t} : tid'[u] = tid[u] /\ reg'[u] = reg[u]
<1>. USE SlotFacts DEF RegistryInv, RegistryTypeOK
<1>1. CASE GetTID(t)
  <2>1. Moves(t, "scan", 0, 0)
    BY <1>1, RegistryMoves
  <2>. QED BY <1>1, <2>1 DEF GetTID, Moves, RegPlace
<1>2. CASE SlotUsed(t) \/ ClaimLost(t)
  <2>1. Moves(t, "scan", reg[t].slot + 1, 0)
    BY <1>2, RegistryMoves
  <2>. QED BY <1>2, <2>1 DEF SlotUsed, ClaimLost, Moves, RegPlace
<1>3. CASE SlotFree(t)
  <2>1. Moves(t, "claim", reg[t].slot, reg[t].max)
    BY <1>3, RegistryMoves
  <2>. QED BY <1>3, <2>1 DEF SlotFree, Moves, RegPlace
<1>4. CASE ClaimWon(t)
  <2>1. Moves(t, "load", reg[t].slot, reg[t].max)
    BY <1>4, RegistryMoves
  <2>. QED BY <1>4, <2>1 DEF ClaimWon, InvRegistering, Moves, RegPlace
<1>5. CASE MaxTooLow(t)
  <2>1. Moves(t, "raise", reg[t].slot, maxTid)
    BY <1>5, RegistryMoves
  <2>. QED BY <1>5, <2>1 DEF MaxTooLow, Moves, RegPlace
<1>6. CASE RaiseMax(t)
  <2>1. Moves(t, "load", reg[t].slot, 0)
    BY <1>6, RegistryMoves
  <2>2. reg[t].max <= reg[t].slot /\ reg[t].slot + 1 <= MaxThreads /\ reg[t].slot \in Nat
    BY <1>6, RegistryAssumption DEF RaiseMax, InvRegistering, Slot
  <2>3. maxTid' \in Int /\ maxTid' <= MaxThreads /\ maxTid' >= maxTid
    BY <1>6, <2>2 DEF RaiseMax
  <2>. QED BY <1>6, <2>1, <2>3 DEF RaiseMax, Moves, RegPlace
<1>7. CASE MaxCovers(t)
  <2>1. Moves(t, "out", 0, 0)
    BY <1>7, RegistryMoves
  <2>. QED BY <1>7, <2>1 DEF MaxCovers, InvRegistering, Moves, RegPlace
<1>8. CASE Deregister(t)
  BY <1>8 DEF Deregister, Registered
<1>. QED BY <1>1, <1>2, <1>3, <1>4, <1>5, <1>6, <1>7, <1>8 DEF RegisterStep

(* A step that neither wins a slot nor frees one moves no holder. *)
LEMMA SameHolders ==
  ASSUME RegistryInv, usedTID' = usedTID,
         \A u \in Thread, s \in Slot : Holds(u, s)' <=> Holds(u, s)
  PROVE  UniqueTID' /\ SlotsHeld'
BY DEF RegistryInv, UniqueTID, SlotsHeld

LEMMA RegistryStepInv ==
  ASSUME RegistryInv, NEW t \in Thread, GetTID(t) \/ RegisterStep(t) \/ Deregister(t)
  PROVE  RegistryInv'
<1>. /\ RegistryTypeOK' /\ maxTid' >= maxTid /\ maxTid' >= -1
     /\ \A u \in Thread \ {t} : tid'[u] = tid[u] /\ reg'[u] = reg[u]
  BY RegistryFrame
<1>. USE SlotFacts DEF RegistryInv, RegistryTypeOK, InvRegistering
<1>1. CASE GetTID(t)
  <2>1. Moves(t, "scan", 0, 0)
    BY <1>1, RegistryMoves
  <2>2. \A u \in Thread, s \in Slot : Holds(u, s)' <=> Holds(u, s)
    BY <1>1, <2>1 DEF GetTID, Moves, Holds, Registered, Registering
  <2>3. UniqueTID' /\ SlotsHeld'
    BY <1>1, <2>2, SameHolders DEF GetTID
  <2>4. MaxTidCovers'
    BY <1>1, <2>1 DEF GetTID, Moves, MaxTidCovers, Registered
  <2>5. InvRegistering'
    BY <1>1, <2>1 DEF GetTID, Moves, Registered, Registering
  <2>. QED BY <2>3, <2>4, <2>5
<1>2. CASE SlotUsed(t) \/ ClaimLost(t)
  <2>1. Moves(t, "scan", reg[t].slot + 1, 0)
    BY <1>2, RegistryMoves
  <2>2. \A u \in Thread, s \in Slot : Holds(u, s)' <=> Holds(u, s)
    BY <1>2, <2>1 DEF SlotUsed, ClaimLost, Moves, Holds, Registered, Registering
  <2>3. UniqueTID' /\ SlotsHeld'
    BY <1>2, <2>2, SameHolders DEF SlotUsed, ClaimLost
  <2>4. MaxTidCovers'
    BY <1>2, <2>1 DEF SlotUsed, ClaimLost, Moves, MaxTidCovers, Registered
  <2>5. InvRegistering'
    BY <1>2, <2>1 DEF SlotUsed, ClaimLost, Moves, Registered, Registering
  <2>. QED BY <2>3, <2>4, <2>5
<1>3. CASE SlotFree(t)
  <2>1. Moves(t, "claim", reg[t].slot, reg[t].max)
    BY <1>3, RegistryMoves
  <2>2. \A u \in Thread, s \in Slot : Holds(u, s)' <=> Holds(u, s)
    BY <1>3, <2>1 DEF SlotFree, Moves, Holds, Registered, Registering
  <2>3. UniqueTID' /\ SlotsHeld'
    BY <1>3, <2>2, SameHolders DEF SlotFree
  <2>4. MaxTidCovers'
    BY <1>3, <2>1 DEF SlotFree, Moves, MaxTidCovers, Registered
  <2>5. InvRegistering'
    BY <1>3, <2>1 DEF SlotFree, Moves, Registered, Registering
  <2>. QED BY <2>3, <2>4, <2>5
<1>4. CASE ClaimWon(t)
  <2>1. Moves(t, "load", reg[t].slot, reg[t].max)
    BY <1>4, RegistryMoves
  <2>2. \A u \in Thread, s \in Slot :
          Holds(u, s)' <=> Holds(u, s) \/ (u = t /\ s = reg[t].slot)
    BY <1>4, <2>1 DEF ClaimWon, Moves, Holds, Registered, Registering
  <2>3. UniqueTID' /\ SlotsHeld'
    BY <1>4, <2>2 DEF ClaimWon, UniqueTID, SlotsHeld
  <2>4. MaxTidCovers'
    BY <1>4, <2>1 DEF ClaimWon, Moves, MaxTidCovers, Registered
  <2>5. InvRegistering'
    BY <1>4, <2>1 DEF ClaimWon, Moves, Registered, Registering
  <2>. QED BY <2>3, <2>4, <2>5
<1>5. CASE MaxTooLow(t)
  <2>1. Moves(t, "raise", reg[t].slot, maxTid)
    BY <1>5, RegistryMoves
  <2>2. \A u \in Thread, s \in Slot : Holds(u, s)' <=> Holds(u, s)
    BY <1>5, <2>1 DEF MaxTooLow, Moves, Holds, Registered, Registering
  <2>3. UniqueTID' /\ SlotsHeld'
    BY <1>5, <2>2, SameHolders DEF MaxTooLow
  <2>4. MaxTidCovers'
    BY <1>5, <2>1 DEF MaxTooLow, Moves, MaxTidCovers, Registered
  <2>5. InvRegistering'
    BY <1>5, <2>1 DEF MaxTooLow, Moves, Registered, Registering
  <2>. QED BY <2>3, <2>4, <2>5
<1>6. CASE RaiseMax(t)
  <2>1. Moves(t, "load", reg[t].slot, 0)
    BY <1>6, RegistryMoves
  <2>2. \A u \in Thread, s \in Slot : Holds(u, s)' <=> Holds(u, s)
    BY <1>6, <2>1 DEF RaiseMax, Moves, Holds, Registered, Registering
  <2>3. UniqueTID' /\ SlotsHeld'
    BY <1>6, <2>2, SameHolders DEF RaiseMax
  <2>4. MaxTidCovers'
    BY <1>6, <2>1 DEF RaiseMax, Moves, MaxTidCovers, Registered
  <2>5. InvRegistering'
    BY <1>6, <2>1 DEF RaiseMax, Moves, Registered, Registering
  <2>. QED BY <2>3, <2>4, <2>5
<1>7. CASE MaxCovers(t)
  <2>1. Moves(t, "out", 0, 0)
    BY <1>7, RegistryMoves
  <2>2. \A u \in Thread, s \in Slot : Holds(u, s)' <=> Holds(u, s)
    BY <1>7, <2>1 DEF MaxCovers, Moves, Holds, Registered, Registering
  <2>3. UniqueTID' /\ SlotsHeld'
    BY <1>7, <2>2, SameHolders DEF MaxCovers
  <2>4. MaxTidCovers'
    BY <1>7, <2>1 DEF MaxCovers, Moves, MaxTidCovers, Registered
  <2>5. InvRegistering'
    BY <1>7, <2>1 DEF MaxCovers, Moves, Registered, Registering
  <2>. QED BY <2>3, <2>4, <2>5
<1>8. CASE Deregister(t)
  <2>1. tid[t] \in Slot /\ tid'[t] = NOT_ASSIGNED
    BY <1>8 DEF Deregister, Registered
  <2>2. \A u \in Thread, s \in Slot : Holds(u, s)' <=> Holds(u, s) /\ ~(u = t /\ s = tid[t])
    BY <1>8, <2>1 DEF Deregister, Holds, Registered, Registering
  <2>3. Holds(t, tid[t])
    BY DEF Holds
  <2>4. UniqueTID' /\ SlotsHeld'
    BY <1>8, <2>1, <2>2, <2>3 DEF Deregister, UniqueTID, SlotsHeld
  <2>5. MaxTidCovers' /\ InvRegistering'
    BY <1>8, <2>1 DEF Deregister, MaxTidCovers, Registered, Registering
  <2>. QED BY <2>4, <2>5
<1>. QED BY <1>1, <1>2, <1>3, <1>4, <1>5, <1>6, <1>7, <1>8 DEF RegisterStep
-----------------------------------------------------------------------------
(***************************************************************************)
(* Why a scan never runs off the end of the array.  Each thread stands at  *)
(* the slot it has or the one it tries, or before the first; at most       *)
(* MaxThreads - k threads stand at slot k or beyond it, because a thread   *)
(* only moves past a slot in which it leaves another one behind.           *)
(***************************************************************************)
Position(t) == IF Registering(t) THEN reg[t].slot ELSE tid[t]
Beyond(k) == {t \in Thread : Position(t) >= k}
RoomAhead == \A k \in 0 .. MaxThreads : Cardinality(Beyond(k)) <= MaxThreads - k

LEMMA RegistryInitFits ==
  ASSUME IsFiniteSet(Thread), RegistryInit
  PROVE  RoomAhead
<1>. SUFFICES ASSUME NEW k \in 0 .. MaxThreads
              PROVE  Cardinality(Beyond(k)) <= MaxThreads - k
  BY DEF RoomAhead
<1>1. Beyond(k) = {}
  BY DEF Beyond, Position, RegistryInit, Registering, Out, NOT_ASSIGNED
<1>. QED BY <1>1, FS_EmptySet, RegistryAssumption

(* The finite sets of the argument. *)
LEMMA BeyondFinite ==
  ASSUME IsFiniteSet(Thread), NEW k
  PROVE  /\ IsFiniteSet(Beyond(k)) /\ Cardinality(Beyond(k)) \in Nat
         /\ Cardinality(Beyond(k)) <= Cardinality(Thread)
<1>1. Beyond(k) \in SUBSET Thread
  BY DEF Beyond
<1>. QED BY <1>1, FS_Subset, FS_CardinalityType

LEMMA FewerBeyond ==
  ASSUME IsFiniteSet(Thread), RoomAhead,
         \A k \in 0 .. MaxThreads : Beyond(k)' \subseteq Beyond(k)
  PROVE  RoomAhead'
<1>. SUFFICES ASSUME NEW k \in 0 .. MaxThreads
              PROVE  Cardinality(Beyond(k)') <= MaxThreads - k
  BY DEF RoomAhead
<1>1. Cardinality(Beyond(k)') <= Cardinality(Beyond(k)) /\ Cardinality(Beyond(k)') \in Nat
  BY BeyondFinite, FS_Subset, FS_CardinalityType
<1>. QED BY <1>1, BeyondFinite, RegistryAssumption DEF RoomAhead

(* A thread moves past the slot k that another one has. *)
LEMMA PassSlot ==
  ASSUME IsFiniteSet(Thread), RegistryInv, RoomAhead,
         NEW k \in Slot, NEW t \in Thread, NEW u \in Thread \ {t},
         Position(t) = k, Position(u) = k,
         Position(t)' = k + 1, \A v \in Thread \ {t} : Position(v)' = Position(v)
  PROVE  RoomAhead'
<1>. \A v \in Thread : Position(v) \in Int
  <2>. SUFFICES ASSUME NEW v \in Thread PROVE Position(v) \in Int
    OBVIOUS
  <2>1. tid[v] \in Int
    BY RegistryAssumption DEF RegistryInv, RegistryTypeOK, Slot, NOT_ASSIGNED
  <2>2. reg[v].slot \in 0 .. MaxThreads
    BY DEF RegistryInv, RegistryTypeOK
  <2>. QED BY <2>1, <2>2 DEF Position
<1>. k \in Nat /\ k + 1 \in 0 .. MaxThreads /\ MaxThreads \in Nat
  BY RegistryAssumption DEF Slot
<1>. SUFFICES ASSUME NEW j \in 0 .. MaxThreads
              PROVE  Cardinality(Beyond(j)') <= MaxThreads - j
  BY DEF RoomAhead
<1>1. CASE j # k + 1
  <2>1. Beyond(j)' = Beyond(j)
    BY <1>1 DEF Beyond
  <2>. QED BY <2>1 DEF RoomAhead
<1>2. CASE j = k + 1
  <2>. DEFINE B == Beyond(k + 1)
  <2>1. Beyond(j)' = B \cup {t} /\ t \notin B /\ u \notin B \cup {t}
    BY <1>2 DEF Beyond
  <2>2. (B \cup {t}) \cup {u} \in SUBSET Beyond(k)
    BY DEF Beyond
  <2>3. IsFiniteSet(B) /\ IsFiniteSet(B \cup {t})
    BY BeyondFinite, FS_AddElement
  <2>4. Cardinality((B \cup {t}) \cup {u}) = Cardinality(B \cup {t}) + 1
    BY <2>1, <2>3, FS_AddElement
  <2>5. Cardinality((B \cup {t}) \cup {u}) <= Cardinality(Beyond(k))
    BY <2>2, BeyondFinite, FS_Subset
  <2>6. Cardinality(Beyond(k)) <= MaxThreads - k
    BY DEF RoomAhead
  <2>7. Cardinality(B \cup {t}) \in Nat /\ Cardinality(Beyond(k)) \in Nat
    BY <2>3, FS_CardinalityType, BeyondFinite
  <2>8. Cardinality(B \cup {t}) <= MaxThreads - (k + 1)
    BY <2>4, <2>5, <2>6, <2>7
  <2>. QED BY <1>2, <2>1, <2>8
<1>. QED BY <1>1, <1>2

LEMMA RegistryStepFits ==
  ASSUME IsFiniteSet(Thread), Cardinality(Thread) <= MaxThreads, RegistryInv, RoomAhead,
         NEW t \in Thread, GetTID(t) \/ RegisterStep(t) \/ Deregister(t)
  PROVE  RoomAhead'
<1>. /\ RegistryTypeOK
     /\ \A u \in Thread \ {t} : tid'[u] = tid[u] /\ reg'[u] = reg[u]
  BY RegistryFrame DEF RegistryInv
<1>o. \A u \in Thread \ {t} : Position(u)' = Position(u)
  BY DEF Position, Registering
<1>. USE SlotFacts
<1>1. CASE GetTID(t)
  <2>1. Position(t) = -1 /\ Position(t)' = 0
    BY <1>1, RegistryMoves
       DEF GetTID, Moves, Position, Registering, Registered, RegistryTypeOK, NOT_ASSIGNED
  <2>2. ASSUME NEW k \in 0 .. MaxThreads, k # 0 PROVE Beyond(k)' \subseteq Beyond(k)
    BY <1>o, <2>1, <2>2 DEF Beyond
  <2>3. ASSUME NEW k \in 0 .. MaxThreads, k # 0
        PROVE  Cardinality(Beyond(k)') <= Cardinality(Beyond(k)) /\ Cardinality(Beyond(k)') \in Nat
    BY <2>2, <2>3, BeyondFinite, FS_Subset, FS_CardinalityType
  <2>4. Beyond(0)' \in SUBSET Thread
    BY DEF Beyond
  <2>5. Cardinality(Beyond(0)') <= MaxThreads
    BY <2>4, FS_Subset, FS_CardinalityType, RegistryAssumption
  <2>. QED BY <2>3, <2>5, BeyondFinite, RegistryAssumption DEF RoomAhead
<1>2. CASE SlotUsed(t) \/ ClaimLost(t)
  <2>. DEFINE k == reg[t].slot
  <2>1. k \in Slot /\ usedTID[k] /\ reg[t].at \in {"scan", "claim"}
    BY <1>2 DEF SlotUsed, ClaimLost, RegistryInv, InvRegistering
  <2>2. PICK u \in Thread : Holds(u, k)
    BY <2>1 DEF RegistryInv, SlotsHeld
  <2>3. Position(t) = k /\ Position(t)' = k + 1
    BY <1>2, <2>1, RegistryMoves DEF Moves, Position, Registering
  <2>4. u # t
    BY <2>1, <2>2 DEF Holds, RegistryInv, InvRegistering, Registered, Registering, NOT_ASSIGNED
  <2>5. Position(u) = k
    BY <2>1, <2>2 DEF Holds, Position, RegistryInv, InvRegistering, Registered, Registering
  <2>. QED BY <1>o, <2>1, <2>3, <2>4, <2>5, PassSlot
<1>3. CASE SlotFree(t) \/ ClaimWon(t) \/ MaxTooLow(t) \/ RaiseMax(t) \/ MaxCovers(t)
  <2>1. Position(t)' = Position(t)
    BY <1>3, RegistryMoves
       DEF SlotFree, ClaimWon, MaxTooLow, RaiseMax, MaxCovers, Moves, Position, Registering,
           RegistryTypeOK
  <2>. QED BY <1>o, <2>1, FewerBeyond DEF Beyond
<1>4. CASE Deregister(t)
  <2>1. Position(t)' = -1
    BY <1>4 DEF Deregister, Position, RegistryInv, InvRegistering, Registering, Registered,
                RegistryTypeOK, NOT_ASSIGNED
  <2>. QED BY <1>o, <2>1, FewerBeyond DEF Beyond
<1>. QED BY <1>1, <1>2, <1>3, <1>4 DEF RegisterStep

(* With no room beyond the last slot, no scan gets there. *)
LEMMA FitsNeverFull ==
  ASSUME IsFiniteSet(Thread), RegistryInv, RoomAhead
  PROVE  NeverFull
<1>. SUFFICES ASSUME NEW t \in Thread, reg[t].at = "scan", reg[t].slot \notin Slot
              PROVE  FALSE
  BY DEF NeverFull
<1>1. reg[t].slot = MaxThreads
  BY RegistryAssumption DEF RegistryInv, RegistryTypeOK, Slot
<1>2. t \in Beyond(MaxThreads)
  BY <1>1, RegistryAssumption DEF Beyond, Position, Registering
<1>3. Cardinality(Beyond(MaxThreads)) = 0
  BY BeyondFinite, RegistryAssumption DEF RoomAhead
<1>. QED BY <1>2, <1>3, BeyondFinite, FS_EmptySet
-----------------------------------------------------------------------------
(* A thread whose flag is up, and none of the other readers. *)
FlagUp(t) == rd[t] \in {"arrived", "shared", "depart"}
InvFlags == \A t \in Thread : FlagUp(t) => Registered(t) /\ states[tid[t]]

(* Whoever holds the spin lock has set it, and holds it alone. *)
InvSpinLock ==
  \A t \in Thread : HoldsSpinLock(t) =>
    writers /\ \A u \in Thread \ {t} : ~HoldsSpinLock(u)

(* A reader that is still inside is ahead of the scan, and within its end. *)
InvScan ==
  \A t, u \in Thread : rd[u] = "shared" =>
    /\ wr[t].at = "scan" => wr[t].next <= tid[u] /\ tid[u] < wr[t].max
    /\ wr[t].at # "exclusive"

LockInv == LockTypeOK /\ InvFlags /\ InvSpinLock /\ InvScan /\ NoStaleFlag

LEMMA LockInitInv == RegistryInit /\ LockInit => LockInv
<1>. SUFFICES ASSUME RegistryInit, LockInit PROVE LockInv
  OBVIOUS
<1>1. RegistryTypeOK
  BY RegistryInitInv DEF RegistryInv
<1>2. NoWriter \in [at : {"out", "cas", "locked", "wait", "scan", "exclusive"},
                    next : Nat, max : Int]
  BY DEF NoWriter
<1>3. LockTypeOK
  BY <1>1, <1>2 DEF LockInit, LockTypeOK
<1>4. \A t \in Thread : wr[t].at = "out" /\ rd[t] = "out"
  BY DEF LockInit, NoWriter
<1>. QED BY <1>3, <1>4 DEF LockInit, LockInv, InvFlags, InvSpinLock, InvScan, NoStaleFlag,
                           FlagUp, HoldsSpinLock

LEMMA LockMutualExclusion == LockInv => MutualExclusion
BY DEF LockInv, InvSpinLock, InvScan, MutualExclusion

(* What a step makes of the writer's own place. *)
WrPlace == [at : {"out", "cas", "locked", "wait", "scan", "exclusive"}, next : Nat, max : Int]

WriterMoves(t, at, next, max) ==
  /\ wr' \in [Thread -> WrPlace]
  /\ wr'[t].at = at /\ wr'[t].next = next /\ wr'[t].max = max
  /\ \A u \in Thread \ {t} : wr'[u] = wr[u]

LEMMA WriterMovesTo ==
  ASSUME LockTypeOK, NEW t \in Thread, NEW r \in WrPlace, wr' = [wr EXCEPT ![t] = r]
  PROVE  WriterMoves(t, r.at, r.next, r.max)
BY DEF LockTypeOK, WrPlace, WriterMoves

LEMMA WriterSteps ==
  ASSUME LockTypeOK, NEW t \in Thread
  PROVE  /\ SeesFree(t) => WriterMoves(t, "cas", wr[t].next, wr[t].max)
         /\ CASWon(t) => WriterMoves(t, "locked", wr[t].next, wr[t].max)
         /\ CASLost(t) => WriterMoves(t, "out", wr[t].next, wr[t].max)
         /\ StartScan(t) => WriterMoves(t, "scan", 0, maxTid)
         /\ ScanStep(t) /\ states[wr[t].next] => WriterMoves(t, "wait", 0, 0)
         /\ ScanStep(t) /\ ~states[wr[t].next] =>
              WriterMoves(t, "scan", wr[t].next + 1, wr[t].max)
         /\ ScanEnd(t) => WriterMoves(t, "exclusive", 0, 0)
         /\ ExclusiveUnlock(t) => WriterMoves(t, "out", 0, 0)
<1>. wr \in [Thread -> WrPlace] /\ wr[t] \in WrPlace /\ maxTid \in Int
  BY DEF LockTypeOK, RegistryTypeOK, WrPlace
<1>1. ASSUME NEW place \in {"cas", "locked", "out"}, At(t, place)
      PROVE  WriterMoves(t, place, wr[t].next, wr[t].max)
  <2>. DEFINE r == [wr[t] EXCEPT !.at = place]
  <2>1. r \in WrPlace /\ r.at = place /\ r.next = wr[t].next /\ r.max = wr[t].max
    BY DEF WrPlace
  <2>2. wr' = [wr EXCEPT ![t] = r]
    BY <1>1 DEF At
  <2>. QED BY <2>1, <2>2, WriterMovesTo
<1>2. ASSUME StartScan(t) PROVE WriterMoves(t, "scan", 0, maxTid)
  <2>. DEFINE r == [at |-> "scan", next |-> 0, max |-> maxTid]
  <2>1. r \in WrPlace /\ wr' = [wr EXCEPT ![t] = r]
    BY <1>2 DEF StartScan, WrPlace
  <2>. QED BY <2>1, WriterMovesTo
<1>3. ASSUME NEW place \in {"wait", "exclusive"},
             wr' = [wr EXCEPT ![t] = [NoWriter EXCEPT !.at = place]]
      PROVE  WriterMoves(t, place, 0, 0)
  <2>. DEFINE r == [NoWriter EXCEPT !.at = place]
  <2>1. r \in WrPlace /\ r.at = place /\ r.next = 0 /\ r.max = 0
    BY DEF WrPlace, NoWriter
  <2>. QED BY <1>3, <2>1, WriterMovesTo
<1>4. ASSUME ScanStep(t), ~states[wr[t].next]
      PROVE  WriterMoves(t, "scan", wr[t].next + 1, wr[t].max)
  <2>. DEFINE r == [wr[t] EXCEPT !.next = wr[t].next + 1]
  <2>1. /\ r \in WrPlace /\ r.at = wr[t].at /\ r.next = wr[t].next + 1 /\ r.max = wr[t].max
    BY DEF WrPlace
  <2>2. wr[t].at = "scan" /\ wr' = [wr EXCEPT ![t] = r]
    BY <1>4 DEF ScanStep
  <2>. QED BY <2>1, <2>2, WriterMovesTo
<1>5. ScanStep(t) /\ states[wr[t].next]
        => wr' = [wr EXCEPT ![t] = [NoWriter EXCEPT !.at = "wait"]]
  BY DEF ScanStep
<1>6. ScanEnd(t) => wr' = [wr EXCEPT ![t] = [NoWriter EXCEPT !.at = "exclusive"]]
  BY DEF ScanEnd
<1>7. ASSUME ExclusiveUnlock(t) PROVE WriterMoves(t, "out", 0, 0)
  <2>1. NoWriter \in WrPlace /\ wr' = [wr EXCEPT ![t] = NoWriter]
    BY <1>7 DEF ExclusiveUnlock, NoWriter, WrPlace
  <2>. QED BY <2>1, WriterMovesTo DEF NoWriter
<1>. QED BY <1>1, <1>2, <1>3, <1>4, <1>5, <1>6, <1>7 DEF SeesFree, CASWon, CASLost
-----------------------------------------------------------------------------
(* The steps of a writer. *)
LEMMA WriterStepInv ==
  ASSUME RegistryInv, LockInv, UNCHANGED registryVars, NEW t \in Thread,
         TryExclusive(t) \/ WaitForReaders(t) \/ ExclusiveUnlock(t)
  PROVE  LockInv'
<1>. USE DEF LockInv, registryVars
<1>. RegistryTypeOK' /\ LockTypeOK
  BY DEF LockTypeOK, RegistryTypeOK
<1>. USE WriterSteps
<1>1. CASE SeesTaken(t)
  BY <1>1 DEF SeesTaken, lockVars, LockTypeOK, InvFlags, InvSpinLock, InvScan, NoStaleFlag,
              FlagUp, HoldsSpinLock, Registered
<1>2. CASE SeesFree(t) \/ CASLost(t)
  <2>1. PICK place \in {"cas", "out"} : WriterMoves(t, place, wr[t].next, wr[t].max)
    BY <1>2
  <2>2. UNCHANGED <<writers, states, rd>> /\ ~HoldsSpinLock(t)
    BY <1>2 DEF SeesFree, CASLost, HoldsSpinLock
  <2>3. LockTypeOK'
    BY <2>1, <2>2 DEF WriterMoves, WrPlace, LockTypeOK
  <2>4. InvSpinLock'
    BY <2>1, <2>2 DEF WriterMoves, InvSpinLock, HoldsSpinLock
  <2>5. InvScan'
    BY <2>1, <2>2 DEF WriterMoves, InvScan
  <2>. QED BY <2>2, <2>3, <2>4, <2>5 DEF InvFlags, NoStaleFlag, FlagUp, Registered
<1>3. CASE CASWon(t)
  <2>1. WriterMoves(t, "locked", wr[t].next, wr[t].max)
    BY <1>3
  <2>2. \A u \in Thread : ~HoldsSpinLock(u)
    BY <1>3 DEF CASWon, InvSpinLock
  <2>3. writers' = TRUE /\ UNCHANGED <<states, rd>>
    BY <1>3 DEF CASWon
  <2>4. InvSpinLock' /\ LockTypeOK'
    BY <2>1, <2>2, <2>3 DEF WriterMoves, WrPlace, LockTypeOK, InvSpinLock, HoldsSpinLock
  <2>5. InvScan'
    BY <2>1, <2>2, <2>3 DEF WriterMoves, InvScan, HoldsSpinLock
  <2>. QED BY <2>3, <2>4, <2>5 DEF InvFlags, NoStaleFlag, FlagUp, Registered
<1>4. CASE StartScan(t)
  <2>1. WriterMoves(t, "scan", 0, maxTid) /\ wr[t].at \in {"locked", "wait"}
    BY <1>4 DEF StartScan
  <2>2. UNCHANGED <<writers, states, rd>>
    BY <1>4 DEF StartScan
  <2>3. \A u \in Thread : rd[u] = "shared" => 0 <= tid[u] /\ tid[u] < maxTid
    BY RegistryAssumption DEF InvFlags, FlagUp, RegistryInv, RegistryTypeOK, MaxTidCovers,
                              Registered, Slot, NOT_ASSIGNED
  <2>4. InvScan'
    BY <2>1, <2>2, <2>3 DEF WriterMoves, InvScan
  <2>. QED BY <2>1, <2>2, <2>4 DEF WriterMoves, WrPlace, LockTypeOK, InvFlags, InvSpinLock,
                                   NoStaleFlag, FlagUp, HoldsSpinLock, Registered
<1>5. CASE ScanStep(t) /\ states[wr[t].next]
  <2>1. WriterMoves(t, "wait", 0, 0) /\ HoldsSpinLock(t)
    BY <1>5 DEF ScanStep, HoldsSpinLock
  <2>2. UNCHANGED <<writers, states, rd>>
    BY <1>5 DEF ScanStep
  <2>. QED BY <2>1, <2>2 DEF WriterMoves, WrPlace, LockTypeOK, InvFlags, InvSpinLock, InvScan,
                             NoStaleFlag, FlagUp, HoldsSpinLock, Registered
<1>6. CASE ScanStep(t) /\ ~states[wr[t].next]
  <2>1. WriterMoves(t, "scan", wr[t].next + 1, wr[t].max) /\ wr[t].at = "scan"
    BY <1>6 DEF ScanStep
  <2>2. UNCHANGED <<writers, states, rd>>
    BY <1>6 DEF ScanStep
  <2>3. ASSUME NEW u \in Thread, rd[u] = "shared"
        PROVE  wr[t].next + 1 <= tid[u] /\ tid[u] < wr[t].max
    <3>1. tid[u] \in Slot /\ states[tid[u]]
      BY <2>3 DEF InvFlags, FlagUp, RegistryInv, RegistryTypeOK, Registered
    <3>2. tid[u] # wr[t].next /\ wr[t].next <= tid[u] /\ tid[u] < wr[t].max
      BY <1>6, <2>1, <2>3, <3>1 DEF InvScan
    <3>3. tid[u] \in Int /\ wr[t].next \in Nat
      BY <3>1 DEF LockTypeOK, Slot
    <3>. QED BY <3>2, <3>3
  <2>4. InvScan'
    BY <2>1, <2>2, <2>3 DEF WriterMoves, InvScan
  <2>. QED BY <2>1, <2>2, <2>4 DEF WriterMoves, WrPlace, LockTypeOK, InvFlags, InvSpinLock,
                                   NoStaleFlag, FlagUp, HoldsSpinLock, Registered
<1>7. CASE ScanEnd(t)
  <2>1. WriterMoves(t, "exclusive", 0, 0) /\ wr[t].at = "scan"
    BY <1>7 DEF ScanEnd
  <2>2. UNCHANGED <<writers, states, rd>>
    BY <1>7 DEF ScanEnd
  <2>3. \A u \in Thread : rd[u] # "shared"
    <3>. SUFFICES ASSUME NEW u \in Thread, rd[u] = "shared" PROVE FALSE
      OBVIOUS
    <3>1. tid[u] \in Int /\ wr[t].next \in Int /\ wr[t].max \in Int
      <4>1. tid[u] \in Int
        BY RegistryAssumption DEF RegistryInv, RegistryTypeOK, Slot, NOT_ASSIGNED
      <4>2. wr[t].next \in Nat /\ wr[t].max \in Int
        BY DEF LockTypeOK
      <4>. QED BY <4>1, <4>2
    <3>2. wr[t].next <= tid[u] /\ tid[u] < wr[t].max /\ wr[t].next >= wr[t].max
      BY <1>7, <2>1 DEF ScanEnd, InvScan
    <3>. QED BY <3>1, <3>2
  <2>. QED BY <2>1, <2>2, <2>3 DEF WriterMoves, WrPlace, LockTypeOK, InvFlags, InvSpinLock,
                    InvScan, NoStaleFlag, FlagUp, HoldsSpinLock, Registered
<1>8. CASE ExclusiveUnlock(t)
  <2>1. WriterMoves(t, "out", 0, 0) /\ HoldsSpinLock(t)
    BY <1>8 DEF ExclusiveUnlock, HoldsSpinLock
  <2>2. writers' = FALSE /\ UNCHANGED <<states, rd>>
    BY <1>8 DEF ExclusiveUnlock
  <2>3. LockTypeOK'
    BY <2>1, <2>2 DEF WriterMoves, WrPlace, LockTypeOK
  <2>4. \A u \in Thread : ~HoldsSpinLock(u)'
    BY <2>1, <2>2 DEF WriterMoves, InvSpinLock, HoldsSpinLock
  <2>5. InvSpinLock' /\ InvScan'
    BY <2>4 DEF InvSpinLock, InvScan, HoldsSpinLock
  <2>. QED BY <2>2, <2>3, <2>5 DEF InvFlags, NoStaleFlag, FlagUp, Registered
<1>. QED BY <1>1, <1>2, <1>3, <1>4, <1>5, <1>6, <1>7, <1>8 DEF TryExclusive, WaitForReaders

(* The steps of a reader, which has an id. *)
LEMMA ReaderStepInv ==
  ASSUME RegistryInv, LockInv, UNCHANGED registryVars, NEW t \in Thread, Registered(t),
         \/ AcquireShared(t) \/ SharedUnlock(t)
         \/ Arrive(t)
  PROVE  LockInv' /\ \A u \in Thread \ {t} : rd'[u] = rd[u]
<1>. USE DEF LockInv, registryVars
<1>. RegistryTypeOK' /\ tid[t] \in Slot
  BY DEF RegistryInv, RegistryTypeOK, Registered
<1>1. CASE Arrive(t)
  <2>1. /\ ~FlagUp(t) /\ UNCHANGED <<writers, wr>>
        /\ states' = [states EXCEPT ![tid[t]] = TRUE]
        /\ rd' = [rd EXCEPT ![t] = "arrived"]
    BY <1>1 DEF Arrive, FlagUp
  <2>2. LockTypeOK' /\ InvSpinLock' /\ InvScan'
    BY <2>1 DEF LockTypeOK, InvSpinLock, InvScan, HoldsSpinLock
  <2>3. InvFlags' /\ NoStaleFlag'
    BY <2>1 DEF LockTypeOK, InvFlags, NoStaleFlag, FlagUp, Registered
  <2>. QED BY <2>1, <2>2, <2>3 DEF LockTypeOK
<1>2. CASE EnterShared(t)
  <2>1. /\ rd[t] = "arrived" /\ rd' = [rd EXCEPT ![t] = "shared"]
        /\ UNCHANGED <<writers, states, wr>>
    BY <1>2 DEF EnterShared
  <2>2. \A u \in Thread : wr[u].at \notin {"scan", "exclusive"}
    BY <1>2 DEF EnterShared, InvSpinLock, HoldsSpinLock
  <2>3. LockTypeOK' /\ InvSpinLock' /\ InvScan'
    BY <2>1, <2>2 DEF LockTypeOK, InvSpinLock, InvScan, HoldsSpinLock
  <2>. QED BY <2>1, <2>3 DEF LockTypeOK, InvFlags, NoStaleFlag, FlagUp, Registered
<1>3. CASE GiveWay(t)
  <2>1. /\ rd[t] = "arrived" /\ rd' = [rd EXCEPT ![t] = "depart"]
        /\ UNCHANGED <<writers, states, wr>>
    BY <1>3 DEF GiveWay
  <2>2. LockTypeOK' /\ InvSpinLock' /\ InvScan'
    BY <2>1 DEF LockTypeOK, InvSpinLock, InvScan, HoldsSpinLock
  <2>. QED BY <2>1, <2>2 DEF LockTypeOK, InvFlags, NoStaleFlag, FlagUp, Registered
<1>4. CASE StopSpinning(t)
  <2>1. /\ rd[t] = "spin" /\ rd' = [rd EXCEPT ![t] = "again"]
        /\ UNCHANGED <<writers, states, wr>>
    BY <1>4 DEF StopSpinning
  <2>2. LockTypeOK' /\ InvSpinLock' /\ InvScan'
    BY <2>1 DEF LockTypeOK, InvSpinLock, InvScan, HoldsSpinLock
  <2>. QED BY <2>1, <2>2 DEF LockTypeOK, InvFlags, NoStaleFlag, FlagUp, Registered
<1>5. CASE Depart(t) \/ SharedUnlock(t)
  <2>1. PICK place \in {"spin", "out"} : rd' = [rd EXCEPT ![t] = place]
    BY <1>5 DEF Depart, SharedUnlock
  <2>2. FlagUp(t) /\ states' = [states EXCEPT ![tid[t]] = FALSE] /\ UNCHANGED <<writers, wr>>
    BY <1>5 DEF Depart, SharedUnlock, FlagUp
  <2>3. LockTypeOK' /\ InvSpinLock' /\ InvScan'
    BY <2>1, <2>2 DEF LockTypeOK, InvSpinLock, InvScan, HoldsSpinLock
  <2>4. \A u \in Thread \ {t} : tid[u] # tid[t]
    BY DEF RegistryInv, UniqueTID, Holds
  <2>5. InvFlags' /\ NoStaleFlag'
    BY <2>1, <2>2, <2>4 DEF LockTypeOK, InvFlags, NoStaleFlag, FlagUp, Registered
  <2>. QED BY <2>1, <2>3, <2>5 DEF LockTypeOK
<1>. QED BY <1>1, <1>2, <1>3, <1>4, <1>5 DEF AcquireShared

(* Threads register and end while others scan and read. *)
LEMMA LockKeepsIds ==
  ASSUME RegistryInv, LockInv, UNCHANGED lockVars, NEW t \in Thread, rd[t] = "out",
         GetTID(t) \/ RegisterStep(t) \/ Deregister(t)
  PROVE  LockInv'
<1>1. RegistryTypeOK' /\ \A u \in Thread \ {t} : tid'[u] = tid[u]
  BY RegistryFrame
<1>2. \A u \in Thread : FlagUp(u) => tid'[u] = tid[u]
  BY <1>1 DEF FlagUp
<1>. QED BY <1>1, <1>2 DEF lockVars, LockInv, LockTypeOK, InvFlags, InvSpinLock, InvScan,
                           NoStaleFlag, FlagUp, HoldsSpinLock, Registered
-----------------------------------------------------------------------------
(***************************************************************************)
(* Flat combining.                                                         *)
(***************************************************************************)
Combining(t) == pc[t] \in {"copy", "copying", "wait", "begin", "apply", "clear"}
HasMax(t) == pc[t] \in {"copying", "wait", "begin", "apply", "clear"}

(* Where a thread stands in its transaction says where it stands in the    *)
(* lock, and it has an id throughout.                                      *)
InvPlaces ==
  \A t \in Thread :
    /\ pc[t] # "out" => Registered(t)
    /\ rd[t] # "out" <=> pc[t] = "read"
    /\ pc[t] \in {"out", "read", "check"} => wr[t].at = "out"
    /\ pc[t] = "try" => wr[t].at \in {"out", "cas"}
    /\ pc[t] \in {"copy", "copying"} => wr[t].at = "locked"
    /\ pc[t] = "wait" => wr[t].at \in {"locked", "wait", "scan"}
    /\ pc[t] \in {"begin", "apply", "clear"} => wr[t].at = "exclusive"

(* Only a call that has not returned is announced, in its own entry. *)
InvAnnounced ==
  \A s \in Slot : fc[s] # NoFunction => InUpdate(fc[s]) /\ tid[fc[s]] = s

(* A combiner's loops reach its own entry and every entry it has copied. *)
InvBounds ==
  \A t \in Thread :
    /\ ~HasMax(t) => comb[t] = NoComb
    /\ HasMax(t) => tid[t] < comb[t].max /\ comb[t].max <= MaxThreads
    /\ \A s \in Slot : comb[t].lfc[s] # NoFunction => s < comb[t].max

(* The copied functions that the combiner has still to run or to take back *)
(* are announced as they were when they were copied.                       *)
Pending(t, s) ==
  comb[t].lfc[s] # NoFunction /\ ~(pc[t] = "clear" /\ s < comb[t].next)
InvPending ==
  \A t \in Thread, s \in Slot : Pending(t, s) => fc[s] = comb[t].lfc[s]

(* The combiner's own function is among them until it has been taken back. *)
InvOwn ==
  \A t \in Thread :
    /\ \/ pc[t] = "copying" /\ tid[t] < comb[t].next
       \/ pc[t] \in {"wait", "begin", "apply"}
       \/ pc[t] = "clear" /\ comb[t].next <= tid[t]
       => comb[t].lfc[tid[t]] = fc[tid[t]]
    /\ pc[t] = "clear" /\ tid[t] < comb[t].next => fc[tid[t]] = NoFunction

(* The function of a call has run if it is no longer announced, or if the  *)
(* combiner has run it and not yet taken it back; then it has run once.    *)
Ran(t, s) ==
  /\ comb[t].lfc[s] # NoFunction
  /\ \/ pc[t] = "apply" /\ s < comb[t].next
     \/ pc[t] = "clear" /\ s >= comb[t].next
HasRun(u) == fc[tid[u]] = NoFunction \/ \E t \in Thread : Ran(t, tid[u])
InvRuns ==
  \A u \in Thread : InUpdate(u) => runs[u] = IF HasRun(u) THEN 1 ELSE 0

CombInv ==
  /\ CombTypeOK /\ RegistryInv /\ LockInv
  /\ InvPlaces /\ InvAnnounced /\ InvBounds /\ InvPending /\ InvOwn /\ InvRuns
-----------------------------------------------------------------------------
LEMMA CombInitInv == Init => CombInv
<1>. SUFFICES ASSUME Init PROVE CombInv
  OBVIOUS
<1>1. RegistryInv /\ LockInv
  BY RegistryInitInv, LockInitInv DEF Init
<1>2. NoComb \in [max : Int, lfc : [Slot -> Thread \cup {NoFunction}], next : Nat]
  BY DEF NoComb
<1>3. CombTypeOK
  BY <1>1, <1>2 DEF Init, CombInit, CombTypeOK, LockInv
<1>4. InvPlaces
  BY DEF Init, CombInit, LockInit, NoWriter, InvPlaces
<1>5. InvAnnounced /\ InvBounds /\ InvPending /\ InvOwn /\ InvRuns
  BY DEF Init, CombInit, NoComb, InvAnnounced, InvBounds, InvPending, InvOwn, InvRuns, Pending,
         HasMax, InUpdate
<1>. QED BY <1>1, <1>3, <1>4, <1>5 DEF CombInv

LEMMA SameIds ==
  ASSUME RegistryInv, UNCHANGED registryVars
  PROVE  RegistryInv'
BY DEF registryVars, RegistryInv, RegistryTypeOK, UniqueTID, SlotsHeld, MaxTidCovers,
       InvRegistering, Holds, Registered, Registering

LEMMA SameLock ==
  ASSUME LockInv, UNCHANGED registryVars, UNCHANGED lockVars
  PROVE  LockInv'
BY DEF registryVars, lockVars, LockInv, LockTypeOK, RegistryTypeOK, InvFlags, InvSpinLock,
       InvScan, NoStaleFlag, FlagUp, HoldsSpinLock, Registered

(* There is one combiner at a time, and no other thread has a copy of fc. *)
LEMMA OneCombiner ==
  ASSUME CombInv, NEW t \in Thread, Combining(t), NEW u \in Thread \ {t}
  PROVE  /\ ~Combining(u) /\ ~HasMax(u)
         /\ \A s \in Slot : comb[u].lfc[s] = NoFunction
<1>1. HoldsSpinLock(t) /\ ~HoldsSpinLock(u)
  BY DEF CombInv, InvPlaces, Combining, LockInv, InvSpinLock, HoldsSpinLock
<1>2. ~Combining(u) /\ ~HasMax(u)
  BY <1>1 DEF CombInv, InvPlaces, Combining, HasMax, HoldsSpinLock
<1>. QED BY <1>2 DEF CombInv, InvBounds, NoComb

(* No two threads share an entry of fc. *)
LEMMA OwnEntry ==
  ASSUME CombInv, NEW t \in Thread, Registered(t)
  PROVE  /\ tid[t] \in Slot
         /\ \A u \in Thread \ {t} : tid[u] # tid[t]
         /\ fc[tid[t]] \in {t, NoFunction}
         /\ ~InUpdate(t) => fc[tid[t]] = NoFunction
<1>1. tid[t] \in Slot
  BY DEF CombInv, RegistryInv, RegistryTypeOK, Registered
<1>2. \A u \in Thread \ {t} : tid[u] # tid[t]
  BY <1>1 DEF CombInv, RegistryInv, UniqueTID, Holds
<1>. QED BY <1>1, <1>2 DEF CombInv, CombTypeOK, InvAnnounced

(* What has run and is still announced is what the combiner has to take back. *)
LEMMA RanIsPending ==
  ASSUME CombInv, NEW t \in Thread, NEW s \in Slot, Ran(t, s)
  PROVE  Pending(t, s) /\ Combining(t) /\ fc[s] = comb[t].lfc[s]
<1>1. s \in Int /\ comb[t].next \in Int
  BY DEF CombInv, CombTypeOK, Slot
<1>. QED BY <1>1 DEF Ran, Pending, Combining, CombInv, InvPending

(* Steps that move a thread between two places, and no function. *)
LEMMA SameFunctions ==
  ASSUME CombInv, LockInv', UNCHANGED <<registryVars, fc, comb, runs>>, NEW t \in Thread,
         NEW p \in {"out", "read", "try", "check", "copy", "wait", "begin"},
         pc' = [pc EXCEPT ![t] = p], pc[t] \notin {"apply", "clear"},
         InUpdate(t)' <=> InUpdate(t), HasMax(t)' <=> HasMax(t),
         pc[t] = "copying" => comb[t].lfc[tid[t]] = fc[tid[t]]
  PROVE  CombTypeOK' /\ InvAnnounced' /\ InvBounds' /\ InvPending' /\ InvOwn' /\ InvRuns'
<1>. USE DEF registryVars
<1>. pc \in [Thread -> {"out", "try", "check", "copy", "copying", "wait", "begin",
                        "apply", "clear", "read"}]
  BY DEF CombInv, CombTypeOK
<1>. pc' \in [Thread -> {"out", "try", "check", "copy", "copying", "wait", "begin",
                        "apply", "clear", "read"}]
  OBVIOUS
<1>. p = pc'[t] /\ \A u \in Thread \ {t} : pc'[u] = pc[u]
  OBVIOUS
<1>1. \A u \in Thread : (InUpdate(u)' <=> InUpdate(u)) /\ (HasMax(u)' <=> HasMax(u))
  BY DEF InUpdate, HasMax
<1>2. CombTypeOK'
  BY DEF CombInv, CombTypeOK, LockInv
<1>3. InvAnnounced'
  BY <1>1 DEF CombInv, CombTypeOK, InvAnnounced
<1>4. InvBounds'
  BY <1>1 DEF CombInv, InvBounds, NoComb
<1>5. InvPending'
  BY DEF CombInv, InvPending, Pending
<1>6. InvOwn'
  <2>1. p \in {"wait", "begin"} => comb[t].lfc[tid[t]] = fc[tid[t]]
    BY DEF CombInv, InvOwn, HasMax
  <2>. QED BY <2>1 DEF CombInv, InvOwn
<1>7. InvRuns'
  <2>1. \A u \in Thread, s \in Slot : Ran(u, s)' <=> Ran(u, s)
    BY DEF Ran
  <2>2. \A u \in Thread : InUpdate(u) => tid[u] \in Slot
    BY OwnEntry DEF CombInv, InvPlaces, InUpdate
  <2>. QED BY <1>1, <2>1, <2>2 DEF CombInv, InvRuns, HasRun
<1>. QED BY <1>2, <1>3, <1>4, <1>5, <1>6, <1>7

-----------------------------------------------------------------------------
(* One lemma per step: it preserves CombInv. *)

LEMMA RegisterOrEndInv ==
  ASSUME CombInv, NEW t \in Thread, Register(t) \/ EndThread(t)
  PROVE  CombInv'
<1>. /\ pc[t] = "out" /\ rd[t] = "out" /\ UNCHANGED <<lockVars, combVars>>
     /\ GetTID(t) \/ RegisterStep(t) \/ Deregister(t)
  BY DEF Register, EndThread, CombInv, InvPlaces
<1>1. RegistryInv' /\ \A u \in Thread \ {t} : tid'[u] = tid[u]
  BY RegistryStepInv, RegistryFrame DEF CombInv
<1>2. LockInv'
  BY LockKeepsIds DEF CombInv
<1>. USE DEF lockVars, combVars
<1>3. CombTypeOK'
  BY <1>2 DEF CombInv, CombTypeOK, LockInv
<1>4. InvPlaces' /\ InvBounds'
  BY <1>1 DEF CombInv, InvPlaces, InvBounds, HasMax, Registered, NoComb
<1>7. InvAnnounced'
  BY <1>1 DEF CombInv, CombTypeOK, InvAnnounced, InUpdate
<1>5. InvPending' /\ InvOwn'
  BY <1>1 DEF CombInv, InvPending, InvOwn, Pending
<1>6. InvRuns'
  BY <1>1 DEF CombInv, InvRuns, HasRun, Ran, InUpdate
<1>. QED BY <1>1, <1>2, <1>3, <1>4, <1>5, <1>6, <1>7 DEF CombInv

LEMMA AnnounceInv ==
  ASSUME CombInv, NEW t \in Thread, Announce(t)
  PROVE  CombInv'
<1>. USE DEF registryVars, lockVars
<1>1. /\ pc[t] = "out" /\ Registered(t) /\ pc' = [pc EXCEPT ![t] = "try"]
      /\ fc' = [fc EXCEPT ![tid[t]] = t] /\ runs' = [runs EXCEPT ![t] = 0]
      /\ UNCHANGED <<registryVars, lockVars, comb>>
  BY DEF Announce, Goto
<1>2. RegistryInv' /\ LockInv'
  BY <1>1, SameIds, SameLock DEF CombInv
<1>3. /\ tid[t] \in Slot /\ fc[tid[t]] = NoFunction
      /\ \A u \in Thread \ {t} : tid[u] # tid[t]
  BY <1>1, OwnEntry DEF InUpdate
<1>4. CombTypeOK'
  BY <1>1, <1>2, <1>3 DEF CombInv, CombTypeOK, LockInv
<1>5. InvPlaces'
  BY <1>1 DEF CombInv, CombTypeOK, InvPlaces, Registered
<1>6. InvAnnounced'
  BY <1>1, <1>3 DEF CombInv, CombTypeOK, InvAnnounced, InUpdate
<1>7. InvBounds'
  BY <1>1 DEF CombInv, CombTypeOK, InvBounds, HasMax, NoComb
<1>8. \A u \in Thread : ~Pending(u, tid[t])
  BY <1>3, CombAssumption DEF CombInv, InvPending, Pending
<1>9. InvPending'
  BY <1>1, <1>3, <1>8 DEF CombInv, CombTypeOK, InvPending, Pending
<1>10. InvOwn'
  BY <1>1, <1>3 DEF CombInv, CombTypeOK, InvOwn, InvPlaces, Registered
<1>11. InvRuns'
  <2>1. \A u \in Thread, s \in Slot : Ran(u, s)' <=> Ran(u, s)
    BY <1>1 DEF CombInv, CombTypeOK, Ran
  <2>2. \A u \in Thread : ~Ran(u, tid[t])
    BY <1>3, <1>8, RanIsPending
  <2>3. ~HasRun(t)' /\ runs'[t] = 0
    BY <1>1, <1>3, <2>1, <2>2, CombAssumption DEF CombInv, CombTypeOK, HasRun
  <2>4. ASSUME NEW u \in Thread \ {t}, InUpdate(u)
        PROVE  (HasRun(u)' <=> HasRun(u)) /\ runs'[u] = runs[u]
    <3>1. tid[u] \in Slot /\ tid[u] # tid[t]
      BY <1>3, <2>4, OwnEntry DEF CombInv, InvPlaces, InUpdate
    <3>. QED BY <1>1, <2>1, <3>1 DEF CombInv, CombTypeOK, HasRun
  <2>. QED BY <1>1, <2>3, <2>4 DEF CombInv, CombTypeOK, InvRuns, InUpdate
<1>. QED BY <1>2, <1>4, <1>5, <1>6, <1>7, <1>9, <1>10, <1>11 DEF CombInv

(* A call returns. *)
LEMMA ReturnFunctions ==
  ASSUME CombInv, LockInv', UNCHANGED <<registryVars, fc, runs>>, NEW t \in Thread,
         InUpdate(t), fc[tid[t]] = NoFunction, \A s \in Slot : ~Ran(t, s),
         pc' = [pc EXCEPT ![t] = "out"], comb' = [comb EXCEPT ![t] = NoComb]
  PROVE  CombTypeOK' /\ InvAnnounced' /\ InvBounds' /\ InvPending' /\ InvOwn' /\ InvRuns'
<1>. USE DEF registryVars
<1>. NoComb \in [max : Int, lfc : [Slot -> Thread \cup {NoFunction}], next : Nat]
  BY DEF NoComb
<1>. /\ pc'[t] = "out" /\ \A u \in Thread \ {t} : pc'[u] = pc[u]
     /\ comb'[t] = NoComb /\ \A u \in Thread \ {t} : comb'[u] = comb[u]
  BY DEF CombInv, CombTypeOK
<1>1. CombTypeOK'
  BY DEF CombInv, CombTypeOK, LockInv
<1>2. InvAnnounced'
  <2>1. \A s \in Slot : fc[s] # t
    BY CombAssumption DEF CombInv, InvAnnounced
  <2>. QED BY <2>1 DEF CombInv, CombTypeOK, InvAnnounced, InUpdate
<1>3. InvBounds' /\ InvPending' /\ InvOwn'
  BY DEF CombInv, InvBounds, InvPending, InvOwn, Pending, HasMax, NoComb
<1>4. InvRuns'
  <2>1. \A u \in Thread, s \in Slot : Ran(u, s)' <=> Ran(u, s)
    BY DEF Ran
  <2>2. \A u \in Thread : InUpdate(u) => tid[u] \in Slot
    BY OwnEntry DEF CombInv, InvPlaces, InUpdate
  <2>. QED BY <2>1, <2>2 DEF CombInv, InvRuns, HasRun, InUpdate
<1>. QED BY <1>1, <1>2, <1>3, <1>4

LEMMA TryLockInv ==
  ASSUME CombInv, NEW t \in Thread, TryLock(t)
  PROVE  CombInv'
<1>1. pc[t] = "try" /\ UNCHANGED <<registryVars, fc, comb, runs>> /\ TryExclusive(t)
  BY DEF TryLock, TryExclusive
<1>2. RegistryInv' /\ LockInv'
  BY <1>1, SameIds, WriterStepInv DEF CombInv
<1>3. \E p \in {"try", "check", "copy"} : pc' = [pc EXCEPT ![t] = p]
  BY DEF TryLock, Goto, CombInv, CombTypeOK
<1>4. CombTypeOK' /\ InvAnnounced' /\ InvBounds' /\ InvPending' /\ InvOwn' /\ InvRuns'
  BY <1>1, <1>2, <1>3, SameFunctions DEF InUpdate, HasMax, CombInv, CombTypeOK
<1>5. InvPlaces'
  <2>. USE DEF registryVars, Registered
  <2>. LockTypeOK
    BY DEF CombInv, LockInv
  <2>1. CASE SeesFree(t) /\ UNCHANGED pc
    BY <1>1, <2>1, WriterSteps DEF SeesFree, WriterMoves, CombInv, InvPlaces
  <2>2. CASE CASWon(t) /\ Goto(t, "copy")
    BY <1>1, <2>2, WriterSteps
       DEF CASWon, WriterMoves, Goto, CombInv, CombTypeOK, InvPlaces
  <2>3. CASE CASLost(t) /\ Goto(t, "check")
    BY <1>1, <2>3, WriterSteps
       DEF CASLost, WriterMoves, Goto, CombInv, CombTypeOK, InvPlaces
  <2>4. CASE SeesTaken(t) /\ Goto(t, "check")
    BY <1>1, <2>4 DEF SeesTaken, lockVars, Goto, CombInv, CombTypeOK, InvPlaces
  <2>. QED BY <2>1, <2>2, <2>3, <2>4 DEF TryLock
<1>. QED BY <1>2, <1>4, <1>5 DEF CombInv

LEMMA CheckDoneInv ==
  ASSUME CombInv, NEW t \in Thread, CheckDone(t)
  PROVE  CombInv' /\ (~InUpdate(t)' => runs'[t] = 1)
<1>1. pc[t] = "check" /\ UNCHANGED <<registryVars, lockVars, fc, comb, runs>>
  BY DEF CheckDone
<1>2. RegistryInv' /\ LockInv'
  BY <1>1, SameIds, SameLock DEF CombInv
<1>3. PICK p \in {"out", "try"} : pc' = [pc EXCEPT ![t] = p]
  BY DEF CheckDone, Goto
<1>4. InvPlaces'
  BY <1>1, <1>3 DEF CombInv, CombTypeOK, InvPlaces, registryVars, lockVars, Registered
<1>5. CASE fc[tid[t]] = NoFunction
  <2>1. pc' = [pc EXCEPT ![t] = "out"]
    BY <1>5 DEF CheckDone, Goto
  <2>2. comb' = [comb EXCEPT ![t] = NoComb] /\ \A s \in Slot : ~Ran(t, s)
    BY <1>1 DEF CombInv, CombTypeOK, InvBounds, HasMax, Ran
  <2>3. runs[t] = 1
    BY <1>1, <1>5 DEF CombInv, InvRuns, HasRun, InUpdate
  <2>. QED BY <1>1, <1>2, <1>4, <1>5, <2>1, <2>2, <2>3, ReturnFunctions DEF CombInv, InUpdate
<1>6. CASE fc[tid[t]] # NoFunction
  <2>1. pc' = [pc EXCEPT ![t] = "try"]
    BY <1>6 DEF CheckDone, Goto
  <2>2. (InUpdate(t)' <=> InUpdate(t)) /\ (HasMax(t)' <=> HasMax(t))
    BY <1>1, <2>1 DEF CombInv, CombTypeOK, InUpdate, HasMax
  <2>3. InUpdate(t)
    BY <1>1 DEF InUpdate
  <2>. QED BY <1>1, <1>2, <1>4, <2>1, <2>2, <2>3, SameFunctions DEF CombInv
<1>. QED BY <1>5, <1>6

LEMMA StartWaitInv ==
  ASSUME CombInv, NEW t \in Thread, StartWait(t)
  PROVE  CombInv'
<1>1. /\ pc[t] = "copying" /\ comb[t].next >= comb[t].max /\ pc' = [pc EXCEPT ![t] = "wait"]
      /\ UNCHANGED <<registryVars, lockVars, fc, comb, runs>>
  BY DEF StartWait, Goto
<1>2. RegistryInv' /\ LockInv'
  BY <1>1, SameIds, SameLock DEF CombInv
<1>3. InvPlaces'
  BY <1>1 DEF CombInv, CombTypeOK, InvPlaces, registryVars, lockVars, Registered
<1>4. comb[t].lfc[tid[t]] = fc[tid[t]]
  <2>1. tid[t] < comb[t].max /\ tid[t] \in Slot
    BY <1>1, OwnEntry DEF CombInv, InvBounds, InvPlaces, HasMax
  <2>2. tid[t] \in Int /\ comb[t].next \in Int /\ comb[t].max \in Int
    BY <2>1 DEF Slot, CombInv, CombTypeOK
  <2>3. tid[t] < comb[t].next
    BY <1>1, <2>1, <2>2
  <2>. QED BY <1>1, <2>3 DEF CombInv, InvOwn
<1>5. (InUpdate(t)' <=> InUpdate(t)) /\ (HasMax(t)' <=> HasMax(t))
  BY <1>1 DEF CombInv, CombTypeOK, InUpdate, HasMax
<1>. QED BY <1>1, <1>2, <1>3, <1>4, <1>5, SameFunctions DEF CombInv

LEMMA WaitInv ==
  ASSUME CombInv, NEW t \in Thread, Wait(t)
  PROVE  CombInv'
<1>1. pc[t] = "wait" /\ UNCHANGED <<registryVars, fc, comb, runs>> /\ WaitForReaders(t)
  BY DEF Wait, WaitForReaders
<1>2. RegistryInv' /\ LockInv'
  BY <1>1, SameIds, WriterStepInv DEF CombInv
<1>3. PICK p \in {"wait", "begin"} : pc' = [pc EXCEPT ![t] = p]
  BY <1>1 DEF Wait, Goto, CombInv, CombTypeOK
<1>4. CombTypeOK' /\ InvAnnounced' /\ InvBounds' /\ InvPending' /\ InvOwn' /\ InvRuns'
  BY <1>1, <1>2, <1>3, SameFunctions DEF InUpdate, HasMax, CombInv, CombTypeOK
<1>5. InvPlaces'
  <2>. USE DEF registryVars, Registered
  <2>. LockTypeOK
    BY DEF CombInv, LockInv
  <2>1. CASE StartScan(t) /\ UNCHANGED pc
    BY <1>1, <2>1, WriterSteps DEF StartScan, WriterMoves, CombInv, InvPlaces
  <2>2. CASE ScanStep(t) /\ UNCHANGED pc
    <3>1. wr'[t].at \in {"wait", "scan"} /\ \A u \in Thread \ {t} : wr'[u] = wr[u]
      BY <2>2, WriterSteps DEF WriterMoves
    <3>2. UNCHANGED <<rd, tid, pc>>
      BY <1>1, <2>2 DEF ScanStep
    <3>. QED BY <1>1, <3>1, <3>2 DEF CombInv, InvPlaces
  <2>3. CASE ScanEnd(t) /\ Goto(t, "begin")
    <3>1. wr'[t].at = "exclusive" /\ \A u \in Thread \ {t} : wr'[u] = wr[u]
      BY <2>3, WriterSteps DEF WriterMoves
    <3>2. UNCHANGED <<rd, tid>> /\ pc' = [pc EXCEPT ![t] = "begin"]
      BY <1>1, <2>3 DEF ScanEnd, Goto
    <3>. QED BY <1>1, <3>1, <3>2 DEF CombInv, CombTypeOK, InvPlaces
  <2>. QED BY <2>1, <2>2, <2>3 DEF Wait
<1>. QED BY <1>2, <1>4, <1>5 DEF CombInv

LEMMA ReadInv ==
  ASSUME CombInv, NEW t \in Thread, StartRead(t) \/ ReadStep(t)
  PROVE  CombInv'
<1>1. /\ UNCHANGED <<registryVars, fc, comb, runs>> /\ pc[t] \in {"out", "read"}
      /\ Registered(t)
      /\ AcquireShared(t) \/ SharedUnlock(t) \/ Arrive(t)
  BY DEF StartRead, ReadStep, LockRead, EndRead, combVars, CombInv, InvPlaces
<1>2. RegistryInv' /\ LockInv'
  BY <1>1, SameIds, ReaderStepInv DEF CombInv
<1>3. PICK p \in {"out", "read"} : pc' = [pc EXCEPT ![t] = p]
  BY <1>1 DEF StartRead, ReadStep, LockRead, EndRead, Goto, combVars, CombInv, CombTypeOK
<1>4. CombTypeOK' /\ InvAnnounced' /\ InvBounds' /\ InvPending' /\ InvOwn' /\ InvRuns'
  BY <1>1, <1>2, <1>3, SameFunctions DEF InUpdate, HasMax, CombInv, CombTypeOK
<1>5. wr' = wr /\ \A u \in Thread \ {t} : rd'[u] = rd[u]
  BY <1>1, ReaderStepInv DEF CombInv, AcquireShared, EnterShared, GiveWay, Depart, StopSpinning,
                             SharedUnlock, Arrive
<1>6. rd'[t] # "out" <=> pc'[t] = "read"
  <2>. rd \in [Thread -> {"out", "arrived", "shared", "depart", "spin", "again"}]
    BY DEF CombInv, LockInv, LockTypeOK
  <2>1. CASE StartRead(t)
    BY <2>1 DEF StartRead, Arrive, Goto, CombInv, CombTypeOK
  <2>2. CASE LockRead(t)
    BY <2>2 DEF LockRead, Arrive, AcquireShared, EnterShared, GiveWay, Depart, StopSpinning,
                combVars
  <2>3. CASE EndRead(t)
    BY <2>3 DEF EndRead, SharedUnlock, Goto, CombInv, CombTypeOK
  <2>. QED BY <2>1, <2>2, <2>3 DEF ReadStep
<1>7. InvPlaces'
  BY <1>1, <1>3, <1>5, <1>6 DEF CombInv, CombTypeOK, InvPlaces, registryVars, Registered
<1>. QED BY <1>2, <1>4, <1>7 DEF CombInv
-----------------------------------------------------------------------------
(* What a step makes of the combiner's own place. *)
CombPlace == [max : Int, lfc : [Slot -> Thread \cup {NoFunction}], next : Nat]

CombMoves(t, max, lfc, next) ==
  /\ comb' \in [Thread -> CombPlace]
  /\ comb'[t].max = max /\ comb'[t].lfc = lfc /\ comb'[t].next = next
  /\ \A u \in Thread \ {t} : comb'[u] = comb[u]

LEMMA CombMovesTo ==
  ASSUME CombTypeOK, NEW t \in Thread, NEW r \in CombPlace, comb' = [comb EXCEPT ![t] = r]
  PROVE  CombMoves(t, r.max, r.lfc, r.next)
BY DEF CombTypeOK, CombPlace, CombMoves

LEMMA LoopMoves ==
  ASSUME CombTypeOK, NEW t \in Thread, NEW n \in Nat, comb' = [comb EXCEPT ![t].next = n]
  PROVE  CombMoves(t, comb[t].max, comb[t].lfc, n)
<1>. DEFINE r == [comb[t] EXCEPT !.next = n]
<1>1. comb[t] \in CombPlace
  BY DEF CombTypeOK, CombPlace
<1>2. /\ r \in CombPlace /\ r.max = comb[t].max /\ r.lfc = comb[t].lfc /\ r.next = n
      /\ comb' = [comb EXCEPT ![t] = r]
  BY <1>1 DEF CombPlace
<1>. QED BY <1>2, CombMovesTo

(* The entry a loop looks at is one of the array. *)
LEMMA LoopIndex ==
  ASSUME CombInv, NEW t \in Thread, HasMax(t), comb[t].next < comb[t].max
  PROVE  comb[t].next \in Slot
<1>1. comb[t].next \in Nat /\ comb[t].max \in Int /\ comb[t].max <= MaxThreads
  BY DEF CombInv, CombTypeOK, InvBounds
<1>. QED BY <1>1, RegistryAssumption DEF Slot

LEMMA StartCopyInv ==
  ASSUME CombInv, NEW t \in Thread, StartCopy(t)
  PROVE  CombInv'
<1>1. /\ pc[t] = "copy" /\ pc' = [pc EXCEPT ![t] = "copying"]
      /\ comb' = [comb EXCEPT ![t].max = maxTid]
      /\ UNCHANGED <<registryVars, lockVars, fc, runs>>
  BY DEF StartCopy, Goto
<1>2. RegistryInv' /\ LockInv'
  BY <1>1, SameIds, SameLock DEF CombInv
<1>3. comb[t] = NoComb
  BY <1>1 DEF CombInv, InvBounds, HasMax
<1>4. CombMoves(t, maxTid, comb[t].lfc, comb[t].next)
  <2>. DEFINE r == [comb[t] EXCEPT !.max = maxTid]
  <2>1. comb[t] \in CombPlace /\ maxTid \in Int
    BY DEF CombInv, CombTypeOK, CombPlace, RegistryInv, RegistryTypeOK
  <2>2. /\ r \in CombPlace /\ r.max = maxTid /\ r.lfc = comb[t].lfc /\ r.next = comb[t].next
        /\ comb' = [comb EXCEPT ![t] = r]
    BY <1>1, <2>1 DEF CombPlace
  <2>. QED BY <2>2, CombMovesTo DEF CombInv
<1>5. comb'[t].next = 0 /\ \A s \in Slot : comb'[t].lfc[s] = NoFunction
  BY <1>3, <1>4 DEF CombMoves, NoComb
<1>6. pc'[t] = "copying" /\ \A u \in Thread \ {t} : pc'[u] = pc[u] /\ comb'[u] = comb[u]
  BY <1>1, <1>4 DEF CombInv, CombTypeOK, CombMoves
<1>. USE DEF registryVars, lockVars
<1>7. CombTypeOK'
  BY <1>1, <1>2, <1>4 DEF CombInv, CombTypeOK, LockInv, CombMoves, CombPlace
<1>8. InvPlaces'
  BY <1>1, <1>6 DEF CombInv, InvPlaces, Registered
<1>9. InvAnnounced'
  BY <1>1, <1>6 DEF CombInv, CombTypeOK, InvAnnounced, InUpdate
<1>10. InvBounds'
  <2>1. tid[t] < maxTid /\ maxTid <= MaxThreads /\ comb'[t].max = maxTid
    BY <1>1, <1>4 DEF CombMoves, CombInv, InvPlaces, RegistryInv, RegistryTypeOK, MaxTidCovers
  <2>. QED BY <1>1, <1>5, <1>6, <2>1 DEF CombInv, InvBounds, HasMax, NoComb
<1>11. InvPending'
  BY <1>1, <1>5, <1>6 DEF CombInv, InvPending, Pending
<1>12. InvOwn'
  <2>1. ~(tid[t] < 0)
    BY <1>1, OwnEntry DEF CombInv, InvPlaces, Slot
  <2>. QED BY <1>1, <1>5, <1>6, <2>1 DEF CombInv, InvOwn
<1>13. InvRuns'
  <2>1. \A u \in Thread, s \in Slot : Ran(u, s)' <=> Ran(u, s)
    BY <1>1, <1>6 DEF Ran
  <2>2. \A u \in Thread : InUpdate(u) => tid[u] \in Slot
    BY OwnEntry DEF CombInv, InvPlaces, InUpdate
  <2>. QED BY <1>1, <1>6, <2>1, <2>2 DEF CombInv, InvRuns, HasRun, InUpdate
<1>. QED BY <1>2, <1>7, <1>8, <1>9, <1>10, <1>11, <1>12, <1>13 DEF CombInv

LEMMA CopyNextInv ==
  ASSUME CombInv, NEW t \in Thread, CopyNext(t)
  PROVE  CombInv'
<1>. DEFINE i == comb[t].next
            lfc == [comb[t].lfc EXCEPT ![i] = fc[i]]
<1>1. /\ pc[t] = "copying" /\ i < comb[t].max
      /\ comb' = [comb EXCEPT ![t] = [max |-> comb[t].max, lfc |-> lfc, next |-> i + 1]]
      /\ UNCHANGED <<registryVars, lockVars, pc, fc, runs>>
  BY DEF CopyNext
<1>2. RegistryInv' /\ LockInv'
  BY <1>1, SameIds, SameLock DEF CombInv
<1>3. i \in Slot /\ i \in Nat
  BY <1>1, LoopIndex DEF HasMax, CombInv, CombTypeOK
<1>4. CombMoves(t, comb[t].max, lfc, i + 1)
  <2>. DEFINE r == [max |-> comb[t].max, lfc |-> lfc, next |-> i + 1]
  <2>1. comb[t] \in CombPlace /\ fc[i] \in Thread \cup {NoFunction}
    BY <1>3 DEF CombInv, CombTypeOK, CombPlace
  <2>2. r \in CombPlace
    BY <1>3, <2>1 DEF CombPlace
  <2>3. comb' = [comb EXCEPT ![t] = r]
    BY <1>1
  <2>. QED BY <2>2, <2>3, CombMovesTo DEF CombInv
<1>5. /\ \A s \in Slot : comb'[t].lfc[s] = IF s = i THEN fc[i] ELSE comb[t].lfc[s]
      /\ comb'[t].max = comb[t].max /\ comb'[t].next = i + 1
      /\ \A u \in Thread \ {t} : comb'[u] = comb[u]
  BY <1>3, <1>4 DEF CombMoves, CombInv, CombTypeOK
<1>. HIDE DEF i, lfc
<1>. USE DEF registryVars, lockVars
<1>6. CombTypeOK'
  BY <1>1, <1>2, <1>4 DEF CombInv, CombTypeOK, LockInv, CombMoves, CombPlace
<1>7. InvPlaces' /\ InvAnnounced'
  BY <1>1 DEF CombInv, InvPlaces, InvAnnounced, InUpdate, Registered
<1>8. InvBounds'
  BY <1>1, <1>5 DEF CombInv, InvBounds, HasMax, NoComb
<1>9. InvPending'
  <2>1. ASSUME NEW s \in Slot, Pending(t, s)' PROVE fc[s] = comb'[t].lfc[s]
    <3>1. s # i => Pending(t, s)
      BY <1>1, <1>5, <2>1 DEF Pending
    <3>. QED BY <1>5, <3>1 DEF CombInv, InvPending
  <2>2. ASSUME NEW u \in Thread \ {t}, NEW s \in Slot, Pending(u, s)'
        PROVE  fc[s] = comb'[u].lfc[s]
    BY <1>1, <1>5, <2>2, OneCombiner DEF Combining, Pending
  <2>. QED BY <1>1, <2>1, <2>2 DEF InvPending
<1>10. InvOwn'
  <2>1. tid[t] \in Slot /\ tid[t] \in Int
    BY <1>1, OwnEntry DEF CombInv, InvPlaces, Slot
  <2>2. tid[t] < i + 1 => tid[t] = i \/ tid[t] < i
    BY <1>3, <2>1
  <2>3. tid[t] < i + 1 => comb'[t].lfc[tid[t]] = fc[tid[t]]
    BY <1>1, <1>5, <2>1, <2>2 DEF CombInv, InvOwn, i
  <2>. QED BY <1>1, <1>5, <2>3 DEF CombInv, InvOwn
<1>11. InvRuns'
  <2>1. \A u \in Thread, s \in Slot : Ran(u, s)' <=> Ran(u, s)
    BY <1>1, <1>5 DEF Ran
  <2>2. \A u \in Thread : InUpdate(u) => tid[u] \in Slot
    BY OwnEntry DEF CombInv, InvPlaces, InUpdate
  <2>. QED BY <1>1, <2>1, <2>2 DEF CombInv, InvRuns, HasRun, InUpdate
<1>. QED BY <1>2, <1>6, <1>7, <1>8, <1>9, <1>10, <1>11 DEF CombInv

LEMMA NothingToDoInv ==
  ASSUME CombInv, NEW t \in Thread, NothingToDo(t)
  PROVE  CombInv' /\ runs'[t] = 1
<1>1. /\ pc[t] = "copying" /\ comb[t].next >= comb[t].max /\ ToDo(t) = {}
      /\ pc' = [pc EXCEPT ![t] = "out"] /\ comb' = [comb EXCEPT ![t] = NoComb]
      /\ ExclusiveUnlock(t) /\ UNCHANGED <<registryVars, fc, runs>>
  BY DEF NothingToDo, Goto
<1>2. RegistryInv' /\ LockInv'
  BY <1>1, SameIds, WriterStepInv DEF CombInv
<1>3. \A s \in Slot : ~Ran(t, s)
  BY <1>1 DEF Ran
<1>4. fc[tid[t]] = NoFunction
  <2>1. tid[t] < comb[t].max /\ tid[t] \in Slot
    BY <1>1, OwnEntry DEF CombInv, InvBounds, InvPlaces, HasMax
  <2>2. tid[t] \in Int /\ comb[t].next \in Int /\ comb[t].max \in Int
    BY <2>1 DEF Slot, CombInv, CombTypeOK
  <2>3. tid[t] < comb[t].next
    BY <1>1, <2>1, <2>2
  <2>. QED BY <1>1, <2>1, <2>3 DEF CombInv, InvOwn, ToDo
<1>5. wr'[t].at = "out" /\ rd' = rd /\ \A u \in Thread \ {t} : wr'[u] = wr[u]
  BY <1>1, WriterSteps DEF WriterMoves, CombInv, LockInv, ExclusiveUnlock
<1>6. InvPlaces'
  BY <1>1, <1>5 DEF CombInv, CombTypeOK, InvPlaces, registryVars, Registered
<1>7. runs[t] = 1
  BY <1>1, <1>4 DEF CombInv, InvRuns, HasRun, InUpdate
<1>. QED BY <1>1, <1>2, <1>3, <1>4, <1>6, <1>7, ReturnFunctions DEF CombInv, InUpdate

LEMMA UnlockInv ==
  ASSUME CombInv, NEW t \in Thread, Unlock(t)
  PROVE  CombInv' /\ runs'[t] = 1
<1>1. /\ pc[t] = "clear" /\ comb[t].next >= comb[t].max
      /\ pc' = [pc EXCEPT ![t] = "out"] /\ comb' = [comb EXCEPT ![t] = NoComb]
      /\ ExclusiveUnlock(t) /\ UNCHANGED <<registryVars, fc, runs>>
  BY DEF Unlock, Goto
<1>2. RegistryInv' /\ LockInv'
  BY <1>1, SameIds, WriterStepInv DEF CombInv
<1>. comb[t].next \in Int /\ comb[t].max \in Int /\ Slot \subseteq Int
  BY DEF Slot, CombInv, CombTypeOK
<1>3. \A s \in Slot : ~Ran(t, s)
  BY <1>1 DEF Ran, CombInv, InvBounds
<1>4. fc[tid[t]] = NoFunction
  <2>1. tid[t] < comb[t].max /\ tid[t] \in Slot
    BY <1>1, OwnEntry DEF CombInv, InvBounds, InvPlaces, HasMax
  <2>2. tid[t] \in Int
    BY <2>1
  <2>3. tid[t] < comb[t].next
    BY <1>1, <2>1, <2>2
  <2>. QED BY <1>1, <2>3 DEF CombInv, InvOwn
<1>5. wr'[t].at = "out" /\ rd' = rd /\ \A u \in Thread \ {t} : wr'[u] = wr[u]
  BY <1>1, WriterSteps DEF WriterMoves, CombInv, LockInv, ExclusiveUnlock
<1>6. InvPlaces'
  BY <1>1, <1>5 DEF CombInv, CombTypeOK, InvPlaces, registryVars, Registered
<1>7. runs[t] = 1
  BY <1>1, <1>4 DEF CombInv, InvRuns, HasRun, InUpdate
<1>. QED BY <1>1, <1>2, <1>3, <1>4, <1>6, <1>7, ReturnFunctions DEF CombInv, InUpdate

(* The steps of the combiner's loops leave every thread where it was, and  *)
(* move functions only.                                                    *)
LoopKeeps(t) ==
  /\ RegistryInv' /\ LockInv' /\ InvPlaces' /\ InvBounds'
  /\ pc' \in [Thread -> {"out", "try", "check", "copy", "copying", "wait", "begin",
                         "apply", "clear", "read"}]
  /\ comb' \in [Thread -> CombPlace]
  /\ \A u \in Thread : InUpdate(u)' <=> InUpdate(u)
  /\ \A u \in Thread \ {t} : pc'[u] = pc[u] /\ comb'[u] = comb[u]
  /\ \A u \in Thread \ {t}, s \in Slot : ~Pending(u, s)' /\ ~Ran(u, s)'

LEMMA LoopFrame ==
  ASSUME CombInv, UNCHANGED <<registryVars, lockVars>>, NEW t \in Thread,
         NEW p \in {"begin", "apply", "clear"}, pc' = [pc EXCEPT ![t] = p],
         pc[t] \in {"begin", "apply", "clear"},
         NEW n \in Nat, CombMoves(t, comb[t].max, comb[t].lfc, n)
  PROVE  LoopKeeps(t)
<1>1. RegistryInv' /\ LockInv'
  BY SameIds, SameLock DEF CombInv
<1>2. /\ pc'[t] = p /\ \A u \in Thread \ {t} : pc'[u] = pc[u] /\ comb'[u] = comb[u]
      /\ comb'[t].lfc = comb[t].lfc /\ comb'[t].max = comb[t].max
      /\ comb' \in [Thread -> CombPlace]
  BY DEF CombInv, CombTypeOK, CombMoves
<1>3. pc' \in [Thread -> {"out", "try", "check", "copy", "copying", "wait", "begin",
                          "apply", "clear", "read"}]
  BY DEF CombInv, CombTypeOK
<1>4. InvPlaces'
  BY <1>2 DEF CombInv, InvPlaces, registryVars, lockVars, Registered
<1>5. InvBounds'
  BY <1>2 DEF CombInv, InvBounds, registryVars, HasMax, NoComb
<1>6. \A u \in Thread : InUpdate(u)' <=> InUpdate(u)
  BY <1>2 DEF InUpdate
<1>7. \A u \in Thread \ {t}, s \in Slot : ~Pending(u, s)' /\ ~Ran(u, s)'
  BY <1>2, OneCombiner DEF Combining, Pending, Ran
<1>. QED BY <1>1, <1>2, <1>3, <1>4, <1>5, <1>6, <1>7 DEF LoopKeeps

LEMMA BeginCombinedInv ==
  ASSUME CombInv, NEW t \in Thread, BeginCombined(t)
  PROVE  CombInv'
<1>1. /\ pc[t] = "begin" /\ pc' = [pc EXCEPT ![t] = "apply"]
      /\ UNCHANGED <<registryVars, lockVars, fc, runs>>
  BY DEF BeginCombined, Goto
<1>2. CombMoves(t, comb[t].max, comb[t].lfc, 0)
  BY LoopMoves DEF BeginCombined, CombInv
<1>3. /\ pc'[t] = "apply" /\ comb'[t].lfc = comb[t].lfc /\ comb'[t].next = 0
  BY <1>1, <1>2 DEF CombMoves, CombInv, CombTypeOK
<1>. LoopKeeps(t)
  BY <1>1, <1>2, LoopFrame
<1>. USE DEF registryVars, lockVars, LoopKeeps
<1>4. CombTypeOK' /\ InvAnnounced'
  BY <1>1 DEF CombInv, CombTypeOK, LockInv, InvAnnounced, CombPlace
<1>5. InvPending' /\ InvOwn'
  BY <1>1, <1>3 DEF CombInv, InvPending, InvOwn, Pending
<1>6. InvRuns'
  <2>1. \A u \in Thread, s \in Slot : ~Ran(u, s)
    BY <1>1, OneCombiner DEF Ran, Combining
  <2>2. \A s \in Slot : ~Ran(t, s)'
    BY <1>3 DEF Ran, Slot
  <2>3. \A u \in Thread : InUpdate(u) => tid[u] \in Slot
    BY OwnEntry DEF CombInv, InvPlaces, InUpdate
  <2>. QED BY <1>1, <2>1, <2>2, <2>3 DEF CombInv, InvRuns, HasRun
<1>. QED BY <1>4, <1>5, <1>6 DEF CombInv

LEMMA SkipFunctionInv ==
  ASSUME CombInv, NEW t \in Thread, SkipFunction(t)
  PROVE  CombInv'
<1>. DEFINE i == comb[t].next
<1>1. /\ pc[t] = "apply" /\ i < comb[t].max /\ comb[t].lfc[i] = NoFunction
      /\ comb' = [comb EXCEPT ![t].next = i + 1]
      /\ UNCHANGED <<registryVars, lockVars, pc, fc, runs>>
  BY DEF SkipFunction, InLoop, Current, NextOne
<1>2. i \in Nat
  BY DEF CombInv, CombTypeOK
<1>3. CombMoves(t, comb[t].max, comb[t].lfc, i + 1)
  <2>. CombTypeOK /\ i + 1 \in Nat
    BY <1>2 DEF CombInv
  <2>. QED BY <1>1, LoopMoves
<1>4. LoopKeeps(t)
  <2>. pc' = [pc EXCEPT ![t] = "apply"] /\ i + 1 \in Nat
    BY <1>1, <1>2 DEF CombInv, CombTypeOK
  <2>. QED BY <1>1, <1>3, LoopFrame
<1>5. /\ pc'[t] = "apply" /\ comb'[t].lfc = comb[t].lfc /\ comb'[t].next = i + 1
  BY <1>1, <1>3 DEF CombMoves
<1>. HIDE DEF i
<1>. USE DEF registryVars, lockVars, LoopKeeps
<1>6. CombTypeOK' /\ InvAnnounced'
  BY <1>1, <1>4 DEF CombInv, CombTypeOK, LockInv, InvAnnounced, CombPlace
<1>7. InvPending' /\ InvOwn'
  BY <1>1, <1>4, <1>5 DEF CombInv, InvPending, InvOwn, Pending
<1>8. InvRuns'
  <2>1. ASSUME NEW s \in Slot PROVE Ran(t, s)' <=> Ran(t, s)
    <3>1. s \in Int /\ (s = i \/ (s < i + 1 <=> s < i))
      BY <1>2 DEF Slot
    <3>. QED BY <1>1, <1>5, <3>1 DEF Ran, i
  <2>2. \A u \in Thread, s \in Slot : Ran(u, s)' <=> Ran(u, s)
    BY <1>1, <1>4, <2>1, OneCombiner DEF Ran, Combining
  <2>3. \A u \in Thread : InUpdate(u) => tid[u] \in Slot
    BY OwnEntry DEF CombInv, InvPlaces, InUpdate
  <2>. QED BY <1>1, <1>4, <2>2, <2>3 DEF CombInv, InvRuns, HasRun
<1>. QED BY <1>4, <1>6, <1>7, <1>8 DEF CombInv

(* The functions that a combiner has still to run. *)
LEMMA PendingIsAlive ==
  ASSUME CombInv, NEW t \in Thread, NEW s \in Slot, Pending(t, s),
         pc[t] = "begin" \/ (pc[t] = "apply" /\ s >= comb[t].next)
  PROVE  LET u == comb[t].lfc[s]
         IN  u \in Thread /\ InUpdate(u) /\ tid[u] = s /\ fc[s] = u /\ runs[u] = 0
<1>. DEFINE u == comb[t].lfc[s]
<1>1. u \in Thread /\ fc[s] = u /\ u # NoFunction
  BY DEF Pending, CombInv, CombTypeOK, InvPending
<1>2. InUpdate(u) /\ tid[u] = s
  BY <1>1 DEF CombInv, InvAnnounced
<1>3. ~Ran(t, s)
  BY DEF Ran, CombInv, CombTypeOK, Slot
<1>4. \A v \in Thread \ {t} : ~Ran(v, s)
  BY OneCombiner DEF Combining, Ran
<1>5. ~HasRun(u)
  BY <1>1, <1>2, <1>3, <1>4 DEF HasRun
<1>6. runs[u] = 0
  BY <1>1, <1>2, <1>5 DEF CombInv, InvRuns
<1>. QED BY <1>1, <1>2, <1>6

LEMMA RunFunctionInv ==
  ASSUME CombInv, NEW t \in Thread, RunFunction(t)
  PROVE  CombInv'
<1>. DEFINE i == comb[t].next
<1>0. PICK f : f = comb[t].lfc[i]
  OBVIOUS
<1>1. /\ pc[t] = "apply" /\ i < comb[t].max /\ f # NoFunction
      /\ runs' = [runs EXCEPT ![f] = @ + 1]
      /\ comb' = [comb EXCEPT ![t].next = i + 1]
      /\ UNCHANGED <<registryVars, lockVars, pc, fc>>
  BY <1>0 DEF RunFunction, InLoop, Current, NextOne
<1>2. i \in Nat /\ i \in Slot
  BY <1>1, LoopIndex DEF HasMax, CombInv, CombTypeOK
<1>3. f \in Thread /\ InUpdate(f) /\ tid[f] = i /\ fc[i] = f /\ runs[f] = 0
  BY <1>0, <1>1, <1>2, PendingIsAlive DEF Pending
<1>4. CombMoves(t, comb[t].max, comb[t].lfc, i + 1)
  <2>. CombTypeOK /\ i + 1 \in Nat
    BY <1>2 DEF CombInv
  <2>. QED BY <1>1, LoopMoves
<1>5. LoopKeeps(t)
  <2>. pc' = [pc EXCEPT ![t] = "apply"] /\ i + 1 \in Nat
    BY <1>1, <1>2 DEF CombInv, CombTypeOK
  <2>. QED BY <1>1, <1>4, LoopFrame
<1>6. /\ pc'[t] = "apply" /\ comb'[t].lfc = comb[t].lfc /\ comb'[t].next = i + 1
  BY <1>1, <1>4 DEF CombMoves
<1>7. comb[t].lfc[i] # NoFunction
  BY <1>0, <1>1
<1>8. runs' \in [Thread -> Nat] /\ runs'[f] = 1 /\ \A u \in Thread \ {f} : runs'[u] = runs[u]
  BY <1>1, <1>3 DEF CombInv, CombTypeOK
<1>. HIDE DEF i
<1>. USE DEF registryVars, lockVars, LoopKeeps
<1>9. CombTypeOK' /\ InvAnnounced'
  BY <1>1, <1>5, <1>8 DEF CombInv, CombTypeOK, LockInv, InvAnnounced, CombPlace
<1>10. InvPending' /\ InvOwn'
  BY <1>1, <1>5, <1>6 DEF CombInv, InvPending, InvOwn, Pending
<1>11. InvRuns'
  <2>1. ASSUME NEW s \in Slot PROVE Ran(t, s)' <=> Ran(t, s) \/ s = i
    <3>1. s \in Int /\ (s < i + 1 <=> s < i \/ s = i)
      BY <1>2 DEF Slot
    <3>. QED BY <1>1, <1>6, <1>7, <3>1 DEF Ran, i
  <2>2. \A u \in Thread \ {t}, s \in Slot : ~Ran(u, s)
    BY <1>1, OneCombiner DEF Combining, Ran
  <2>3. HasRun(f)'
    BY <1>1, <1>2, <1>3, <2>1 DEF HasRun
  <2>4. ASSUME NEW u \in Thread \ {f}, InUpdate(u) PROVE HasRun(u)' <=> HasRun(u)
    <3>1. tid[u] \in Slot /\ tid[u] # i
      BY <1>3, <2>4, OwnEntry DEF CombInv, InvPlaces, InUpdate
    <3>2. Ran(t, tid[u])' <=> Ran(t, tid[u])
      BY <1>1, <2>1, <3>1
    <3>3. \A v \in Thread : Ran(v, tid[u])' <=> Ran(v, tid[u])
      BY <1>1, <1>5, <2>2, <3>1, <3>2
    <3>. QED BY <1>1, <3>3 DEF HasRun
  <2>. QED BY <1>5, <1>8, <2>3, <2>4 DEF CombInv, InvRuns
<1>. QED BY <1>5, <1>9, <1>10, <1>11 DEF CombInv

LEMMA EndCombinedInv ==
  ASSUME CombInv, NEW t \in Thread, EndCombined(t)
  PROVE  CombInv'
<1>1. /\ pc[t] = "apply" /\ comb[t].next >= comb[t].max /\ pc' = [pc EXCEPT ![t] = "clear"]
      /\ UNCHANGED <<registryVars, lockVars, fc, runs>>
  BY DEF EndCombined, Goto
<1>2. CombMoves(t, comb[t].max, comb[t].lfc, 0)
  BY LoopMoves DEF EndCombined, CombInv
<1>3. /\ pc'[t] = "clear" /\ comb'[t].lfc = comb[t].lfc /\ comb'[t].next = 0
  BY <1>1, <1>2 DEF CombMoves, CombInv, CombTypeOK
<1>. LoopKeeps(t)
  BY <1>1, <1>2, LoopFrame
<1>. USE DEF registryVars, lockVars, LoopKeeps
<1>4. CombTypeOK' /\ InvAnnounced'
  BY <1>1 DEF CombInv, CombTypeOK, LockInv, InvAnnounced, CombPlace
<1>5. ~(tid[t] < 0)
  BY <1>1, OwnEntry DEF CombInv, InvPlaces, Slot
<1>6. InvPending' /\ InvOwn'
  BY <1>1, <1>3, <1>5 DEF CombInv, InvPending, InvOwn, Pending
<1>7. InvRuns'
  <2>1. ASSUME NEW s \in Slot PROVE Ran(t, s)' <=> Ran(t, s)
    <3>1. s \in Int /\ s >= 0 /\ comb[t].next \in Int /\ comb[t].max \in Int
      BY DEF Slot, CombInv, CombTypeOK
    <3>2. comb[t].lfc[s] # NoFunction => s < comb[t].next
      BY <1>1, <3>1 DEF CombInv, InvBounds
    <3>. QED BY <1>1, <1>3, <3>1, <3>2 DEF Ran
  <2>2. \A u \in Thread, s \in Slot : Ran(u, s)' <=> Ran(u, s)
    BY <1>1, <2>1, OneCombiner DEF Ran, Combining
  <2>3. \A u \in Thread : InUpdate(u) => tid[u] \in Slot
    BY OwnEntry DEF CombInv, InvPlaces, InUpdate
  <2>. QED BY <1>1, <2>2, <2>3 DEF CombInv, InvRuns, HasRun
<1>. QED BY <1>4, <1>6, <1>7 DEF CombInv

LEMMA ClearNextInv ==
  ASSUME CombInv, NEW t \in Thread, ClearNext(t)
  PROVE  CombInv'
<1>. DEFINE i == comb[t].next
<1>1. /\ pc[t] = "clear" /\ i < comb[t].max
      /\ comb' = [comb EXCEPT ![t].next = i + 1]
      /\ UNCHANGED <<registryVars, lockVars, pc, runs>>
  BY DEF ClearNext, InLoop, Current, NextOne
<1>2. i \in Nat /\ i \in Slot
  BY <1>1, LoopIndex DEF HasMax, CombInv, CombTypeOK
<1>3. /\ fc' \in [Slot -> Thread \cup {NoFunction}]
      /\ fc'[i] = IF comb[t].lfc[i] = NoFunction THEN fc[i] ELSE NoFunction
      /\ \A s \in Slot \ {i} : fc'[s] = fc[s]
  BY <1>2 DEF ClearNext, Current, CombInv, CombTypeOK
<1>4. CombMoves(t, comb[t].max, comb[t].lfc, i + 1)
  <2>. CombTypeOK /\ i + 1 \in Nat
    BY <1>2 DEF CombInv
  <2>. QED BY <1>1, LoopMoves
<1>5. LoopKeeps(t)
  <2>. pc' = [pc EXCEPT ![t] = "clear"] /\ i + 1 \in Nat
    BY <1>1, <1>2 DEF CombInv, CombTypeOK
  <2>. QED BY <1>1, <1>4, LoopFrame
<1>6. /\ pc'[t] = "clear" /\ comb'[t].lfc = comb[t].lfc /\ comb'[t].next = i + 1
  BY <1>1, <1>4 DEF CombMoves
<1>. HIDE DEF i
<1>. USE DEF registryVars, lockVars, LoopKeeps
<1>7. CombTypeOK' /\ InvAnnounced'
  <2>1. CombTypeOK'
    BY <1>1, <1>3, <1>5 DEF CombInv, CombTypeOK, LockInv, CombPlace
  <2>2. InvAnnounced'
    BY <1>1, <1>3, <1>5 DEF CombInv, LockInv, InvAnnounced
  <2>. QED BY <2>1, <2>2
<1>8. ASSUME NEW s \in Slot
      PROVE  /\ Pending(t, s)' <=> Pending(t, s) /\ s # i
             /\ Ran(t, s)' <=> Ran(t, s) /\ s # i
             /\ s < i + 1 <=> s < i \/ s = i
  <2>1. s \in Int /\ (s < i + 1 <=> s < i \/ s = i) /\ (s >= i + 1 <=> s >= i /\ s # i)
    BY <1>2 DEF Slot
  <2>. QED BY <1>1, <1>6, <2>1 DEF Pending, Ran, i
<1>9. comb[t].lfc[i] # NoFunction => fc[i] = comb[t].lfc[i] /\ Ran(t, i)
  <2>1. Pending(t, i) <=> comb[t].lfc[i] # NoFunction
    BY <1>2 DEF Pending, i
  <2>2. Ran(t, i) <=> comb[t].lfc[i] # NoFunction
    BY <1>1, <1>2 DEF Ran, i
  <2>. QED BY <1>2, <2>1, <2>2 DEF CombInv, InvPending
<1>10. InvPending'
  BY <1>3, <1>5, <1>6, <1>8 DEF CombInv, InvPending
<1>11. InvOwn'
  <2>1. tid[t] \in Slot
    BY <1>1, OwnEntry DEF CombInv, InvPlaces
  <2>2. tid[t] < i + 1 => fc'[tid[t]] = NoFunction
    <3>1. CASE tid[t] = i
      <4>1. comb[t].lfc[tid[t]] = fc[tid[t]]
        BY <1>1, <1>2, <3>1 DEF CombInv, InvOwn, i
      <4>. QED BY <1>3, <3>1, <4>1
    <3>2. CASE tid[t] < i /\ tid[t] # i
      BY <1>1, <1>3, <2>1, <3>2 DEF CombInv, InvOwn, i
    <3>. QED BY <1>2, <1>8, <2>1, <3>1, <3>2 DEF Slot
  <2>3. i + 1 <= tid[t] => comb[t].lfc[tid[t]] = fc'[tid[t]]
    <3>1. i + 1 <= tid[t] => i <= tid[t] /\ tid[t] # i
      BY <1>2, <2>1 DEF Slot
    <3>. QED BY <1>1, <1>3, <2>1, <3>1 DEF CombInv, InvOwn, i
  <2>4. ASSUME NEW u \in Thread \ {t}
        PROVE  pc'[u] \notin {"copying", "wait", "begin", "apply", "clear"}
    BY <1>1, <1>5, OneCombiner DEF Combining
  <2>. QED BY <1>1, <1>6, <2>2, <2>3, <2>4 DEF InvOwn
<1>12. InvRuns'
  <2>1. \A u \in Thread \ {t}, s \in Slot : ~Ran(u, s)
    BY <1>1, OneCombiner DEF Combining, Ran
  <2>2. ASSUME NEW u \in Thread, InUpdate(u) PROVE HasRun(u)' <=> HasRun(u)
    <3>1. tid[u] \in Slot
      BY <2>2, OwnEntry DEF CombInv, InvPlaces, InUpdate
    <3>2. CASE tid[u] # i
      <4>1. \A v \in Thread : Ran(v, tid[u])' <=> Ran(v, tid[u])
        BY <1>1, <1>5, <1>8, <2>1, <3>1, <3>2
      <4>. QED BY <1>1, <1>3, <3>1, <3>2, <4>1 DEF HasRun
    <3>3. CASE tid[u] = i /\ comb[t].lfc[i] # NoFunction
      BY <1>1, <1>3, <1>9, <3>3 DEF HasRun
    <3>4. CASE tid[u] = i /\ comb[t].lfc[i] = NoFunction
      <4>1. ~Ran(t, i) /\ fc'[i] = fc[i]
        BY <1>3, <3>4 DEF Ran
      <4>2. \A v \in Thread : ~Ran(v, tid[u])' /\ ~Ran(v, tid[u])
        BY <1>1, <1>2, <1>5, <1>8, <2>1, <3>4, <4>1
      <4>. QED BY <1>1, <3>4, <4>1, <4>2 DEF HasRun
    <3>. QED BY <3>2, <3>3, <3>4
  <2>. QED BY <1>1, <1>5, <2>2 DEF CombInv, InvRuns
<1>. QED BY <1>5, <1>7, <1>10, <1>11, <1>12 DEF CombInv
-----------------------------------------------------------------------------
LEMMA CombNextInv ==
  ASSUME CombInv, [Next]_vars
  PROVE  CombInv'
<1>1. CASE UNCHANGED vars
  <2>1. RegistryInv' /\ LockInv'
    BY <1>1, SameIds, SameLock DEF vars, registryVars, lockVars, CombInv
  <2>. QED BY <1>1, <2>1 DEF vars, CombInv, CombTypeOK, LockInv, InvPlaces, InvAnnounced,
         InvBounds, InvPending, InvOwn, InvRuns, InUpdate, HasMax, Pending, Ran, HasRun,
         Registered
<1>2. CASE Next
  <2>. PICK t \in Thread : \/ Register(t) \/ EndThread(t)
                           \/ Announce(t) \/ WriteStep(t)
                           \/ StartRead(t) \/ ReadStep(t)
    BY <1>2 DEF Next
  <2>1. CASE WriteStep(t)
    BY <2>1, TryLockInv, CheckDoneInv, StartCopyInv, CopyNextInv, NothingToDoInv, StartWaitInv,
       WaitInv, BeginCombinedInv, SkipFunctionInv, RunFunctionInv, EndCombinedInv,
       ClearNextInv, UnlockInv DEF WriteStep, Prologue, Epilogue
  <2>. QED BY <2>1, RegisterOrEndInv, AnnounceInv, ReadInv
<1>. QED BY <1>1, <1>2

(* The inductive invariant of flat combining, from which the theorems      *)
(* below follow: a thread's place in its transaction says where it stands  *)
(* in the lock; an entry of fc belongs to the thread that has the id, for  *)
(* as long as its call lasts; and what a combiner has copied and not yet   *)
(* taken back is announced still, and has run if the loop is past it.      *)
THEOREM CombiningInvariant == Spec => []CombInv
<1>. QED BY CombInitInv, CombNextInv, PTL DEF Spec

(* The types, of the ids, of the lock and of flat combining.               *)
THEOREM CombiningTypes == Spec => []CombTypeOK
<1>1. CombInv => CombTypeOK
  BY DEF CombInv
<1>. QED BY <1>1, CombiningInvariant, PTL

(* No two threads share an id (compare-and-swap on usedTID), however       *)
(* threads start and end.                                                  *)
THEOREM IdsAreUnique == Spec => []UniqueTID
<1>1. CombInv => UniqueTID
  BY DEF CombInv, RegistryInv
<1>. QED BY <1>1, CombiningInvariant, PTL

(* The loops up to maxTid see every registered thread.                     *)
THEOREM IdsAreCovered == Spec => []MaxTidCovers
<1>1. CombInv => MaxTidCovers
  BY DEF CombInv, RegistryInv
<1>. QED BY <1>1, CombiningInvariant, PTL

(* As long as no more than REGISTRY_MAX_THREADS threads live at the same   *)
(* time, none is turned away with "Too many threads", although a thread    *)
(* may scan on while the slots behind it are freed and taken again.        *)
THEOREM RegistrationFits ==
  ASSUME IsFiniteSet(Thread), Cardinality(Thread) <= MaxThreads
  PROVE  Spec => []NeverFull
<1>1. Init => RoomAhead
  BY RegistryInitFits DEF Init
<1>2. ASSUME CombInv, RoomAhead, [Next]_vars PROVE RoomAhead'
  <2>1. ASSUME NEW t \in Thread, Register(t) \/ EndThread(t) PROVE RoomAhead'
    <3>1. GetTID(t) \/ RegisterStep(t) \/ Deregister(t)
      BY <2>1 DEF Register, EndThread
    <3>. QED BY <1>2, <3>1, RegistryStepFits DEF CombInv
  <2>2. CASE UNCHANGED registryVars
    BY <1>2, <2>2 DEF registryVars, RoomAhead, Beyond, Position, Registering
  <2>3. UNCHANGED registryVars \/ \E t \in Thread : Register(t) \/ EndThread(t)
    BY <1>2 DEF Next, vars, registryVars, Announce, WriteStep, Prologue, Epilogue, TryLock,
         CheckDone, StartCopy, CopyNext, NothingToDo, StartWait, Wait, BeginCombined,
         SkipFunction, RunFunction, EndCombined, ClearNext, Unlock, StartRead, ReadStep,
         LockRead, EndRead
  <2>. QED BY <2>1, <2>2, <2>3
<1>3. CombInv /\ RoomAhead => NeverFull
  BY FitsNeverFull DEF CombInv
<1>. QED BY <1>1, <1>2, <1>3, CombiningInvariant, PTL DEF Spec

(* CRWWPSpinLock excludes writers from each other and from readers, with   *)
(* the ids and the maxTid that the registry hands out meanwhile.           *)
THEOREM LockExcludes == Spec => []MutualExclusion
<1>1. CombInv => MutualExclusion
  BY LockMutualExclusion DEF CombInv
<1>. QED BY <1>1, CombiningInvariant, PTL

(* No flag of the read indicator outlives its reader.                      *)
THEOREM FlagsAreTakenDown == Spec => []NoStaleFlag
<1>1. CombInv => NoStaleFlag
  BY DEF CombInv, LockInv
<1>. QED BY <1>1, CombiningInvariant, PTL

(* A combiner calls no function of a call that has returned or has run.    *)
THEOREM FunctionsAreAlive == Spec => []NoDanglingFunction
<1>1. ASSUME CombInv, NEW t \in Thread, pc[t] \in {"begin", "apply"}, NEW s \in ToDo(t),
             pc[t] = "begin" \/ s >= comb[t].next
      PROVE  LET u == comb[t].lfc[s]
             IN  InUpdate(u) /\ tid[u] = s /\ fc[s] = u /\ runs[u] = 0
  <2>1. s \in Slot /\ Pending(t, s)
    BY <1>1 DEF ToDo, Pending
  <2>. QED BY <1>1, <2>1, PendingIsAlive
<1>2. CombInv => NoDanglingFunction
  BY <1>1 DEF NoDanglingFunction
<1>. QED BY <1>2, CombiningInvariant, PTL

LEMMA MutationsAlone == CombInv => ReadersSeeNoMutation
BY OneCombiner DEF ReadersSeeNoMutation, Combining, CombInv, InvPlaces, LockInv, InvScan

(* A combiner's mutations overlap with no reader and no other combiner.    *)
THEOREM MutationsAreHidden == Spec => []ReadersSeeNoMutation
BY MutationsAlone, CombiningInvariant, PTL

(* updateTx() returns only when its function has run exactly once.         *)
THEOREM FunctionsRunOnce == Spec => ExactlyOnce
<1>1. ASSUME CombInv, [Next]_vars, NEW t \in Thread, InUpdate(t), ~InUpdate(t)'
      PROVE  runs'[t] = 1
  <2>1. pc'[t] # pc[t]
    BY <1>1 DEF InUpdate
  <2>2. PICK u \in Thread : \/ Register(u) \/ EndThread(u)
                            \/ Announce(u) \/ WriteStep(u)
                            \/ StartRead(u) \/ ReadStep(u)
    BY <1>1, <2>1 DEF Next, vars
  <2>. pc \in [Thread -> {"out", "try", "check", "copy", "copying", "wait", "begin",
                          "apply", "clear", "read"}]
    BY <1>1 DEF CombInv, CombTypeOK
  <2>3. \/ u = t /\ CheckDone(t)
        \/ u = t /\ NothingToDo(t)
        \/ u = t /\ Unlock(t)
    BY <1>1, <2>1, <2>2
       DEF Register, EndThread, Announce, WriteStep, Prologue, Epilogue, TryLock,
         CheckDone, StartCopy, CopyNext, NothingToDo, StartWait, Wait, BeginCombined,
         SkipFunction, RunFunction, EndCombined, ClearNext, Unlock, StartRead, ReadStep,
         LockRead, EndRead, Goto, combVars, InUpdate
  <2>. QED BY <1>1, <2>3, CheckDoneInv, NothingToDoInv, UnlockInv
<1>2. CombInv /\ [Next]_vars
        => [\A t \in Thread : InUpdate(t) /\ ~InUpdate(t)' => runs'[t] = 1]_vars
  BY <1>1
<1>. QED BY <1>2, CombiningInvariant, PTL DEF Spec, ExactlyOnce
=============================================================================
