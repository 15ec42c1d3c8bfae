--------------------------- MODULE MCFlatCombining ---------------------------
(***************************************************************************)
(* Flat combining with three threads and three slots, safety and liveness. *)
(* Liveness admits no symmetry, and three threads that run transactions    *)
(* and also come and go are too many for it.  So the threads of a          *)
(* behaviour either stay, all three with their ids from the start (in a    *)
(* fixed order), or two of them come, run transactions and go, while the   *)
(* third claims a slot once, at any moment, and keeps it.                  *)
(***************************************************************************)
EXTENDS FlatCombining

VARIABLE stay

Ids == CHOOSE ids \in [Thread -> Slot] : \A t, u \in Thread : t # u => ids[t] # ids[u]
Third == CHOOSE t \in Thread : Ids[t] = MaxThreads - 1

InitRegistered ==
  /\ usedTID = [s \in Slot |-> \E t \in Thread : Ids[t] = s]
  /\ maxTid = Cardinality(Thread)
  /\ tid = Ids
  /\ reg = [t \in Thread |-> Out]
  /\ LockInit /\ CombInit

MCInit == \/ stay = TRUE /\ InitRegistered
          \/ stay = FALSE /\ Init

Transact(t)  == (stay \/ t # Third)
                /\ (Announce(t) \/ WriteStep(t) \/ StartRead(t) \/ ReadStep(t))
ComeAndGo(t) == ~stay /\ (Register(t) \/ (t # Third /\ EndThread(t)))

MCNext == UNCHANGED stay /\ \E t \in Thread : Transact(t) \/ ComeAndGo(t)

MCSpec == MCInit /\ [][MCNext]_<<vars, stay>> /\ Fairness
=============================================================================
