-------------------------------- MODULE MCTL2 --------------------------------
(***************************************************************************)
(* TrinityTL2 and TrinityVRTL2 side by side: the engine is chosen once.    *)
(***************************************************************************)
EXTENDS TrinityTL2, TrinityVRTL2

VARIABLE engine

Init == \/ engine = "TL2" /\ InitTrinityTL2
        \/ engine = "VRTL2" /\ InitTrinityVRTL2

Next == \/ engine = "TL2" /\ NextTrinityTL2 /\ UNCHANGED engine
        \/ engine = "VRTL2" /\ NextTrinityVRTL2 /\ UNCHANGED engine

Spec == Init /\ [][Next]_<<engine, vars>>

Durable == IF engine = "TL2" THEN DurableTL2 ELSE DurableVR

(* Transactions are strictly serializable and durable, whichever threads   *)
(* run them, abort or help each other to abort, and wherever power fails.  *)
StrictlySerializable == SerializableTo(Durable)

(* When no thread is inside of a transaction, aborted or not, every lock   *)
(* is free, none has a sequence the clock has not reached (or whoever      *)
(* meets it would abort for ever), and both copies of the data agree.      *)
QuietIsClean ==
  (phase = "up" /\ \A t \in Thread : pc[t] \in {"idle", "begin"}) =>
    /\ \A l \in Lock : lock[l].owner = NoTid /\ lock[l].seq <= gClock
    /\ mem = IF engine = "TL2" THEN region ELSE [a \in Addr |-> region[a].main]

MCProgram == { <<Load({1}), Store({2})>>, <<Load({2}), Store({1})>>,
               <<Store({1}), Store({2})>>, <<Load({1}), Load({2})>>,
               <<Store({1, 2})>>, <<Load({1, 2}), Store({2})>> }
MCRanges == { <<Store({1, 2})>>, <<Load({1, 2})>> }
=============================================================================
