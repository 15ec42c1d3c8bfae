---------------------------- MODULE DurableStore ----------------------------
(***************************************************************************)
(* What the persistence engine of a PTM promises to the code above it,     *)
(* with no cache, log or recovery in sight: a store whose contents change  *)
(* by whole transactions, all or nothing, and survive a power failure.     *)
(*                                                                         *)
(*   mem    what a power failure now would leave                           *)
(*   work   what the running transaction has made of it so far             *)
(*   phase  "down" no process, "idle" no transaction, "active" one is      *)
(*          running, "durable" it is committed and has yet to return       *)
(*                                                                         *)
(* The README of the repository promises "durable linearizable (ACID)      *)
(* transactions": Commit is the point where a transaction takes effect,    *)
(* for the caches and for the medium at once.                              *)
(***************************************************************************)
CONSTANTS Addr,     \* the persistent words
          Val,      \* their values
          InitMem   \* the contents of a region that has just been created

VARIABLES mem, work, phase

storeVars == <<mem, work, phase>>

Init ==
  /\ mem = InitMem
  /\ work = InitMem
  /\ phase = "down"

(* The region is mapped, and recovered or created. *)
Open ==
  /\ phase = "down"
  /\ phase' = "idle"
  /\ work' = mem
  /\ UNCHANGED mem

Begin ==
  /\ phase = "idle"
  /\ phase' = "active"
  /\ UNCHANGED <<mem, work>>

Write ==
  /\ phase = "active"
  /\ \E S \in SUBSET Addr, v \in Val :
       work' = [a \in Addr |-> IF a \in S THEN v ELSE work[a]]
  /\ UNCHANGED <<mem, phase>>

(* The transaction becomes durable, as a whole. *)
Commit ==
  /\ phase = "active"
  /\ phase' = "durable"
  /\ mem' = work
  /\ UNCHANGED work

(* The caller is told so, never earlier. *)
Return ==
  /\ phase = "durable"
  /\ phase' = "idle"
  /\ UNCHANGED <<mem, work>>

(* A power failure loses the running transaction and nothing else. *)
Crash ==
  /\ phase' = "down"
  /\ work' = mem
  /\ UNCHANGED mem

Next == Open \/ Begin \/ Write \/ Commit \/ Return \/ Crash

Spec == Init /\ [][Next]_storeVars
=============================================================================
