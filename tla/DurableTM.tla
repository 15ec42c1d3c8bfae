------------------------------ MODULE DurableTM ------------------------------
(***************************************************************************)
(* What every PTM of the repository promises: "durable linearizable        *)
(* (ACID) transactions".  Threads call update and read-only transactions;  *)
(* each takes effect at one moment between its call and its return, for    *)
(* other threads and for what survives a power failure alike; a read-only  *)
(* transaction sees a whole state of the region; a power failure ends all  *)
(* calls and keeps exactly the transactions that have taken effect, every  *)
(* one that has returned among them.                                       *)
(*                                                                         *)
(* An update function is the sequence of persist<> words it increments:    *)
(* running it twice, or losing one of its stores, shows in the contents.   *)
(***************************************************************************)
EXTENDS Naturals, Sequences, FiniteSets

CONSTANTS Thread,
          Addr,      \* the persistent words
          Modulus,   \* their values are 0 .. Modulus - 1
          Function,  \* the update functions: sequences of words to increment
          InitMem    \* the contents of a region that has just been created

VARIABLES mem,  \* the contents that take part in a power failure
          op    \* the call each thread is in

tmVars == <<mem, op>>

NoOp == [kind |-> "none"]
Update(fn, done) == [kind |-> "update", fn |-> fn, done |-> done]
Read(result) == [kind |-> "read", result |-> result]
NotRead == [a \in Addr |-> Modulus]   \* no word has been read

Init == mem = InitMem /\ op = [t \in Thread |-> NoOp]

SetOp(t, o) == op' = [op EXCEPT ![t] = o]

CallUpdate(t) ==
  /\ op[t] = NoOp
  /\ \E fn \in Function : SetOp(t, Update(fn, FALSE))
  /\ UNCHANGED mem

(* The increments of word a by the functions of S. *)
Increments(S, a) ==
  UNION {{t} \X {i \in DOMAIN op[t].fn : op[t].fn[i] = a} : t \in S}

(* The functions of S take effect together (in any order: they commute).   *)
Commit(S) ==
  /\ \A t \in S : op[t].kind = "update" /\ ~op[t].done
  /\ mem' = [a \in Addr |-> (mem[a] + Cardinality(Increments(S, a))) % Modulus]
  /\ op' = [t \in Thread |-> IF t \in S THEN [op[t] EXCEPT !.done = TRUE] ELSE op[t]]

ReturnUpdate(t) ==
  /\ op[t].kind = "update" /\ op[t].done
  /\ SetOp(t, NoOp)
  /\ UNCHANGED mem

CallRead(t) == op[t] = NoOp /\ SetOp(t, Read(NotRead)) /\ UNCHANGED mem

Snapshot(t) == op[t] = Read(NotRead) /\ SetOp(t, Read(mem)) /\ UNCHANGED mem

ReturnRead(t) ==
  /\ op[t].kind = "read" /\ op[t].result # NotRead
  /\ SetOp(t, NoOp)
  /\ UNCHANGED mem

Crash == op' = [t \in Thread |-> NoOp] /\ UNCHANGED mem

Next == \/ \E t \in Thread : \/ CallUpdate(t) \/ ReturnUpdate(t)
                             \/ CallRead(t) \/ Snapshot(t) \/ ReturnRead(t)
        \/ \E S \in SUBSET Thread : S # {} /\ Commit(S)
        \/ Crash

Spec == Init /\ [][Next]_tmVars
=============================================================================
