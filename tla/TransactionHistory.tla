------------------------- MODULE TransactionHistory -------------------------
(***************************************************************************)
(* What the callers of a PTM whose transactions run concurrently can       *)
(* observe.  A transaction is a program, a sequence of loads and stores of *)
(* ranges of words, and stores its own id: who loads a word learns whose   *)
(* value it is.                                                            *)
(***************************************************************************)
EXTENDS Integers, Sequences, FiniteSets, SequencesExt, FiniteSetsExt, Functions

CONSTANTS Thread,    \* tids of the threads that call transactions
          NumWords,
          Program,   \* sequences of steps Load(range) and Store(range)
          MaxTx      \* bound: transactions called

Addr == 1 .. NumWords
InitVal == 0         \* what the region holds before any transaction

ASSUME HistoryAssumption ==
  Thread \subseteq Nat /\ NumWords \in Nat /\ MaxTx \in Nat

VARIABLES call,     \* the transaction each thread is in
          calls,    \* how many have been called
          log,      \* those that have taken effect
          returned  \* the ids of those that have returned

histVars == <<calls, log, returned>>

Load(range) == [op |-> "load", range |-> range]
Store(range) == [op |-> "store", range |-> range]
IsUpdate(prog) == \E i \in DOMAIN prog : prog[i].op = "store"
WordsIn(range) == [i \in 1 .. Cardinality(range) |-> Min(range) + i - 1]

NoCall == [id |-> 0, prog |-> <<>>, pos |-> 1, reads |-> {}, after |-> {}]

InitHistory ==
  /\ call = [t \in Thread |-> NoCall]
  /\ calls = 0 /\ log = <<>> /\ returned = {}

(* Thread t calls one of the programs. *)
NewCall(t, programs) ==
  /\ calls < MaxTx
  /\ \E prog \in programs :
       call' = [call EXCEPT ![t] = [NoCall EXCEPT !.id = calls + 1, !.prog = prog,
                                                  !.after = returned]]
  /\ calls' = calls + 1
  /\ UNCHANGED <<log, returned>>

AtEnd(t) == call[t].pos > Len(call[t].prog)
Op(t) == call[t].prog[call[t].pos]

(* The reads of a call when it has loaded val from a: own stores do not    *)
(* count.                                                                  *)
Reading(t, a, val) == call[t].reads \cup ({<<a, val>>} \ {<<a, call[t].id>>})

Effect(t, writes) ==
  [id |-> call[t].id, reads |-> call[t].reads, writes |-> writes, after |-> call[t].after]

(* The serial orders of n transactions. *)
Orders == [n \in 0 .. MaxTx |-> {p \in [1 .. n -> 1 .. n] : IsInjective(p)}]

(* What word a holds after the first i transactions of order p. *)
ValueAfter(p, i, a) ==
  LET writers == {j \in 1 .. i : a \in log[p[j]].writes}
  IN  IF writers = {} THEN InitVal ELSE log[p[Max(writers)]].id

(* Transactions are strictly serializable: those that have taken effect    *)
(* could have run one after the other, each starting after those that had  *)
(* returned when it was called, each loading what the transactions before  *)
(* it have stored, and leaving what mem says.                              *)
SerializableTo(mem) ==
  \E p \in Orders[Len(log)] :
    /\ \A i, j \in 1 .. Len(log) : i < j => log[p[j]].id \notin log[p[i]].after
    /\ \A i \in 1 .. Len(log) : \A r \in log[p[i]].reads : r[2] = ValueAfter(p, i - 1, r[1])
    /\ \A a \in Addr : mem[a] = ValueAfter(p, Len(log), a)
=============================================================================
