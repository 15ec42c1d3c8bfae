------------------------------ MODULE TL2Proofs ------------------------------
(***************************************************************************)
(* Theorems about TrinityTL2, the engine of modules TL2 and TrinityTL2:    *)
(* transactions are strictly serializable and durable, and those that have *)
(* aborted leave nothing behind, whatever the number of threads, words and *)
(* transactions, wherever power fails.                                     *)
(***************************************************************************)
EXTENDS MCTL2, FiniteSetTheorems, SequenceTheorems, WellFoundedInduction, TLAPS

(* A persist<> has a lock of its own.                                      *)
OneLockPerWord == \A a, b \in Addr : LockOf(a) = LockOf(b) => a = b

(* The types of the variables.                                             *)
Places == {"idle", "begin", "run", "validate", "commit", "faa", "sync", "unlock",
           "abort", "abortFaa", "abortSync", "unlockAborted"}
Words == {{a} : a \in Addr}
Step == [op : {"load", "store"}, range : Words]
LockWord == [owner : Thread \cup {NoTid}, seq : Nat]
PersistWord == [main : Nat, back : Nat, lseq : LockWord]
Reads == SUBSET (Addr \X Nat)
Calls == [id : Nat, prog : Seq(Step), pos : Nat \ {0}, reads : Reads, after : SUBSET Nat]
Effects == [id : Nat, reads : Reads, writes : SUBSET Addr, after : SUBSET Nat]

TypeOK ==
  /\ phase \in {"up", "recover"} /\ gClock \in Nat
  /\ lock \in [Lock -> LockWord]
  /\ mem \in [Addr -> Nat] /\ region \in [Addr -> Nat]
  /\ p_seq \in [Thread -> Nat]
  /\ DOMAIN pm = Line /\ \A a \in Addr : pm[a] \in PersistWord
  /\ \A t \in Thread : pm[PseqLine(t)] \in Nat
  /\ pc \in [Thread -> Places] /\ k \in [Thread -> Nat \ {0}] /\ rClock \in [Thread -> Nat]
  /\ readSet \in [Thread -> Seq(Lock)] /\ writeSet \in [Thread -> Seq(Words)]
  /\ call \in [Thread -> Calls] /\ calls \in 0 .. MaxTx /\ returned \subseteq Nat
  /\ log \in Seq(Effects)
-----------------------------------------------------------------------------
(* Where a thread stands: its lock words are in the medium until it ticks, *)
(* then its p_seq is; after that it is done.                               *)
Id(t)       == call[t].id
Word(t)     == Min(Op(t).range)
Owner(a)    == lock[LockOf(a)].owner
Holds(t, a) == Owner(a) = t
Medium(t)   == pm[PseqLine(t)]
Active(t)   == pc[t] \notin {"idle", "begin"}
Trying(t)   == pc[t] \in {"run", "validate"}
Placed(t)   == pc[t] \in {"validate", "commit", "faa", "sync"}
Ticked(t)   == pc[t] \in {"sync", "unlock", "abortSync", "unlockAborted"}
Clean(t)    == pc[t] \in {"abortFaa", "abortSync", "unlockAborted", "unlock"}
Unlocking(t) == pc[t] \in {"unlock", "unlockAborted"}
Done(t)     == pc[t] = "unlock" \/ (pc[t] = "sync" /\ Medium(t) = p_seq[t])
Pending(t)  == Placed(t) /\ ~Done(t)
InStore(t, a) == AtOp(t, "store") /\ a = Word(t)
InLoad(t, a)  == AtOp(t, "load") /\ a = Word(t)

(* What t has locked and stored.                                           *)
RunInv(t) ==
  pc[t] = "run" =>
    /\ k[t] \in 1 .. 2
    /\ writeSet[t] # <<>> => IsUpdate(call[t].prog)
    /\ AtOp(t, "store") /\ k[t] = 2 => Holds(t, Word(t))

WriteInv(t) ==
  /\ Active(t) /\ ~Unlocking(t) => \A a \in Addr : Holds(t, a) <=> a \in Written(t)
  /\ \A a \in Addr : Holds(t, a) =>
       /\ pc[t] = "run" /\ ~InStore(t, a) => mem[a] = Id(t)
       /\ Placed(t) => mem[a] = Id(t)
       /\ pc[t] = "abort" /\ (\E j \in DOMAIN writeSet[t] : j < k[t] /\ a \in writeSet[t][j])
            => mem[a] = region[a]
       /\ Clean(t) => mem[a] = region[a]

(* How its p_seq goes before and after those of its lock words.            *)
SeqInv(t) ==
  /\ Ticked(t) => rClock[t] = p_seq[t]
  /\ Unlocking(t) => Medium(t) = p_seq[t]
  /\ \A a \in Addr : Holds(t, a) =>
       /\ ~Ticked(t) => lock[LockOf(a)].seq = p_seq[t] /\ Medium(t) = p_seq[t]
       /\ Ticked(t) => lock[LockOf(a)].seq < p_seq[t]
       /\ Ticked(t) /\ Medium(t) # p_seq[t] => lock[LockOf(a)].seq = Medium(t)
       /\ pc[t] \in {"faa", "abortFaa"} => pm[a] = PersistLine(a) \/ <<t, a>> \in pwb
       /\ pc[t] \in {"sync", "abortSync"} /\ Medium(t) # p_seq[t] => pm[a] = PersistLine(a)

MediumInv(t) == Medium(t) <= p_seq[t] /\ (Medium(t) = p_seq[t] \/ <<t, PseqLine(t)>> \in pwb)

(* A line in the cache or in the medium.                                   *)
Past(seq) == seq = 0 \/ \E t \in Thread : seq <= Medium(t)
LineInv(line) ==
  IF line.lseq.owner = NoTid THEN line.main = line.back /\ Past(line.lseq.seq)
                             ELSE line.lseq.seq <= Medium(line.lseq.owner)

(* The locks, the words that are free, the locked lines in the medium.     *)
LockInv(l) == IF lock[l].owner = NoTid THEN lock[l].seq <= gClock ELSE Active(lock[l].owner)
FreeInv(a) == Owner(a) = NoTid => mem[a] = region[a] /\ Past(lock[LockOf(a)].seq)
Locked(line) == line.lseq.owner # NoTid /\ line.lseq.seq = Medium(line.lseq.owner)
LockedInv(a) == Locked(pm[a]) => lock[LockOf(a)] = pm[a].lseq

UpInv ==
  /\ \A l \in Lock : LockInv(l)
  /\ \A t \in Thread : /\ rClock[t] <= gClock /\ p_seq[t] <= gClock
                       /\ RunInv(t) /\ WriteInv(t) /\ SeqInv(t)
  /\ \A a \in Addr : FreeInv(a) /\ LockedInv(a)

RecoverInv ==
  /\ \A t \in Thread : pc[t] = "idle" /\ rClock[t] = 0 /\ Medium(t) = p_seq[t]
  /\ \A a \in Addr : LineInv(PersistLine(a))
  /\ \A a \in Addr : pm[a] = PersistLine(a) \/ \E w \in pwb : w[2] = a

Durability ==
  /\ \A l \in Lock : lock[l] = Free(0) \/ \E a \in Addr : LockOf(a) = l
  /\ \A t \in Thread : MediumInv(t)
  /\ \A a \in Addr : LineInv(pm[a])
  /\ phase = "up" => UpInv
  /\ phase = "recover" => RecoverInv
-----------------------------------------------------------------------------
(* The ids of the transactions.                                            *)
Ids == {log[i].id : i \in DOMAIN log}

IdOf(t) ==
  /\ call[t].after \subseteq Ids
  /\ pc[t] # "idle" =>
       /\ Id(t) \in 1 .. calls /\ (Id(t) \in Ids <=> Done(t))
       /\ \A u \in Thread : pc[u] # "idle" /\ Id(u) = Id(t) => u = t

IdInv ==
  /\ Ids \subseteq 1 .. calls /\ returned \subseteq Ids
  /\ \A i, j \in DOMAIN log : log[i].id = log[j].id => i = j
  /\ \A i \in DOMAIN log : log[i].after \subseteq Ids
  /\ \A t \in Thread : IdOf(t)
-----------------------------------------------------------------------------
(* The place of the transactions in the serial order is given by key: an   *)
(* attempt gets one when it begins, and an update a later one when it      *)
(* starts to validate, with all its locks.  All are below now.             *)
Key(key, i) == key[log[i].id]
Writer(i, a) == a \in log[i].writes

(* The value v of word a after the logged transactions placed before x,    *)
(* and after all of them.                                                  *)
ValueAt(key, x, a, v) ==
  \/ v = InitVal /\ \A i \in DOMAIN log : Writer(i, a) => Key(key, i) >= x
  \/ \E i \in DOMAIN log :
       /\ Writer(i, a) /\ log[i].id = v /\ Key(key, i) < x
       /\ \A j \in DOMAIN log : Writer(j, a) /\ Key(key, j) < x => Key(key, j) <= Key(key, i)

Final(key, a, v) ==
  \/ v = InitVal /\ \A i \in DOMAIN log : ~Writer(i, a)
  \/ \E i \in DOMAIN log :
       /\ Writer(i, a) /\ log[i].id = v
       /\ \A j \in DOMAIN log : Writer(j, a) => Key(key, j) <= Key(key, i)

(* Lock l will not be accessible to t any more in this attempt.            *)
Beyond(t, l) ==
  \/ lock[l].owner = NoTid /\ lock[l].seq > rClock[t]
  \/ /\ lock[l].owner \notin {NoTid, t}
     /\ ~(Ticked(lock[l].owner) /\ rClock[lock[l].owner] <= rClock[t])

(* What t has loaded of a has passed the checks of its present stage.      *)
InReadSet(t, l) == \E j \in DOMAIN readSet[t] : readSet[t][j] = l
Confirmed(t, a) ==
  /\ Trying(t) \/ Pending(t)
  /\ pc[t] = "run" => ~InLoad(t, a)
  /\ pc[t] = "validate" => \E j \in DOMAIN readSet[t] : j < k[t] /\ readSet[t][j] = LockOf(a)

HasRead(reads, a) == \E r \in reads : r[1] = a
Sees(t, a) == Confirmed(t, a) /\ HasRead(call[t].reads, a)

Keys(key, now) ==
  /\ \A x \in Ids : key[x] <= now
  /\ \A x, y \in Ids : key[x] = key[y] => x = y
  /\ \A t \in Thread : Active(t) =>
       /\ key[Id(t)] <= now
       /\ \A x \in Ids : key[x] = key[Id(t)] => x = Id(t)
       /\ \A u \in Thread : Active(u) /\ key[Id(u)] = key[Id(t)] => u = t
       /\ \A x \in call[t].after : key[x] < key[Id(t)]

LogInv(key) ==
  \A i \in DOMAIN log :
    /\ \A x \in log[i].after : key[x] < Key(key, i)
    /\ \A r \in log[i].reads : ValueAt(key, Key(key, i), r[1], r[2])

(* What others have stored since t began is out of its reach.              *)
BeyondOf(key, t) ==
  Trying(t) =>
    /\ \A i \in DOMAIN log : \A a \in log[i].writes : Key(key, i) > key[Id(t)] => Beyond(t, LockOf(a))
    /\ \A u \in Thread \ {t} : Pending(u) /\ key[Id(u)] > key[Id(t)] =>
         \A a \in Addr : Holds(u, a) => Beyond(t, LockOf(a))

(* A word that t has loaded and may still find accessible is as it was.    *)
ReadOf(key, t) ==
  \A r \in call[t].reads :
    /\ Trying(t) /\ ~Beyond(t, LockOf(r[1])) /\ ~Holds(t, r[1]) => r[2] = mem[r[1]]
    /\ Trying(t) /\ Holds(t, r[1]) => ValueAt(key, key[Id(t)], r[1], r[2])
    /\ Confirmed(t, r[1]) => ValueAt(key, key[Id(t)], r[1], r[2])
    /\ pc[t] = "run" /\ IsUpdate(call[t].prog) /\ Confirmed(t, r[1]) => InReadSet(t, LockOf(r[1]))
    /\ pc[t] = "validate" => InReadSet(t, LockOf(r[1]))

(* Whoever has seen or stored a word before t has stored it comes before.  *)
PendingOf(key, t) ==
  Pending(t) => \A a \in Addr : Holds(t, a) =>
    /\ \A i \in DOMAIN log : Writer(i, a) \/ HasRead(log[i].reads, a) => Key(key, i) < key[Id(t)]
    /\ \A u \in Thread \ {t} : Sees(u, a) => key[Id(u)] < key[Id(t)]

Recovered(line) == IF Locked(line) THEN line.back ELSE line.main

WordOf(key, a) ==
  /\ Final(key, a, Recovered(pm[a]))
  /\ phase = "recover" => Final(key, a, Recovered(PersistLine(a)))
  /\ phase = "up" => IF Owner(a) # NoTid /\ Done(Owner(a)) THEN Final(key, a, mem[a])
                                                           ELSE Final(key, a, region[a])

Serial(key, now) ==
  /\ key \in [Nat -> Nat] /\ now \in Nat
  /\ Keys(key, now) /\ LogInv(key)
  /\ \A t \in Thread : BeyondOf(key, t) /\ ReadOf(key, t) /\ PendingOf(key, t)
  /\ \A a \in Addr : WordOf(key, a)
-----------------------------------------------------------------------------
(* Words, locks and lines.                                                 *)
LEMMA Smallest ==
  ASSUME NEW S, S \subseteq Nat, S # {}
  PROVE  \E x \in S : \A y \in S : x <= y
<1>. DEFINE R == OpToRel(<, Nat)
<1>1. IsWellFoundedOn(R, Nat)
  BY NatLessThanWellFounded
<1>2. \A x, y \in Nat : y < x => <<y, x>> \in R
  BY DEF OpToRel
<1>. HIDE DEF R
<1>3. PICK x \in S : \A y \in S : <<y, x>> \notin R
  BY <1>1, WFMin
<1>4. ASSUME NEW y \in S PROVE x <= y
  <2>1. x \in Nat /\ y \in Nat /\ ~(y < x)
    BY <1>2, <1>3
  <2>. QED BY <2>1
<1>. QED BY <1>4

LEMMA MinIsIn == ASSUME NEW S, S \subseteq Nat, S # {} PROVE Min(S) \in S
  BY Smallest DEF Min

LEMMA LockOfWord == \A a \in Addr : LockOf(a) \in Lock
  BY TL2Assumption, HistoryAssumption DEF LockOf, Lock, Addr

(* The lines of the words and of the p_seq of the threads are apart.       *)
LEMMA Lines ==
  /\ Addr \subseteq Nat \ {0} /\ Addr \subseteq Line
  /\ \A t \in Thread : /\ t \in Nat \ {0} /\ t # NoTid /\ PseqLine(t) \in Line \ Addr
                       /\ 0 - PseqLine(t) = t
                       /\ \A u \in Thread : PseqLine(u) = PseqLine(t) => u = t
  BY TL2Assumption, HistoryAssumption DEF Addr, Line, PseqLine, NoTid

(* A finite set of numbers has a largest one: a set with one member less   *)
(* has one.                                                                *)
LEMMA Largest ==
  ASSUME NEW S, S \subseteq Nat, S # {}, IsFiniteSet(S)
  PROVE  Max(S) \in S /\ \A y \in S : y <= Max(S)
<1>. DEFINE Top(T) == \E x \in T : \A y \in T : y <= x
            Sizes  == {n \in Nat : \E T \in SUBSET Nat :
                         IsFiniteSet(T) /\ T # {} /\ Cardinality(T) = n /\ ~Top(T)}
<1>1. Top(S)
  <2>. SUFFICES ASSUME ~Top(S) PROVE FALSE
    OBVIOUS
  <2>1. Cardinality(S) \in Nat
    BY FS_CardinalityType
  <2>2. Cardinality(S) \in Sizes
    BY <2>1
  <2>3. PICK n \in Sizes : \A m \in Sizes : n <= m
    <3>1. Sizes \subseteq Nat /\ Sizes # {}
      BY <2>2
    <3>. HIDE DEF Sizes
    <3>. QED BY <3>1, Smallest
  <2>4. PICK T \in SUBSET Nat : IsFiniteSet(T) /\ T # {} /\ Cardinality(T) = n /\ ~Top(T)
    BY <2>3
  <2>5. PICK x \in T : TRUE
    BY <2>4
  <2>6. /\ IsFiniteSet(T \ {x}) /\ Cardinality(T \ {x}) = n - 1 /\ T \ {x} \in SUBSET Nat
        /\ n - 1 \in Nat /\ x \in Nat
    <3>1. IsFiniteSet(T \ {x}) /\ Cardinality(T \ {x}) = Cardinality(T) - 1
      BY <2>4, <2>5, FS_RemoveElement
    <3>2. Cardinality(T \ {x}) \in Nat
      BY <3>1, FS_CardinalityType
    <3>. QED BY <2>4, <2>5, <3>1, <3>2
  <2>7. n - 1 \notin Sizes
    <3>1. n \in Nat
      BY <2>3
    <3>. HIDE DEF Sizes
    <3>2. ~(n <= n - 1)
      BY <3>1
    <3>. QED BY <2>3, <3>2
  <2>8. CASE T \ {x} = {}
    <3>1. \A y \in T : y = x
      BY <2>8
    <3>. QED BY <3>1, <2>4, <2>5, <2>6
  <2>9. CASE T \ {x} # {}
    <3>1. Top(T \ {x})
      BY <2>6, <2>7, <2>9
    <3>2. PICK z \in T \ {x} : \A y \in T \ {x} : y <= z
      BY <3>1
    <3>3. z \in Nat /\ x \in Nat /\ \A y \in T : y \in Nat
      BY <2>6, <3>2
    <3>4. CASE x <= z
      <4>1. \A y \in T : y <= z
        BY <3>2, <3>4
      <4>. QED BY <2>4, <3>2, <4>1
    <3>5. CASE z <= x
      <4>1. ASSUME NEW y \in T PROVE y <= x
        BY <3>2, <3>3, <3>5
      <4>. QED BY <2>4, <2>5, <4>1
    <3>. QED BY <3>3, <3>4, <3>5
  <2>. QED BY <2>8, <2>9
<1>. QED BY <1>1 DEF Max
LEMMA SingleWord ==
  ASSUME NEW a \in Addr
  PROVE  /\ Cardinality({a}) = 1 /\ Min({a}) = a /\ WordsIn({a})[1] = a
         /\ Len(LocksWritten({a})) = 1 /\ LocksWritten({a})[1] = LockOf(a)
         /\ LocksRead({a}) = LocksWritten({a}) /\ LocksRead({a}) \in Seq(Lock)
<1>1. Cardinality({a}) = 1
  BY FS_Singleton
<1>2. a \in Nat /\ LockOf(a) \in Nat /\ LockOf(a) \in Lock
  BY Lines, LockOfWord, TL2Assumption DEF Lock
<1>3. Min({a}) = a /\ Max({a}) = a
  BY <1>2 DEF Min, Max
<1>4. WordsIn({a})[1] = a
  BY <1>1, <1>2, <1>3 DEF WordsIn
<1>5. LocksWritten({a}) = [i \in 1 .. 1 |-> LockOf(a)]
  <2>1. LocksWritten({a}) = [i \in 1 .. LockOf(a) - LockOf(a) + 1 |-> LockOf(a) + i - 1]
    BY <1>3 DEF LocksWritten, From
  <2>2. LockOf(a) - LockOf(a) + 1 = 1 /\ \A i \in 1 .. 1 : LockOf(a) + i - 1 = LockOf(a)
    BY <1>2
  <2>. QED BY <2>1, <2>2
<1>6. Len(LocksWritten({a})) = 1 /\ LocksWritten({a})[1] = LockOf(a) /\ LocksWritten({a}) \in Seq(Lock)
  <2>. DEFINE s == [i \in 1 .. 1 |-> LockOf(a)]
  <2>1. s \in Seq(Lock) /\ Len(s) = 1 /\ s[1] = LockOf(a)
    BY <1>2
  <2>. QED BY <2>1, <1>5
<1>7. ~(LockOf(a) < LockOf(a))
  BY <1>2
<1>. QED BY <1>1, <1>3, <1>4, <1>6, <1>7 DEF LocksRead

LEMMA OpFacts ==
  ASSUME TypeOK, NEW t \in Thread, NEW op, AtOp(t, op)
  PROVE  /\ Word(t) \in Addr /\ Op(t).range = {Word(t)} /\ Op(t).op = op
         /\ call[t].pos \in DOMAIN call[t].prog /\ Op(t) = call[t].prog[call[t].pos]
         /\ Cardinality(Op(t).range) = 1 /\ WordsIn(Op(t).range)[1] = Word(t)
         /\ Len(LocksWritten(Op(t).range)) = 1 /\ LocksWritten(Op(t).range)[1] = LockOf(Word(t))
<1>1. call[t].prog \in Seq(Step) /\ call[t].pos \in Nat \ {0}
  BY DEF TypeOK, Calls
<1>2. call[t].pos \in DOMAIN call[t].prog
  BY <1>1 DEF AtOp, AtEnd
<1>3. Op(t) \in Step
  BY <1>1, <1>2 DEF Op
<1>4. PICK a \in Addr : Op(t).range = {a}
  BY <1>3 DEF Step, Words
<1>5. Word(t) = a
  BY <1>4, SingleWord DEF Word
<1>6. Op(t).range = {Word(t)} /\ Word(t) \in Addr
  BY <1>4, <1>5
<1>7. /\ Cardinality(Op(t).range) = 1 /\ WordsIn(Op(t).range)[1] = Word(t)
      /\ Len(LocksWritten(Op(t).range)) = 1 /\ LocksWritten(Op(t).range)[1] = LockOf(Word(t))
  BY <1>6, SingleWord
<1>. QED BY <1>2, <1>6, <1>7 DEF AtOp, Op

(* The actions that go through the words of a step, for a step of one word.*)
LEMMA LoadFacts ==
  ASSUME TypeOK, NEW t \in Thread, LoadWord(t)
  PROVE  /\ AtOp(t, "load") /\ Word(t) \in Addr /\ k[t] = 1
         /\ call' = [call EXCEPT ![t].reads = Reading(t, Word(t), mem[Word(t)])]
<1>1. AtOp(t, "load") /\ k[t] <= Cardinality(Op(t).range)
  BY DEF LoadWord
<1>2. Word(t) \in Addr /\ Op(t).range = {Word(t)} /\ k[t] \in Nat \ {0}
  BY <1>1, OpFacts DEF TypeOK
<1>3. k[t] = 1
  <2>. DEFINE n == Len(LocksWritten(Op(t).range))
  <2>1. n = 1 /\ k[t] <= n
    BY <1>1, OpFacts
  <2>. HIDE DEF n
  <2>. QED BY <1>2, <2>1
<1>. QED BY <1>1, <1>2, <1>3, OpFacts DEF LoadWord

LEMMA CheckFacts ==
  ASSUME TypeOK, NEW t \in Thread, RunInv(t), CheckLoad(t)
  PROVE  /\ AtOp(t, "load") /\ Word(t) \in Addr /\ k[t] = 2 /\ LockOf(Word(t)) \in Lock
         /\ LocksRead({Word(t)}) \in Seq(Lock) /\ Len(LocksRead({Word(t)})) = 1
         /\ LocksRead({Word(t)})[1] = LockOf(Word(t))
         /\ readSet' = IF IsUpdate(call[t].prog)
                       THEN [readSet EXCEPT ![t] = @ \o LocksRead({Word(t)})] ELSE readSet
         /\ IF Accessible(t, LockOf(Word(t)))
            THEN Goto(t, "run") /\ call' = [call EXCEPT ![t].pos = @ + 1]
            ELSE Goto(t, "abort") /\ UNCHANGED call
<1>1. AtOp(t, "load") /\ k[t] - Cardinality(Op(t).range) >= 1
  BY DEF CheckLoad
<1>2. Word(t) \in Addr /\ Op(t).range = {Word(t)} /\ k[t] \in 1 .. 2
  BY <1>1, OpFacts DEF RunInv, AtOp
<1>3. k[t] = 2
  BY <1>1, <1>2, OpFacts
<1>4. k[t] - Cardinality(Op(t).range) = 1
  BY <1>1, <1>3, OpFacts
<1>5. readSet' = [readSet EXCEPT ![t] = IF IsUpdate(call[t].prog) THEN @ \o LocksRead({Word(t)}) ELSE @]
  BY <1>2, <1>4 DEF CheckLoad
<1>6. readSet' = IF IsUpdate(call[t].prog)
                 THEN [readSet EXCEPT ![t] = @ \o LocksRead({Word(t)})] ELSE readSet
  BY <1>5 DEF TypeOK
<1>7. IF Accessible(t, LocksRead(Op(t).range)[1])
      THEN IF 1 < Len(LocksRead(Op(t).range))
           THEN Advance(t) /\ UNCHANGED call
           ELSE Goto(t, "run") /\ call' = [call EXCEPT ![t].pos = @ + 1]
      ELSE Goto(t, "abort") /\ UNCHANGED call
  BY <1>4 DEF CheckLoad
<1>8. /\ LocksRead({Word(t)}) \in Seq(Lock) /\ Len(LocksRead({Word(t)})) = 1
      /\ LocksRead({Word(t)})[1] = LockOf(Word(t)) /\ LockOf(Word(t)) \in Lock
  BY <1>2, SingleWord, LockOfWord
<1>9. ~(1 < Len(LocksRead({Word(t)})))
  <2>. DEFINE n == Len(LocksRead({Word(t)}))
  <2>1. n = 1
    BY <1>8
  <2>. HIDE DEF n
  <2>2. ~(1 < n)
    BY <2>1
  <2>. QED BY <2>2 DEF n
<1>. QED BY <1>1, <1>2, <1>3, <1>6, <1>7, <1>8, <1>9

LEMMA TakeFacts ==
  ASSUME TypeOK, NEW t \in Thread, TakeLockTL2(t)
  PROVE  /\ AtOp(t, "store") /\ Word(t) \in Addr /\ k[t] = 1 /\ LockOf(Word(t)) \in Lock
         /\ Accessible(t, LockOf(Word(t)))
         /\ lock' = IF Holds(t, Word(t)) THEN lock
                    ELSE [lock EXCEPT ![LockOf(Word(t))] = [owner |-> t, seq |-> p_seq[t]]]
         /\ writeSet' = IF Holds(t, Word(t)) THEN writeSet
                        ELSE [writeSet EXCEPT ![t] = Append(@, {Word(t)})]
<1>1. AtOp(t, "store") /\ k[t] <= Len(LocksWritten(Op(t).range))
  BY DEF TakeLockTL2, TakeLock
<1>2. Word(t) \in Addr /\ Op(t).range = {Word(t)} /\ k[t] \in Nat \ {0}
  BY <1>1, OpFacts DEF TypeOK
<1>3. k[t] = 1
  <2>. DEFINE n == Len(LocksWritten(Op(t).range))
  <2>1. n = 1 /\ k[t] <= n
    BY <1>1, OpFacts
  <2>. HIDE DEF n
  <2>. QED BY <1>2, <2>1
<1>4. LockAt(t) = LockOf(Word(t))
  BY <1>1, <1>3, OpFacts DEF LockAt
<1>. QED BY <1>1, <1>2, <1>3, <1>4, LockOfWord DEF TakeLockTL2, TakeLock, Holds, Owner

LEMMA FailFacts ==
  ASSUME TypeOK, NEW t \in Thread, FailLockTL2(t)
  PROVE  AtOp(t, "store") /\ Word(t) \in Addr /\ ~Accessible(t, LockOf(Word(t)))
<1>1. AtOp(t, "store") /\ k[t] <= Len(LocksWritten(Op(t).range))
  BY DEF FailLockTL2, FailLock
<1>2. Word(t) \in Addr /\ Op(t).range = {Word(t)} /\ k[t] \in Nat \ {0}
  BY <1>1, OpFacts DEF TypeOK
<1>3. k[t] = 1
  <2>. DEFINE n == Len(LocksWritten(Op(t).range))
  <2>1. n = 1 /\ k[t] <= n
    BY <1>1, OpFacts
  <2>. HIDE DEF n
  <2>. QED BY <1>2, <2>1
<1>. QED BY <1>1, <1>2, <1>3, OpFacts DEF FailLockTL2, FailLock, LockAt

LEMMA StoreFacts ==
  ASSUME TypeOK, NEW t \in Thread, RunInv(t), StoreWordTL2(t)
  PROVE  /\ AtOp(t, "store") /\ Word(t) \in Addr /\ k[t] = 2
         /\ mem' = [mem EXCEPT ![Word(t)] = Id(t)]
         /\ Goto(t, "run") /\ call' = [call EXCEPT ![t].pos = @ + 1]
<1>1. AtOp(t, "store") /\ k[t] - Len(LocksWritten(Op(t).range)) >= 1
  BY DEF StoreWordTL2, StoreWord
<1>2. Word(t) \in Addr /\ Op(t).range = {Word(t)} /\ k[t] \in 1 .. 2
  BY <1>1, OpFacts DEF RunInv, AtOp
<1>3. k[t] = 2 /\ k[t] - Len(LocksWritten(Op(t).range)) = 1
  <2>. DEFINE n == Len(LocksWritten(Op(t).range))
  <2>1. n = 1 /\ k[t] - n >= 1
    BY <1>1, OpFacts
  <2>. HIDE DEF n
  <2>2. k[t] = 2 /\ k[t] - n = 1
    BY <1>2, <2>1
  <2>. QED BY <2>2 DEF n
<1>4. ~(1 < Cardinality(Op(t).range)) /\ WordsIn(Op(t).range)[1] = Word(t)
  BY <1>1, OpFacts
<1>. QED BY <1>1, <1>2, <1>3, <1>4 DEF StoreWordTL2, StoreWord, Id
-----------------------------------------------------------------------------
(* The types hold at first, and each step keeps them.                      *)
LEMMA TypeInit == InitTrinityTL2 => TypeOK
<1>. SUFFICES ASSUME InitTrinityTL2 PROVE TypeOK
  OBVIOUS
<1>. USE DEF InitTrinityTL2, InitTL2, InitHistory
<1>1. /\ NoCall \in Calls /\ <<>> \in Seq(Lock) /\ <<>> \in Seq(Words) /\ log \in Seq(Effects)
      /\ calls \in 0 .. MaxTx /\ InitVal \in Nat
  <2>1. <<>> \in Seq(Step) /\ <<>> \in Seq(Effects) /\ <<>> \in Seq(Lock) /\ <<>> \in Seq(Words)
    OBVIOUS
  <2>. QED BY <2>1, HistoryAssumption DEF NoCall, Calls, Reads, InitVal
<1>2. \A l \in Lock : Free(0) \in LockWord /\ lock[l] \in LockWord
  BY DEF Free, LockWord
<1>3. DOMAIN pm = Line /\ \A a \in Addr : pm[a] \in PersistWord
  BY <1>1, <1>2, LockOfWord, Lines DEF PersistLine, PersistWord
<1>4. \A t \in Thread : pm[PseqLine(t)] \in Nat
  BY Lines
<1>5. lock \in [Lock -> LockWord] /\ mem \in [Addr -> Nat] /\ region \in [Addr -> Nat] /\ p_seq \in [Thread -> Nat]
  BY <1>1, <1>2
<1>6. /\ pc \in [Thread -> Places] /\ k \in [Thread -> Nat \ {0}] /\ rClock \in [Thread -> Nat]
      /\ readSet \in [Thread -> Seq(Lock)] /\ writeSet \in [Thread -> Seq(Words)]
  BY <1>1 DEF Places
<1>7. call \in [Thread -> Calls] /\ returned \subseteq Nat /\ phase \in {"up", "recover"} /\ gClock \in Nat
  BY <1>1
<1>. QED BY <1>1, <1>3, <1>4, <1>5, <1>6, <1>7 DEF TypeOK

LEMMA CallType ==
  ASSUME TypeOK, NEW t \in Thread
  PROVE  /\ call[t].id \in Nat /\ call[t].prog \in Seq(Step) /\ call[t].pos \in Nat \ {0}
         /\ call[t].reads \in Reads /\ call[t].after \subseteq Nat /\ call[t] \in Calls
  BY DEF TypeOK, Calls

LEMMA NextPos ==
  ASSUME TypeOK, NEW t \in Thread
  PROVE  [call EXCEPT ![t].pos = @ + 1] \in [Thread -> Calls]
<1>1. [call[t] EXCEPT !.pos = call[t].pos + 1] \in Calls
  BY CallType DEF Calls
<1>. QED BY <1>1 DEF TypeOK

LEMMA NewReads ==
  ASSUME TypeOK, NEW t \in Thread, NEW reads \in Reads
  PROVE  [call EXCEPT ![t].reads = reads] \in [Thread -> Calls]
<1>1. [call[t] EXCEPT !.reads = reads] \in Calls
  BY CallType DEF Calls
<1>. QED BY <1>1 DEF TypeOK

LEMMA FirstPos ==
  ASSUME TypeOK, NEW t \in Thread
  PROVE  [call EXCEPT ![t].pos = 1, ![t].reads = {}] \in [Thread -> Calls]
<1>. DEFINE c == [call[t] EXCEPT !.pos = 1]
<1>1. c \in Calls
  BY CallType DEF Calls
<1>2. {} \in Reads
  BY DEF Reads
<1>3. [c EXCEPT !.reads = {}] \in Calls
  <2>. HIDE DEF c
  <2>. QED BY <1>1, <1>2 DEF Calls
<1>. QED BY <1>3 DEF TypeOK

LEMMA PlaceType ==
  ASSUME TypeOK, NEW t \in Thread
  PROVE  /\ \A p \in Places : Goto(t, p) => pc' \in [Thread -> Places] /\ k' \in [Thread -> Nat \ {0}]
         /\ Advance(t) => pc' \in [Thread -> Places] /\ k' \in [Thread -> Nat \ {0}]
<1>1. pc \in [Thread -> Places] /\ k \in [Thread -> Nat \ {0}]
  BY DEF TypeOK
<1>. QED BY <1>1 DEF Goto, Advance

(* What a step of t may write, so that the types stay.                     *)
LEMMA PersistLineType ==
  ASSUME TypeOK
  PROVE  /\ \A a \in Addr : PersistLine(a) \in PersistWord
         /\ \A t \in Thread : p_seq[0 - PseqLine(t)] = p_seq[t]
  BY LockOfWord, Lines DEF TypeOK, PersistLine, PersistWord

LEMMA EffectType ==
  ASSUME TypeOK, NEW t \in Thread, NEW writes \in SUBSET Addr
  PROVE  Append(log, Effect(t, writes)) \in Seq(Effects)
<1>1. Effect(t, writes) \in Effects
  BY DEF TypeOK, Effect, Effects, Calls
<1>. QED BY <1>1 DEF TypeOK

LEMMA WrittenType ==
  ASSUME TypeOK, NEW t \in Thread
  PROVE  /\ Written(t) \subseteq Addr
         /\ \A i \in DOMAIN writeSet[t] : Min(writeSet[t][i]) \in Addr /\ writeSet[t][i] = {Min(writeSet[t][i])}
<1>1. writeSet[t] \in Seq(Words)
  BY DEF TypeOK
<1>2. \A i \in DOMAIN writeSet[t] : \E a \in Addr : writeSet[t][i] = {a}
  BY <1>1 DEF Words
<1>3. \A i \in DOMAIN writeSet[t] : Min(writeSet[t][i]) \in Addr /\ writeSet[t][i] = {Min(writeSet[t][i])}
  <2>1. ASSUME NEW i \in DOMAIN writeSet[t]
        PROVE  Min(writeSet[t][i]) \in Addr /\ writeSet[t][i] = {Min(writeSet[t][i])}
    <3>1. PICK a \in Addr : writeSet[t][i] = {a}
      BY <1>2
    <3>. QED BY <3>1, SingleWord
  <2>. QED BY <2>1
<1>. QED BY <1>3 DEF Written

LEMMA TypeCall ==
  ASSUME TypeOK, NEW t \in Thread, CallTL2(t)
  PROVE  TypeOK'
<1>1. PICK prog \in Program : /\ \A i \in DOMAIN prog : Cardinality(prog[i].range) = 1
                              /\ call' = [call EXCEPT ![t] = [NoCall EXCEPT !.id = calls + 1, !.prog = prog,
                                                                            !.after = returned]]
  BY DEF CallTL2, Call, NewCall
<1>2. prog \in Seq(Step)
  <2>1. prog \in Seq([op : {"load", "store"}, range : SUBSET Addr])
    BY TL2Assumption
  <2>2. \A i \in DOMAIN prog : prog[i] \in Step
    <3>1. SUFFICES ASSUME NEW i \in DOMAIN prog PROVE prog[i] \in Step
      OBVIOUS
    <3>2. prog[i] \in [op : {"load", "store"}, range : SUBSET Addr]
      <4>. DEFINE S == [op : {"load", "store"}, range : SUBSET Addr]
      <4>1. prog \in Seq(S)
        BY <2>1
      <4>. HIDE DEF S
      <4>2. prog[i] \in S
        BY <4>1, <3>1
      <4>. QED BY <4>2 DEF S
    <3>3. IsFiniteSet(prog[i].range)
      <4>1. IsFiniteSet(Addr)
        BY FS_Interval, HistoryAssumption DEF Addr
      <4>. QED BY <3>2, <4>1, FS_Subset
    <3>4. \E a : prog[i].range = {a}
      BY <1>1, <3>1, <3>3, FS_Singleton
    <3>. QED BY <3>2, <3>4 DEF Step, Words
  <2>. QED BY <2>1, <2>2
<1>3. /\ calls' = calls + 1 /\ calls < MaxTx /\ Goto(t, "begin") /\ UNCHANGED <<log, returned>>
      /\ UNCHANGED <<phase, gClock, lock, regionVars, rClock, readSet, writeSet>>
  BY DEF CallTL2, Call, NewCall
<1>4. calls \in Nat /\ calls + 1 \in 0 .. MaxTx
  BY <1>3, HistoryAssumption DEF TypeOK
<1>5. [NoCall EXCEPT !.id = calls + 1, !.prog = prog, !.after = returned] \in Calls
  <2>1. returned \subseteq Nat
    BY DEF TypeOK
  <2>2. {} \in Reads /\ calls + 1 \in Nat /\ <<>> \in Seq(Step)
    BY <1>4 DEF Reads
  <2>. DEFINE c == [NoCall EXCEPT !.id = calls + 1]
              d == [c EXCEPT !.prog = prog]
  <2>3. c \in Calls
    <3>1. NoCall \in Calls
      BY <2>2 DEF NoCall, Calls
    <3>. QED BY <2>2, <3>1 DEF Calls
  <2>4. d \in Calls
    <3>. HIDE DEF c
    <3>. QED BY <1>2, <2>3 DEF Calls
  <2>5. [d EXCEPT !.after = returned] \in Calls
    <3>. HIDE DEF d
    <3>. QED BY <2>1, <2>4 DEF Calls
  <2>. QED BY <2>5
<1>6. call' \in [Thread -> Calls]
  BY <1>1, <1>5 DEF TypeOK
<1>7. pc' \in [Thread -> Places] /\ k' \in [Thread -> Nat \ {0}]
  BY <1>3, PlaceType DEF Places
<1>. QED BY <1>3, <1>4, <1>6, <1>7 DEF TypeOK, regionVars

LEMMA TypeConcurrency ==
  ASSUME TypeOK, NEW t \in Thread, RunInv(t), Concurrency(t)
  PROVE  TypeOK'
<1>. USE DEF regionVars, txVars, histVars
<1>1. CASE LoadWord(t)
  <2>1. mem[Word(t)] \in Nat /\ Word(t) \in Addr
    BY <1>1, LoadFacts DEF TypeOK
  <2>2. Reading(t, Word(t), mem[Word(t)]) \in Reads
    BY <2>1, CallType DEF Reading, Reads
  <2>3. call' = [call EXCEPT ![t].reads = Reading(t, Word(t), mem[Word(t)])]
    BY <1>1, LoadFacts
  <2>4. call' \in [Thread -> Calls]
    BY <2>2, <2>3, NewReads
  <2>. QED BY <1>1, <2>4, PlaceType DEF LoadWord, TypeOK, Places
<1>2. CASE CheckLoad(t)
  <2>1. readSet' \in [Thread -> Seq(Lock)]
    <3>. DEFINE locks == LocksRead({Word(t)})
    <3>1. locks \in Seq(Lock) /\ readSet \in [Thread -> Seq(Lock)]
      BY <1>2, CheckFacts DEF TypeOK
    <3>2. readSet' = readSet \/ readSet' = [readSet EXCEPT ![t] = @ \o locks]
      BY <1>2, CheckFacts
    <3>. HIDE DEF locks
    <3>3. readSet[t] \o locks \in Seq(Lock)
      BY <3>1
    <3>. QED BY <3>1, <3>2, <3>3
  <2>2. call' \in [Thread -> Calls]
    <3>1. call' = call \/ call' = [call EXCEPT ![t].pos = @ + 1]
      BY <1>2, CheckFacts
    <3>. QED BY <3>1, NextPos DEF TypeOK
  <2>3. pc' \in [Thread -> Places] /\ k' \in [Thread -> Nat \ {0}]
    BY <1>2, CheckFacts, PlaceType DEF Places
  <2>. QED BY <1>2, <2>1, <2>2, <2>3, PlaceType DEF CheckLoad, TypeOK, Places
<1>3. CASE EndReadOnly(t)
  <2>1. log' \in Seq(Effects)
    BY <1>3, EffectType DEF EndReadOnly
  <2>2. returned' \subseteq Nat
    BY <1>3, CallType DEF EndReadOnly, TypeOK
  <2>3. pc' \in [Thread -> Places] /\ k' \in [Thread -> Nat \ {0}]
    BY <1>3, PlaceType DEF EndReadOnly, Places
  <2>. QED BY <1>3, <2>1, <2>2, <2>3 DEF EndReadOnly, TypeOK
<1>4. CASE EndTx(t)
  BY <1>4, PlaceType DEF EndTx, TypeOK, Places
<1>5. CASE Validate(t)
  <2>1. pc' \in [Thread -> Places] /\ k' \in [Thread -> Nat \ {0}]
    BY <1>5, PlaceType DEF Validate, Places
  <2>. QED BY <1>5, <2>1 DEF Validate, TypeOK
<1>6. CASE Unlock(t)
  <2>1. Free(rClock[t]) \in LockWord
    BY DEF Free, LockWord, TypeOK
  <2>2. lock' \in [Lock -> LockWord]
    BY <1>6, <2>1 DEF Unlock, TypeOK
  <2>. QED BY <1>6, <2>2, PlaceType DEF Unlock, TypeOK, Places
<1>7. CASE Return(t)
  <2>1. returned' \subseteq Nat
    BY <1>7, CallType DEF Return, TypeOK
  <2>2. pc' \in [Thread -> Places] /\ k' \in [Thread -> Nat \ {0}]
    BY <1>7, PlaceType DEF Return, Places
  <2>. QED BY <1>7, <2>1, <2>2 DEF Return, TypeOK
<1>8. CASE Retry(t)
  BY <1>8, PlaceType DEF Retry, TypeOK, Places
<1>. QED BY <1>1, <1>2, <1>3, <1>4, <1>5, <1>6, <1>7, <1>8, PlaceType DEF Concurrency

LEMMA TypeTx ==
  ASSUME TypeOK, NEW t \in Thread, RunInv(t),
         \/ BeginTL2(t) \/ TakeLockTL2(t) \/ FailLockTL2(t) \/ StoreWordTL2(t)
         \/ CommitFlush(t) \/ CommitTick(t) \/ CommitSync(t)
         \/ Abort(t) \/ AbortTick(t) \/ AbortSync(t)
  PROVE  TypeOK'
<1>. USE DEF regionVars, txVars, histVars
<1>1. CASE BeginTL2(t)
  <2>1. call' \in [Thread -> Calls]
    BY <1>1, FirstPos DEF BeginTL2, BeginTx
  <2>2. <<>> \in Seq(Lock) /\ <<>> \in Seq(Words)
    OBVIOUS
  <2>. QED BY <1>1, <2>1, <2>2, PlaceType DEF BeginTL2, BeginTx, TypeOK, Places
<1>2. CASE TakeLockTL2(t)
  <2>1. lock' \in [Lock -> LockWord]
    <3>1. [owner |-> t, seq |-> p_seq[t]] \in LockWord
      BY DEF TypeOK, LockWord
    <3>2. lock' = lock \/ lock' = [lock EXCEPT ![LockOf(Word(t))] = [owner |-> t, seq |-> p_seq[t]]]
      BY <1>2, TakeFacts
    <3>. QED BY <3>1, <3>2 DEF TypeOK
  <2>2. writeSet' \in [Thread -> Seq(Words)]
    <3>1. {Word(t)} \in Words /\ writeSet \in [Thread -> Seq(Words)]
      BY <1>2, TakeFacts DEF TypeOK, Words
    <3>2. writeSet' = writeSet \/ writeSet' = [writeSet EXCEPT ![t] = Append(@, {Word(t)})]
      BY <1>2, TakeFacts
    <3>3. Append(writeSet[t], {Word(t)}) \in Seq(Words)
      BY <3>1
    <3>. QED BY <3>1, <3>2, <3>3
  <2>. QED BY <1>2, <2>1, <2>2, PlaceType DEF TakeLockTL2, TakeLock, TypeOK, Places
<1>3. CASE FailLockTL2(t)
  BY <1>3, PlaceType DEF FailLockTL2, FailLock, TypeOK, Places
<1>4. CASE StoreWordTL2(t)
  <2>1. call' \in [Thread -> Calls]
    BY <1>4, StoreFacts, NextPos
  <2>2. mem' \in [Addr -> Nat]
    <3>1. mem \in [Addr -> Nat] /\ call[t].id \in Nat
      BY CallType DEF TypeOK
    <3>2. mem' = [mem EXCEPT ![Word(t)] = call[t].id]
      BY <1>4, StoreFacts DEF Id
    <3>. QED BY <3>1, <3>2
  <2>. QED BY <1>4, <2>1, <2>2, StoreFacts, PlaceType DEF StoreWordTL2, StoreWord, TypeOK, Places
<1>5. CASE CommitFlush(t)
  <2>1. pc' \in [Thread -> Places] /\ k' \in [Thread -> Nat \ {0}]
    BY <1>5, PlaceType DEF CommitFlush, Places
  <2>. QED BY <1>5, <2>1 DEF CommitFlush, TypeOK
<1>6. CASE CommitTick(t)
  BY <1>6, PlaceType DEF CommitTick, TickTL2, TypeOK, Places
<1>7. CASE CommitSync(t)
  BY <1>7, PlaceType DEF CommitSync, TypeOK, Places
<1>8. CASE Abort(t)
  <2>1. mem' \in [Addr -> Nat]
    <3>1. mem \in [Addr -> Nat] /\ region \in [Addr -> Nat] /\ writeSet[t] \in Seq(Words) /\ k[t] \in Nat \ {0}
      BY DEF TypeOK
    <3>2. CASE k[t] <= Len(writeSet[t])
      <4>1. k[t] \in DOMAIN writeSet[t]
        BY <3>1, <3>2
      <4>2. Min(writeSet[t][k[t]]) \in Addr
        BY <4>1, WrittenType
      <4>3. mem' = [mem EXCEPT ![Min(writeSet[t][k[t]])] = region[Min(writeSet[t][k[t]])]]
        BY <1>8, <3>2 DEF Abort
      <4>. QED BY <3>1, <4>2, <4>3
    <3>3. CASE ~(k[t] <= Len(writeSet[t]))
      BY <1>8, <3>1, <3>3 DEF Abort
    <3>. QED BY <3>2, <3>3
  <2>2. pc' \in [Thread -> Places] /\ k' \in [Thread -> Nat \ {0}]
    BY <1>8, PlaceType DEF Abort, Places
  <2>. QED BY <1>8, <2>1, <2>2 DEF Abort, TypeOK
<1>9. CASE AbortTick(t)
  <2>1. pc' \in [Thread -> Places] /\ k' \in [Thread -> Nat \ {0}]
    BY <1>9, PlaceType DEF AbortTick, Places
  <2>2. gClock' \in Nat /\ rClock' \in [Thread -> Nat] /\ p_seq' \in [Thread -> Nat]
    BY <1>9 DEF AbortTick, TickTL2, TypeOK
  <2>. QED BY <1>9, <2>1, <2>2 DEF AbortTick, TypeOK
<1>10. CASE AbortSync(t)
  BY <1>10, PlaceType DEF AbortSync, TypeOK, Places
<1>. QED BY <1>1, <1>2, <1>3, <1>4, <1>5, <1>6, <1>7, <1>8, <1>9, <1>10

LEMMA TypeEvict ==
  ASSUME TypeOK, EvictTL2
  PROVE  TypeOK'
<1>1. PICK l \in Line :
        /\ pm' = [pm EXCEPT ![l] = IF l \in Addr THEN PersistLine(l) ELSE p_seq[0 - l]]
        /\ LogCommit(l)
  BY DEF EvictTL2
<1>2. /\ DOMAIN pm' = Line /\ \A a \in Addr : pm'[a] \in PersistWord
      /\ \A t \in Thread : pm'[PseqLine(t)] \in Nat
  BY <1>1, PersistLineType, Lines DEF TypeOK
<1>3. log' \in Seq(Effects)
  <2>1. CASE \E t \in Thread : Committing(t, l)
    <3>1. PICK t \in Thread : l = PseqLine(t)
      BY <2>1 DEF Committing
    <3>. QED BY <1>1, <2>1, <3>1, Lines, EffectType, WrittenType DEF LogCommit
  <2>. QED BY <1>1, <2>1 DEF LogCommit, TypeOK
<1>. QED BY <1>2, <1>3 DEF EvictTL2, TypeOK, txVars

LEMMA TypeRecover ==
  ASSUME TypeOK, CrashTL2 \/ RecoverWord \/ RecoverDoneTL2
  PROVE  TypeOK'
<1>1. CASE CrashTL2
  <2>1. NoCall \in Calls /\ <<>> \in Seq(Lock) /\ <<>> \in Seq(Words)
    <3>1. <<>> \in Seq(Step) /\ <<>> \in Seq(Lock) /\ <<>> \in Seq(Words)
      OBVIOUS
    <3>. QED BY <3>1 DEF NoCall, Calls, Reads
  <2>2. lock' \in [Lock -> LockWord]
    BY <1>1 DEF CrashTL2, TypeOK, PersistWord, LockWord, Free
  <2>3. mem' \in [Addr -> Nat] /\ region' \in [Addr -> Nat] /\ p_seq' \in [Thread -> Nat]
    BY <1>1 DEF CrashTL2, TypeOK, PersistWord
  <2>4. returned' \subseteq Nat
    <3>1. \A i \in DOMAIN log : log[i] \in Effects
      BY DEF TypeOK
    <3>2. \A i \in DOMAIN log : log[i].id \in Nat
      BY <3>1 DEF Effects
    <3>. QED BY <1>1, <3>2 DEF CrashTL2, CrashThreads
  <2>5. DOMAIN pm' = Line /\ \A a \in Addr : pm'[a] \in PersistWord
    BY <1>1 DEF CrashTL2, CrashThreads, TypeOK
  <2>6. /\ pc' \in [Thread -> Places] /\ k' \in [Thread -> Nat \ {0}] /\ rClock' \in [Thread -> Nat]
        /\ readSet' \in [Thread -> Seq(Lock)] /\ writeSet' \in [Thread -> Seq(Words)]
        /\ call' \in [Thread -> Calls]
    BY <1>1, <2>1 DEF CrashTL2, CrashThreads, Places
  <2>7. gClock' \in Nat /\ phase' \in {"up", "recover"} /\ UNCHANGED <<calls, log, pm>>
    BY <1>1 DEF CrashTL2, CrashThreads
  <2>. QED BY <2>2, <2>3, <2>4, <2>5, <2>6, <2>7 DEF TypeOK
<1>2. CASE RecoverWord
  BY <1>2 DEF RecoverWord, TypeOK, txVars, histVars, Free, LockWord
<1>3. CASE RecoverDoneTL2
  <2>1. gClock' \in Nat
    <3>. DEFINE S == {2} \cup {p_seq[t] : t \in Thread}
    <3>1. S \subseteq Nat /\ IsFiniteSet(S) /\ S # {}
      <4>1. IsFiniteSet({p_seq[t] : t \in Thread})
        <5>. DEFINE P == {p_seq[t] : t \in Thread}
        <5>1. p_seq \in Surjection(Thread, P)
          BY DEF TypeOK, Surjection
        <5>. HIDE DEF P
        <5>2. IsFiniteSet(P)
          BY <5>1, FS_Surjection, TL2Assumption
        <5>. QED BY <5>2 DEF P
      <4>2. IsFiniteSet({2})
        BY FS_Singleton
      <4>3. IsFiniteSet(S)
        BY <4>1, <4>2, FS_Union
      <4>. QED BY <4>3 DEF TypeOK
    <3>. QED BY <1>3, <3>1, Largest DEF RecoverDoneTL2
  <2>. QED BY <1>3, <2>1 DEF RecoverDoneTL2, TypeOK, regionVars, txVars, histVars
<1>. QED BY <1>1, <1>2, <1>3
-----------------------------------------------------------------------------
(* The steps of one thread, and what such a step leaves alone.             *)
TxStep(t) ==
  \/ Concurrency(t) \/ CallTL2(t) \/ BeginTL2(t) \/ TakeLockTL2(t) \/ FailLockTL2(t) \/ StoreWordTL2(t)
  \/ CommitFlush(t) \/ CommitTick(t) \/ CommitSync(t) \/ Abort(t) \/ AbortTick(t) \/ AbortSync(t)

SameThread(u) ==
  /\ pc'[u] = pc[u] /\ k'[u] = k[u] /\ call'[u] = call[u] /\ rClock'[u] = rClock[u]
  /\ readSet'[u] = readSet[u] /\ writeSet'[u] = writeSet[u] /\ p_seq'[u] = p_seq[u]

Taken(t, l)    == /\ lock[l].owner = NoTid /\ lock[l].seq <= rClock[t] /\ pc[t] = "run"
                  /\ lock'[l] = [owner |-> t, seq |-> p_seq[t]] /\ \E a \in Addr : l = LockOf(a)
Unlocked(t, l) == lock[l].owner = t /\ Unlocking(t) /\ lock'[l] = Free(rClock[t])

Local(t) ==
  /\ phase = "up" /\ phase' = "up" /\ pm' = pm
  /\ \A u \in Thread \ {t} : SameThread(u)
  /\ \A w \in pwb : w \in pwb'
  /\ \A l \in Lock : lock'[l] = lock[l] \/ Taken(t, l) \/ Unlocked(t, l)
  /\ \A a \in Addr : mem'[a] = mem[a] \/ (Holds(t, a) /\ pc[t] \in {"run", "abort"})
  /\ \A a \in Addr : region'[a] = region[a] \/ (Holds(t, a) /\ pc[t] = "sync")
  /\ gClock' = gClock \/ (gClock' = gClock + 1 /\ rClock'[t] = gClock + 1)
  /\ rClock'[t] = rClock[t] \/ (pc[t] = "begin" /\ rClock'[t] = gClock) \/ rClock'[t] = gClock + 1
  /\ (\E l \in Lock : lock'[l].owner = t) => pc'[t] \notin {"idle", "begin"}

(* The parts of TypeOK, one by one, for the provers.                       *)
LEMMA Types ==
  ASSUME TypeOK
  PROVE  /\ gClock \in Nat /\ calls \in Nat
         /\ \A t \in Thread : /\ pc[t] \in Places /\ k[t] \in Nat \ {0} /\ rClock[t] \in Nat /\ p_seq[t] \in Nat
                              /\ Medium(t) \in Nat /\ Id(t) \in Nat
         /\ \A l \in Lock : /\ lock[l].owner \in Thread \cup {NoTid} /\ lock[l].seq \in Nat
                            /\ lock[l] = [owner |-> lock[l].owner, seq |-> lock[l].seq]
         /\ \A a \in Addr : /\ mem[a] \in Nat /\ region[a] \in Nat /\ LockOf(a) \in Lock
                            /\ Owner(a) \in Thread \cup {NoTid} /\ lock[LockOf(a)].seq \in Nat
                            /\ pm[a].lseq.owner \in Thread \cup {NoTid} /\ pm[a].lseq.seq \in Nat
                            /\ pm[a].main \in Nat /\ pm[a].back \in Nat
<1>1. /\ gClock \in Nat /\ calls \in Nat
      /\ \A t \in Thread : /\ pc[t] \in Places /\ k[t] \in Nat \ {0} /\ rClock[t] \in Nat /\ p_seq[t] \in Nat
                           /\ Medium(t) \in Nat
  BY HistoryAssumption DEF TypeOK, Medium
<1>2. \A t \in Thread : Id(t) \in Nat
  BY CallType DEF Id
<1>3. \A l \in Lock : /\ lock[l].owner \in Thread \cup {NoTid} /\ lock[l].seq \in Nat
                      /\ lock[l] = [owner |-> lock[l].owner, seq |-> lock[l].seq]
  <2>1. \A l \in Lock : lock[l] \in LockWord
    BY DEF TypeOK
  <2>. QED BY <2>1 DEF LockWord
<1>4. \A a \in Addr : /\ mem[a] \in Nat /\ region[a] \in Nat /\ LockOf(a) \in Lock
                      /\ pm[a].lseq.owner \in Thread \cup {NoTid} /\ pm[a].lseq.seq \in Nat
                      /\ pm[a].main \in Nat /\ pm[a].back \in Nat
  BY LockOfWord DEF TypeOK, PersistWord, LockWord
<1>. QED BY <1>1, <1>2, <1>3, <1>4 DEF Owner

(* The words a thread has written are those it holds.                      *)
LEMMA UpFacts ==
  ASSUME TypeOK, Durability, phase = "up", NEW t \in Thread
  PROVE  /\ rClock[t] <= gClock /\ p_seq[t] <= gClock /\ RunInv(t) /\ WriteInv(t) /\ SeqInv(t) /\ MediumInv(t)
         /\ Active(t) /\ ~Unlocking(t) => \A a \in Addr : Holds(t, a) <=> a \in Written(t)
         /\ ~Active(t) => \A l \in Lock : lock[l].owner # t
  BY Lines, Types DEF Durability, UpInv, LockInv, WriteInv

LEMMA UpWhenCalled ==
  ASSUME TypeOK, Durability, NEW t \in Thread, pc[t] # "idle"
  PROVE  phase = "up"
  BY DEF TypeOK, Durability, RecoverInv

LEMMA LocalConcurrency ==
  ASSUME TypeOK, TypeOK', Durability, NEW t \in Thread, Concurrency(t)
  PROVE  Local(t)
<1>0. pc[t] # "idle"
  BY DEF Concurrency, LoadWord, CheckLoad, AtOp, EndReadOnly, EndTx, Finished, Validate, Unlock, Return, Retry
<1>1. phase = "up" /\ RunInv(t) /\ WriteInv(t)
  BY <1>0, UpWhenCalled, UpFacts
<1>. USE <1>1 DEF Local, SameThread, regionVars, txVars, histVars
<1>2. CASE LoadWord(t)
  BY <1>2, LoadFacts, UpFacts DEF LoadWord, Advance, TypeOK, AtOp, Active
<1>3. CASE CheckLoad(t)
  <2>1. /\ readSet' = IF IsUpdate(call[t].prog)
                       THEN [readSet EXCEPT ![t] = @ \o LocksRead({Word(t)})] ELSE readSet
        /\ IF Accessible(t, LockOf(Word(t)))
           THEN Goto(t, "run") /\ call' = [call EXCEPT ![t].pos = @ + 1]
           ELSE Goto(t, "abort") /\ UNCHANGED call
    BY <1>3, CheckFacts
  <2>2. pc'[t] \in {"run", "abort"}
    BY <2>1 DEF Goto, TypeOK
  <2>3. \A u \in Thread \ {t} : SameThread(u)
    BY <1>3, <2>1 DEF CheckLoad, Goto, TypeOK
  <2>. QED BY <1>3, <2>2, <2>3 DEF CheckLoad
<1>4. CASE EndReadOnly(t)
  <2>1. \A l \in Lock : lock[l].owner # t
    <3>1. Written(t) = {} /\ Active(t) /\ ~Unlocking(t)
      BY <1>4 DEF EndReadOnly, Written, Finished, Active, Unlocking
    <3>2. \A a \in Addr : ~Holds(t, a)
      BY <3>1, UpFacts
    <3>. QED BY <3>2, Lines DEF Durability, Holds, Owner, Free
  <2>. QED BY <1>4, <2>1 DEF EndReadOnly, Goto, TypeOK
<1>5. CASE EndTx(t)
  BY <1>5 DEF EndTx, Finished, Goto, TypeOK
<1>6. CASE Validate(t)
  BY <1>6 DEF Validate, Goto, Advance, TypeOK
<1>7. CASE Unlock(t)
  <2>1. Min(LocksTaken(t)) \in Lock /\ lock[Min(LocksTaken(t))].owner = t
    <3>1. LocksTaken(t) \subseteq Nat /\ LocksTaken(t) # {}
      BY <1>7, TL2Assumption DEF Unlock, LocksTaken, Lock
    <3>2. Min(LocksTaken(t)) \in LocksTaken(t)
      BY <3>1, MinIsIn
    <3>. QED BY <3>2 DEF LocksTaken
  <2>2. lock' = [lock EXCEPT ![Min(LocksTaken(t))] = Free(rClock[t])]
    BY <1>7 DEF Unlock
  <2>3. \A l \in Lock : lock'[l] = lock[l] \/ Unlocked(t, l)
    BY <1>7, <2>1, <2>2 DEF TypeOK, Unlocked, Unlock, Unlocking
  <2>. QED BY <1>7, <2>3 DEF Unlock
<1>8. CASE Return(t)
  BY <1>8 DEF Return, Goto, TypeOK, LocksTaken
<1>9. CASE Retry(t)
  BY <1>9 DEF Retry, Goto, TypeOK, LocksTaken
<1>. QED BY <1>2, <1>3, <1>4, <1>5, <1>6, <1>7, <1>8, <1>9 DEF Concurrency

LEMMA LocalTx ==
  ASSUME TypeOK, TypeOK', Durability, OneLockPerWord, NEW t \in Thread, TxStep(t), ~Concurrency(t)
  PROVE  Local(t)
<1>1. phase = "up" /\ RunInv(t) /\ WriteInv(t)
  <2>1. CASE CallTL2(t)
    BY <2>1, UpFacts DEF CallTL2, Call
  <2>2. CASE ~CallTL2(t)
    <3>1. pc[t] # "idle"
      BY <2>2 DEF TxStep, BeginTL2, BeginTx, TakeLockTL2, TakeLock, FailLockTL2, FailLock, StoreWordTL2, StoreWord,
                  AtOp, CommitFlush, CommitTick, CommitSync, Abort, AbortTick, AbortSync
    <3>. QED BY <3>1, UpWhenCalled, UpFacts
  <2>. QED BY <2>1, <2>2
<1>. USE <1>1 DEF Local, SameThread, regionVars, txVars, histVars
<1>2. CASE CallTL2(t)
  <2>1. \A u \in Thread \ {t} : call'[u] = call[u]
    BY <1>2 DEF CallTL2, Call, NewCall, TypeOK
  <2>2. \A l \in Lock : lock[l].owner # t
    BY <1>2, UpFacts DEF CallTL2, Call, Active
  <2>. QED BY <1>2, <2>1, <2>2 DEF CallTL2, Call, Goto, TypeOK
<1>3. CASE BeginTL2(t)
  <2>1. \A u \in Thread \ {t} : SameThread(u)
    BY <1>3 DEF BeginTL2, BeginTx, Goto, TypeOK
  <2>2. rClock'[t] = gClock /\ gClock' = gClock
    BY <1>3 DEF BeginTL2, BeginTx, TypeOK
  <2>. QED BY <1>3, <2>1, <2>2 DEF BeginTL2, BeginTx, Goto, TypeOK
<1>4. CASE TakeLockTL2(t)
  <2>1. \A l \in Lock : lock'[l] = lock[l] \/ Taken(t, l)
    <3>1. CASE Holds(t, Word(t))
      BY <1>4, <3>1, TakeFacts
    <3>2. CASE ~Holds(t, Word(t))
      <4>1. lock' = [lock EXCEPT ![LockOf(Word(t))] = [owner |-> t, seq |-> p_seq[t]]]
        BY <1>4, <3>2, TakeFacts
      <4>2. /\ lock[LockOf(Word(t))].owner = NoTid /\ lock[LockOf(Word(t))].seq <= rClock[t]
            /\ pc[t] = "run" /\ Word(t) \in Addr
        BY <1>4, <3>2, TakeFacts DEF Accessible, Holds, Owner, AtOp
      <4>. QED BY <4>1, <4>2, LockOfWord DEF TypeOK, Taken
    <3>. QED BY <3>1, <3>2
  <2>2. \A u \in Thread \ {t} : SameThread(u)
    <3>1. \A u \in Thread \ {t} : writeSet'[u] = writeSet[u]
      BY <1>4 DEF TakeLockTL2, TypeOK
    <3>. QED BY <1>4, <3>1 DEF TakeLockTL2, TakeLock, Advance, TypeOK
  <2>3. pc[t] = "run" /\ pc' = pc
    BY <1>4 DEF TakeLockTL2, TakeLock, Advance, AtOp
  <2>. QED BY <1>4, <2>1, <2>2, <2>3 DEF TakeLockTL2, TakeLock
<1>5. CASE FailLockTL2(t)
  BY <1>5 DEF FailLockTL2, FailLock, Goto, TypeOK
<1>6. CASE StoreWordTL2(t)
  <2>0. /\ AtOp(t, "store") /\ Word(t) \in Addr /\ k[t] = 2 /\ mem' = [mem EXCEPT ![Word(t)] = Id(t)]
        /\ Goto(t, "run") /\ call' = [call EXCEPT ![t].pos = @ + 1]
    BY <1>6, StoreFacts
  <2>1. pc[t] = "run" /\ pc'[t] = "run" /\ Holds(t, Word(t)) /\ Word(t) \in Addr
    BY <2>0 DEF RunInv, AtOp, Goto, TypeOK
  <2>2. \A a \in Addr : mem'[a] = mem[a] \/ a = Word(t)
    BY <2>0 DEF TypeOK
  <2>3. \A u \in Thread \ {t} : SameThread(u)
    BY <1>6, <2>0 DEF StoreWordTL2, StoreWord, Goto, TypeOK
  <2>. QED BY <1>6, <2>1, <2>2, <2>3 DEF StoreWordTL2, StoreWord
<1>7. CASE CommitFlush(t)
  BY <1>7 DEF CommitFlush, Goto, TypeOK
<1>8. CASE CommitTick(t)
  BY <1>8 DEF CommitTick, TickTL2, Goto, TypeOK
<1>9. CASE CommitSync(t)
  <2>1. \A a \in Addr : a \in Written(t) => Holds(t, a)
    BY <1>9, UpFacts DEF CommitSync, Active, Unlocking
  <2>. QED BY <1>9, <2>1 DEF CommitSync, Goto, TypeOK
<1>10. CASE Abort(t)
  <2>1. pc[t] = "abort" /\ \A a \in Addr : a \in Written(t) => Holds(t, a)
    BY <1>10, UpFacts DEF Abort, Active, Unlocking
  <2>2. \A a \in Addr : mem'[a] = mem[a] \/ a \in Written(t)
    <3>1. CASE k[t] <= Len(writeSet[t])
      <4>1. k[t] \in DOMAIN writeSet[t]
        <5>1. writeSet[t] \in Seq(Words) /\ k[t] \in Nat \ {0}
          BY DEF TypeOK
        <5>. QED BY <3>1, <5>1
      <4>2. Min(writeSet[t][k[t]]) \in Addr /\ Min(writeSet[t][k[t]]) \in Written(t)
        BY <4>1, WrittenType DEF Written
      <4>. QED BY <1>10, <3>1, <4>2 DEF Abort, TypeOK
    <3>. QED BY <1>10, <3>1 DEF Abort
  <2>3. pc'[t] \notin {"idle", "begin"}
    BY <1>10 DEF Abort, Goto, Advance, TypeOK
  <2>4. \A u \in Thread \ {t} : SameThread(u)
    BY <1>10 DEF Abort, Goto, Advance, TypeOK
  <2>. QED BY <1>10, <2>1, <2>2, <2>3, <2>4 DEF Abort
<1>11. CASE AbortTick(t)
  BY <1>11 DEF AbortTick, TickTL2, Goto, TypeOK
<1>12. CASE AbortSync(t)
  BY <1>12 DEF AbortSync, Goto, TypeOK
<1>. QED BY <1>2, <1>3, <1>4, <1>5, <1>6, <1>7, <1>8, <1>9, <1>10, <1>11, <1>12 DEF TxStep

(* A step of t changes the locks, words and lines of t, and no others'.    *)
LEMMA LocalStep ==
  ASSUME TypeOK, TypeOK', Durability, OneLockPerWord, NEW t \in Thread, TxStep(t)
  PROVE  Local(t)
  BY LocalConcurrency, LocalTx
-----------------------------------------------------------------------------
(* What a step of t leaves as it is for another thread.                    *)
LEMMA OthersFrame ==
  ASSUME TypeOK, TypeOK', NEW t \in Thread, Local(t), NEW u \in Thread \ {t}
  PROVE  /\ SameThread(u) /\ Id(u)' = Id(u) /\ Word(u)' = Word(u) /\ Written(u)' = Written(u)
         /\ Medium(u)' = Medium(u)
         /\ (AtOp(u, "load")' <=> AtOp(u, "load")) /\ (AtOp(u, "store")' <=> AtOp(u, "store"))
         /\ \A a \in Addr : /\ Holds(u, a)' <=> Holds(u, a)
                            /\ Holds(u, a) => /\ lock'[LockOf(a)] = lock[LockOf(a)] /\ mem'[a] = mem[a]
                                              /\ region'[a] = region[a] /\ PersistLine(a)' = PersistLine(a)
<1>1. SameThread(u) /\ u # NoTid /\ pm' = pm
  BY Lines DEF Local
<1>2. Id(u)' = Id(u) /\ Word(u)' = Word(u)
  BY <1>1 DEF SameThread, Id, Word, Op
<1>3. Written(u)' = Written(u)
  BY <1>1 DEF SameThread, Written
<1>4. Medium(u)' = Medium(u)
  BY <1>1 DEF Medium
<1>5. (AtOp(u, "load")' <=> AtOp(u, "load")) /\ (AtOp(u, "store")' <=> AtOp(u, "store"))
  BY <1>1 DEF SameThread, AtOp, AtEnd, Op
<1>6. ASSUME NEW a \in Addr
      PROVE  /\ Holds(u, a)' <=> Holds(u, a)
             /\ Holds(u, a) => /\ lock'[LockOf(a)] = lock[LockOf(a)] /\ mem'[a] = mem[a]
                               /\ region'[a] = region[a] /\ PersistLine(a)' = PersistLine(a)
  <2>1. LockOf(a) \in Lock /\ t # u /\ u # NoTid
    BY LockOfWord, <1>1
  <2>2. \/ lock'[LockOf(a)] = lock[LockOf(a)]
        \/ lock[LockOf(a)].owner = NoTid /\ lock'[LockOf(a)].owner = t
        \/ lock[LockOf(a)].owner = t /\ lock'[LockOf(a)].owner = NoTid
    BY <2>1 DEF Local, Taken, Unlocked, Free
  <2>3. Holds(u, a)' <=> Holds(u, a)
    BY <2>1, <2>2 DEF Holds, Owner
  <2>4. Holds(u, a) => /\ lock'[LockOf(a)] = lock[LockOf(a)] /\ mem'[a] = mem[a] /\ region'[a] = region[a]
    BY <2>1, <2>2 DEF Holds, Owner, Local
  <2>. QED BY <2>3, <2>4 DEF PersistLine
<1>. QED BY <1>1, <1>2, <1>3, <1>4, <1>5, <1>6

(* A step of t keeps what Durability says of another thread.               *)
LEMMA OthersStep ==
  ASSUME TypeOK, TypeOK', Durability, NEW t \in Thread, Local(t), NEW u \in Thread \ {t}
  PROVE  /\ RunInv(u)' /\ WriteInv(u)' /\ SeqInv(u)' /\ MediumInv(u)'
         /\ rClock'[u] <= gClock' /\ p_seq'[u] <= gClock'
<1>1. /\ SameThread(u) /\ Id(u)' = Id(u) /\ Word(u)' = Word(u) /\ Written(u)' = Written(u)
      /\ Medium(u)' = Medium(u)
      /\ (AtOp(u, "load")' <=> AtOp(u, "load")) /\ (AtOp(u, "store")' <=> AtOp(u, "store"))
      /\ \A a \in Addr : /\ Holds(u, a)' <=> Holds(u, a)
                         /\ Holds(u, a) => /\ lock'[LockOf(a)] = lock[LockOf(a)] /\ mem'[a] = mem[a]
                                           /\ region'[a] = region[a] /\ PersistLine(a)' = PersistLine(a)
  BY OthersFrame
<1>2. phase = "up" /\ pm' = pm /\ \A w \in pwb : w \in pwb'
  BY DEF Local
<1>3. RunInv(u) /\ WriteInv(u) /\ SeqInv(u) /\ MediumInv(u) /\ rClock[u] <= gClock /\ p_seq[u] <= gClock
  BY <1>2, UpFacts
<1>4. RunInv(u)'
  <2>1. pc[u] = "run" /\ AtOp(u, "store") /\ k[u] = 2 => Word(u) \in Addr
    BY OpFacts
  <2>. QED BY <1>1, <1>3, <2>1 DEF SameThread, RunInv
<1>5. WriteInv(u)'
  BY <1>1, <1>3 DEF SameThread, WriteInv, Active, Unlocking, Placed, Clean, InStore
<1>6. SeqInv(u)'
  <2>1. u \in Thread
    OBVIOUS
  <2>. QED BY <1>1, <1>2, <1>3, <2>1 DEF SameThread, SeqInv, Ticked, Unlocking
<1>7. MediumInv(u)'
  BY <1>1, <1>2, <1>3 DEF SameThread, MediumInv
<1>8. rClock'[u] <= gClock' /\ p_seq'[u] <= gClock'
  BY <1>1, <1>3, Types DEF SameThread, Local
<1>. QED BY <1>4, <1>5, <1>6, <1>7, <1>8

(* What a step of t does to the locks and lines all threads share.         *)
LEMMA SharedStep ==
  ASSUME TypeOK, TypeOK', Durability, OneLockPerWord, NEW t \in Thread, Local(t)
  PROVE  /\ \A l \in Lock : lock'[l] = Free(0) \/ \E a \in Addr : LockOf(a) = l
         /\ \A a \in Addr : LineInv(pm[a])'
         /\ \A l \in Lock : LockInv(l)'
         /\ \A a \in Addr : FreeInv(a)' /\ LockedInv(a)'
<1>1. phase = "up" /\ pm' = pm /\ UpInv
  BY DEF Local, Durability
<1>2. \A u \in Thread : Medium(u)' = Medium(u)
  BY <1>1 DEF Medium
<1>3. \A l \in Lock : lock'[l] = lock[l] \/ Taken(t, l) \/ Unlocked(t, l)
  BY DEF Local
<1>4. rClock[t] <= gClock /\ SeqInv(t) /\ WriteInv(t) /\ t # NoTid /\ gClock <= gClock'
  BY <1>1, UpFacts, Lines, Types DEF Local
<1>5. ASSUME NEW l \in Lock PROVE lock'[l] = Free(0) \/ \E a \in Addr : LockOf(a) = l
  BY <1>3, <1>4 DEF Durability, Taken, Unlocked, Free
<1>6. ASSUME NEW a \in Addr PROVE LineInv(pm[a])'
  <2>1. LineInv(pm[a]) /\ pm[a].lseq.owner \in Thread \cup {NoTid}
    BY Types DEF Durability
  <2>. QED BY <2>1, <1>1, <1>2 DEF LineInv, Past
<1>7. ASSUME NEW l \in Lock
      PROVE  LockInv(l)'
  <2>1. gClock \in Nat /\ gClock' \in Nat /\ lock[l].seq \in Nat /\ rClock[t] \in Nat
    BY Types DEF TypeOK
  <2>2. CASE lock'[l] = lock[l]
    <3>1. CASE lock[l].owner = NoTid
      <4>1. lock[l].seq <= gClock
        BY <1>1, <3>1 DEF UpInv, LockInv
      <4>. QED BY <1>4, <2>1, <2>2, <3>1, <4>1 DEF LockInv
    <3>2. CASE lock[l].owner = t
      <4>1. pc'[t] \notin {"idle", "begin"}
        BY <2>2, <3>2 DEF Local
      <4>. QED BY <1>4, <2>2, <3>2, <4>1 DEF LockInv, Active
    <3>3. CASE lock[l].owner \notin {NoTid, t}
      <4>1. lock[l].owner \in Thread \ {t} /\ Active(lock[l].owner)
        BY <1>1, <3>3, Types DEF UpInv, LockInv
      <4>2. pc'[lock[l].owner] = pc[lock[l].owner]
        BY <4>1 DEF Local, SameThread
      <4>. QED BY <2>2, <3>3, <4>1, <4>2 DEF LockInv, Active
    <3>. QED BY <3>1, <3>2, <3>3
  <2>3. CASE Taken(t, l)
    <3>1. lock'[l].owner = t
      BY <2>3 DEF Taken
    <3>2. pc'[t] \notin {"idle", "begin"}
      BY <3>1 DEF Local
    <3>. QED BY <1>4, <3>1, <3>2 DEF LockInv, Active
  <2>4. CASE Unlocked(t, l)
    <3>1. lock'[l].owner = NoTid /\ lock'[l].seq = rClock[t]
      BY <2>4 DEF Unlocked, Free
    <3>. QED BY <1>4, <2>1, <3>1 DEF LockInv
  <2>. QED BY <1>3, <2>2, <2>3, <2>4
<1>8. ASSUME NEW a \in Addr, Owner(a)' = NoTid
      PROVE  mem'[a] = region'[a] /\ Past(lock[LockOf(a)].seq)'
  <2>1. LockOf(a) \in Lock
    BY LockOfWord
  <2>2. CASE lock'[LockOf(a)] = lock[LockOf(a)]
    <3>1. Owner(a) = NoTid
      BY <1>8, <2>2 DEF Owner
    <3>2. mem[a] = region[a] /\ Past(lock[LockOf(a)].seq)
      BY <1>1, <3>1 DEF UpInv, FreeInv
    <3>3. mem'[a] = mem[a] /\ region'[a] = region[a]
      BY <1>4, <3>1 DEF Local, Holds
    <3>. QED BY <1>2, <2>2, <3>2, <3>3 DEF Past
  <2>3. CASE Unlocked(t, LockOf(a))
    <3>1. Holds(t, a) /\ Unlocking(t) /\ lock'[LockOf(a)].seq = rClock[t]
      BY <2>3 DEF Unlocked, Holds, Owner, Free
    <3>2. mem[a] = region[a] /\ rClock[t] = Medium(t) /\ rClock[t] <= Medium(t)
      BY <1>4, <3>1, Types DEF WriteInv, SeqInv, Unlocking, Clean, Ticked
    <3>3. mem'[a] = mem[a] /\ region'[a] = region[a]
      BY <3>1 DEF Local, Unlocking
    <3>. QED BY <1>2, <3>1, <3>2, <3>3 DEF Past
  <2>4. CASE Taken(t, LockOf(a))
    BY <1>4, <1>8, <2>4 DEF Taken, Owner
  <2>. QED BY <1>3, <2>1, <2>2, <2>3, <2>4
<1>9. ASSUME NEW a \in Addr, Locked(pm[a])'
      PROVE  lock'[LockOf(a)] = pm[a].lseq
  <2>1. /\ LockOf(a) \in Lock /\ pm[a].lseq.owner \in Thread
        /\ pm[a].lseq.seq = Medium(pm[a].lseq.owner) /\ Locked(pm[a])
    <3>1. pm[a].lseq.owner \in Thread
      BY <1>1, <1>9, Types DEF Locked
    <3>. QED BY <1>1, <1>2, <1>9, <3>1, LockOfWord DEF Locked
  <2>2. lock[LockOf(a)] = pm[a].lseq
    BY <1>1, <2>1 DEF UpInv, LockedInv
  <2>3. ~Taken(t, LockOf(a))
    BY <2>1, <2>2, Lines DEF Taken
  <2>4. ~Unlocked(t, LockOf(a))
    <3>1. SUFFICES ASSUME Unlocked(t, LockOf(a)) PROVE FALSE
      OBVIOUS
    <3>2. Holds(t, a) /\ Ticked(t) /\ Medium(t) = p_seq[t] /\ pm[a].lseq.owner = t
      BY <1>4, <2>2, <3>1 DEF Unlocked, Holds, Owner, SeqInv, Ticked, Unlocking
    <3>3. lock[LockOf(a)].seq < p_seq[t] /\ lock[LockOf(a)].seq = Medium(t)
      BY <1>4, <2>1, <2>2, <3>2 DEF SeqInv
    <3>. QED BY <3>2, <3>3, <2>1, Types
  <2>. QED BY <1>3, <2>1, <2>2, <2>3, <2>4
<1>. QED BY <1>1, <1>5, <1>6, <1>7, <1>8, <1>9 DEF FreeInv, LockedInv
-----------------------------------------------------------------------------
LEMMA CallFields ==
  ASSUME TypeOK, NEW t \in Thread, NEW x
  PROVE  /\ [call EXCEPT ![t].reads = x][t] = [call[t] EXCEPT !.reads = x]
         /\ [call EXCEPT ![t].pos = x][t] = [call[t] EXCEPT !.pos = x]
         /\ LET c == [call[t] EXCEPT !.reads = x]
            IN  c.id = call[t].id /\ c.prog = call[t].prog /\ c.pos = call[t].pos /\ c.after = call[t].after /\ c.reads = x
         /\ LET c == [call[t] EXCEPT !.pos = x]
            IN  c.id = call[t].id /\ c.prog = call[t].prog /\ c.reads = call[t].reads /\ c.after = call[t].after /\ c.pos = x
<1>1. call[t] \in Calls /\ call \in [Thread -> Calls]
  BY DEF TypeOK
<1>2. \A c \in Calls : /\ [c EXCEPT !.reads = x].id = c.id /\ [c EXCEPT !.reads = x].prog = c.prog
                       /\ [c EXCEPT !.reads = x].pos = c.pos /\ [c EXCEPT !.reads = x].after = c.after
                       /\ [c EXCEPT !.reads = x].reads = x
  BY DEF Calls
<1>3. \A c \in Calls : /\ [c EXCEPT !.pos = x].id = c.id /\ [c EXCEPT !.pos = x].prog = c.prog
                       /\ [c EXCEPT !.pos = x].reads = c.reads /\ [c EXCEPT !.pos = x].after = c.after
                       /\ [c EXCEPT !.pos = x].pos = x
  BY DEF Calls
<1>. QED BY <1>1, <1>2, <1>3
-----------------------------------------------------------------------------
OwnInv(t) == RunInv(t) /\ WriteInv(t) /\ SeqInv(t) /\ MediumInv(t) /\ rClock[t] <= gClock /\ p_seq[t] <= gClock

(* Steps of t that leave the locks, words and lines alone; the places it   *)
(* may go to without a change of what OwnInv says.                         *)
SameMemory == lock' = lock /\ mem' = mem /\ region' = region /\ pm' = pm /\ p_seq' = p_seq

(* Steps that leave numbers, locks and pending write-backs alone.          *)
LEMMA SeqQuiet ==
  ASSUME TypeOK, NEW t \in Thread, SeqInv(t), MediumInv(t), SameMemory, rClock'[t] = rClock[t],
         \A w \in pwb : w \in pwb', Ticked(t)' => Ticked(t), Unlocking(t)' => Unlocking(t),
         \A a \in Addr : Holds(t, a) => ~Ticked(t) \/ Ticked(t)',
         pc'[t] \in {"faa", "abortFaa"} => \A a \in Addr : Holds(t, a) => <<t, a>> \in pwb',
         pc'[t] \in {"sync", "abortSync"} => pc'[t] = pc[t]
  PROVE  SeqInv(t)' /\ MediumInv(t)'
<1>1. Medium(t)' = Medium(t) /\ \A a \in Addr : PersistLine(a)' = PersistLine(a) /\ (Holds(t, a)' <=> Holds(t, a))
  BY DEF SameMemory, Medium, PersistLine, Holds, Owner
<1>2. MediumInv(t)'
  BY <1>1 DEF MediumInv, SameMemory
<1>3. SeqInv(t)'
  <2>1. Ticked(t)' => rClock'[t] = p_seq'[t]
    BY DEF SeqInv, SameMemory
  <2>2. Unlocking(t)' => Medium(t)' = p_seq'[t]
    BY <1>1 DEF SeqInv, SameMemory
  <2>3. ASSUME NEW a \in Addr, Holds(t, a)
        PROVE  /\ ~Ticked(t)' => lock'[LockOf(a)].seq = p_seq'[t] /\ Medium(t)' = p_seq'[t]
               /\ Ticked(t)' => lock'[LockOf(a)].seq < p_seq'[t]
               /\ Ticked(t)' /\ Medium(t)' # p_seq'[t] => lock'[LockOf(a)].seq = Medium(t)'
               /\ pc'[t] \in {"faa", "abortFaa"} => <<t, a>> \in pwb'
               /\ pc'[t] \in {"sync", "abortSync"} /\ Medium(t)' # p_seq'[t] => pm'[a] = PersistLine(a)'
    BY <1>1, <2>3 DEF SeqInv, SameMemory
  <2>. QED BY <1>1, <2>1, <2>2, <2>3 DEF SeqInv
<1>. QED BY <1>2, <1>3

LEMMA SameOps ==
  ASSUME NEW t \in Thread, call'[t].prog = call[t].prog, call'[t].pos = call[t].pos, pc'[t] = pc[t]
  PROVE  /\ (AtOp(t, "load")' <=> AtOp(t, "load")) /\ (AtOp(t, "store")' <=> AtOp(t, "store"))
         /\ Word(t)' = Word(t) /\ Op(t)' = Op(t)
  BY DEF AtOp, AtEnd, Op, Word

LEMMA OwnLoads ==
  ASSUME TypeOK, TypeOK', Durability, NEW t \in Thread, OwnInv(t), LoadWord(t) \/ CheckLoad(t)
  PROVE  OwnInv(t)'
<1>. USE DEF OwnInv
<1>1. CASE LoadWord(t)
  <2>1. /\ AtOp(t, "load") /\ pc[t] = "run" /\ pc' = pc /\ k'[t] = 2
        /\ call'[t].id = call[t].id /\ call'[t].prog = call[t].prog /\ call'[t].pos = call[t].pos
    <3>1. AtOp(t, "load") /\ k[t] = 1 /\ call' = [call EXCEPT ![t].reads = Reading(t, Word(t), mem[Word(t)])]
      BY <1>1, LoadFacts
    <3>2. pc[t] = "run" /\ pc' = pc /\ k'[t] = 2
      BY <1>1, <3>1 DEF LoadWord, Advance, AtOp, TypeOK
    <3>. QED BY <3>1, <3>2, CallFields
  <2>2. /\ SameMemory /\ pwb' = pwb /\ rClock' = rClock /\ gClock' = gClock /\ writeSet' = writeSet
    BY <1>1 DEF LoadWord, regionVars, SameMemory
  <2>3. (AtOp(t, "load")' <=> AtOp(t, "load")) /\ (AtOp(t, "store")' <=> AtOp(t, "store")) /\ Word(t)' = Word(t)
    BY <2>1, SameOps
  <2>4. ~AtOp(t, "store")
    BY <2>1 DEF AtOp
  <2>5. RunInv(t)'
    BY <2>1, <2>2, <2>3, <2>4 DEF RunInv
  <2>6. WriteInv(t)'
    BY <2>1, <2>2, <2>3 DEF WriteInv, SameMemory, Active, Unlocking, Placed, Clean, InStore, Holds, Owner, Id, Written
  <2>7. SeqInv(t)' /\ MediumInv(t)'
    <3>1. Ticked(t)' = Ticked(t) /\ Unlocking(t)' = Unlocking(t) /\ ~Ticked(t)
      BY <2>1 DEF Ticked, Unlocking
    <3>. QED BY <2>1, <2>2, <3>1, SeqQuiet
  <2>. QED BY <2>2, <2>5, <2>6, <2>7 DEF SameMemory
<1>2. CASE CheckLoad(t)
  <2>1. /\ AtOp(t, "load") /\ pc[t] = "run" /\ k'[t] = 1 /\ pc'[t] \in {"run", "abort"}
        /\ call'[t].id = call[t].id /\ call'[t].prog = call[t].prog
    <3>1. /\ AtOp(t, "load")
          /\ \/ Goto(t, "run") /\ call' = [call EXCEPT ![t].pos = @ + 1]
             \/ Goto(t, "abort") /\ UNCHANGED call
      BY <1>2, CheckFacts
    <3>2. pc[t] = "run" /\ k'[t] = 1 /\ pc'[t] \in {"run", "abort"}
      BY <3>1 DEF AtOp, Goto, TypeOK
    <3>3. call' = call \/ call' = [call EXCEPT ![t].pos = @ + 1]
      BY <3>1
    <3>4. call'[t].id = call[t].id /\ call'[t].prog = call[t].prog
      <4>1. CASE call' = call
        BY <4>1
      <4>2. CASE call' = [call EXCEPT ![t].pos = @ + 1]
        BY <4>2, CallFields
      <4>. QED BY <3>3, <4>1, <4>2
    <3>. QED BY <3>1, <3>2, <3>4
  <2>2. /\ SameMemory /\ pwb' = pwb /\ rClock' = rClock /\ gClock' = gClock /\ writeSet' = writeSet
    BY <1>2 DEF CheckLoad, regionVars, SameMemory
  <2>3. \A a \in Addr : ~InStore(t, a)
    BY <2>1 DEF AtOp, InStore
  <2>5. RunInv(t)'
    BY <2>1, <2>2 DEF RunInv
  <2>6. WriteInv(t)'
    <3>1. ~(\E j \in DOMAIN writeSet'[t] : j < k'[t])
      BY <2>1, <2>2 DEF TypeOK
    <3>. QED BY <2>1, <2>2, <2>3, <3>1
          DEF WriteInv, SameMemory, Active, Unlocking, Placed, Clean, Holds, Owner, Id, Written
  <2>7. SeqInv(t)' /\ MediumInv(t)'
    <3>1. ~Ticked(t)' /\ ~Ticked(t) /\ ~Unlocking(t)' /\ pc'[t] \notin {"faa", "abortFaa", "sync", "abortSync"}
      BY <2>1 DEF Ticked, Unlocking
    <3>. QED BY <2>2, <3>1, SeqQuiet
  <2>. QED BY <2>2, <2>5, <2>6, <2>7 DEF SameMemory
<1>. QED BY <1>1, <1>2

LEMMA OwnEnds ==
  ASSUME TypeOK, TypeOK', Durability, NEW t \in Thread, OwnInv(t), Local(t),
         EndReadOnly(t) \/ EndTx(t) \/ Validate(t) \/ Return(t) \/ Retry(t) \/ FailLockTL2(t)
  PROVE  OwnInv(t)'
<1>. USE DEF OwnInv
<1>1. /\ SameMemory /\ pwb' = pwb /\ rClock' = rClock /\ gClock' = gClock /\ writeSet' = writeSet
      /\ call'[t].id = call[t].id
  BY DEF EndReadOnly, EndTx, Validate, Return, Retry, FailLockTL2, FailLock, regionVars, txVars, SameMemory
<1>2. /\ pc[t] = "run" => pc'[t] \in {"idle", "validate", "abort"}
      /\ pc[t] = "run" /\ pc'[t] = "validate" => AtEnd(t)
      /\ pc[t] = "validate" => pc'[t] \in {"validate", "commit", "abort"}
      /\ pc[t] \in {"unlock", "unlockAborted"} => pc'[t] \in {"idle", "begin"}
      /\ pc[t] \in {"run", "validate", "unlock", "unlockAborted"}
      /\ pc'[t] = "abort" => k'[t] = 1
  BY DEF EndReadOnly, EndTx, Finished, Validate, Return, Retry, FailLockTL2, FailLock, AtOp, Goto, Advance, TypeOK
<1>3. \A a \in Addr : pc'[t] \in {"idle", "begin"} => ~Holds(t, a)
  BY <1>1, LockOfWord DEF Local, Holds, Owner, SameMemory
<1>4. RunInv(t)'
  BY <1>2 DEF RunInv
<1>5. WriteInv(t)'
  <2>1. pc'[t] = "abort" => ~(\E j \in DOMAIN writeSet'[t] : j < k'[t])
    BY <1>1, <1>2 DEF TypeOK
  <2>2. pc[t] = "run" /\ pc'[t] = "validate" => \A a \in Addr : ~InStore(t, a)
    BY <1>2 DEF InStore, AtOp
  <2>. QED BY <1>1, <1>2, <1>3, <2>1, <2>2
        DEF WriteInv, SameMemory, Active, Unlocking, Placed, Clean, Holds, Owner, Id, Written
<1>6. SeqInv(t)' /\ MediumInv(t)'
  <2>1. /\ ~Ticked(t)' /\ ~Unlocking(t)' /\ pc'[t] \notin {"faa", "abortFaa", "sync", "abortSync"}
        /\ \A a \in Addr : Holds(t, a) => ~Ticked(t)
    BY <1>2, <1>3 DEF Ticked, Unlocking
  <2>. QED BY <1>1, <2>1, SeqQuiet
<1>. QED BY <1>1, <1>4, <1>5, <1>6 DEF SameMemory

LEMMA OwnUnlock ==
  ASSUME TypeOK, TypeOK', Durability, NEW t \in Thread, OwnInv(t), Local(t), Unlock(t)
  PROVE  OwnInv(t)'
<1>. USE DEF OwnInv
<1>1. /\ Unlocking(t) /\ pc' = pc /\ mem' = mem /\ region' = region /\ pm' = pm /\ p_seq' = p_seq /\ pwb' = pwb
      /\ rClock' = rClock /\ gClock' = gClock /\ writeSet' = writeSet /\ call' = call
  BY DEF Unlock, Unlocking, regionVars, txVars
<1>2. \A a \in Addr : Holds(t, a)' => Holds(t, a) /\ lock'[LockOf(a)] = lock[LockOf(a)]
  BY <1>1, LockOfWord, Lines DEF Local, Taken, Unlocked, Free, Holds, Owner, Unlocking
<1>3. RunInv(t)' /\ MediumInv(t)'
  BY <1>1 DEF RunInv, MediumInv, Medium, Unlocking
<1>4. WriteInv(t)'
  BY <1>1, <1>2 DEF WriteInv, Active, Unlocking, Placed, Clean
<1>5. SeqInv(t)'
  BY <1>1, <1>2 DEF SeqInv, Ticked, Unlocking, Medium
<1>. QED BY <1>1, <1>3, <1>4, <1>5

LEMMA OwnBegins ==
  ASSUME TypeOK, TypeOK', Durability, NEW t \in Thread, OwnInv(t), Local(t), CallTL2(t) \/ BeginTL2(t)
  PROVE  OwnInv(t)'
<1>. USE DEF OwnInv
<1>1. /\ lock' = lock /\ pm' = pm /\ gClock' = gClock /\ ~Active(t) /\ phase = "up" /\ \A w \in pwb : w \in pwb'
      /\ pc'[t] \in {"begin", "run"} /\ (pc'[t] = "run" => k'[t] = 1 /\ writeSet'[t] = <<>>)
  BY DEF Local, CallTL2, Call, BeginTL2, BeginTx, Goto, Active, TypeOK
<1>2. \A a \in Addr : ~Holds(t, a)' /\ ~Holds(t, a)
  BY <1>1, UpFacts, LockOfWord DEF Holds, Owner
<1>3. /\ rClock'[t] = rClock[t] \/ rClock'[t] = gClock
      /\ \/ p_seq'[t] = p_seq[t]
         \/ p_seq'[t] = gClock /\ <<t, PseqLine(t)>> \in pwb'
  BY DEF CallTL2, Call, BeginTL2, BeginTx, regionVars, TypeOK
<1>4. Medium(t)' = Medium(t) /\ Medium(t) \in Nat /\ p_seq[t] \in Nat /\ gClock \in Nat
  BY <1>1, Types DEF Medium
<1>5. MediumInv(t)'
  BY <1>1, <1>3, <1>4 DEF MediumInv
<1>6. RunInv(t)'
  BY <1>1 DEF RunInv
<1>7. WriteInv(t)'
  <2>1. pc'[t] = "run" => Written(t)' = {}
    BY <1>1 DEF Written
  <2>. QED BY <1>1, <1>2, <2>1 DEF WriteInv, Active
<1>8. SeqInv(t)'
  BY <1>1, <1>2 DEF SeqInv, Ticked, Unlocking
<1>. QED BY <1>1, <1>3, <1>4, <1>5, <1>6, <1>7, <1>8

(* A lock that t takes: the word is as recovery would leave it.            *)
LEMMA OwnTake ==
  ASSUME TypeOK, TypeOK', Durability, OneLockPerWord, NEW t \in Thread, OwnInv(t), Local(t), TakeLockTL2(t)
  PROVE  OwnInv(t)'
<1>. USE DEF OwnInv
<1>1. /\ AtOp(t, "store") /\ Word(t) \in Addr /\ k[t] = 1 /\ LockOf(Word(t)) \in Lock
      /\ lock' = IF Holds(t, Word(t)) THEN lock
                 ELSE [lock EXCEPT ![LockOf(Word(t))] = [owner |-> t, seq |-> p_seq[t]]]
      /\ writeSet' = IF Holds(t, Word(t)) THEN writeSet ELSE [writeSet EXCEPT ![t] = Append(@, {Word(t)})]
  BY TakeFacts
<1>2. /\ mem' = mem /\ region' = region /\ pm' = pm /\ p_seq' = p_seq /\ pwb' = pwb /\ Fenced(t) /\ pc' = pc
      /\ rClock' = rClock /\ gClock' = gClock /\ call' = call /\ pc[t] = "run" /\ k'[t] = 2
  BY <1>1 DEF TakeLockTL2, TakeLock, regionVars, Advance, AtOp, TypeOK
<1>3. /\ (AtOp(t, "store")' <=> AtOp(t, "store")) /\ Word(t)' = Word(t)
  BY <1>2, SameOps
<1>4. \A a \in Addr : /\ Holds(t, a)' <=> Holds(t, a) \/ a = Word(t)
                      /\ Holds(t, a) => lock'[LockOf(a)] = lock[LockOf(a)]
                      /\ Holds(t, a)' /\ ~Holds(t, a) => lock'[LockOf(a)].seq = p_seq[t]
  <2>1. \A l \in Lock : lock'[l] = IF l = LockOf(Word(t)) /\ ~Holds(t, Word(t))
                                   THEN [owner |-> t, seq |-> p_seq[t]] ELSE lock[l]
    BY <1>1 DEF TypeOK
  <2>2. \A a \in Addr : LockOf(a) = LockOf(Word(t)) <=> a = Word(t)
    BY <1>1 DEF OneLockPerWord
  <2>. QED BY <2>1, <2>2, LockOfWord DEF Holds, Owner
<1>5. Written(t)' = Written(t) \cup {Word(t)}
  <2>1. CASE Holds(t, Word(t))
    <3>1. Word(t) \in Written(t)
      BY <1>1, <1>2, <2>1 DEF WriteInv, Active, Unlocking
    <3>. QED BY <1>1, <2>1, <3>1 DEF Written
  <2>2. CASE ~Holds(t, Word(t))
    <3>. DEFINE s == writeSet[t]  w == {Word(t)}
    <3>1. writeSet'[t] = Append(s, w) /\ s \in Seq(Words)
      BY <1>1, <2>2 DEF TypeOK
    <3>. HIDE DEF s, w
    <3>2. DOMAIN Append(s, w) = DOMAIN s \cup {Len(s) + 1} /\ Append(s, w)[Len(s) + 1] = w
          /\ \A i \in DOMAIN s : Append(s, w)[i] = s[i]
      BY <3>1
    <3>3. UNION {Append(s, w)[i] : i \in DOMAIN Append(s, w)} = (UNION {s[i] : i \in DOMAIN s}) \cup w
      BY <3>2
    <3>. QED BY <3>1, <3>3 DEF Written, s, w
  <2>. QED BY <2>1, <2>2
<1>6. RunInv(t)'
  <2>1. IsUpdate(call[t].prog)
    BY <1>1, OpFacts DEF IsUpdate
  <2>. QED BY <1>1, <1>2, <1>3, <1>4, <2>1 DEF RunInv
<1>7. WriteInv(t)'
  <2>1. \A a \in Addr : Holds(t, a)' <=> a \in Written(t)'
    BY <1>2, <1>4, <1>5 DEF WriteInv, Active, Unlocking
  <2>2. \A a \in Addr : Holds(t, a)' /\ ~InStore(t, a)' => mem'[a] = Id(t)'
    BY <1>1, <1>2, <1>3, <1>4 DEF WriteInv, InStore, Id
  <2>. QED BY <1>2, <2>1, <2>2 DEF WriteInv, Placed, Clean
<1>8. Medium(t) = p_seq[t] /\ Medium(t)' = Medium(t)
  BY <1>2, Lines DEF MediumInv, Fenced, Medium
<1>9. SeqInv(t)'
  <2>1. ~Ticked(t) /\ ~Ticked(t)' /\ ~Unlocking(t)'
    BY <1>2 DEF Ticked, Unlocking
  <2>. QED BY <1>2, <1>4, <1>8, <2>1 DEF SeqInv
<1>10. MediumInv(t)'
  BY <1>2, <1>8 DEF MediumInv
<1>. QED BY <1>2, <1>6, <1>7, <1>9, <1>10

LEMMA OwnStore ==
  ASSUME TypeOK, TypeOK', Durability, NEW t \in Thread, OwnInv(t), StoreWordTL2(t)
  PROVE  OwnInv(t)'
<1>. USE DEF OwnInv
<1>1. /\ AtOp(t, "store") /\ Word(t) \in Addr /\ k[t] = 2 /\ mem' = [mem EXCEPT ![Word(t)] = Id(t)]
      /\ Goto(t, "run") /\ call' = [call EXCEPT ![t].pos = @ + 1]
  BY StoreFacts
<1>2. /\ lock' = lock /\ region' = region /\ pm' = pm /\ p_seq' = p_seq /\ pwb' = pwb
      /\ rClock' = rClock /\ gClock' = gClock /\ writeSet' = writeSet
  BY DEF StoreWordTL2, StoreWord
<1>3. /\ pc[t] = "run" /\ pc'[t] = "run" /\ k'[t] = 1
      /\ \A a \in Addr : mem'[a] = IF a = Word(t) THEN Id(t) ELSE mem[a]
  BY <1>1 DEF Goto, AtOp, TypeOK
<1>4. call'[t].id = call[t].id /\ call'[t].prog = call[t].prog
  BY <1>1, CallFields
<1>5. RunInv(t)'
  BY <1>2, <1>3, <1>4 DEF RunInv
<1>6. WriteInv(t)'
  BY <1>1, <1>2, <1>3, <1>4 DEF WriteInv, Active, Unlocking, Placed, Clean, Holds, Owner, Id, InStore, Written
<1>7. SeqInv(t)'
  BY <1>2, <1>3 DEF SeqInv, Ticked, Unlocking, Holds, Owner, Medium
<1>8. MediumInv(t)'
  BY <1>2 DEF MediumInv, Medium
<1>. QED BY <1>2, <1>5, <1>6, <1>7, <1>8

(* A loop over the write-set: each of its words is flushed or undone.      *)
LEMMA OwnFlush ==
  ASSUME TypeOK, TypeOK', Durability, NEW t \in Thread, OwnInv(t), CommitFlush(t) \/ Abort(t) \/ AbortSync(t)
  PROVE  OwnInv(t)'
<1>. USE DEF OwnInv
<1>0. writeSet[t] \in Seq(Words) /\ k[t] \in Nat \ {0}
  BY DEF TypeOK
<1>1. CASE CommitFlush(t)
  <2>1. /\ SameMemory /\ rClock' = rClock /\ gClock' = gClock /\ writeSet' = writeSet /\ call' = call
        /\ pc[t] = "commit" /\ pc'[t] = "faa" /\ pwb' = pwb \cup {<<t, a>> : a \in Written(t)}
    BY <1>1 DEF CommitFlush, txVars, SameMemory, Goto, TypeOK
  <2>2. WriteInv(t)'
    BY <2>1 DEF WriteInv, SameMemory, Active, Unlocking, Placed, Clean, Holds, Owner, Id, Written
  <2>3. \A a \in Addr : Holds(t, a) => <<t, a>> \in pwb'
    BY <2>1 DEF WriteInv, Active, Unlocking
  <2>4. SeqInv(t)' /\ MediumInv(t)'
    <3>1. ~Ticked(t)' /\ ~Ticked(t) /\ ~Unlocking(t)' /\ pc'[t] \notin {"sync", "abortSync"}
      BY <2>1 DEF Ticked, Unlocking
    <3>2. rClock'[t] = rClock[t] /\ \A w \in pwb : w \in pwb'
      BY <2>1
    <3>. QED BY <2>1, <2>3, <3>1, <3>2, SeqQuiet
  <2>5. RunInv(t)'
    BY <2>1 DEF RunInv
  <2>. QED BY <2>1, <2>2, <2>4, <2>5 DEF SameMemory
<1>2. CASE Abort(t) /\ k[t] <= Len(writeSet[t])
  <2>. DEFINE b == Min(writeSet[t][k[t]])
  <2>1. /\ lock' = lock /\ region' = region /\ pm' = pm /\ p_seq' = p_seq /\ pwb' = pwb
        /\ rClock' = rClock /\ gClock' = gClock /\ writeSet' = writeSet /\ call' = call
        /\ pc[t] = "abort" /\ pc'[t] = "abort" /\ k'[t] = k[t] + 1
        /\ mem' = [mem EXCEPT ![b] = region[b]]
    BY <1>2 DEF Abort, txVars, Advance, TypeOK
  <2>2. k[t] \in DOMAIN writeSet[t] /\ b \in Addr /\ writeSet[t][k[t]] = {b}
    BY <1>0, <1>2, WrittenType
  <2>. HIDE DEF b
  <2>3. \A a \in Addr : mem'[a] = IF a = b THEN region[a] ELSE mem[a]
    BY <2>1 DEF TypeOK
  <2>4. WriteInv(t)'
    <3>1. \A a \in Addr : Holds(t, a)' <=> a \in Written(t)'
      BY <2>1 DEF WriteInv, Active, Unlocking, Holds, Owner, Written
    <3>2. ASSUME NEW a \in Addr, Holds(t, a), NEW j \in DOMAIN writeSet[t], j < k[t] + 1, a \in writeSet[t][j]
          PROVE  mem'[a] = region[a]
      <4>1. CASE j = k[t]
        BY <2>2, <2>3, <3>2, <4>1
      <4>2. CASE j # k[t]
        <5>1. j < k[t]
          BY <1>0, <3>2, <4>2
        <5>2. mem[a] = region[a]
          BY <2>1, <3>2, <5>1 DEF WriteInv
        <5>. QED BY <2>3, <5>2
      <4>. QED BY <4>1, <4>2
    <3>. QED BY <2>1, <3>1, <3>2 DEF WriteInv, Placed, Clean, Holds, Owner
  <2>5. SeqInv(t)'
    BY <2>1 DEF SeqInv, Ticked, Unlocking, Holds, Owner, Medium
  <2>6. MediumInv(t)' /\ RunInv(t)'
    BY <2>1 DEF MediumInv, Medium, RunInv
  <2>. QED BY <2>1, <2>4, <2>5, <2>6
<1>3. CASE Abort(t) /\ ~(k[t] <= Len(writeSet[t]))
  <2>1. /\ SameMemory /\ rClock' = rClock /\ gClock' = gClock /\ writeSet' = writeSet /\ call' = call
        /\ pc[t] = "abort" /\ pc'[t] = "abortFaa" /\ pwb' = pwb \cup {<<t, a>> : a \in Written(t)}
    BY <1>3 DEF Abort, txVars, SameMemory, Goto, TypeOK
  <2>2. \A a \in Addr : Holds(t, a) => mem[a] = region[a]
    <3>1. SUFFICES ASSUME NEW a \in Addr, Holds(t, a) PROVE mem[a] = region[a]
      OBVIOUS
    <3>2. PICK j \in DOMAIN writeSet[t] : a \in writeSet[t][j]
      BY <2>1, <3>1 DEF WriteInv, Active, Unlocking, Written
    <3>3. j < k[t]
      BY <1>0, <1>3
    <3>. QED BY <2>1, <3>1, <3>2, <3>3 DEF WriteInv
  <2>3. \A a \in Addr : Holds(t, a) => <<t, a>> \in pwb'
    BY <2>1 DEF WriteInv, Active, Unlocking
  <2>4. WriteInv(t)'
    BY <2>1, <2>2 DEF WriteInv, SameMemory, Active, Unlocking, Placed, Clean, Holds, Owner, Written
  <2>5. SeqInv(t)' /\ MediumInv(t)'
    <3>1. ~Ticked(t)' /\ ~Ticked(t) /\ ~Unlocking(t)' /\ pc'[t] \notin {"sync", "abortSync"}
      BY <2>1 DEF Ticked, Unlocking
    <3>2. rClock'[t] = rClock[t] /\ \A w \in pwb : w \in pwb'
      BY <2>1
    <3>. QED BY <2>1, <2>3, <3>1, <3>2, SeqQuiet
  <2>6. RunInv(t)'
    BY <2>1 DEF RunInv
  <2>. QED BY <2>1, <2>4, <2>5, <2>6 DEF SameMemory
<1>4. CASE AbortSync(t)
  <2>1. /\ SameMemory /\ rClock' = rClock /\ gClock' = gClock /\ writeSet' = writeSet /\ call' = call /\ pwb' = pwb
        /\ pc[t] = "abortSync" /\ pc'[t] = "unlockAborted" /\ Fenced(t)
    BY <1>4 DEF AbortSync, regionVars, txVars, SameMemory, Goto, TypeOK
  <2>2. Medium(t) = p_seq[t] /\ Medium(t)' = Medium(t)
    BY <2>1, Lines DEF MediumInv, Fenced, Medium, SameMemory
  <2>3. WriteInv(t)'
    BY <2>1 DEF WriteInv, SameMemory, Active, Unlocking, Placed, Clean, Holds, Owner
  <2>4. SeqInv(t)'
    BY <2>1, <2>2 DEF SeqInv, SameMemory, Ticked, Unlocking, Holds, Owner
  <2>5. MediumInv(t)' /\ RunInv(t)'
    BY <2>1, <2>2 DEF MediumInv, SameMemory, RunInv
  <2>. QED BY <2>1, <2>3, <2>4, <2>5 DEF SameMemory
<1>. QED BY <1>1, <1>2, <1>3, <1>4

(* The step of gClock that a commit and an abort make.                     *)
LEMMA OwnTick ==
  ASSUME TypeOK, TypeOK', Durability, NEW t \in Thread, OwnInv(t), CommitTick(t) \/ AbortTick(t)
  PROVE  OwnInv(t)'
<1>. USE DEF OwnInv
<1>1. /\ lock' = lock /\ mem' = mem /\ region' = region /\ pm' = pm /\ writeSet' = writeSet /\ call' = call
      /\ gClock' = gClock + 1 /\ rClock'[t] = gClock + 1 /\ p_seq'[t] = gClock + 1
      /\ pwb' = pwb \cup {<<t, PseqLine(t)>>} /\ Fenced(t)
  BY DEF CommitTick, AbortTick, TickTL2, TypeOK
<1>2. /\ pc[t] = "faa" => pc'[t] = "sync"
      /\ pc[t] = "abortFaa" => pc'[t] = "abortSync"
      /\ pc[t] \in {"faa", "abortFaa"}
  BY DEF CommitTick, AbortTick, Goto, TypeOK
<1>3. /\ Medium(t)' = Medium(t) /\ Medium(t) \in Nat /\ p_seq[t] \in Nat /\ gClock \in Nat
      /\ \A a \in Addr : PersistLine(a)' = PersistLine(a) /\ (Holds(t, a)' <=> Holds(t, a)) /\ lock[LockOf(a)].seq \in Nat
  BY <1>1, Types DEF Medium, PersistLine, Holds, Owner
<1>4. \A a \in Addr : Holds(t, a) => pm[a] = PersistLine(a)
  BY <1>1, <1>2, Lines DEF SeqInv, Fenced
<1>5. RunInv(t)'
  BY <1>2 DEF RunInv
<1>6. WriteInv(t)'
  BY <1>1, <1>2, <1>3 DEF WriteInv, Active, Unlocking, Placed, Clean, Id, Written
<1>7. MediumInv(t)'
  BY <1>1, <1>3 DEF MediumInv
<1>8. SeqInv(t)'
  <2>1. ~Ticked(t) /\ Ticked(t)' /\ ~Unlocking(t)'
    BY <1>2 DEF Ticked, Unlocking
  <2>2. \A a \in Addr : Holds(t, a) => /\ lock[LockOf(a)].seq = p_seq[t] /\ Medium(t) = p_seq[t]
                                       /\ lock[LockOf(a)].seq < gClock + 1
    <3>1. \A a \in Addr : Holds(t, a) => lock[LockOf(a)].seq = p_seq[t] /\ Medium(t) = p_seq[t]
      BY <2>1 DEF SeqInv
    <3>2. p_seq[t] < gClock + 1
      BY <1>3
    <3>. QED BY <3>1, <3>2
  <2>. QED BY <1>1, <1>2, <1>3, <1>4, <2>1, <2>2 DEF SeqInv
<1>. QED BY <1>1, <1>3, <1>5, <1>6, <1>7, <1>8

(* The fence after which the p_seq of t is certainly in the medium.        *)
LEMMA OwnSync ==
  ASSUME TypeOK, TypeOK', Durability, NEW t \in Thread, OwnInv(t), CommitSync(t)
  PROVE  OwnInv(t)'
<1>. USE DEF OwnInv
<1>1. /\ lock' = lock /\ mem' = mem /\ pm' = pm /\ p_seq' = p_seq /\ writeSet' = writeSet /\ call' = call
      /\ gClock' = gClock /\ rClock' = rClock /\ pwb' = pwb /\ Fenced(t)
      /\ pc[t] = "sync" /\ pc'[t] = "unlock"
      /\ \A a \in Addr : region'[a] = IF a \in Written(t) THEN mem[a] ELSE region[a]
  BY DEF CommitSync, txVars, Goto, TypeOK
<1>2. Medium(t) = p_seq[t] /\ Medium(t)' = Medium(t)
  BY <1>1, Lines DEF MediumInv, Fenced, Medium
<1>3. \A a \in Addr : Holds(t, a)' => Holds(t, a) /\ a \in Written(t)
  BY <1>1 DEF WriteInv, Active, Unlocking, Holds, Owner
<1>4. WriteInv(t)'
  BY <1>1, <1>3 DEF WriteInv, Active, Unlocking, Placed, Clean
<1>5. SeqInv(t)'
  BY <1>1, <1>2, <1>3 DEF SeqInv, Ticked, Unlocking
<1>6. MediumInv(t)' /\ RunInv(t)'
  BY <1>1, <1>2 DEF MediumInv, RunInv
<1>. QED BY <1>1, <1>4, <1>5, <1>6

(* A step of t keeps what Durability says of t.                            *)
LEMMA OwnStep ==
  ASSUME TypeOK, TypeOK', Durability, OneLockPerWord, NEW t \in Thread, TxStep(t)
  PROVE  OwnInv(t)'
<1>1. Local(t) /\ phase = "up"
  BY LocalStep DEF Local
<1>2. OwnInv(t)
  BY <1>1, UpFacts DEF OwnInv
<1>. QED BY <1>1, <1>2, OwnLoads, OwnEnds, OwnUnlock, OwnBegins, OwnTake, OwnStore, OwnFlush, OwnTick, OwnSync
     DEF TxStep, Concurrency
-----------------------------------------------------------------------------
(* Write-backs, power failures and recovery.                               *)
LEMMA CacheLine ==
  ASSUME TypeOK, Durability, NEW a \in Addr
  PROVE  LineInv(PersistLine(a))
<1>1. CASE phase = "recover"
  BY <1>1 DEF Durability, RecoverInv
<1>2. CASE phase = "up"
  <2>1. PersistLine(a).lseq = lock[LockOf(a)] /\ PersistLine(a).main = mem[a] /\ PersistLine(a).back = region[a]
    BY DEF PersistLine
  <2>2. CASE Owner(a) = NoTid
    BY <1>2, <2>1, <2>2 DEF Durability, UpInv, FreeInv, LineInv, Owner
  <2>3. CASE Owner(a) # NoTid
    <3>1. PICK t \in Thread : Holds(t, a)
      BY <2>3, Types DEF Holds
    <3>2. SeqInv(t) /\ Medium(t) \in Nat /\ p_seq[t] \in Nat /\ lock[LockOf(a)].seq \in Nat
      BY <1>2, UpFacts, Types
    <3>3. lock[LockOf(a)].seq <= Medium(t)
      <4>1. CASE ~Ticked(t)
        <5>1. lock[LockOf(a)].seq = p_seq[t] /\ Medium(t) = p_seq[t]
          BY <3>1, <3>2, <4>1 DEF SeqInv
        <5>. QED BY <3>2, <5>1
      <4>2. CASE Ticked(t) /\ Medium(t) # p_seq[t]
        <5>1. lock[LockOf(a)].seq = Medium(t)
          BY <3>1, <3>2, <4>2 DEF SeqInv
        <5>. QED BY <3>2, <5>1
      <4>3. CASE Ticked(t) /\ Medium(t) = p_seq[t]
        <5>1. lock[LockOf(a)].seq < p_seq[t]
          BY <3>1, <3>2, <4>3 DEF SeqInv
        <5>. QED BY <3>2, <4>3, <5>1
      <4>. QED BY <4>1, <4>2, <4>3
    <3>. QED BY <2>1, <2>3, <3>1, <3>3 DEF LineInv, Holds, Owner
  <2>. QED BY <2>2, <2>3
<1>. QED BY <1>1, <1>2 DEF TypeOK

(* The line of a word is written back at a moment nobody chose.            *)
LEMMA EvictWord ==
  ASSUME TypeOK, TypeOK', Durability, NEW b \in Addr, EvictTL2,
         pm' = [pm EXCEPT ![b] = PersistLine(b)], pwb' = {w \in pwb : w[2] # b}
  PROVE  Durability'
<1>1. /\ phase' = phase /\ gClock' = gClock /\ lock' = lock /\ mem' = mem /\ region' = region /\ p_seq' = p_seq
      /\ pc' = pc /\ rClock' = rClock /\ call' = call /\ readSet' = readSet /\ writeSet' = writeSet /\ k' = k
  BY DEF EvictTL2, txVars
<1>2. \A a \in Addr : pm'[a] = IF a = b THEN PersistLine(a) ELSE pm[a]
  BY Lines DEF TypeOK
<1>3. \A t \in Thread : Medium(t)' = Medium(t) /\ (<<t, PseqLine(t)>> \in pwb => <<t, PseqLine(t)>> \in pwb')
  <2>1. ASSUME NEW t \in Thread
        PROVE  Medium(t)' = Medium(t) /\ (<<t, PseqLine(t)>> \in pwb => <<t, PseqLine(t)>> \in pwb')
    <3>1. PseqLine(t) # b /\ PseqLine(t) \in Line
      BY Lines
    <3>2. pm'[PseqLine(t)] = pm[PseqLine(t)]
      BY <3>1 DEF TypeOK
    <3>3. <<t, PseqLine(t)>> \in pwb => <<t, PseqLine(t)>> \in pwb'
      BY <3>1
    <3>. QED BY <3>2, <3>3 DEF Medium
  <2>. QED BY <2>1
<1>4. \A a \in Addr : PersistLine(a)' = PersistLine(a)
  BY <1>1 DEF PersistLine
<1>5. \A a \in Addr : LineInv(pm[a])'
  <2>1. ASSUME NEW a \in Addr PROVE LineInv(pm[a])'
    <3>1. LineInv(pm'[a]) /\ pm'[a].lseq.owner \in Thread \cup {NoTid}
      BY <1>2, CacheLine, Types, PersistLineType DEF Durability, PersistWord, LockWord
    <3>. QED BY <1>3, <3>1 DEF LineInv, Past
  <2>. QED BY <2>1
<1>6. \A t \in Thread : MediumInv(t)'
  BY <1>1, <1>3 DEF Durability, MediumInv
<1>7. CASE phase = "up"
  <2>1. \A l \in Lock : LockInv(l)'
    BY <1>1, <1>7 DEF Durability, UpInv, LockInv, Active
  <2>2. ASSUME NEW t \in Thread PROVE rClock'[t] <= gClock' /\ p_seq'[t] <= gClock' /\ RunInv(t)' /\ WriteInv(t)'
    <3>1. rClock[t] <= gClock /\ p_seq[t] <= gClock /\ RunInv(t) /\ WriteInv(t)
      BY <1>7, UpFacts
    <3>. QED BY <1>1, <3>1 DEF RunInv, WriteInv, AtOp, AtEnd, Op, Word, InStore, Holds, Owner, Active, Unlocking,
                               Placed, Clean, Id, Written
  <2>3. ASSUME NEW t \in Thread PROVE SeqInv(t)'
    <3>1. SeqInv(t)
      BY <1>7, UpFacts
    <3>2. \A a \in Addr : /\ Holds(t, a)' <=> Holds(t, a)
                          /\ pm[a] = PersistLine(a) => pm'[a] = PersistLine(a)'
                          /\ <<t, a>> \in pwb => pm'[a] = PersistLine(a)' \/ <<t, a>> \in pwb'
      BY <1>1, <1>2, <1>4 DEF Holds, Owner
    <3>. QED BY <1>1, <1>3, <3>1, <3>2 DEF SeqInv, Ticked, Unlocking
  <2>4. ASSUME NEW a \in Addr PROVE FreeInv(a)'
    BY <1>1, <1>3, <1>7 DEF Durability, UpInv, FreeInv, Owner, Past
  <2>5. ASSUME NEW a \in Addr PROVE LockedInv(a)'
    <3>1. CASE a = b
      BY <1>1, <1>2, <3>1 DEF LockedInv, PersistLine
    <3>2. CASE a # b
      <4>1. pm'[a] = pm[a] /\ pm[a].lseq.owner \in Thread \cup {NoTid}
        BY <1>2, <3>2, Types
      <4>2. Locked(pm[a])' => Locked(pm[a])
        BY <1>3, <4>1 DEF Locked
      <4>. QED BY <1>1, <1>7, <4>1, <4>2 DEF Durability, UpInv, LockedInv
    <3>. QED BY <3>1, <3>2
  <2>6. UpInv'
    BY <2>1, <2>2, <2>3, <2>4, <2>5 DEF UpInv
  <2>. QED BY <1>1, <1>5, <1>6, <1>7, <2>6 DEF Durability
<1>8. CASE phase = "recover"
  <2>1. RecoverInv
    BY <1>8 DEF Durability
  <2>2. \A t \in Thread : pc'[t] = "idle" /\ rClock'[t] = 0 /\ Medium(t)' = p_seq'[t]
    BY <1>1, <1>3, <2>1 DEF RecoverInv
  <2>3. ASSUME NEW a \in Addr PROVE LineInv(PersistLine(a))'
    <3>1. LineInv(PersistLine(a)) /\ PersistLine(a).lseq.owner \in Thread \cup {NoTid}
      BY <2>1, PersistLineType DEF RecoverInv, PersistWord, LockWord
    <3>. QED BY <1>3, <1>4, <3>1 DEF LineInv, Past
  <2>4. \A a \in Addr : pm'[a] = PersistLine(a)' \/ \E w \in pwb' : w[2] = a
    BY <1>2, <1>4, <2>1 DEF RecoverInv
  <2>5. RecoverInv'
    BY <2>2, <2>3, <2>4 DEF RecoverInv
  <2>. QED BY <1>1, <1>5, <1>6, <1>8, <2>5 DEF Durability
<1>. QED BY <1>7, <1>8 DEF TypeOK

(* The same for the p_seq of a thread, which may commit it.                *)
LEMMA EvictPseq ==
  ASSUME TypeOK, TypeOK', Durability, NEW u \in Thread, EvictTL2,
         pm' = [pm EXCEPT ![PseqLine(u)] = p_seq[u]], pwb' = {w \in pwb : w[2] # PseqLine(u)}
  PROVE  Durability'
<1>1. /\ phase' = phase /\ gClock' = gClock /\ lock' = lock /\ mem' = mem /\ region' = region /\ p_seq' = p_seq
      /\ pc' = pc /\ rClock' = rClock /\ call' = call /\ readSet' = readSet /\ writeSet' = writeSet /\ k' = k
  BY DEF EvictTL2, txVars
<1>2. \A a \in Addr : pm'[a] = pm[a]
  BY Lines DEF TypeOK
<1>3. \A t \in Thread : /\ Medium(t)' = (IF t = u THEN p_seq[t] ELSE Medium(t))
                        /\ t # u /\ <<t, PseqLine(t)>> \in pwb => <<t, PseqLine(t)>> \in pwb'
  BY Lines DEF TypeOK, Medium
<1>4. \A t \in Thread : /\ Medium(t) <= Medium(t)' /\ Medium(t)' <= p_seq[t]
                        /\ Medium(t) \in Nat /\ Medium(t)' \in Nat /\ p_seq[t] \in Nat
                        /\ Medium(t) = p_seq[t] => Medium(t)' = p_seq[t]
  <2>1. ASSUME NEW t \in Thread
        PROVE  Medium(t) \in Nat /\ p_seq[t] \in Nat /\ Medium(t) <= p_seq[t]
    BY Types DEF Durability, MediumInv
  <2>2. ASSUME NEW t \in Thread
        PROVE  Medium(t)' = p_seq[t] \/ Medium(t)' = Medium(t)
    BY <1>3
  <2>3. ASSUME NEW t \in Thread
        PROVE  /\ Medium(t) <= Medium(t)' /\ Medium(t)' <= p_seq[t]
               /\ Medium(t) \in Nat /\ Medium(t)' \in Nat /\ p_seq[t] \in Nat
               /\ Medium(t) = p_seq[t] => Medium(t)' = p_seq[t]
    BY <2>1, <2>2
  <2>. QED BY <2>3
<1>5. \A a \in Addr : PersistLine(a)' = PersistLine(a)
  BY <1>1 DEF PersistLine
<1>6. \A s \in Nat : Past(s) => Past(s)'
  <2>1. ASSUME NEW s \in Nat, NEW t \in Thread, s <= Medium(t) PROVE s <= Medium(t)'
    BY <1>4, <2>1
  <2>. QED BY <2>1 DEF Past
<1>7. ASSUME NEW line \in PersistWord, LineInv(line) PROVE LineInv(line)'
  <2>1. line.lseq.owner \in Thread \cup {NoTid} /\ line.lseq.seq \in Nat
    BY DEF PersistWord, LockWord
  <2>2. \A t \in Thread : line.lseq.seq <= Medium(t) => line.lseq.seq <= Medium(t)'
    BY <1>4, <2>1
  <2>. QED BY <1>6, <1>7, <2>1, <2>2 DEF LineInv
<1>8. \A a \in Addr : LineInv(pm[a])'
  BY <1>2, <1>7 DEF Durability, TypeOK
<1>9. \A t \in Thread : MediumInv(t)'
  BY <1>1, <1>3, <1>4 DEF Durability, MediumInv
<1>10. CASE phase = "up"
  <2>1. \A l \in Lock : LockInv(l)'
    BY <1>1, <1>10 DEF Durability, UpInv, LockInv, Active
  <2>2. ASSUME NEW t \in Thread PROVE rClock'[t] <= gClock' /\ p_seq'[t] <= gClock' /\ RunInv(t)' /\ WriteInv(t)'
    <3>1. rClock[t] <= gClock /\ p_seq[t] <= gClock /\ RunInv(t) /\ WriteInv(t)
      BY <1>10, UpFacts
    <3>. QED BY <1>1, <3>1 DEF RunInv, WriteInv, AtOp, AtEnd, Op, Word, InStore, Holds, Owner, Active, Unlocking,
                               Placed, Clean, Id, Written
  <2>3. ASSUME NEW t \in Thread PROVE SeqInv(t)'
    <3>1. SeqInv(t)
      BY <1>10, UpFacts
    <3>2. \A a \in Addr : /\ Holds(t, a)' <=> Holds(t, a)
                          /\ pm[a] = PersistLine(a) => pm'[a] = PersistLine(a)'
                          /\ <<t, a>> \in pwb => <<t, a>> \in pwb'
      BY <1>1, <1>2, <1>5, Lines DEF Holds, Owner
    <3>3. Medium(t)' = Medium(t) \/ Medium(t)' = p_seq[t]
      BY <1>3
    <3>. QED BY <1>1, <1>4, <3>1, <3>2, <3>3 DEF SeqInv, Ticked, Unlocking
  <2>4. ASSUME NEW a \in Addr PROVE FreeInv(a)'
    BY <1>1, <1>6, <1>10, Types DEF Durability, UpInv, FreeInv, Owner
  <2>5. ASSUME NEW a \in Addr PROVE LockedInv(a)'
    <3>1. pm'[a] = pm[a] /\ pm[a].lseq.owner \in Thread \cup {NoTid} /\ pm[a].lseq.seq \in Nat /\ LineInv(pm[a])
      BY <1>2, Types DEF Durability
    <3>2. Locked(pm[a])' => Locked(pm[a])
      <4>1. SUFFICES ASSUME Locked(pm[a])' PROVE Locked(pm[a])
        OBVIOUS
      <4>2. pm[a].lseq.owner \in Thread /\ pm[a].lseq.seq = Medium(pm[a].lseq.owner)'
        BY <3>1, <4>1 DEF Locked
      <4>3. pm[a].lseq.owner # NoTid /\ pm[a].lseq.seq <= Medium(pm[a].lseq.owner)
        BY <3>1, <4>2, Lines DEF LineInv
      <4>4. pm[a].lseq.seq = Medium(pm[a].lseq.owner)
        BY <1>4, <3>1, <4>2, <4>3
      <4>. QED BY <4>3, <4>4 DEF Locked
    <3>. QED BY <1>1, <1>10, <3>1, <3>2 DEF Durability, UpInv, LockedInv
  <2>6. UpInv'
    BY <2>1, <2>2, <2>3, <2>4, <2>5 DEF UpInv
  <2>. QED BY <1>1, <1>8, <1>9, <1>10, <2>6 DEF Durability
<1>11. CASE phase = "recover"
  <2>1. RecoverInv
    BY <1>11 DEF Durability
  <2>2. \A t \in Thread : pc'[t] = "idle" /\ rClock'[t] = 0 /\ Medium(t)' = p_seq'[t]
    BY <1>1, <1>4, <2>1 DEF RecoverInv
  <2>3. ASSUME NEW a \in Addr PROVE LineInv(PersistLine(a))'
    BY <1>5, <1>7, <2>1, PersistLineType DEF RecoverInv
  <2>4. \A a \in Addr : pm'[a] = PersistLine(a)' \/ \E w \in pwb' : w[2] = a
    BY <1>2, <1>5, <2>1, Lines DEF RecoverInv
  <2>5. RecoverInv'
    BY <2>2, <2>3, <2>4 DEF RecoverInv
  <2>. QED BY <1>1, <1>8, <1>9, <1>11, <2>5 DEF Durability
<1>. QED BY <1>10, <1>11 DEF TypeOK

(* The two kinds of lines that can be written back.                        *)
LEMMA EvictFacts ==
  ASSUME TypeOK, EvictTL2
  PROVE  \/ \E b \in Addr : /\ pm' = [pm EXCEPT ![b] = PersistLine(b)] /\ pwb' = {w \in pwb : w[2] # b}
                            /\ LogCommit(b)
         \/ \E u \in Thread : /\ pm' = [pm EXCEPT ![PseqLine(u)] = p_seq[u]]
                              /\ pwb' = {w \in pwb : w[2] # PseqLine(u)} /\ LogCommit(PseqLine(u))
<1>1. PICK l \in Line :
        /\ pm' = [pm EXCEPT ![l] = IF l \in Addr THEN PersistLine(l) ELSE p_seq[0 - l]]
        /\ pwb' = {w \in pwb : w[2] # l} /\ LogCommit(l)
  BY DEF EvictTL2
<1>2. CASE l \in Addr
  BY <1>1, <1>2
<1>3. CASE l \notin Addr
  <2>1. PICK u \in Thread : l = PseqLine(u)
    BY <1>3 DEF Line
  <2>. QED BY <1>1, <1>3, <2>1, PersistLineType
<1>. QED BY <1>2, <1>3

LEMMA EvictStep ==
  ASSUME TypeOK, TypeOK', Durability, EvictTL2
  PROVE  Durability'
  BY EvictFacts, EvictWord, EvictPseq

(* Power fails: a word is locked in the medium or it agrees there.         *)
LEMMA CrashStep ==
  ASSUME TypeOK, TypeOK', Durability, OneLockPerWord, CrashTL2
  PROVE  /\ Durability' /\ phase' = "recover" /\ \A a \in Addr : PersistLine(a)' = pm[a]
         /\ pm' = pm /\ \A t \in Thread : pc'[t] = "idle" /\ Medium(t)' = Medium(t)
<1>1. /\ phase' = "recover" /\ pm' = pm
      /\ \A t \in Thread : pc'[t] = "idle" /\ rClock'[t] = 0 /\ p_seq'[t] = Medium(t)
      /\ \A a \in Addr : mem'[a] = pm[a].main /\ region'[a] = pm[a].back
  BY DEF CrashTL2, CrashThreads, Medium
<1>2. \A t \in Thread : Medium(t)' = Medium(t)
  BY <1>1 DEF Medium
<1>3. ASSUME NEW a \in Addr PROVE lock'[LockOf(a)] = pm[a].lseq
  <2>1. (CHOOSE b \in Addr : LockOf(b) = LockOf(a)) = a
    BY DEF OneLockPerWord
  <2>2. lock'[LockOf(a)] = pm[CHOOSE b \in Addr : LockOf(b) = LockOf(a)].lseq
    BY LockOfWord DEF CrashTL2
  <2>. QED BY <2>1, <2>2
<1>4. \A l \in Lock : lock'[l] = Free(0) \/ \E a \in Addr : LockOf(a) = l
  BY DEF CrashTL2
<1>5. ASSUME NEW a \in Addr PROVE PersistLine(a)' = pm[a]
  <2>1. pm[a] = [main |-> pm[a].main, back |-> pm[a].back, lseq |-> pm[a].lseq]
    <3>1. pm[a] \in PersistWord
      BY DEF TypeOK
    <3>. QED BY <3>1 DEF PersistWord
  <2>. QED BY <1>1, <1>3, <2>1 DEF PersistLine
<1>6. ASSUME NEW a \in Addr PROVE LineInv(pm[a])'
  BY <1>1, <1>2, Types DEF Durability, LineInv, Past
<1>7. RecoverInv'
  <2>1. ASSUME NEW a \in Addr PROVE LineInv(PersistLine(a))'
    <3>1. PersistLine(a)' = pm'[a]
      BY <1>1, <1>5
    <3>. QED BY <1>6, <3>1 DEF LineInv
  <2>. QED BY <1>1, <1>2, <1>5, <2>1 DEF RecoverInv
<1>8. \A t \in Thread : MediumInv(t)'
  BY <1>1, <1>2, Types DEF MediumInv
<1>. QED BY <1>1, <1>2, <1>4, <1>5, <1>6, <1>7, <1>8 DEF Durability

LEMMA RecoverFacts ==
  ASSUME TypeOK, Durability, RecoverWord
  PROVE  \E a \in Addr, t \in Thread :
           /\ Holds(t, a) /\ lock' = [lock EXCEPT ![LockOf(a)] = Free(0)]
           /\ IF lock[LockOf(a)].seq = p_seq[t] THEN mem' = [mem EXCEPT ![a] = region[a]] /\ region' = region
                                                ELSE region' = [region EXCEPT ![a] = mem[a]] /\ mem' = mem
           /\ \A w \in pwb : w \in pwb'
           /\ \E w \in pwb' : w[2] = a
<1>. DEFINE a == Min(LockedWords)
<1>1. a \in Addr /\ Owner(a) # NoTid
  <2>1. LockedWords \subseteq Nat /\ LockedWords # {}
    BY Lines DEF RecoverWord, LockedWords
  <2>2. Min(LockedWords) \in LockedWords
    BY <2>1, MinIsIn
  <2>. QED BY <2>2 DEF LockedWords, Owner
<1>2. PICK t \in Thread : Owner(a) = t
  BY <1>1, Types
<1>3. /\ lock' = [lock EXCEPT ![LockOf(a)] = Free(0)] /\ pwb' = pwb \cup {<<Min(Thread), a>>}
      /\ IF lock[LockOf(a)].seq = p_seq[lock[LockOf(a)].owner]
         THEN mem' = [mem EXCEPT ![a] = region[a]] /\ region' = region
         ELSE region' = [region EXCEPT ![a] = mem[a]] /\ mem' = mem
  BY DEF RecoverWord
<1>4. \E w \in pwb' : w[2] = a
  <2>. DEFINE w == <<Min(Thread), a>>
  <2>1. w \in pwb' /\ w[2] = a
    BY <1>3
  <2>. HIDE DEF w
  <2>. QED BY <2>1
<1>. HIDE DEF a
<1>. QED BY <1>1, <1>2, <1>3, <1>4 DEF Holds, Owner

(* Recovery undoes a word, and may be cut short before or after.           *)
LEMMA RecoverStep ==
  ASSUME TypeOK, TypeOK', Durability, OneLockPerWord, RecoverWord
  PROVE  Durability'
<1>1. PICK a \in Addr, t \in Thread :
        /\ Holds(t, a) /\ lock' = [lock EXCEPT ![LockOf(a)] = Free(0)]
        /\ IF lock[LockOf(a)].seq = p_seq[t] THEN mem' = [mem EXCEPT ![a] = region[a]] /\ region' = region
                                             ELSE region' = [region EXCEPT ![a] = mem[a]] /\ mem' = mem
        /\ \A w \in pwb : w \in pwb'
        /\ \E w \in pwb' : w[2] = a
  BY RecoverFacts
<1>2. phase = "recover" /\ phase' = "recover" /\ p_seq' = p_seq /\ pm' = pm /\ pc' = pc /\ rClock' = rClock
  BY DEF RecoverWord, txVars
<1>3. RecoverInv
  BY <1>2 DEF Durability
<1>4. \A u \in Thread : Medium(u)' = Medium(u)
  BY <1>2 DEF Medium
<1>5. /\ mem'[a] = region'[a] /\ lock'[LockOf(a)] = Free(0)
      /\ \A b \in Addr : b # a => mem'[b] = mem[b] /\ region'[b] = region[b] /\ lock'[LockOf(b)] = lock[LockOf(b)]
  BY <1>1, LockOfWord DEF TypeOK, OneLockPerWord
<1>6. \A l \in Lock : lock'[l] = Free(0) \/ \E b \in Addr : LockOf(b) = l
  BY <1>1 DEF Durability, TypeOK
<1>7. ASSUME NEW b \in Addr PROVE LineInv(PersistLine(b))'
  <2>1. CASE b = a
    BY <1>5, <2>1 DEF PersistLine, LineInv, Free, Past
  <2>2. CASE b # a
    <3>1. PersistLine(b)' = PersistLine(b)
      BY <1>5, <2>2 DEF PersistLine
    <3>2. LineInv(PersistLine(b)) /\ PersistLine(b).lseq.owner \in Thread \cup {NoTid}
      BY <1>3, PersistLineType DEF RecoverInv, PersistWord, LockWord
    <3>. QED BY <1>4, <3>1, <3>2 DEF LineInv, Past
  <2>. QED BY <2>1, <2>2
<1>8. ASSUME NEW b \in Addr PROVE LineInv(pm[b])'
  BY <1>2, <1>4, Types DEF Durability, LineInv, Past
<1>9. ASSUME NEW b \in Addr PROVE pm'[b] = PersistLine(b)' \/ \E w \in pwb' : w[2] = b
  <2>1. CASE b = a
    BY <1>1, <2>1
  <2>2. CASE b # a
    <3>1. PersistLine(b)' = PersistLine(b)
      BY <1>5, <2>2 DEF PersistLine
    <3>. QED BY <1>1, <1>2, <1>3, <3>1 DEF RecoverInv
  <2>. QED BY <2>1, <2>2
<1>10. RecoverInv'
  BY <1>2, <1>3, <1>4, <1>7, <1>9 DEF RecoverInv
<1>11. \A u \in Thread : MediumInv(u)'
  BY <1>2, <1>3, <1>4, Types DEF MediumInv, RecoverInv
<1>. QED BY <1>2, <1>6, <1>8, <1>10, <1>11 DEF Durability

LEMMA RecoverDoneFacts ==
  ASSUME TypeOK, Durability, RecoverDoneTL2
  PROVE  /\ phase = "recover" /\ phase' = "up" /\ \A t \in Thread : p_seq[t] <= gClock'
         /\ \A a \in Addr : Owner(a) = NoTid /\ pm[a] = PersistLine(a)
         /\ lock' = lock /\ mem' = mem /\ region' = region /\ pm' = pm /\ p_seq' = p_seq /\ pwb' = pwb
         /\ pc' = pc /\ rClock' = rClock /\ call' = call /\ readSet' = readSet /\ writeSet' = writeSet
         /\ log' = log /\ calls' = calls /\ returned' = returned
<1>1. /\ phase = "recover" /\ phase' = "up" /\ LockedWords = {} /\ pwb = {}
      /\ gClock' = Max({2} \cup {p_seq[t] : t \in Thread})
      /\ lock' = lock /\ mem' = mem /\ region' = region /\ pm' = pm /\ p_seq' = p_seq /\ pwb' = pwb
      /\ pc' = pc /\ rClock' = rClock /\ call' = call /\ readSet' = readSet /\ writeSet' = writeSet
      /\ log' = log /\ calls' = calls /\ returned' = returned
  BY DEF RecoverDoneTL2, regionVars, txVars, histVars
<1>2. \A t \in Thread : p_seq[t] <= gClock'
  <2>. DEFINE S == {2} \cup {p_seq[t] : t \in Thread}
  <2>1. S \subseteq Nat /\ IsFiniteSet(S) /\ S # {}
    <3>1. IsFiniteSet({p_seq[t] : t \in Thread})
      <4>. DEFINE P == {p_seq[t] : t \in Thread}
      <4>1. p_seq \in Surjection(Thread, P)
        BY DEF TypeOK, Surjection
      <4>. HIDE DEF P
      <4>2. IsFiniteSet(P)
        BY <4>1, FS_Surjection, TL2Assumption
      <4>. QED BY <4>2 DEF P
    <3>2. IsFiniteSet({2})
      BY FS_Singleton
    <3>3. IsFiniteSet(S)
      BY <3>1, <3>2, FS_Union
    <3>. QED BY <3>3 DEF TypeOK
  <2>2. \A y \in S : y <= Max(S)
    BY <2>1, Largest
  <2>. QED BY <1>1, <2>2
<1>3. \A a \in Addr : Owner(a) = NoTid /\ pm[a] = PersistLine(a)
  BY <1>1 DEF LockedWords, Owner, Durability, RecoverInv
<1>. QED BY <1>1, <1>2, <1>3

(* Recovery ends, with a clock that is not behind any p_seq.               *)
LEMMA RecoverDoneStep ==
  ASSUME TypeOK, TypeOK', Durability, RecoverDoneTL2
  PROVE  Durability'
<1>1. /\ phase = "recover" /\ phase' = "up" /\ \A t \in Thread : p_seq[t] <= gClock'
      /\ \A a \in Addr : Owner(a) = NoTid /\ pm[a] = PersistLine(a)
      /\ lock' = lock /\ mem' = mem /\ region' = region /\ pm' = pm /\ p_seq' = p_seq /\ pwb' = pwb
      /\ pc' = pc /\ rClock' = rClock /\ call' = call /\ readSet' = readSet /\ writeSet' = writeSet
  BY RecoverDoneFacts
<1>2. RecoverInv /\ gClock' \in Nat
  BY <1>1 DEF Durability, TypeOK
<1>3. \A t \in Thread : Medium(t)' = Medium(t)
  BY <1>1 DEF Medium
<1>4. \A t \in Thread, a \in Addr : ~Holds(t, a)'
  BY <1>1, Lines DEF Holds, Owner
<1>5. \A t \in Thread : pc'[t] = "idle" /\ rClock'[t] = 0 /\ Medium(t) = p_seq[t] /\ Medium(t) \in Nat
  BY <1>1, <1>2, Types DEF RecoverInv
<1>6. ASSUME NEW t \in Thread
      PROVE  rClock'[t] <= gClock' /\ p_seq'[t] <= gClock' /\ RunInv(t)' /\ WriteInv(t)' /\ SeqInv(t)' /\ MediumInv(t)'
  BY <1>1, <1>2, <1>3, <1>4, <1>5 DEF RunInv, WriteInv, SeqInv, MediumInv, Active, Ticked, Unlocking
<1>7. ASSUME NEW a \in Addr PROVE FreeInv(a)' /\ LockedInv(a)' /\ LineInv(pm[a])' /\ Past(lock[LockOf(a)].seq)
  <2>1. LineInv(PersistLine(a)) /\ PersistLine(a).lseq = lock[LockOf(a)]
        /\ PersistLine(a).main = mem[a] /\ PersistLine(a).back = region[a]
    BY <1>2 DEF RecoverInv, PersistLine
  <2>2. mem[a] = region[a] /\ Past(lock[LockOf(a)].seq)
    BY <1>1, <2>1 DEF LineInv, Owner
  <2>. QED BY <1>1, <1>3, <2>1, <2>2 DEF FreeInv, LockedInv, LineInv, Past, Locked, Owner
<1>8. ASSUME NEW l \in Lock PROVE LockInv(l)'
  <2>1. CASE lock[l] = Free(0)
    BY <1>1, <1>2, <2>1 DEF LockInv, Free
  <2>2. CASE lock[l] # Free(0)
    <3>1. PICK a \in Addr : LockOf(a) = l
      BY <2>2 DEF Durability
    <3>2. lock[l].owner = NoTid /\ Past(lock[l].seq) /\ lock[l].seq \in Nat
      BY <1>1, <1>7, <3>1, Types DEF Owner
    <3>3. lock[l].seq <= gClock'
      <4>1. CASE lock[l].seq = 0
        BY <1>2, <4>1
      <4>2. CASE lock[l].seq # 0
        <5>1. PICK t \in Thread : lock[l].seq <= Medium(t)
          BY <3>2, <4>2 DEF Past
        <5>. QED BY <1>1, <1>2, <1>5, <3>2, <5>1
      <4>. QED BY <4>1, <4>2
    <3>. QED BY <1>1, <3>2, <3>3 DEF LockInv
  <2>. QED BY <2>1, <2>2
<1>9. UpInv'
  BY <1>6, <1>7, <1>8 DEF UpInv
<1>10. \A l \in Lock : lock'[l] = Free(0) \/ \E a \in Addr : LockOf(a) = l
  BY <1>1 DEF Durability
<1>. QED BY <1>1, <1>6, <1>7, <1>9, <1>10 DEF Durability

LEMMA DurabilityInit == InitTrinityTL2 => Durability
<1>. SUFFICES ASSUME InitTrinityTL2 PROVE Durability
  OBVIOUS
<1>1. /\ phase = "up" /\ gClock = 2 /\ \A l \in Lock : lock[l] = Free(0)
      /\ \A a \in Addr : mem[a] = region[a] /\ pm[a] = PersistLine(a)
      /\ \A t \in Thread : pc[t] = "idle" /\ rClock[t] = 0 /\ p_seq[t] = 1 /\ Medium(t) = 1
  BY Lines DEF InitTrinityTL2, InitTL2, Medium
<1>2. ASSUME NEW a \in Addr
      PROVE  Owner(a) = NoTid /\ lock[LockOf(a)].seq = 0 /\ pm[a].lseq.owner = NoTid /\ pm[a].lseq.seq = 0
             /\ pm[a].main = pm[a].back
  <2>1. lock[LockOf(a)] = Free(0)
    BY <1>1, LockOfWord
  <2>2. pm[a] = [main |-> mem[a], back |-> region[a], lseq |-> lock[LockOf(a)]]
    BY <1>1 DEF PersistLine
  <2>. QED BY <1>1, <2>1, <2>2 DEF Owner, Free
<1>3. \A t \in Thread, a \in Addr : ~Holds(t, a)
  BY <1>2, Lines DEF Holds
<1>4. \A t \in Thread : /\ rClock[t] <= gClock /\ p_seq[t] <= gClock /\ RunInv(t) /\ WriteInv(t)
                        /\ SeqInv(t) /\ MediumInv(t)
  BY <1>1, <1>3 DEF RunInv, WriteInv, SeqInv, MediumInv, Active, Ticked, Unlocking
<1>5. \A a \in Addr : FreeInv(a) /\ LockedInv(a) /\ LineInv(pm[a])
  BY <1>1, <1>2 DEF FreeInv, LockedInv, LineInv, Locked, Past
<1>6. \A l \in Lock : LockInv(l)
  BY <1>1 DEF LockInv, Free
<1>. QED BY <1>1, <1>4, <1>5, <1>6 DEF Durability, UpInv
-----------------------------------------------------------------------------
(* All steps.                                                              *)
LEMMA NextCases ==
  ASSUME NextTrinityTL2
  PROVE  (\E t \in Thread : TxStep(t)) \/ EvictTL2 \/ CrashTL2 \/ RecoverWord \/ RecoverDoneTL2
  BY DEF NextTrinityTL2, TxStep

LEMMA TypeStep ==
  ASSUME TypeOK, Durability, NextTrinityTL2
  PROVE  TypeOK'
<1>1. ASSUME NEW t \in Thread, TxStep(t) PROVE TypeOK'
  <2>1. CASE CallTL2(t)
    BY <2>1, TypeCall
  <2>2. CASE ~CallTL2(t)
    <3>1. pc[t] # "idle"
      BY <1>1, <2>2 DEF TxStep, BeginTL2, BeginTx, TakeLockTL2, TakeLock, FailLockTL2, FailLock, StoreWordTL2,
                  StoreWord, AtOp, CommitFlush, CommitTick, CommitSync, Abort, AbortTick, AbortSync, Concurrency,
                  LoadWord, CheckLoad, EndReadOnly, EndTx, Finished, Validate, Unlock, Return, Retry
    <3>2. RunInv(t)
      BY <3>1, UpWhenCalled, UpFacts
    <3>. QED BY <1>1, <2>2, <3>2, TypeConcurrency, TypeTx DEF TxStep
  <2>. QED BY <2>1, <2>2
<1>. QED BY <1>1, NextCases, TypeEvict, TypeRecover

(* Every step keeps Durability.                                            *)
LEMMA DurabilityStep ==
  ASSUME TypeOK, TypeOK', Durability, OneLockPerWord, NextTrinityTL2
  PROVE  Durability'
<1>1. ASSUME NEW t \in Thread, TxStep(t) PROVE Durability'
  <2>1. Local(t) /\ phase' = "up"
    BY <1>1, LocalStep DEF Local
  <2>2. ASSUME NEW u \in Thread
        PROVE  /\ RunInv(u)' /\ WriteInv(u)' /\ SeqInv(u)' /\ MediumInv(u)'
               /\ rClock'[u] <= gClock' /\ p_seq'[u] <= gClock'
    <3>1. CASE u = t
      BY <1>1, <3>1, OwnStep DEF OwnInv
    <3>2. CASE u # t
      BY <2>1, <3>2, OthersStep
    <3>. QED BY <3>1, <3>2
  <2>3. /\ \A l \in Lock : lock'[l] = Free(0) \/ \E a \in Addr : LockOf(a) = l
        /\ \A a \in Addr : LineInv(pm[a])'
        /\ \A l \in Lock : LockInv(l)'
        /\ \A a \in Addr : FreeInv(a)' /\ LockedInv(a)'
    BY <2>1, SharedStep
  <2>4. UpInv'
    BY <2>2, <2>3 DEF UpInv
  <2>. QED BY <2>1, <2>2, <2>3, <2>4 DEF Durability
<1>. QED BY <1>1, NextCases, EvictStep, CrashStep, RecoverStep, RecoverDoneStep

LEMMA VarsStutter ==
  ASSUME TypeOK, Durability, UNCHANGED vars
  PROVE  TypeOK' /\ Durability'
<1>. USE DEF vars, regionVars, txVars, histVars
<1>1. TypeOK'
  BY DEF TypeOK, PersistWord
<1>2. \A t \in Thread : /\ Medium(t)' = Medium(t) /\ Id(t)' = Id(t) /\ Word(t)' = Word(t) /\ Written(t)' = Written(t)
                        /\ (AtOp(t, "store")' <=> AtOp(t, "store"))
  BY DEF Medium, Id, Word, Op, Written, AtOp, AtEnd
<1>3. \A a \in Addr : PersistLine(a)' = PersistLine(a) /\ Owner(a)' = Owner(a)
  BY DEF PersistLine, Owner
<1>4. \A t \in Thread : MediumInv(t)' /\ (SeqInv(t) => SeqInv(t)')
  BY <1>2, <1>3 DEF Durability, MediumInv, SeqInv, Ticked, Unlocking, Holds
<1>5. \A t \in Thread : (RunInv(t) => RunInv(t)') /\ (WriteInv(t) => WriteInv(t)')
  <2>1. ASSUME NEW t \in Thread, RunInv(t) PROVE RunInv(t)'
    <3>1. pc[t] = "run" /\ AtOp(t, "store") /\ k[t] = 2 => Word(t) \in Addr
      BY OpFacts
    <3>. QED BY <1>2, <1>3, <2>1, <3>1 DEF RunInv, Holds
  <2>2. ASSUME NEW t \in Thread, WriteInv(t) PROVE WriteInv(t)'
    BY <1>2, <1>3, <2>2 DEF WriteInv, Active, Unlocking, Placed, Clean, InStore, Holds
  <2>. QED BY <2>1, <2>2
<1>6. \A a \in Addr : LineInv(pm[a])'
  BY <1>2, Types DEF Durability, LineInv, Past
<1>7. phase = "up" => UpInv'
  <2>1. \A a \in Addr : (FreeInv(a) => FreeInv(a)') /\ (LockedInv(a) => LockedInv(a)')
    BY <1>2, <1>3, Types DEF FreeInv, LockedInv, Locked, Past
  <2>2. \A l \in Lock : LockInv(l) => LockInv(l)'
    BY DEF LockInv, Active
  <2>. QED BY <1>4, <1>5, <2>1, <2>2 DEF Durability, UpInv
<1>8. phase = "recover" => RecoverInv'
  <2>1. \A a \in Addr : LineInv(PersistLine(a)) => LineInv(PersistLine(a))'
    BY <1>2, <1>3, PersistLineType DEF LineInv, Past, PersistWord, LockWord
  <2>. QED BY <1>2, <1>3, <2>1 DEF Durability, RecoverInv
<1>. QED BY <1>1, <1>4, <1>6, <1>7, <1>8 DEF Durability

(* With no transaction running, Durability says what the run checks.       *)
LEMMA QuietAndClean ==
  ASSUME TypeOK, Durability, engine = "TL2"
  PROVE  QuietIsClean
<1>. SUFFICES ASSUME phase = "up", \A t \in Thread : pc[t] \in {"idle", "begin"}
              PROVE  (\A l \in Lock : lock[l].owner = NoTid /\ lock[l].seq <= gClock) /\ mem = region
  BY DEF QuietIsClean
<1>1. UpInv
  BY DEF Durability
<1>2. \A l \in Lock : lock[l].owner = NoTid /\ lock[l].seq <= gClock
  <2>1. ASSUME NEW l \in Lock PROVE lock[l].owner = NoTid
    <3>1. lock[l].owner # NoTid => Active(lock[l].owner) /\ lock[l].owner \in Thread
      BY <1>1, Types DEF UpInv, LockInv
    <3>. QED BY <3>1 DEF Active
  <2>. QED BY <1>1, <2>1 DEF UpInv, LockInv
<1>3. \A a \in Addr : mem[a] = region[a]
  BY <1>1, <1>2, LockOfWord DEF UpInv, FreeInv, Owner
<1>. QED BY <1>2, <1>3 DEF TypeOK

(* TrinityTL2 is always in the states described by Durability.             *)
LEMMA DurabilityInvariant ==
  ASSUME OneLockPerWord
  PROVE  Spec => [](engine = "TL2" => TypeOK /\ Durability)
<1>. DEFINE Inv == engine = "TL2" => TypeOK /\ Durability
<1>1. Init => Inv
  BY TypeInit, DurabilityInit DEF Init
<1>2. Inv /\ [Next]_<<engine, vars>> => Inv'
  <2>1. ASSUME Inv, Next PROVE Inv'
    BY <2>1, TypeStep, DurabilityStep DEF Next
  <2>2. ASSUME Inv, UNCHANGED <<engine, vars>> PROVE Inv'
    BY <2>2, VarsStutter
  <2>. QED BY <2>1, <2>2
<1>. QED BY <1>1, <1>2, PTL DEF Spec
-----------------------------------------------------------------------------
(* The log, and what each step of a thread does to it and to the ids.      *)
LEMMA LogTypes ==
  ASSUME TypeOK, NEW i \in DOMAIN log
  PROVE  /\ log[i].id \in Nat /\ log[i].reads \subseteq Addr \X Nat
         /\ log[i].writes \subseteq Addr /\ log[i].after \subseteq Nat /\ log[i].id \in Ids
<1>1. log[i] \in Effects
  BY DEF TypeOK
<1>. QED BY <1>1 DEF Effects, Reads, Ids

(* A commit adds its entry at the end of the log.                          *)
LEMMA LogGrows ==
  ASSUME TypeOK, NEW e, log' = Append(log, e)
  PROVE  /\ Len(log) + 1 \notin DOMAIN log /\ DOMAIN log' = DOMAIN log \cup {Len(log) + 1}
         /\ log'[Len(log) + 1] = e
         /\ \A i \in DOMAIN log : log'[i] = log[i]
         /\ Ids' = Ids \cup {e.id}
<1>1. /\ Len(log) + 1 \notin DOMAIN log /\ DOMAIN log' = DOMAIN log \cup {Len(log) + 1}
      /\ log'[Len(log) + 1] = e
      /\ \A i \in DOMAIN log : log'[i] = log[i]
  BY DEF TypeOK
<1>2. Ids' = Ids \cup {e.id}
  <2>1. \A i \in DOMAIN log : log'[i].id = log[i].id
    BY <1>1
  <2>2. log'[Len(log) + 1].id = e.id
    BY <1>1
  <2>. HIDE DEF Ids
  <2>3. Ids' \subseteq Ids \cup {e.id}
    BY <1>1, <2>1, <2>2 DEF Ids
  <2>4. Ids \cup {e.id} \subseteq Ids'
    BY <1>1, <2>1, <2>2 DEF Ids
  <2>. QED BY <2>3, <2>4
<1>. QED BY <1>1, <1>2

(* Steps that take no transaction into the log.                            *)
LEMMA OwnLog ==
  ASSUME TypeOK, TypeOK', Durability, NEW t \in Thread, TxStep(t)
  PROVE  /\ CallTL2(t) =>
              /\ pc[t] = "idle" /\ pc'[t] = "begin" /\ log' = log /\ returned' = returned
              /\ calls' = calls + 1 /\ Id(t)' = calls + 1 /\ call'[t].after = returned /\ call'[t].reads = {}
         /\ ~CallTL2(t) =>
              /\ pc[t] # "idle" /\ calls' = calls /\ Id(t)' = Id(t) /\ call'[t].after = call[t].after
              /\ call'[t].prog = call[t].prog
              /\ EndReadOnly(t) \/ log' = log
              /\ \/ returned' = returned
                 \/ /\ returned' = returned \cup {Id(t)} /\ pc'[t] = "idle" /\ (EndReadOnly(t) \/ pc[t] = "unlock")
         /\ EndReadOnly(t) =>
              /\ log' = Append(log, Effect(t, {})) /\ Effect(t, {}) \in Effects
              /\ pc'[t] = "idle" /\ Finished(t) /\ pc[t] = "run"
<1>. USE DEF regionVars, txVars, histVars
<1>0. Effect(t, {}) \in Effects
  BY DEF TypeOK, Effect, Effects, Calls
<1>1. CASE CallTL2(t)
  <2>1. PICK prog : call' = [call EXCEPT ![t] = [NoCall EXCEPT !.id = calls + 1, !.prog = prog, !.after = returned]]
    BY <1>1 DEF CallTL2, Call, NewCall
  <2>2. call'[t].after = returned /\ call'[t].reads = {} /\ call'[t].id = calls + 1
    BY <2>1 DEF TypeOK, NoCall
  <2>3. pc[t] = "idle" /\ pc'[t] = "begin" /\ log' = log /\ returned' = returned /\ calls' = calls + 1
    BY <1>1 DEF CallTL2, Call, NewCall, Goto, TypeOK
  <2>4. ~EndReadOnly(t)
    BY <2>3 DEF EndReadOnly, Finished
  <2>. QED BY <1>1, <2>2, <2>3, <2>4 DEF Id
<1>2. CASE ~CallTL2(t)
  <2>1. pc[t] # "idle" /\ calls' = calls
    BY <1>2 DEF TxStep, BeginTL2, BeginTx, TakeLockTL2, TakeLock, FailLockTL2, FailLock, StoreWordTL2,
                StoreWord, AtOp, CommitFlush, CommitTick, CommitSync, Abort, AbortTick, AbortSync, Concurrency,
                LoadWord, CheckLoad, EndReadOnly, EndTx, Finished, Validate, Unlock, Return, Retry
  <2>2. RunInv(t)
    BY <2>1, UpWhenCalled, UpFacts
  <2>3. Id(t)' = Id(t) /\ call'[t].after = call[t].after /\ call'[t].prog = call[t].prog
    <3>1. CASE call' = call
      BY <3>1 DEF Id
    <3>2. CASE \E x : call' = [call EXCEPT ![t].reads = x] \/ call' = [call EXCEPT ![t].pos = x]
      <4>1. PICK x : call' = [call EXCEPT ![t].reads = x] \/ call' = [call EXCEPT ![t].pos = x]
        BY <3>2
      <4>2. CASE call' = [call EXCEPT ![t].reads = x]
        BY <4>2, CallFields DEF Id
      <4>3. CASE call' = [call EXCEPT ![t].pos = x]
        BY <4>3, CallFields DEF Id
      <4>. QED BY <4>1, <4>2, <4>3
    <3>3. CASE call' = [call EXCEPT ![t].pos = 1, ![t].reads = {}]
      <4>. DEFINE c == [call[t] EXCEPT !.pos = 1]
      <4>1. c \in Calls /\ c.id = call[t].id /\ c.after = call[t].after /\ c.prog = call[t].prog
        BY CallType DEF Calls
      <4>2. [c EXCEPT !.reads = {}].id = c.id /\ [c EXCEPT !.reads = {}].after = c.after
            /\ [c EXCEPT !.reads = {}].prog = c.prog
        BY <4>1 DEF Calls
      <4>3. call'[t] = [c EXCEPT !.reads = {}]
        BY <3>3 DEF TypeOK
      <4>. QED BY <4>1, <4>2, <4>3 DEF Id
    <3>4. \/ call' = call
          \/ \E x : call' = [call EXCEPT ![t].reads = x] \/ call' = [call EXCEPT ![t].pos = x]
          \/ call' = [call EXCEPT ![t].pos = 1, ![t].reads = {}]
      <4>1. CASE LoadWord(t)
        BY <4>1, LoadFacts
      <4>2. CASE CheckLoad(t)
        BY <2>2, <4>2, CheckFacts
      <4>3. CASE StoreWordTL2(t)
        BY <2>2, <4>3, StoreFacts
      <4>4. CASE BeginTL2(t)
        BY <4>4 DEF BeginTL2, BeginTx
      <4>5. CASE ~LoadWord(t) /\ ~CheckLoad(t) /\ ~StoreWordTL2(t) /\ ~BeginTL2(t)
        BY <1>2, <4>5 DEF TxStep, TakeLockTL2, TakeLock, FailLockTL2, FailLock,
                    CommitFlush, CommitTick, CommitSync, Abort, AbortTick, AbortSync, Concurrency,
                    EndReadOnly, EndTx, Validate, Unlock, Return, Retry
      <4>. QED BY <4>1, <4>2, <4>3, <4>4, <4>5
    <3>. QED BY <3>1, <3>2, <3>3, <3>4
  <2>4. EndReadOnly(t) \/ log' = log
    BY <1>2 DEF TxStep, BeginTL2, BeginTx, TakeLockTL2, TakeLock, FailLockTL2, FailLock, StoreWordTL2,
                StoreWord, CommitFlush, CommitTick, CommitSync, Abort, AbortTick, AbortSync, Concurrency,
                LoadWord, CheckLoad, EndTx, Validate, Unlock, Return, Retry
  <2>5. \/ returned' = returned
        \/ returned' = returned \cup {Id(t)} /\ pc'[t] = "idle" /\ (EndReadOnly(t) \/ pc[t] = "unlock")
    <3>1. CASE EndReadOnly(t) \/ Return(t)
      BY <3>1 DEF EndReadOnly, Return, Goto, Id, TypeOK
    <3>2. CASE ~EndReadOnly(t) /\ ~Return(t)
      BY <1>2, <3>2 DEF TxStep, BeginTL2, BeginTx, TakeLockTL2, TakeLock, FailLockTL2, FailLock, StoreWordTL2,
                  StoreWord, CommitFlush, CommitTick, CommitSync, Abort, AbortTick, AbortSync, Concurrency,
                  LoadWord, CheckLoad, EndTx, Validate, Unlock, Retry
    <3>. QED BY <3>1, <3>2
  <2>6. EndReadOnly(t) => log' = Append(log, Effect(t, {})) /\ pc'[t] = "idle" /\ Finished(t) /\ pc[t] = "run"
    BY DEF EndReadOnly, Finished, Goto, TypeOK
  <2>. QED BY <1>0, <1>2, <2>1, <2>3, <2>4, <2>5, <2>6
<1>. QED BY <1>1, <1>2

(* Where t goes, and when it is done.                                      *)
LEMMA OwnPlace ==
  ASSUME TypeOK, TypeOK', Durability, NEW t \in Thread, TxStep(t)
  PROVE  /\ pc'[t] # "idle" => (Done(t)' <=> Done(t))
         /\ Ticked(t)' => (Ticked(t) /\ rClock'[t] = rClock[t]) \/ rClock'[t] = gClock + 1
         /\ Active(t)' /\ ~Active(t) => BeginTL2(t)
         /\ ~BeginTL2(t) /\ Trying(t)' => Trying(t) /\ rClock'[t] = rClock[t]
         /\ Pending(t)' => Pending(t) \/ EndTx(t)
<1>. USE DEF regionVars, txVars, histVars
<1>0. pm' = pm /\ MediumInv(t) /\ Medium(t) \in Nat /\ p_seq[t] \in Nat /\ gClock \in Nat
      /\ (phase = "up" => Medium(t) <= gClock)
  <2>1. phase = "up" => p_seq[t] <= gClock
    BY UpFacts
  <2>2. MediumInv(t) /\ pm' = pm /\ Medium(t) \in Nat /\ p_seq[t] \in Nat /\ gClock \in Nat
    BY Types DEF Durability, TxStep, CallTL2, Call, BeginTL2, BeginTx, TakeLockTL2, TakeLock, FailLockTL2, FailLock,
                StoreWordTL2, StoreWord, CommitFlush, CommitTick, CommitSync, Abort, AbortTick, AbortSync, Concurrency,
                LoadWord, CheckLoad, EndReadOnly, EndTx, Validate, Unlock, Return, Retry
  <2>. QED BY <2>1, <2>2 DEF MediumInv
<1>1. CASE CommitSync(t)
  <2>1. /\ pc[t] = "sync" /\ pc'[t] = "unlock" /\ rClock' = rClock /\ Medium(t) = p_seq[t]
    BY <1>0, <1>1, Lines DEF CommitSync, Goto, TypeOK, MediumInv, Fenced
  <2>. QED BY <2>1 DEF Done, Ticked, Active, Trying, Pending
<1>2. CASE CommitTick(t)
  <2>1. pc[t] = "faa" /\ pc'[t] = "sync" /\ p_seq'[t] = gClock + 1 /\ rClock'[t] = gClock + 1 /\ Medium(t)' = Medium(t)
    BY <1>0, <1>2 DEF CommitTick, TickTL2, Goto, TypeOK, Medium
  <2>2. phase = "up"
    BY <2>1, UpWhenCalled
  <2>. QED BY <1>0, <2>1, <2>2 DEF Done, Ticked, Active, Trying, Pending, Placed
<1>3. CASE AbortTick(t) \/ Abort(t) \/ AbortSync(t)
  BY <1>3 DEF AbortTick, TickTL2, Abort, AbortSync, Goto, Advance, TypeOK, Done, Ticked, Active, Trying, Pending, Placed
<1>4. CASE BeginTL2(t) \/ CallTL2(t) \/ Return(t) \/ Retry(t) \/ Unlock(t)
  <2>1. Medium(t)' = Medium(t)
    BY <1>0 DEF Medium
  <2>. QED BY <1>4, <2>1 DEF BeginTL2, BeginTx, CallTL2, Call, Return, Retry, Unlock, Goto, TypeOK, Done, Ticked, Active,
                   Trying, Pending, Placed
<1>5. CASE \/ LoadWord(t) \/ CheckLoad(t) \/ TakeLockTL2(t) \/ FailLockTL2(t) \/ StoreWordTL2(t)
  <2>1. pc[t] = "run" /\ pc'[t] \in {"run", "abort"} /\ rClock' = rClock
    BY <1>5 DEF LoadWord, CheckLoad, TakeLockTL2, TakeLock, FailLockTL2, FailLock, StoreWordTL2, StoreWord, AtOp,
                Goto, Advance, TypeOK
  <2>. QED BY <2>1 DEF Done, Ticked, Active, Trying, Pending, Placed
<1>6. CASE EndReadOnly(t) \/ Validate(t) \/ CommitFlush(t)
  BY <1>6 DEF EndReadOnly, Finished, Validate, CommitFlush, Goto, Advance, TypeOK, Done, Ticked, Active, Trying,
              Pending, Placed
<1>7. CASE EndTx(t)
  BY <1>7 DEF EndTx, Finished, Goto, TypeOK, Done, Ticked, Active, Trying
<1>. QED BY <1>1, <1>2, <1>3, <1>4, <1>5, <1>6, <1>7 DEF TxStep, Concurrency
-----------------------------------------------------------------------------
(* The ids.                                                                *)
LEMMA IdInit == InitTrinityTL2 => IdInv
<1>. SUFFICES ASSUME InitTrinityTL2 PROVE IdInv
  OBVIOUS
<1>1. log = <<>> /\ calls = 0 /\ returned = {} /\ \A t \in Thread : pc[t] = "idle" /\ call[t] = NoCall
  BY DEF InitTrinityTL2, InitTL2, InitHistory
<1>2. DOMAIN log = {} /\ Ids = {}
  BY <1>1 DEF Ids
<1>. QED BY <1>1, <1>2 DEF IdInv, IdOf, NoCall

LEMMA IdTx ==
  ASSUME TypeOK, TypeOK', Durability, OneLockPerWord, IdInv, NEW t \in Thread, TxStep(t)
  PROVE  IdInv'
<1>1. Local(t) /\ calls \in Nat /\ \A u \in Thread : Id(u) \in Nat /\ IdOf(u)
  BY LocalStep, Types DEF IdInv
<1>2. ASSUME NEW u \in Thread \ {t}
      PROVE  pc'[u] = pc[u] /\ Id(u)' = Id(u) /\ call'[u].after = call[u].after /\ (Done(u)' <=> Done(u))
  BY <1>1, <1>2, OthersFrame DEF SameThread, Done
<1>3. CASE CallTL2(t)
  <2>1. /\ pc[t] = "idle" /\ pc'[t] = "begin" /\ log' = log /\ returned' = returned
        /\ calls' = calls + 1 /\ Id(t)' = calls + 1 /\ call'[t].after = returned
    BY <1>3, OwnLog
  <2>2. Ids' = Ids /\ Ids \subseteq 1 .. calls' /\ calls + 1 \notin Ids /\ returned \subseteq Ids
    BY <1>1, <2>1 DEF IdInv, Ids
  <2>3. ASSUME NEW u \in Thread PROVE IdOf(u)'
    <3>1. CASE u = t
      <4>1. \A v \in Thread : pc'[v] # "idle" /\ Id(v)' = Id(t)' => v = t
        BY <1>1, <1>2, <2>1 DEF IdOf
      <4>2. Id(t)' \in 1 .. calls' /\ Id(t)' \notin Ids' /\ call'[t].after \subseteq Ids'
        BY <1>1, <2>1, <2>2
      <4>3. ~Done(t)'
        BY <2>1 DEF Done
      <4>. QED BY <3>1, <4>1, <4>2, <4>3 DEF IdOf
    <3>2. CASE u # t
      <4>1. IdOf(u)
        BY <1>1
      <4>2. pc[u] # "idle" => Id(u)' \in 1 .. calls' /\ (Id(u)' \in Ids' <=> Done(u)')
        BY <1>1, <1>2, <2>1, <2>2, <3>2, <4>1 DEF IdOf
      <4>3. pc[u] # "idle" => \A v \in Thread : pc'[v] # "idle" /\ Id(v)' = Id(u)' => v = u
        BY <1>1, <1>2, <2>1, <3>2, <4>1 DEF IdOf
      <4>. QED BY <1>2, <2>2, <3>2, <4>1, <4>2, <4>3 DEF IdOf
    <3>. QED BY <3>1, <3>2
  <2>. QED BY <2>1, <2>2, <2>3 DEF IdInv
<1>4. CASE ~CallTL2(t) /\ ~EndReadOnly(t)
  <2>1. /\ pc[t] # "idle" /\ calls' = calls /\ Id(t)' = Id(t) /\ call'[t].after = call[t].after /\ log' = log
        /\ \/ returned' = returned
           \/ returned' = returned \cup {Id(t)} /\ pc[t] = "unlock"
    BY <1>4, OwnLog
  <2>2. Ids' = Ids
    BY <2>1 DEF Ids
  <2>3. pc[t] = "unlock" => Id(t) \in Ids
    BY <1>1, <2>1 DEF IdOf, Done
  <2>4. pc'[t] # "idle" => (Done(t)' <=> Done(t))
    BY OwnPlace
  <2>5. ASSUME NEW u \in Thread PROVE IdOf(u)'
    <3>1. /\ Id(u)' = Id(u) /\ call'[u].after = call[u].after /\ (pc'[u] # "idle" => pc[u] # "idle")
          /\ pc'[u] # "idle" => (Done(u)' <=> Done(u))
      BY <1>2, <2>1, <2>4
    <3>2. \A v \in Thread : Id(v)' = Id(v) /\ (pc'[v] # "idle" => pc[v] # "idle")
      BY <1>2, <2>1
    <3>. QED BY <1>1, <2>1, <2>2, <3>1, <3>2 DEF IdOf
  <2>6. returned' \subseteq Ids'
    BY <2>1, <2>2, <2>3 DEF IdInv
  <2>. QED BY <2>1, <2>2, <2>5, <2>6 DEF IdInv
<1>5. CASE EndReadOnly(t)
  <2>0. ~CallTL2(t)
    BY <1>5, OwnLog
  <2>1. /\ calls' = calls /\ Id(t)' = Id(t) /\ call'[t].after = call[t].after
        /\ (returned' = returned \/ returned' = returned \cup {Id(t)})
        /\ log' = Append(log, Effect(t, {})) /\ pc[t] = "run" /\ pc'[t] = "idle"
    BY <1>5, <2>0, OwnLog
  <2>. DEFINE e == Effect(t, {})
  <2>2. e.id = Id(t) /\ e.after = call[t].after
    BY DEF Effect, Id
  <2>3. /\ Len(log) + 1 \notin DOMAIN log /\ DOMAIN log' = DOMAIN log \cup {Len(log) + 1}
        /\ log'[Len(log) + 1] = e
        /\ \A i \in DOMAIN log : log'[i] = log[i]
        /\ Ids' = Ids \cup {Id(t)}
    BY <2>1, <2>2, LogGrows
  <2>. HIDE DEF e
  <2>4. Id(t) \notin Ids /\ Id(t) \in 1 .. calls /\ call[t].after \subseteq Ids
    BY <1>1, <2>1 DEF IdOf, Done
  <2>5. \A i \in DOMAIN log : log[i].id # Id(t)
    BY <2>4 DEF Ids
  <2>6. \A i, j \in DOMAIN log' : log'[i].id = log'[j].id => i = j
    BY <2>2, <2>3, <2>5 DEF IdInv
  <2>7. \A i \in DOMAIN log' : log'[i].after \subseteq Ids'
    BY <2>2, <2>3, <2>4 DEF IdInv
  <2>8. ASSUME NEW u \in Thread PROVE IdOf(u)'
    <3>1. CASE u = t
      BY <1>1, <2>1, <2>3, <2>4, <3>1 DEF IdOf
    <3>2. CASE u # t
      <4>1. pc'[u] # "idle" => Id(u) # Id(t)
        BY <1>1, <1>2, <2>1, <3>2 DEF IdOf
      <4>2. \A v \in Thread : Id(v)' = Id(v) /\ (pc'[v] # "idle" => pc[v] # "idle")
        BY <1>2, <2>1
      <4>. QED BY <1>1, <1>2, <2>1, <2>3, <3>2, <4>1, <4>2 DEF IdOf
    <3>. QED BY <3>1, <3>2
  <2>9. Ids' \subseteq 1 .. calls' /\ returned' \subseteq Ids'
    BY <2>1, <2>3, <2>4 DEF IdInv
  <2>. QED BY <2>6, <2>7, <2>8, <2>9 DEF IdInv
<1>. QED BY <1>3, <1>4, <1>5

(* A write-back of u's p_seq takes u's transaction into the log, if it is  *)
(* waiting for it.                                                         *)
LEMMA EvictLog ==
  ASSUME TypeOK, TypeOK', Durability, EvictTL2
  PROVE  /\ pc' = pc /\ call' = call /\ calls' = calls /\ returned' = returned
         /\ \/ /\ log' = log /\ \A t \in Thread : Done(t)' <=> Done(t)
               /\ \A t \in Thread : Medium(t)' = Medium(t) \/ pc[t] # "sync"
            \/ \E u \in Thread :
                 /\ log' = Append(log, Effect(u, Written(u))) /\ Effect(u, Written(u)) \in Effects
                 /\ pc[u] = "sync" /\ Medium(u) # p_seq[u] /\ phase = "up"
                 /\ ~Done(u) /\ Done(u)'
                 /\ \A t \in Thread \ {u} : (Done(t)' <=> Done(t)) /\ Medium(t)' = Medium(t)
                 /\ pm' = [pm EXCEPT ![PseqLine(u)] = p_seq[u]]
<1>1. pc' = pc /\ call' = call /\ calls' = calls /\ returned' = returned /\ p_seq' = p_seq
  BY DEF EvictTL2, txVars
<1>2. ASSUME NEW b \in Addr, pm' = [pm EXCEPT ![b] = PersistLine(b)], LogCommit(b)
      PROVE  log' = log /\ \A t \in Thread : (Done(t)' <=> Done(t)) /\ Medium(t)' = Medium(t)
  <2>1. log' = log
    BY <1>2, Lines DEF LogCommit, Committing
  <2>2. \A t \in Thread : Medium(t)' = Medium(t)
    BY <1>2, Lines DEF TypeOK, Medium
  <2>. QED BY <1>1, <2>1, <2>2 DEF Done
<1>3. ASSUME NEW u \in Thread, pm' = [pm EXCEPT ![PseqLine(u)] = p_seq[u]], LogCommit(PseqLine(u))
      PROVE  \/ /\ log' = log /\ \A t \in Thread : Done(t)' <=> Done(t)
                /\ \A t \in Thread : Medium(t)' = Medium(t) \/ pc[t] # "sync"
             \/ /\ log' = Append(log, Effect(u, Written(u))) /\ Effect(u, Written(u)) \in Effects
                /\ pc[u] = "sync" /\ Medium(u) # p_seq[u] /\ phase = "up"
                /\ ~Done(u) /\ Done(u)'
                /\ \A t \in Thread \ {u} : (Done(t)' <=> Done(t)) /\ Medium(t)' = Medium(t)
  <2>1. Medium(u)' = p_seq[u] /\ \A t \in Thread \ {u} : Medium(t)' = Medium(t)
    BY <1>3, Lines DEF TypeOK, Medium
  <2>2. \A t \in Thread \ {u} : Done(t)' <=> Done(t)
    BY <1>1, <2>1 DEF Done
  <2>3. CASE pc[u] = "sync" /\ Medium(u) # p_seq[u]
    <3>1. Committing(u, PseqLine(u)) /\ 0 - PseqLine(u) = u
      BY <2>3, Lines DEF Committing, Medium
    <3>2. log' = Append(log, Effect(u, Written(u)))
      BY <1>3, <3>1 DEF LogCommit
    <3>3. Effect(u, Written(u)) \in Effects
      BY WrittenType DEF TypeOK, Effect, Effects, Calls
    <3>4. ~Done(u) /\ Done(u)'
      BY <1>1, <2>1, <2>3 DEF Done
    <3>5. phase = "up"
      BY <2>3, UpWhenCalled
    <3>. QED BY <2>1, <2>2, <2>3, <3>2, <3>3, <3>4, <3>5
  <2>4. CASE ~(pc[u] = "sync" /\ Medium(u) # p_seq[u])
    <3>1. log' = log
      BY <1>3, <2>4, Lines DEF LogCommit, Committing, Medium
    <3>2. Done(u)' <=> Done(u)
      BY <1>1, <2>1, <2>4 DEF Done
    <3>3. Medium(u)' = Medium(u) \/ pc[u] # "sync"
      BY <2>1, <2>4
    <3>. QED BY <2>1, <2>2, <3>1, <3>2, <3>3
  <2>. QED BY <2>3, <2>4
<1>. QED BY <1>1, <1>2, <1>3, EvictFacts

LEMMA IdEvict ==
  ASSUME TypeOK, TypeOK', Durability, IdInv, EvictTL2
  PROVE  IdInv'
<1>1. pc' = pc /\ call' = call /\ calls' = calls /\ returned' = returned
      /\ \A t \in Thread : IdOf(t) /\ Id(t)' = Id(t)
  BY EvictLog DEF IdInv, Id
<1>2. CASE log' = log /\ \A t \in Thread : Done(t)' <=> Done(t)
  BY <1>1, <1>2 DEF IdInv, IdOf, Ids
<1>3. ASSUME NEW u \in Thread, log' = Append(log, Effect(u, Written(u))), pc[u] = "sync", ~Done(u), Done(u)',
             \A t \in Thread \ {u} : Done(t)' <=> Done(t)
      PROVE  IdInv'
  <2>. DEFINE e == Effect(u, Written(u))
  <2>2. e.id = Id(u) /\ e.after = call[u].after
    BY DEF Effect, Id
  <2>3. /\ Len(log) + 1 \notin DOMAIN log /\ DOMAIN log' = DOMAIN log \cup {Len(log) + 1}
        /\ log'[Len(log) + 1] = e
        /\ \A i \in DOMAIN log : log'[i] = log[i]
        /\ Ids' = Ids \cup {Id(u)}
    BY <1>3, <2>2, LogGrows
  <2>. HIDE DEF e
  <2>4. Id(u) \notin Ids /\ Id(u) \in 1 .. calls /\ call[u].after \subseteq Ids
    BY <1>1, <1>3 DEF IdOf
  <2>5. \A i \in DOMAIN log : log[i].id # Id(u)
    BY <2>4 DEF Ids
  <2>6. \A i, j \in DOMAIN log' : log'[i].id = log'[j].id => i = j
    BY <2>2, <2>3, <2>5 DEF IdInv
  <2>7. \A i \in DOMAIN log' : log'[i].after \subseteq Ids'
    BY <2>2, <2>3, <2>4 DEF IdInv
  <2>8. ASSUME NEW t \in Thread PROVE IdOf(t)'
    <3>1. pc[t] # "idle" /\ t # u => Id(t) # Id(u)
      BY <1>1, <1>3 DEF IdOf
    <3>. QED BY <1>1, <1>3, <2>3, <3>1 DEF IdOf
  <2>9. Ids' \subseteq 1 .. calls' /\ returned' \subseteq Ids'
    BY <1>1, <2>3, <2>4 DEF IdInv
  <2>. QED BY <2>6, <2>7, <2>8, <2>9 DEF IdInv
<1>. QED BY <1>2, <1>3, EvictLog

LEMMA IdRecover ==
  ASSUME TypeOK, TypeOK', Durability, IdInv, CrashTL2 \/ RecoverWord \/ RecoverDoneTL2
  PROVE  IdInv'
<1>1. log' = log /\ calls' = calls /\ \A t \in Thread : pc'[t] = "idle"
  BY DEF CrashTL2, CrashThreads, RecoverWord, RecoverDoneTL2, txVars, histVars, regionVars, Durability, RecoverInv
<1>2. Ids' = Ids
  BY <1>1 DEF Ids
<1>3. returned' \subseteq Ids /\ \A t \in Thread : call'[t].after \subseteq Ids
  <2>1. CASE CrashTL2
    BY <2>1 DEF CrashTL2, CrashThreads, Ids, NoCall
  <2>2. CASE RecoverWord \/ RecoverDoneTL2
    BY <2>2 DEF RecoverWord, RecoverDoneTL2, txVars, histVars, IdInv, IdOf
  <2>. QED BY <2>1, <2>2
<1>. QED BY <1>1, <1>2, <1>3 DEF IdInv, IdOf

(* Every step keeps the ids of the transactions apart.                     *)
LEMMA IdStep ==
  ASSUME TypeOK, TypeOK', Durability, OneLockPerWord, IdInv, NextTrinityTL2
  PROVE  IdInv'
  BY NextCases, IdTx, IdEvict, IdRecover
-----------------------------------------------------------------------------
(* Values in the serial order when the log grows or a key is added.        *)
LogAdds(key, x, a) ==
  log' = log \/ \E e \in Effects : log' = Append(log, e) /\ (a \in e.writes => key[e.id] >= x)
LogKeeps(a) == log' = log \/ \E e \in Effects : log' = Append(log, e) /\ a \notin e.writes
SameKeys(key, key2) == \A y \in Ids : key2[y] = key[y]

LEMMA LogIndex ==
  ASSUME TypeOK, NEW e, log' = Append(log, e)
  PROVE  \E n \in Nat :
           /\ n \notin DOMAIN log /\ DOMAIN log' = DOMAIN log \cup {n} /\ log'[n] = e
           /\ \A i \in DOMAIN log : log'[i] = log[i]
<1>1. Len(log) + 1 \in Nat
  BY DEF TypeOK
<1>. QED BY <1>1, LogGrows

LEMMA KeyTypes ==
  ASSUME TypeOK, NEW key \in [Nat -> Nat]
  PROVE  /\ \A i \in DOMAIN log : Key(key, i) \in Nat
         /\ \A t \in Thread : key[Id(t)] \in Nat
  BY LogTypes, Types DEF Key

(* An entry that is placed later does not change a value.                  *)
LEMMA ValueFrame ==
  ASSUME TypeOK, NEW key \in [Nat -> Nat], NEW key2 \in [Nat -> Nat], NEW x \in Nat, NEW a \in Addr, NEW v,
         SameKeys(key, key2), LogAdds(key2, x, a), ValueAt(key, x, a, v)
  PROVE  ValueAt(key2, x, a, v)'
<1>0. \A i \in DOMAIN log : Key(key2, i) = Key(key, i)
  BY LogTypes DEF SameKeys, Key
<1>1. CASE log' = log
  <2>1. \A i \in DOMAIN log : Key(key2, i)' = Key(key, i) /\ (Writer(i, a)' <=> Writer(i, a)) /\ log'[i].id = log[i].id
    BY <1>0, <1>1 DEF Key, Writer
  <2>. QED BY <1>1, <2>1 DEF ValueAt
<1>2. ASSUME NEW e \in Effects, log' = Append(log, e), a \in e.writes => key2[e.id] >= x PROVE ValueAt(key2, x, a, v)'
  <2>1. PICK n \in Nat :
        /\ n \notin DOMAIN log /\ DOMAIN log' = DOMAIN log \cup {n}
        /\ log'[n] = e /\ \A i \in DOMAIN log : log'[i] = log[i]
    BY <1>2, LogIndex
  <2>2. \A i \in DOMAIN log : Key(key2, i)' = Key(key, i) /\ (Writer(i, a)' <=> Writer(i, a)) /\ log'[i].id = log[i].id
    BY <1>0, <2>1 DEF Key, Writer
  <2>3. Writer(n, a)' => Key(key2, n)' >= x
    BY <1>2, <2>1 DEF Writer, Key
  <2>4. Key(key2, n)' \in Nat
    BY <2>1 DEF Key, Effects
  <2>5. CASE v = InitVal /\ \A i \in DOMAIN log : Writer(i, a) => Key(key, i) >= x
    BY <2>1, <2>2, <2>3, <2>5 DEF ValueAt
  <2>6. ASSUME NEW i \in DOMAIN log, Writer(i, a), log[i].id = v, Key(key, i) < x,
               \A j \in DOMAIN log : Writer(j, a) /\ Key(key, j) < x => Key(key, j) <= Key(key, i)
        PROVE  ValueAt(key2, x, a, v)'
    <3>1. ~(Writer(n, a)' /\ Key(key2, n)' < x)
      BY <2>3, <2>4
    <3>. QED BY <2>1, <2>2, <2>6, <3>1 DEF ValueAt
  <2>. QED BY <2>5, <2>6 DEF ValueAt
<1>. QED BY <1>1, <1>2 DEF LogAdds

(* An entry that does not store to a word keeps its last value.            *)
LEMMA FinalFrame ==
  ASSUME TypeOK, NEW key \in [Nat -> Nat], NEW key2 \in [Nat -> Nat], NEW a \in Addr, NEW v,
         SameKeys(key, key2), LogKeeps(a), Final(key, a, v)
  PROVE  Final(key2, a, v)'
<1>0. \A i \in DOMAIN log : Key(key2, i) = Key(key, i)
  BY LogTypes DEF SameKeys, Key
<1>1. CASE log' = log
  <2>1. \A i \in DOMAIN log : Key(key2, i)' = Key(key, i) /\ (Writer(i, a)' <=> Writer(i, a)) /\ log'[i].id = log[i].id
    BY <1>0, <1>1 DEF Key, Writer
  <2>. QED BY <1>1, <2>1 DEF Final
<1>2. ASSUME NEW e \in Effects, log' = Append(log, e), a \notin e.writes PROVE Final(key2, a, v)'
  <2>1. PICK n \in Nat :
        /\ n \notin DOMAIN log /\ DOMAIN log' = DOMAIN log \cup {n}
        /\ log'[n] = e /\ \A i \in DOMAIN log : log'[i] = log[i]
    BY <1>2, LogIndex
  <2>2. \A i \in DOMAIN log : Key(key2, i)' = Key(key, i) /\ (Writer(i, a)' <=> Writer(i, a)) /\ log'[i].id = log[i].id
    BY <1>0, <2>1 DEF Key, Writer
  <2>3. ~Writer(n, a)'
    BY <1>2, <2>1 DEF Writer
  <2>. QED BY <2>1, <2>2, <2>3 DEF Final
<1>. QED BY <1>1, <1>2 DEF LogKeeps

(* A new transaction, placed after all that have stored a, stores a.       *)
LEMMA FinalNew ==
  ASSUME TypeOK, NEW key \in [Nat -> Nat], NEW a \in Addr, NEW e \in Effects, log' = Append(log, e), a \in e.writes,
         \A i \in DOMAIN log : Writer(i, a) => Key(key, i) < key[e.id]
  PROVE  Final(key, a, e.id)'
<1>1. PICK n \in Nat :
      /\ n \notin DOMAIN log /\ DOMAIN log' = DOMAIN log \cup {n}
      /\ log'[n] = e /\ \A i \in DOMAIN log : log'[i] = log[i]
  BY LogIndex
<1>2. \A i \in DOMAIN log : Key(key, i)' = Key(key, i) /\ (Writer(i, a)' <=> Writer(i, a))
  BY <1>1 DEF Key, Writer
<1>3. Writer(n, a)' /\ log'[n].id = e.id /\ Key(key, n)' = key[e.id]
  BY <1>1 DEF Key, Writer
<1>4. key[e.id] \in Nat /\ \A i \in DOMAIN log : Key(key, i) \in Nat
  BY KeyTypes DEF Effects
<1>5. PICK z \in Nat : z = key[e.id]
  BY <1>4
<1>6. ASSUME NEW j \in DOMAIN log', Writer(j, a)' PROVE Key(key, j)' <= z
  <2>1. CASE j = n
    <3>1. log'[j].id = e.id
      BY <1>1, <2>1
    <3>2. Key(key, j)' = z
      BY <1>5, <3>1 DEF Key
    <3>3. z <= z
      OBVIOUS
    <3>. QED BY <3>2, <3>3
  <2>2. CASE j \in DOMAIN log
    <3>1. Key(key, j) < z /\ Key(key, j) \in Nat /\ Key(key, j)' = Key(key, j)
      BY <1>2, <1>4, <1>5, <1>6, <2>2
    <3>. QED BY <3>1
  <2>. QED BY <1>1, <2>1, <2>2
<1>7. n \in DOMAIN log' /\ Writer(n, a)' /\ log'[n].id = e.id
      /\ \A j \in DOMAIN log' : Writer(j, a)' => Key(key, j)' <= Key(key, n)'
  BY <1>1, <1>3, <1>5, <1>6
<1>. QED BY <1>7 DEF Final

(* The last value, for one who comes after all that have stored.           *)
LEMMA FinalIsValue ==
  ASSUME TypeOK, NEW key \in [Nat -> Nat], NEW x \in Nat, NEW a \in Addr, NEW v, Final(key, a, v),
         \A i \in DOMAIN log : Writer(i, a) => Key(key, i) < x
  PROVE  ValueAt(key, x, a, v)
  BY DEF Final, ValueAt

(* The value is the same between two places with no store in between.      *)
LEMMA ValueMoves ==
  ASSUME TypeOK, NEW key \in [Nat -> Nat], NEW x \in Nat, NEW y \in Nat, NEW a \in Addr, NEW v, ValueAt(key, x, a, v),
         \A i \in DOMAIN log : Writer(i, a) => Key(key, i) < x /\ Key(key, i) < y
  PROVE  ValueAt(key, y, a, v)
<1>1. \A i \in DOMAIN log : Key(key, i) \in Nat
  BY KeyTypes
<1>2. CASE v = InitVal /\ \A i \in DOMAIN log : Writer(i, a) => Key(key, i) >= x
  <2>1. \A i \in DOMAIN log : ~Writer(i, a)
    BY <1>1, <1>2
  <2>. QED BY <1>2, <2>1 DEF ValueAt
<1>3. CASE \E i \in DOMAIN log :
             /\ Writer(i, a) /\ log[i].id = v /\ Key(key, i) < x
             /\ \A j \in DOMAIN log : Writer(j, a) /\ Key(key, j) < x => Key(key, j) <= Key(key, i)
  BY <1>3 DEF ValueAt
<1>. QED BY <1>2, <1>3 DEF ValueAt
-----------------------------------------------------------------------------
(* What is out of reach of a thread stays so.                              *)
LEMMA BeyondMono ==
  ASSUME TypeOK, TypeOK', Durability, NEW t \in Thread, TxStep(t), Local(t), NEW u \in Thread, NEW l \in Lock,
         Beyond(u, l), u = t => rClock'[t] = rClock[t]
  PROVE  Beyond(u, l)'
<1>1. /\ phase = "up" /\ \A v \in Thread \ {t} : SameThread(v)
      /\ rClock[u] <= gClock /\ rClock[u] \in Nat /\ gClock \in Nat /\ lock[l].seq \in Nat /\ rClock[t] \in Nat
      /\ t # NoTid /\ u # NoTid /\ lock[l].owner \in Thread \cup {NoTid}
  BY UpFacts, Types, Lines DEF Local
<1>2. rClock'[u] = rClock[u]
  BY <1>1 DEF SameThread
<1>3. Ticked(t)' => (Ticked(t) /\ rClock'[t] = rClock[t]) \/ rClock'[t] = gClock + 1
  BY OwnPlace
<1>4. CASE lock'[l] = lock[l]
  <2>1. CASE lock[l].owner = NoTid
    BY <1>1, <1>2, <1>4, <2>1 DEF Beyond
  <2>2. CASE lock[l].owner = t
    <3>1. u # t /\ ~(Ticked(t) /\ rClock[t] <= rClock[u])
      BY <1>1, <2>2 DEF Beyond
    <3>2. ~(Ticked(t)' /\ rClock'[t] <= rClock'[u])
      <4>1. CASE Ticked(t) /\ rClock'[t] = rClock[t]
        BY <1>2, <3>1, <4>1
      <4>2. CASE rClock'[t] = gClock + 1
        BY <1>1, <1>2, <4>2
      <4>. QED BY <1>3, <4>1, <4>2
    <3>. QED BY <1>1, <1>4, <2>2, <3>1, <3>2 DEF Beyond, Ticked
  <2>3. CASE lock[l].owner \notin {NoTid, t}
    <3>0. PICK w \in Thread \ {t} : w = lock[l].owner
      BY <1>1, <2>3
    <3>1. w \notin {NoTid, u} /\ ~(Ticked(w) /\ rClock[w] <= rClock[u])
      BY <1>1, <2>3, <3>0 DEF Beyond
    <3>2. (Ticked(w)' <=> Ticked(w)) /\ rClock'[w] = rClock[w]
      BY <1>1 DEF SameThread, Ticked
    <3>3. lock'[l].owner = w /\ ~(Ticked(w)' /\ rClock'[w] <= rClock'[u])
      BY <1>2, <1>4, <3>0, <3>1, <3>2
    <3>. QED BY <3>1, <3>3 DEF Beyond, Ticked
  <2>. QED BY <2>1, <2>2, <2>3
<1>5. CASE Taken(t, l)
  <2>1. lock[l].owner = NoTid /\ lock[l].seq <= rClock[t] /\ pc[t] = "run" /\ lock'[l].owner = t
    BY <1>5 DEF Taken
  <2>2. u # t
    BY <1>1, <2>1 DEF Beyond
  <2>3. ~(Ticked(t)' /\ rClock'[t] <= rClock'[u])
    <3>1. ~Ticked(t)
      BY <2>1 DEF Ticked
    <3>. QED BY <1>1, <1>2, <1>3, <3>1
  <2>. QED BY <1>1, <2>1, <2>2, <2>3 DEF Beyond, Ticked
<1>6. CASE Unlocked(t, l)
  <2>1. lock[l].owner = t /\ Ticked(t) /\ lock'[l].owner = NoTid /\ lock'[l].seq = rClock[t]
    BY <1>6 DEF Unlocked, Free, Unlocking, Ticked
  <2>2. ~(rClock[t] <= rClock[u])
    BY <1>1, <2>1 DEF Beyond
  <2>. QED BY <1>1, <1>2, <2>1, <2>2 DEF Beyond
<1>. QED BY <1>4, <1>5, <1>6 DEF Local
-----------------------------------------------------------------------------
(* What a thread loads, and who sees it.                                   *)
LEMMA OneMore ==
  ASSUME NEW S, NEW s \in Seq(S), NEW w \in Seq(S), Len(w) = 1
  PROVE  \E n \in Nat : /\ DOMAIN s = 1 .. n /\ DOMAIN (s \o w) = 1 .. n + 1
                        /\ \A j \in 1 .. n : (s \o w)[j] = s[j]
                        /\ (s \o w)[n + 1] = w[1]
<1>0. /\ s \o w \in Seq(S) /\ Len(s \o w) = Len(s) + Len(w)
      /\ \A i \in 1 .. Len(s) + Len(w) : (s \o w)[i] = IF i <= Len(s) THEN s[i] ELSE w[i - Len(s)]
  BY ConcatProperties, Zenon
<1>1. PICK n \in Nat : n = Len(s)
  OBVIOUS
<1>2. (s \o w) \in Seq(S) /\ Len(s \o w) = n + 1 /\ DOMAIN s = 1 .. n
  BY <1>0, <1>1
<1>3. \A j \in 1 .. n + 1 : (s \o w)[j] = IF j <= n THEN s[j] ELSE w[j - n]
  BY <1>0, <1>1
<1>4. DOMAIN (s \o w) = 1 .. n + 1
  <2>. DEFINE z == s \o w
  <2>1. z \in Seq(S) /\ Len(z) = n + 1
    BY <1>2
  <2>. HIDE DEF z
  <2>. QED BY <2>1 DEF z
<1>5. (s \o w)[n + 1] = w[1]
  <2>1. n + 1 \in 1 .. n + 1 /\ ~(n + 1 <= n) /\ (n + 1) - n = 1
    OBVIOUS
  <2>. QED BY <1>3, <2>1
<1>6. \A j \in 1 .. n : (s \o w)[j] = s[j]
  <2>1. \A j \in 1 .. n : j \in 1 .. n + 1 /\ j <= n
    OBVIOUS
  <2>. QED BY <1>3, <2>1, Zenon
<1>. QED BY <1>2, <1>4, <1>5, <1>6, Zenon

LEMMA ReadTypes ==
  ASSUME TypeOK, NEW t \in Thread, NEW r \in call[t].reads
  PROVE  r[1] \in Addr /\ r[2] \in Nat /\ LockOf(r[1]) \in Lock /\ r = <<r[1], r[2]>>
  BY CallType, LockOfWord DEF Reads

LEMMA NotInLog ==
  ASSUME TypeOK, IdInv, NEW t \in Thread, Active(t), ~Done(t)
  PROVE  Id(t) \notin Ids /\ \A i \in DOMAIN log : log[i].id # Id(t)
  BY DEF IdInv, IdOf, Active, Ids

(* A word that t may still load was last stored before t in the order.     *)
LEMMA Below ==
  ASSUME TypeOK, IdInv, NEW key \in [Nat -> Nat], NEW now \in Nat, Serial(key, now), NEW t \in Thread, Trying(t),
         NEW a \in Addr, ~Beyond(t, LockOf(a)), NEW i \in DOMAIN log, Writer(i, a)
  PROVE  Key(key, i) < key[Id(t)]
<1>1. ~(Key(key, i) > key[Id(t)])
  BY DEF Serial, BeyondOf, Writer
<1>2. Key(key, i) # key[Id(t)]
  <2>1. Active(t) /\ ~Done(t)
    BY DEF Trying, Active, Done
  <2>2. log[i].id # Id(t) /\ log[i].id \in Ids
    BY <2>1, NotInLog, LogTypes
  <2>. QED BY <2>1, <2>2 DEF Serial, Keys, Key
<1>. QED BY <1>1, <1>2, KeyTypes

(* A check that passes: what t has loaded is the value at its place.       *)
LEMMA AccessValue ==
  ASSUME TypeOK, Durability, phase = "up", IdInv, NEW key \in [Nat -> Nat], NEW now \in Nat, Serial(key, now),
         NEW t \in Thread, Trying(t), NEW r \in call[t].reads, Accessible(t, LockOf(r[1]))
  PROVE  ValueAt(key, key[Id(t)], r[1], r[2])
<1>1. ReadOf(key, t) /\ r[1] \in Addr /\ t # NoTid /\ rClock[t] \in Nat /\ lock[LockOf(r[1])].seq \in Nat
  BY ReadTypes, Types, Lines DEF Serial
<1>2. CASE Holds(t, r[1])
  BY <1>1, <1>2 DEF ReadOf
<1>3. CASE ~Holds(t, r[1])
  <2>1. Owner(r[1]) = NoTid /\ lock[LockOf(r[1])].seq <= rClock[t]
    BY <1>3 DEF Accessible, Holds, Owner
  <2>2. ~Beyond(t, LockOf(r[1]))
    BY <1>1, <2>1 DEF Beyond, Owner
  <2>3. r[2] = region[r[1]]
    <3>1. r[2] = mem[r[1]]
      BY <1>1, <1>3, <2>2 DEF ReadOf
    <3>2. mem[r[1]] = region[r[1]]
      BY <1>1, <2>1 DEF Durability, UpInv, FreeInv
    <3>. QED BY <3>1, <3>2
  <2>4. Final(key, r[1], r[2])
    BY <1>1, <2>1, <2>3 DEF Serial, WordOf
  <2>5. \A i \in DOMAIN log : Writer(i, r[1]) => Key(key, i) < key[Id(t)]
    BY <1>1, <2>2, Below
  <2>. QED BY <1>1, <2>4, <2>5, FinalIsValue, KeyTypes
<1>. QED BY <1>2, <1>3

(* The steps of t in terms of what ReadOf and Sees are about.              *)
LoadsWord(t) ==
  /\ pc[t] = "run" /\ pc'[t] = "run" /\ AtOp(t, "load") /\ AtOp(t, "load")' /\ Word(t)' = Word(t) /\ Word(t) \in Addr
  /\ call'[t].reads = Reading(t, Word(t), mem[Word(t)])
  /\ lock' = lock /\ mem' = mem /\ readSet' = readSet /\ rClock' = rClock

ChecksLoad(t) ==
  /\ pc[t] = "run" /\ pc'[t] = "run" /\ AtOp(t, "load") /\ Word(t) \in Addr /\ Accessible(t, LockOf(Word(t)))
  /\ call'[t].reads = call[t].reads /\ lock' = lock /\ mem' = mem /\ rClock' = rClock
  /\ \A l \in Lock : InReadSet(t, l) => InReadSet(t, l)'
  /\ IsUpdate(call[t].prog) => \E j \in DOMAIN readSet'[t] : readSet'[t][j] = LockOf(Word(t))

TakesLock(t) ==
  /\ pc[t] = "run" /\ pc'[t] = "run" /\ ~AtOp(t, "load") /\ ~AtOp(t, "load")' /\ Word(t) \in Addr
  /\ Accessible(t, LockOf(Word(t)))
  /\ \/ lock' = lock
     \/ lock' = [lock EXCEPT ![LockOf(Word(t))] = [owner |-> t, seq |-> p_seq[t]]]
  /\ mem' = mem /\ call' = call /\ readSet' = readSet /\ rClock' = rClock

StoresWord(t) ==
  /\ pc[t] = "run" /\ pc'[t] = "run" /\ ~AtOp(t, "load") /\ Word(t) \in Addr /\ Holds(t, Word(t))
  /\ mem' = [mem EXCEPT ![Word(t)] = Id(t)]
  /\ call'[t].reads = call[t].reads /\ lock' = lock /\ readSet' = readSet /\ rClock' = rClock

StartsValidate(t) ==
  /\ pc[t] = "run" /\ pc'[t] = "validate" /\ k'[t] = 1 /\ AtEnd(t) /\ IsUpdate(call[t].prog)
  /\ call' = call /\ lock' = lock /\ mem' = mem /\ readSet' = readSet /\ rClock' = rClock

Validates(t) ==
  /\ pc[t] = "validate" /\ readSet[t] \in Seq(Lock) /\ k[t] \in Nat
  /\ \/ k[t] > Len(readSet[t]) /\ pc'[t] = "commit"
     \/ k[t] <= Len(readSet[t]) /\ Accessible(t, readSet[t][k[t]]) /\ pc'[t] = "validate" /\ k'[t] = k[t] + 1
  /\ call' = call /\ lock' = lock /\ mem' = mem /\ readSet' = readSet /\ rClock' = rClock

Commits(t) ==
  /\ pc[t] \in {"commit", "faa"} /\ pc'[t] \in {"faa", "sync"}
  /\ call' = call /\ lock' = lock

(* The steps of t by what they do to its attempt.                          *)
LEMMA OwnKinds ==
  ASSUME TypeOK, TypeOK', Durability, phase = "up", NEW t \in Thread, TxStep(t)
  PROVE  \/ ~Trying(t)' /\ ~Pending(t)'
         \/ BeginTL2(t) /\ call'[t].reads = {} /\ pc'[t] = "run" /\ lock' = lock
         \/ LoadsWord(t) \/ ChecksLoad(t) \/ TakesLock(t) \/ StoresWord(t)
         \/ EndTx(t) /\ StartsValidate(t)
         \/ Validates(t) \/ Commits(t)
<1>. USE DEF regionVars, txVars, histVars
<1>0. RunInv(t) /\ SeqInv(t) /\ MediumInv(t)
  BY UpFacts
<1>1. CASE LoadWord(t)
  <2>1. /\ AtOp(t, "load") /\ Word(t) \in Addr
        /\ call' = [call EXCEPT ![t].reads = Reading(t, Word(t), mem[Word(t)])]
    BY <1>1, LoadFacts
  <2>2. /\ call'[t].reads = Reading(t, Word(t), mem[Word(t)])
        /\ call'[t].prog = call[t].prog /\ call'[t].pos = call[t].pos
    <3>1. PICK x : x = Reading(t, Word(t), mem[Word(t)])
      OBVIOUS
    <3>2. call' = [call EXCEPT ![t].reads = x]
      BY <2>1, <3>1
    <3>3. call'[t] = [call[t] EXCEPT !.reads = x]
      BY <3>2 DEF TypeOK
    <3>4. \A c \in Calls : LET d == [c EXCEPT !.reads = x] IN d.reads = x /\ d.prog = c.prog /\ d.pos = c.pos
      BY DEF Calls
    <3>. QED BY <3>1, <3>3, <3>4, CallType
  <2>3. pc[t] = "run" /\ pc' = pc /\ lock' = lock /\ mem' = mem /\ readSet' = readSet /\ rClock' = rClock
    BY <1>1, <2>1 DEF LoadWord, Advance, AtOp
  <2>4. (AtOp(t, "load")' <=> AtOp(t, "load")) /\ Word(t)' = Word(t)
    BY <2>2, <2>3, SameOps
  <2>. QED BY <2>1, <2>2, <2>3, <2>4 DEF LoadsWord
<1>2. CASE CheckLoad(t)
  <2>1. /\ AtOp(t, "load") /\ Word(t) \in Addr /\ LockOf(Word(t)) \in Lock
        /\ LocksRead({Word(t)}) \in Seq(Lock) /\ Len(LocksRead({Word(t)})) = 1
        /\ LocksRead({Word(t)})[1] = LockOf(Word(t))
        /\ readSet' = IF IsUpdate(call[t].prog)
                      THEN [readSet EXCEPT ![t] = @ \o LocksRead({Word(t)})] ELSE readSet
        /\ IF Accessible(t, LockOf(Word(t)))
           THEN Goto(t, "run") /\ call' = [call EXCEPT ![t].pos = @ + 1]
           ELSE Goto(t, "abort") /\ UNCHANGED call
    BY <1>0, <1>2, CheckFacts
  <2>2. CASE Accessible(t, LockOf(Word(t)))
    <3>1. pc[t] = "run" /\ pc'[t] = "run" /\ lock' = lock /\ mem' = mem /\ rClock' = rClock
      BY <1>2, <2>1, <2>2 DEF CheckLoad, AtOp, Goto, TypeOK
    <3>2. call' = [call EXCEPT ![t].pos = call[t].pos + 1]
      BY <2>1, <2>2
    <3>3. call'[t].reads = call[t].reads
      BY <3>2, CallFields
    <3>4. /\ \A l \in Lock : InReadSet(t, l) => InReadSet(t, l)'
          /\ IsUpdate(call[t].prog) => \E j \in DOMAIN readSet'[t] : readSet'[t][j] = LockOf(Word(t))
      <4>1. CASE ~IsUpdate(call[t].prog)
        BY <2>1, <4>1 DEF InReadSet
      <4>2. CASE IsUpdate(call[t].prog)
        <5>. DEFINE new == LocksRead({Word(t)})
        <5>1. readSet'[t] = readSet[t] \o new /\ readSet[t] \in Seq(Lock) /\ new \in Seq(Lock) /\ Len(new) = 1
              /\ new[1] = LockOf(Word(t))
          BY <2>1, <4>2 DEF TypeOK
        <5>. HIDE DEF new
        <5>2. PICK n \in Nat :
                /\ DOMAIN readSet[t] = 1 .. n /\ DOMAIN readSet'[t] = 1 .. n + 1
                /\ \A j \in 1 .. n : readSet'[t][j] = readSet[t][j]
                /\ readSet'[t][n + 1] = new[1]
          <6>1. \E n \in Nat : /\ DOMAIN readSet[t] = 1 .. n /\ DOMAIN (readSet[t] \o new) = 1 .. n + 1
                               /\ \A j \in 1 .. n : (readSet[t] \o new)[j] = readSet[t][j]
                               /\ (readSet[t] \o new)[n + 1] = new[1]
            BY <5>1, OneMore
          <6>. QED BY <5>1, <6>1
        <5>3. n + 1 \in DOMAIN readSet'[t] /\ \A j \in DOMAIN readSet[t] : j \in DOMAIN readSet'[t]
          BY <5>2
        <5>4. \E j \in DOMAIN readSet'[t] : readSet'[t][j] = LockOf(Word(t))
          BY <5>1, <5>2, <5>3
        <5>5. \A l \in Lock : InReadSet(t, l) => InReadSet(t, l)'
          BY <5>2, <5>3 DEF InReadSet
        <5>. QED BY <5>4, <5>5
      <4>. QED BY <4>1, <4>2
    <3>. QED BY <2>1, <2>2, <3>1, <3>3, <3>4 DEF ChecksLoad
  <2>3. CASE ~Accessible(t, LockOf(Word(t)))
    BY <2>1, <2>3 DEF Goto, TypeOK, Trying, Pending, Placed
  <2>. QED BY <2>2, <2>3
<1>3. CASE TakeLockTL2(t)
  <2>1. /\ AtOp(t, "store") /\ Word(t) \in Addr /\ Accessible(t, LockOf(Word(t)))
        /\ \/ lock' = lock
           \/ lock' = [lock EXCEPT ![LockOf(Word(t))] = [owner |-> t, seq |-> p_seq[t]]]
    BY <1>3, TakeFacts
  <2>2. pc[t] = "run" /\ pc' = pc /\ mem' = mem /\ call' = call /\ readSet' = readSet /\ rClock' = rClock
    BY <1>3, <2>1 DEF TakeLockTL2, TakeLock, Advance, AtOp
  <2>3. ~AtOp(t, "load") /\ ~AtOp(t, "load")'
    BY <2>1, <2>2, SameOps DEF AtOp
  <2>. QED BY <2>1, <2>2, <2>3 DEF TakesLock
<1>4. CASE FailLockTL2(t)
  BY <1>4 DEF FailLockTL2, FailLock, Goto, TypeOK, Trying, Pending, Placed
<1>5. CASE StoreWordTL2(t)
  <2>1. /\ AtOp(t, "store") /\ Word(t) \in Addr /\ k[t] = 2
        /\ mem' = [mem EXCEPT ![Word(t)] = Id(t)]
        /\ Goto(t, "run") /\ call' = [call EXCEPT ![t].pos = call[t].pos + 1]
    BY <1>0, <1>5, StoreFacts
  <2>2. call'[t].reads = call[t].reads
    BY <2>1, CallFields
  <2>3. pc[t] = "run" /\ pc'[t] = "run" /\ lock' = lock /\ readSet' = readSet /\ rClock' = rClock
    BY <1>5, <2>1 DEF StoreWordTL2, StoreWord, Goto, TypeOK, AtOp
  <2>4. Holds(t, Word(t)) /\ ~AtOp(t, "load")
    BY <1>0, <2>1, <2>3 DEF RunInv, AtOp
  <2>. QED BY <2>1, <2>2, <2>3, <2>4 DEF StoresWord
<1>6. CASE BeginTL2(t)
  <2>. DEFINE c == [call[t] EXCEPT !.pos = 1]
  <2>1. c \in Calls
    BY CallType DEF Calls
  <2>2. [c EXCEPT !.reads = {}].reads = {}
    BY <2>1 DEF Calls
  <2>3. call'[t] = [c EXCEPT !.reads = {}]
    BY <1>6 DEF BeginTL2, BeginTx, TypeOK
  <2>4. pc'[t] = "run" /\ lock' = lock
    BY <1>6 DEF BeginTL2, BeginTx, Goto, TypeOK
  <2>. QED BY <1>6, <2>2, <2>3, <2>4
<1>7. CASE EndTx(t)
  <2>1. IsUpdate(call[t].prog)
    BY <1>0, <1>7 DEF EndTx, Finished, RunInv
  <2>. QED BY <1>7, <2>1 DEF EndTx, Finished, StartsValidate, Goto, TypeOK
<1>8. CASE Validate(t)
  <2>1. readSet[t] \in Seq(Lock) /\ k[t] \in Nat
    BY DEF TypeOK
  <2>2. CASE k[t] > Len(readSet[t])
    BY <1>8, <2>1, <2>2 DEF Validate, Validates, Goto, TypeOK
  <2>3. CASE ~(k[t] > Len(readSet[t])) /\ Accessible(t, readSet[t][k[t]])
    <3>1. k[t] <= Len(readSet[t])
      <4>1. Len(readSet[t]) \in Nat
        BY <2>1
      <4>. QED BY <2>1, <2>3, <4>1
    <3>2. Advance(t)
      BY <1>8, <2>3 DEF Validate
    <3>. QED BY <1>8, <2>1, <2>3, <3>1, <3>2 DEF Validate, Validates, Advance, TypeOK
  <2>4. CASE ~(k[t] > Len(readSet[t])) /\ ~Accessible(t, readSet[t][k[t]])
    BY <1>8, <2>4 DEF Validate, Goto, TypeOK, Trying, Pending, Placed
  <2>. QED BY <2>2, <2>3, <2>4
<1>9. CASE CommitFlush(t) \/ CommitTick(t)
  BY <1>9 DEF CommitFlush, CommitTick, Commits, Goto, TypeOK
<1>10. CASE CommitSync(t)
  BY <1>10 DEF CommitSync, Goto, TypeOK, Trying, Pending, Done
<1>11. CASE Abort(t) \/ AbortTick(t) \/ AbortSync(t)
  BY <1>11 DEF Abort, AbortTick, AbortSync, Goto, Advance, TypeOK, Trying, Pending, Placed
<1>12. CASE CallTL2(t) \/ EndReadOnly(t) \/ Return(t) \/ Retry(t) \/ Unlock(t)
  BY <1>12 DEF CallTL2, Call, EndReadOnly, Return, Retry, Unlock, Goto, TypeOK, Trying, Pending, Placed, Done
<1>. QED BY <1>1, <1>2, <1>3, <1>4, <1>5, <1>6, <1>7, <1>8, <1>9, <1>10, <1>11, <1>12 DEF TxStep, Concurrency

(* A word comes to be seen by t only when its lock is accessible.          *)
LEMMA OwnSees ==
  ASSUME TypeOK, TypeOK', Durability, phase = "up", NEW key, NEW t \in Thread, ReadOf(key, t), TxStep(t),
         NEW a \in Addr, Sees(t, a)'
  PROVE  ~BeginTL2(t) /\ ~EndTx(t) /\ (Sees(t, a) \/ (Trying(t) /\ Accessible(t, LockOf(a))))
<1>0. /\ BeginTL2(t) => pc[t] = "begin"
      /\ EndTx(t) => pc[t] = "run" /\ pc'[t] = "validate"
  BY DEF BeginTL2, BeginTx, EndTx, Finished, Goto, TypeOK
<1>1. Confirmed(t, a)' /\ \E r \in call'[t].reads : r[1] = a
  BY DEF Sees, HasRead
<1>2. CASE ~Trying(t)' /\ ~Pending(t)'
  BY <1>1, <1>2 DEF Confirmed
<1>3. CASE BeginTL2(t) /\ call'[t].reads = {}
  BY <1>1, <1>3
<1>4. CASE LoadsWord(t)
  <2>1. a # Word(t) /\ ~InLoad(t, a)
    BY <1>1, <1>4 DEF LoadsWord, Confirmed, InLoad
  <2>2. HasRead(call[t].reads, a)
    BY <1>1, <1>4, <2>1 DEF LoadsWord, Reading, HasRead
  <2>. QED BY <1>0, <1>4, <2>1, <2>2 DEF LoadsWord, Sees, Confirmed, Trying
<1>5. CASE ChecksLoad(t)
  <2>1. HasRead(call[t].reads, a) /\ pc[t] = "run" /\ pc'[t] = "run"
    BY <1>1, <1>5 DEF ChecksLoad, HasRead
  <2>2. InLoad(t, a) => Accessible(t, LockOf(a))
    BY <1>5 DEF ChecksLoad, InLoad
  <2>. QED BY <1>0, <2>1, <2>2 DEF Sees, Confirmed, Trying
<1>6. CASE TakesLock(t) \/ StoresWord(t)
  <2>1. HasRead(call[t].reads, a) /\ pc[t] = "run" /\ pc'[t] = "run" /\ ~InLoad(t, a)
    BY <1>1, <1>6 DEF TakesLock, StoresWord, HasRead, InLoad
  <2>. QED BY <1>0, <2>1 DEF Sees, Confirmed, Trying
<1>7. CASE StartsValidate(t)
  <2>1. pc'[t] = "validate" /\ k'[t] = 1 /\ readSet'[t] \in Seq(Lock)
    BY <1>7 DEF StartsValidate, TypeOK
  <2>2. PICK j \in DOMAIN readSet'[t] : j < 1
    BY <1>1, <2>1 DEF Confirmed
  <2>. QED BY <2>1, <2>2
<1>8. CASE Validates(t)
  <2>1. pc[t] = "validate" /\ HasRead(call[t].reads, a) /\ readSet[t] \in Seq(Lock) /\ k[t] \in Nat
    BY <1>1, <1>8 DEF Validates, HasRead
  <2>2. PICK j \in DOMAIN readSet[t] : readSet[t][j] = LockOf(a) /\ (j < k[t] \/ (j = k[t] /\ Accessible(t, LockOf(a))))
    <3>1. CASE pc'[t] = "commit"
      <4>1. k[t] > Len(readSet[t]) /\ \A j \in DOMAIN readSet[t] : j <= Len(readSet[t]) /\ j \in Nat
        BY <1>8, <2>1, <3>1 DEF Validates
      <4>2. InReadSet(t, LockOf(a))
        BY <2>1 DEF ReadOf, HasRead
      <4>3. \A j \in DOMAIN readSet[t] : j < k[t]
        <5>1. Len(readSet[t]) \in Nat
          BY <2>1
        <5>. QED BY <2>1, <4>1, <5>1
      <4>. QED BY <4>2, <4>3 DEF InReadSet
    <3>2. CASE pc'[t] = "validate"
      <4>1. /\ Accessible(t, readSet[t][k[t]]) /\ k'[t] = k[t] + 1 /\ readSet' = readSet
        BY <1>8, <3>2 DEF Validates
      <4>2. PICK j \in DOMAIN readSet[t] : j < k[t] + 1 /\ readSet[t][j] = LockOf(a)
        BY <1>1, <3>2, <4>1 DEF Confirmed
      <4>3. j \in Nat
        BY <2>1, <4>2
      <4>. QED BY <2>1, <4>1, <4>2, <4>3
    <3>. QED BY <1>8, <3>1, <3>2 DEF Validates
  <2>. QED BY <1>0, <2>1, <2>2 DEF Sees, Confirmed, Trying
<1>9. CASE Commits(t)
  <2>1. HasRead(call[t].reads, a) /\ pc[t] \in {"commit", "faa"}
    BY <1>1, <1>9 DEF Commits, HasRead
  <2>. QED BY <1>0, <2>1 DEF Sees, Confirmed, Pending, Placed, Done
<1>. QED BY <1>2, <1>3, <1>4, <1>5, <1>6, <1>7, <1>8, <1>9, OwnKinds

(* A step of t keeps what it has read right, under its new key, too.       *)
LEMMA OwnReads ==
  ASSUME TypeOK, TypeOK', Durability, phase = "up", OneLockPerWord, IdInv,
         NEW key \in [Nat -> Nat], NEW now \in Nat, Serial(key, now),
         NEW t \in Thread, TxStep(t), Local(t), NEW key2 \in [Nat -> Nat], SameKeys(key, key2),
         EndTx(t) => key2[Id(t)] > now, ~EndTx(t) /\ ~BeginTL2(t) => key2[Id(t)] = key[Id(t)]
  PROVE  ReadOf(key2, t)'
<1>1. CASE ~Trying(t)' /\ ~Pending(t)'
  BY <1>1 DEF ReadOf, Trying, Confirmed
<1>2. CASE BeginTL2(t) /\ call'[t].reads = {}
  BY <1>2 DEF ReadOf
<1>3. ASSUME LoadsWord(t) \/ ChecksLoad(t) \/ TakesLock(t) \/ StoresWord(t) \/ (EndTx(t) /\ StartsValidate(t))
             \/ Validates(t) \/ Commits(t)
      PROVE  ReadOf(key2, t)'
  <2>1. ~BeginTL2(t) /\ ~CallTL2(t) /\ ~EndReadOnly(t)
    BY <1>3 DEF BeginTL2, BeginTx, CallTL2, Call, EndReadOnly, Finished, Goto, TypeOK, LoadsWord, ChecksLoad, TakesLock,
                StoresWord, StartsValidate, Validates, Commits
  <2>2. log' = log /\ Id(t)' = Id(t) /\ call'[t].prog = call[t].prog
    BY <2>1, OwnLog
  <2>3. PICK x \in Nat, x2 \in Nat : x = key[Id(t)] /\ x2 = key2[Id(t)]
    BY KeyTypes
  <2>4. (EndTx(t) => x2 > now) /\ (~EndTx(t) => x2 = x) /\ x <= now
    <3>1. Active(t)
      BY <1>3 DEF Active, LoadsWord, ChecksLoad, TakesLock, StoresWord, StartsValidate, Validates, Commits
    <3>. QED BY <2>1, <2>3, <3>1 DEF Serial, Keys
  <2>5. \A y \in Nat, a \in Addr, v \in Nat : ValueAt(key, y, a, v) => ValueAt(key2, y, a, v)'
    BY <2>2, ValueFrame DEF LogAdds
  <2>6. ReadOf(key, t) /\ WriteInv(t)
    BY UpFacts DEF Serial
  <2>7. \A r \in call[t].reads : Trying(t) /\ Accessible(t, LockOf(r[1])) => ValueAt(key, x, r[1], r[2])
    BY <2>3, AccessValue
  <2>8. \A l \in Lock : Beyond(t, l) /\ Trying(t)' => Beyond(t, l)'
    <3>1. Trying(t)' => rClock'[t] = rClock[t]
      BY <2>1, OwnPlace
    <3>. QED BY <3>1, BeyondMono
  <2>9. ASSUME NEW r \in call[t].reads
        PROVE  /\ r[1] \in Addr /\ r[2] \in Nat /\ LockOf(r[1]) \in Lock
               /\ Trying(t) /\ ~Beyond(t, LockOf(r[1])) /\ ~Holds(t, r[1]) => r[2] = mem[r[1]]
               /\ Trying(t) /\ Holds(t, r[1]) => ValueAt(key, x, r[1], r[2])
               /\ Confirmed(t, r[1]) => ValueAt(key, x, r[1], r[2])
               /\ pc[t] = "run" /\ IsUpdate(call[t].prog) /\ Confirmed(t, r[1]) => InReadSet(t, LockOf(r[1]))
               /\ pc[t] = "validate" => InReadSet(t, LockOf(r[1]))
    BY <2>3, <2>6, ReadTypes DEF ReadOf
  <2>10. SUFFICES ASSUME NEW r \in call'[t].reads
                  PROVE  /\ Trying(t)' /\ ~Beyond(t, LockOf(r[1]))' /\ ~Holds(t, r[1])' => r[2] = mem'[r[1]]
                         /\ Trying(t)' /\ Holds(t, r[1])' => ValueAt(key2, x2, r[1], r[2])'
                         /\ Confirmed(t, r[1])' => ValueAt(key2, x2, r[1], r[2])'
                         /\ pc'[t] = "run" /\ IsUpdate(call[t].prog) /\ Confirmed(t, r[1])' => InReadSet(t, LockOf(r[1]))'
                         /\ pc'[t] = "validate" => InReadSet(t, LockOf(r[1]))'
    <3>. HIDE DEF LoadsWord
    <3>. QED BY <2>2, <2>3 DEF ReadOf, Id
  <2>11. CASE LoadsWord(t)
    <3>0. x2 = x /\ lock' = lock /\ mem' = mem /\ readSet' = readSet /\ Trying(t) /\ pc[t] = "run" /\ pc'[t] = "run"
          /\ Word(t)' = Word(t) /\ AtOp(t, "load") /\ AtOp(t, "load")' /\ Word(t) \in Addr
      BY <2>4, <2>11 DEF LoadsWord, EndTx, Goto, TypeOK, Trying
    <3>1. (Holds(t, r[1])' <=> Holds(t, r[1])) /\ (InReadSet(t, LockOf(r[1]))' <=> InReadSet(t, LockOf(r[1])))
      BY <3>0 DEF Holds, Owner, InReadSet
    <3>2. CASE r \in call[t].reads
      <4>1. Confirmed(t, r[1])' => Confirmed(t, r[1])
        BY <3>0 DEF Confirmed, InLoad, Trying
      <4>. QED BY <2>5, <2>8, <2>9, <3>0, <3>1, <3>2, <4>1
    <3>3. CASE r \notin call[t].reads
      <4>1. r = <<Word(t), mem[Word(t)]>> /\ mem[Word(t)] # Id(t)
        BY <2>11, <3>3 DEF LoadsWord, Reading, Id
      <4>2. r[1] = Word(t) /\ r[2] = mem[Word(t)]
        BY <4>1
      <4>3. ~Holds(t, Word(t))
        BY <2>6, <3>0, <4>1 DEF WriteInv, InStore, AtOp
      <4>4. ~Confirmed(t, r[1])'
        BY <3>0, <4>2 DEF Confirmed, InLoad
      <4>. QED BY <3>0, <3>1, <4>2, <4>3, <4>4
    <3>. QED BY <3>2, <3>3
  <2>12. CASE ChecksLoad(t)
    <3>0. x2 = x /\ lock' = lock /\ mem' = mem /\ Trying(t) /\ pc[t] = "run" /\ pc'[t] = "run"
          /\ r \in call[t].reads /\ AtOp(t, "load") /\ Word(t) \in Addr /\ Accessible(t, LockOf(Word(t)))
      BY <2>4, <2>12 DEF ChecksLoad, EndTx, Goto, TypeOK, Trying
    <3>1. Holds(t, r[1])' <=> Holds(t, r[1])
      BY <3>0 DEF Holds, Owner
    <3>2. CASE r[1] = Word(t)
      <4>1. ValueAt(key, x, r[1], r[2])
        BY <2>7, <3>0, <3>2
      <4>2. IsUpdate(call[t].prog) => InReadSet(t, LockOf(r[1]))'
        BY <2>12, <3>2 DEF ChecksLoad, InReadSet
      <4>. QED BY <2>5, <2>8, <2>9, <3>0, <3>1, <4>1, <4>2
    <3>3. CASE r[1] # Word(t)
      <4>1. Confirmed(t, r[1])
        BY <3>0, <3>3 DEF Confirmed, InLoad
      <4>2. InReadSet(t, LockOf(r[1])) => InReadSet(t, LockOf(r[1]))'
        BY <2>9, <2>12, <3>0 DEF ChecksLoad
      <4>. QED BY <2>5, <2>8, <2>9, <3>0, <3>1, <4>1, <4>2
    <3>. QED BY <3>2, <3>3
  <2>13. CASE TakesLock(t)
    <3>0. x2 = x /\ mem' = mem /\ Trying(t) /\ pc[t] = "run" /\ pc'[t] = "run" /\ readSet' = readSet
          /\ r \in call[t].reads /\ ~AtOp(t, "load") /\ ~AtOp(t, "load")' /\ Word(t) \in Addr
          /\ Accessible(t, LockOf(Word(t))) /\ call' = call
      BY <2>4, <2>13 DEF TakesLock, EndTx, Goto, TypeOK, Trying
    <3>1. (InReadSet(t, LockOf(r[1]))' <=> InReadSet(t, LockOf(r[1]))) /\ (Confirmed(t, r[1])' <=> Confirmed(t, r[1]))
      BY <3>0 DEF InReadSet, Confirmed, InLoad, Trying
    <3>2. /\ Holds(t, r[1]) => Holds(t, r[1])'
          /\ Holds(t, r[1])' => Holds(t, r[1]) \/ r[1] = Word(t)
      <4>0. r[1] \in Addr /\ LockOf(r[1]) \in Lock /\ (r[1] # Word(t) => LockOf(r[1]) # LockOf(Word(t)))
        BY <2>9, <3>0 DEF OneLockPerWord
      <4>1. CASE lock' = lock
        BY <4>1 DEF Holds, Owner
      <4>2. CASE lock' = [lock EXCEPT ![LockOf(Word(t))] = [owner |-> t, seq |-> p_seq[t]]]
        <5>1. CASE r[1] = Word(t)
          BY <4>0, <4>2, <5>1 DEF Holds, Owner, TypeOK
        <5>2. CASE r[1] # Word(t)
          BY <4>0, <4>2, <5>2 DEF Holds, Owner, TypeOK
        <5>. QED BY <5>1, <5>2
      <4>. QED BY <2>13, <4>1, <4>2 DEF TakesLock
    <3>3. r[1] = Word(t) => ValueAt(key, x, r[1], r[2])
      BY <2>7, <3>0
    <3>. QED BY <2>5, <2>8, <2>9, <3>0, <3>1, <3>2, <3>3
  <2>14. CASE StoresWord(t)
    <3>0. x2 = x /\ lock' = lock /\ Trying(t) /\ pc[t] = "run" /\ pc'[t] = "run" /\ readSet' = readSet
          /\ r \in call[t].reads /\ ~AtOp(t, "load") /\ Word(t) \in Addr /\ Holds(t, Word(t))
          /\ mem' = [mem EXCEPT ![Word(t)] = Id(t)]
      BY <2>4, <2>14 DEF StoresWord, EndTx, Goto, TypeOK, Trying
    <3>1. (InReadSet(t, LockOf(r[1]))' <=> InReadSet(t, LockOf(r[1]))) /\ Confirmed(t, r[1])
      BY <3>0 DEF InReadSet, Confirmed, InLoad, Trying
    <3>2. (Holds(t, r[1])' <=> Holds(t, r[1])) /\ (~Holds(t, r[1]) => mem'[r[1]] = mem[r[1]])
      BY <2>9, <3>0 DEF Holds, Owner, TypeOK
    <3>. QED BY <2>5, <2>8, <2>9, <3>0, <3>1, <3>2
  <2>15. CASE EndTx(t) /\ StartsValidate(t)
    <3>0. /\ x2 > now /\ lock' = lock /\ mem' = mem /\ Trying(t) /\ pc[t] = "run" /\ pc'[t] = "validate"
          /\ readSet' = readSet /\ r \in call[t].reads /\ AtEnd(t) /\ IsUpdate(call[t].prog) /\ k'[t] = 1
      BY <2>4, <2>15 DEF StartsValidate, Trying
    <3>1. (InReadSet(t, LockOf(r[1]))' <=> InReadSet(t, LockOf(r[1]))) /\ (Holds(t, r[1])' <=> Holds(t, r[1]))
      BY <3>0 DEF InReadSet, Holds, Owner
    <3>2. Confirmed(t, r[1])
      BY <3>0 DEF Confirmed, InLoad, AtOp, Trying
    <3>3. ~Confirmed(t, r[1])'
      <4>1. \A j \in DOMAIN readSet[t] : j \in Nat /\ ~(j < 1)
        <5>1. readSet[t] \in Seq(Lock)
          BY DEF TypeOK
        <5>2. DOMAIN readSet[t] = 1 .. Len(readSet[t]) /\ Len(readSet[t]) \in Nat
          BY <5>1, LenProperties
        <5>3. PICK n \in Nat : n = Len(readSet[t])
          BY <5>2
        <5>4. \A j \in 1 .. n : j \in Nat /\ ~(j < 1)
          OBVIOUS
        <5>. QED BY <5>2, <5>3, <5>4
      <4>. QED BY <3>0, <4>1 DEF Confirmed
    <3>4. Holds(t, r[1]) => ValueAt(key2, x2, r[1], r[2])'
      <4>1. SUFFICES ASSUME Holds(t, r[1]) PROVE ValueAt(key2, x2, r[1], r[2])'
        OBVIOUS
      <4>2. ValueAt(key, x, r[1], r[2]) /\ r[1] \in Addr /\ r[2] \in Nat
        BY <2>9, <3>0, <4>1
      <4>3. ~Beyond(t, LockOf(r[1]))
        BY <4>1, Lines DEF Beyond, Holds, Owner
      <4>4. \A i \in DOMAIN log : Writer(i, r[1]) => Key(key, i) < x /\ Key(key, i) < x2
        <5>1. \A i \in DOMAIN log : Writer(i, r[1]) => Key(key, i) < x /\ Key(key, i) \in Nat
          BY <2>3, <3>0, <4>2, <4>3, Below, KeyTypes
        <5>. QED BY <2>4, <3>0, <5>1
      <4>5. ValueAt(key, x2, r[1], r[2])
        BY <4>2, <4>4, ValueMoves
      <4>. QED BY <2>5, <4>2, <4>5
    <3>. QED BY <2>8, <2>9, <3>0, <3>1, <3>2, <3>3, <3>4
  <2>16. CASE Validates(t)
    <3>0. x2 = x /\ lock' = lock /\ mem' = mem /\ Trying(t) /\ pc[t] = "validate" /\ readSet' = readSet /\ call' = call
          /\ pc'[t] \in {"validate", "commit"}
      BY <2>4, <2>16 DEF Validates, EndTx, Finished, Trying
    <3>1. (InReadSet(t, LockOf(r[1]))' <=> InReadSet(t, LockOf(r[1]))) /\ (Holds(t, r[1])' <=> Holds(t, r[1]))
          /\ r \in call[t].reads
      BY <3>0 DEF InReadSet, Holds, Owner
    <3>2. Confirmed(t, r[1])' => ValueAt(key, x, r[1], r[2])
      <4>1. SUFFICES ASSUME Confirmed(t, r[1])' PROVE ValueAt(key, x, r[1], r[2])
        OBVIOUS
      <4>2. Sees(t, r[1])' /\ r[1] \in Addr
        BY <2>9, <3>0, <3>1, <4>1 DEF Sees, HasRead
      <4>3. Sees(t, r[1]) \/ (Trying(t) /\ Accessible(t, LockOf(r[1])))
        BY <2>6, <4>2, OwnSees
      <4>. QED BY <2>7, <2>9, <3>1, <4>3 DEF Sees
    <3>. QED BY <2>5, <2>8, <2>9, <3>0, <3>1, <3>2
  <2>17. CASE Commits(t)
    <3>0. x2 = x /\ call' = call /\ pc[t] \in {"commit", "faa"} /\ pc'[t] \in {"faa", "sync"} /\ r \in call[t].reads
      BY <2>4, <2>17 DEF Commits, EndTx, Finished
    <3>1. Confirmed(t, r[1]) /\ ~Trying(t)' /\ pc'[t] # "run" /\ pc'[t] # "validate"
      BY <3>0 DEF Confirmed, Pending, Placed, Done, Trying
    <3>. QED BY <2>5, <2>9, <3>0, <3>1
  <2>. QED BY <1>3, <2>11, <2>12, <2>13, <2>14, <2>15, <2>16, <2>17
<1>. QED BY <1>1, <1>2, <1>3, OwnKinds
-----------------------------------------------------------------------------
(* The serial order after a step of a thread.  An attempt that begins and  *)
(* one that starts to validate get a key above all others.                 *)
NewKey(key, now, t) == IF BeginTL2(t) \/ EndTx(t) THEN [key EXCEPT ![Id(t)] = now + 1] ELSE key
NewNow(now, t)      == IF BeginTL2(t) \/ EndTx(t) THEN now + 1 ELSE now

(* The key that beginTx() and the start of validation give.                *)
LEMMA NewKeyFacts ==
  ASSUME TypeOK, TypeOK', Durability, IdInv, NEW key \in [Nat -> Nat], NEW now \in Nat, Serial(key, now),
         NEW t \in Thread, TxStep(t), NEW key2, key2 = NewKey(key, now, t)
  PROVE  /\ key2 \in [Nat -> Nat] /\ SameKeys(key, key2)
         /\ \A u \in Thread \ {t} : pc[u] # "idle" => key2[Id(u)] = key[Id(u)]
         /\ BeginTL2(t) \/ EndTx(t) => key2[Id(t)] = now + 1 /\ pc[t] # "idle" /\ ~Done(t)
         /\ ~BeginTL2(t) /\ ~EndTx(t) => key2 = key
<1>1. BeginTL2(t) \/ EndTx(t) => pc[t] # "idle" /\ ~Done(t)
  BY DEF BeginTL2, BeginTx, EndTx, Finished, Done
<1>2. Id(t) \in Nat
  BY Types
<1>3. CASE BeginTL2(t) \/ EndTx(t)
  <2>1. key2 = [key EXCEPT ![Id(t)] = now + 1]
    BY <1>3 DEF NewKey
  <2>2. key2 \in [Nat -> Nat] /\ key2[Id(t)] = now + 1 /\ \A y \in Nat : y # Id(t) => key2[y] = key[y]
    BY <1>2, <2>1
  <2>3. SameKeys(key, key2)
    <3>1. Id(t) \notin Ids /\ Ids \subseteq Nat
      BY <1>1, <1>3, LogTypes DEF IdInv, IdOf, Ids
    <3>. QED BY <2>2, <3>1 DEF SameKeys
  <2>4. ASSUME NEW u \in Thread \ {t}, pc[u] # "idle" PROVE key2[Id(u)] = key[Id(u)]
    <3>1. Id(u) # Id(t) /\ Id(u) \in Nat
      BY <1>1, <1>3, <2>4, Types DEF IdInv, IdOf
    <3>. QED BY <2>2, <3>1
  <2>. QED BY <1>1, <1>3, <2>2, <2>3, <2>4
<1>4. CASE ~BeginTL2(t) /\ ~EndTx(t)
  BY <1>4 DEF NewKey, SameKeys
<1>. QED BY <1>3, <1>4

(* What the log gains.                                                     *)
LEMMA TxLog ==
  ASSUME TypeOK, TypeOK', Durability, NEW t \in Thread, TxStep(t)
  PROVE  /\ \A a \in Addr : LogKeeps(a)
         /\ \A key, x, a : a \in Addr => LogAdds(key, x, a)
         /\ \/ log' = log
            \/ \E n \in Nat :
                 /\ EndReadOnly(t) /\ ~CallTL2(t) /\ ~BeginTL2(t) /\ ~EndTx(t) /\ pc[t] = "run" /\ pc'[t] = "idle" /\ AtEnd(t)
                 /\ n \notin DOMAIN log /\ DOMAIN log' = DOMAIN log \cup {n} /\ Ids' = Ids \cup {Id(t)}
                 /\ \A i \in DOMAIN log : log'[i] = log[i]
                 /\ log'[n].id = Id(t) /\ log'[n].reads = call[t].reads /\ log'[n].writes = {}
                 /\ log'[n].after = call[t].after
<1>1. CASE EndReadOnly(t)
  <2>1. log' = Append(log, Effect(t, {})) /\ Effect(t, {}) \in Effects /\ pc'[t] = "idle" /\ pc[t] = "run" /\ AtEnd(t)
    BY <1>1, OwnLog DEF Finished
  <2>2. /\ Effect(t, {}).id = Id(t) /\ Effect(t, {}).reads = call[t].reads /\ Effect(t, {}).writes = {}
        /\ Effect(t, {}).after = call[t].after
    BY DEF Effect, Id
  <2>3. ~BeginTL2(t) /\ ~EndTx(t) /\ ~CallTL2(t)
    BY <2>1 DEF BeginTL2, BeginTx, EndTx, Goto, TypeOK, CallTL2, Call
  <2>4. PICK n \in Nat :
          /\ n \notin DOMAIN log /\ DOMAIN log' = DOMAIN log \cup {n} /\ log'[n] = Effect(t, {})
          /\ \A i \in DOMAIN log : log'[i] = log[i]
    BY <2>1, LogIndex
  <2>5. Ids' = Ids \cup {Id(t)}
    BY <2>1, <2>2, LogGrows
  <2>6. (\A a \in Addr : LogKeeps(a)) /\ \A key, x, a : a \in Addr => LogAdds(key, x, a)
    BY <2>1, <2>2 DEF LogKeeps, LogAdds
  <2>. QED BY <1>1, <2>1, <2>2, <2>3, <2>4, <2>5, <2>6
<1>2. CASE ~EndReadOnly(t)
  <2>1. log' = log
    BY <1>2, OwnLog
  <2>. QED BY <2>1 DEF LogKeeps, LogAdds
<1>. QED BY <1>1, <1>2

(* Keys stay distinct, and above those of whom t comes after.              *)
LEMMA KeysTx ==
  ASSUME TypeOK, TypeOK', Durability, IdInv, IdInv', NEW key \in [Nat -> Nat], NEW now \in Nat, Serial(key, now),
         NEW t \in Thread, TxStep(t), Local(t), NEW key2, key2 = NewKey(key, now, t), NEW now2, now2 = NewNow(now, t)
  PROVE  Keys(key2, now2)'
<1>1. /\ key2 \in [Nat -> Nat] /\ SameKeys(key, key2) /\ Keys(key, now)
      /\ \A u \in Thread \ {t} : pc[u] # "idle" => key2[Id(u)] = key[Id(u)]
      /\ BeginTL2(t) \/ EndTx(t) => key2[Id(t)] = now + 1 /\ pc[t] # "idle" /\ ~Done(t)
      /\ ~BeginTL2(t) /\ ~EndTx(t) => key2 = key
  BY NewKeyFacts DEF Serial
<1>2. \A u \in Thread : /\ IdOf(u) /\ Id(u) \in Nat /\ key2[Id(u)] \in Nat /\ key[Id(u)] \in Nat
                        /\ call[u].after \subseteq Ids
  BY <1>1, Types DEF IdInv, IdOf
<1>3. \A x \in Ids : key2[x] = key[x] /\ key[x] <= now /\ key[x] \in Nat /\ x \in Nat
  <2>1. Ids \subseteq Nat
    BY LogTypes DEF Ids
  <2>. QED BY <1>1, <2>1 DEF Keys, SameKeys
<1>4. \A u \in Thread \ {t} : pc'[u] = pc[u] /\ Id(u)' = Id(u) /\ call'[u].after = call[u].after
  BY OthersFrame DEF SameThread
<1>5. Active(t)' => ~CallTL2(t) /\ ~EndReadOnly(t)
  BY OwnLog DEF Active
<1>6. Active(t)' => /\ Id(t)' = Id(t) /\ call'[t].after = call[t].after /\ pc[t] # "idle"
                    /\ (Active(t) \/ BeginTL2(t))
  BY <1>5, OwnLog, OwnPlace
<1>7. ASSUME NEW u \in Thread, Active(u)'
      PROVE  /\ Id(u)' = Id(u) /\ call'[u].after = call[u].after /\ pc[u] # "idle"
             /\ u # t \/ ~BeginTL2(t) => Active(u)
  BY <1>4, <1>6, <1>7 DEF Active
<1>8. \A u \in Thread : Active(u) =>
        /\ key[Id(u)] <= now
        /\ \A x \in Ids : key[x] = key[Id(u)] => x = Id(u)
        /\ \A v \in Thread : Active(v) /\ key[Id(v)] = key[Id(u)] => v = u
        /\ \A x \in call[u].after : key[x] < key[Id(u)]
  BY <1>1 DEF Keys
<1>9. CASE BeginTL2(t) \/ EndTx(t)
  <2>1. Ids' = Ids /\ now2 = now + 1 /\ key2[Id(t)] = now + 1
    <3>1. log' = log
      BY <1>9, TxLog
    <3>. QED BY <1>1, <1>9, <3>1 DEF Ids, NewNow
  <2>2. \A x \in Ids' : key2[x] <= now2
    BY <1>3, <2>1
  <2>3. \A x, y \in Ids' : key2[x] = key2[y] => x = y
    BY <1>1, <1>3, <2>1 DEF Keys
  <2>4. ASSUME NEW u \in Thread, Active(u)'
        PROVE  /\ key2[Id(u)] <= now2
               /\ \A x \in Ids' : key2[x] = key2[Id(u)] => x = Id(u)
               /\ \A v \in Thread : Active(v)' /\ key2[Id(v)] = key2[Id(u)] => v = u
               /\ \A x \in call[u].after : key2[x] < key2[Id(u)]
    <3>1. \A v \in Thread \ {t} : Active(v)' => key2[Id(v)] = key[Id(v)] /\ key[Id(v)] <= now /\ Active(v)
      BY <1>1, <1>7, <1>8
    <3>2. CASE u = t
      <4>1. \A v \in Thread : Active(v)' /\ key2[Id(v)] = key2[Id(u)] => v = u
        BY <1>2, <2>1, <3>1, <3>2
      <4>. QED BY <1>2, <1>3, <2>1, <3>2, <4>1
    <3>3. CASE u # t
      <4>1. key2[Id(u)] = key[Id(u)] /\ key[Id(u)] <= now /\ Active(u)
        BY <2>4, <3>1, <3>3
      <4>2. \A v \in Thread : Active(v)' /\ key2[Id(v)] = key2[Id(u)] => v = u
        <5>1. ASSUME NEW v \in Thread, Active(v)', key2[Id(v)] = key2[Id(u)] PROVE v = u
          <6>1. v # t
            BY <1>2, <2>1, <4>1, <5>1
          <6>. QED BY <1>8, <3>1, <4>1, <5>1, <6>1
        <5>. QED BY <5>1
      <4>3. \A x \in call[u].after : key2[x] < key2[Id(u)]
        BY <1>2, <1>3, <1>8, <4>1
      <4>. QED BY <1>2, <1>3, <1>8, <2>1, <4>1, <4>2, <4>3
    <3>. QED BY <3>2, <3>3
  <2>. QED BY <1>7, <2>2, <2>3, <2>4 DEF Keys
<1>10. CASE ~BeginTL2(t) /\ ~EndTx(t)
  <2>1. key2 = key /\ now2 = now /\ \A u \in Thread : Active(u)' => Active(u)
    BY <1>1, <1>7, <1>10 DEF NewNow
  <2>2. Ids' = Ids \/ (Ids' = Ids \cup {Id(t)} /\ Active(t) /\ ~Active(t)')
    <3>1. CASE log' = log
      BY <3>1 DEF Ids
    <3>2. CASE pc[t] = "run" /\ pc'[t] = "idle" /\ Ids' = Ids \cup {Id(t)}
      BY <3>2 DEF Active
    <3>. QED BY <3>1, <3>2, TxLog
  <2>3. \A x \in Ids' : key2[x] <= now2
    BY <1>3, <1>8, <2>1, <2>2
  <2>4. \A x, y \in Ids' : key2[x] = key2[y] => x = y
    BY <1>1, <1>3, <1>8, <2>1, <2>2 DEF Keys
  <2>5. ASSUME NEW u \in Thread, Active(u)'
        PROVE  /\ key2[Id(u)] <= now2
               /\ \A x \in Ids' : key2[x] = key2[Id(u)] => x = Id(u)
               /\ \A v \in Thread : Active(v)' /\ key2[Id(v)] = key2[Id(u)] => v = u
               /\ \A x \in call[u].after : key2[x] < key2[Id(u)]
    <3>1. Active(u)
      BY <2>1, <2>5
    <3>2. \A x \in Ids' : key2[x] = key2[Id(u)] => x = Id(u)
      BY <1>8, <2>1, <2>2, <2>5, <3>1
    <3>. QED BY <1>8, <2>1, <3>1, <3>2
  <2>. QED BY <1>7, <2>3, <2>4, <2>5 DEF Keys
<1>. QED BY <1>9, <1>10
-----------------------------------------------------------------------------
(* A read-only transaction enters the log with what it has read.           *)
LEMMA LogTx ==
  ASSUME TypeOK, TypeOK', Durability, IdInv, NEW key \in [Nat -> Nat], NEW now \in Nat, Serial(key, now),
         NEW t \in Thread, TxStep(t), NEW key2, key2 = NewKey(key, now, t)
  PROVE  LogInv(key2)'
<1>1. /\ key2 \in [Nat -> Nat] /\ SameKeys(key, key2) /\ LogInv(key) /\ Keys(key, now)
      /\ ~BeginTL2(t) /\ ~EndTx(t) => key2 = key
  BY NewKeyFacts DEF Serial
<1>2. \A y \in Nat, a \in Addr, v \in Nat : ValueAt(key, y, a, v) => ValueAt(key2, y, a, v)'
  BY <1>1, TxLog, ValueFrame
<1>3. ASSUME NEW i \in DOMAIN log, i \in DOMAIN log', log'[i] = log[i]
      PROVE  /\ \A x \in log'[i].after : key2[x] < Key(key2, i)'
             /\ \A r \in log'[i].reads : ValueAt(key2, Key(key2, i), r[1], r[2])'
  <2>1. PICK x \in Nat : x = Key(key, i)
    BY KeyTypes
  <2>2. Key(key2, i)' = x
    BY <1>1, <1>3, <2>1, LogTypes DEF SameKeys, Key
  <2>3. \A y \in log[i].after : key2[y] < x
    BY <1>1, <2>1 DEF IdInv, LogInv, SameKeys
  <2>4. ASSUME NEW r \in log[i].reads PROVE ValueAt(key2, x, r[1], r[2])'
    <3>1. r[1] \in Addr /\ r[2] \in Nat
      BY LogTypes
    <3>. QED BY <1>1, <1>2, <2>1, <3>1 DEF LogInv
  <2>. QED BY <1>3, <2>2, <2>3, <2>4
<1>4. CASE log' = log
  BY <1>3, <1>4 DEF LogInv
<1>5. ASSUME NEW n \in Nat, ~BeginTL2(t), ~EndTx(t), pc[t] = "run", AtEnd(t),
             DOMAIN log' = DOMAIN log \cup {n},
             \A i \in DOMAIN log : log'[i] = log[i],
             log'[n].id = Id(t), log'[n].reads = call[t].reads, log'[n].after = call[t].after
      PROVE  LogInv(key2)'
  <2>1. PICK x \in Nat : x = key[Id(t)]
    BY KeyTypes
  <2>2. Key(key2, n)' = x
    BY <1>1, <1>5, <2>1 DEF Key
  <2>3. \A y \in call[t].after : key2[y] < x
    BY <1>1, <1>5, <2>1 DEF Keys, Active
  <2>4. ASSUME NEW r \in call[t].reads PROVE ValueAt(key2, x, r[1], r[2])'
    <3>1. r[1] \in Addr /\ r[2] \in Nat
      BY ReadTypes
    <3>2. Confirmed(t, r[1])
      BY <1>5 DEF Confirmed, Trying, InLoad, AtOp
    <3>. QED BY <1>2, <2>1, <3>1, <3>2 DEF Serial, ReadOf
  <2>5. ASSUME NEW i \in DOMAIN log'
        PROVE  /\ \A y \in log'[i].after : key2[y] < Key(key2, i)'
               /\ \A r \in log'[i].reads : ValueAt(key2, Key(key2, i), r[1], r[2])'
    <3>1. CASE i \in DOMAIN log
      BY <1>3, <1>5, <3>1
    <3>2. CASE i = n
      BY <1>5, <2>2, <2>3, <2>4, <3>2
    <3>. QED BY <1>5, <3>1, <3>2
  <2>. QED BY <2>5 DEF LogInv
<1>. QED BY <1>4, <1>5, TxLog

(* The threads that may have words others wait for.                        *)
LEMMA PendingFrame ==
  ASSUME TypeOK, TypeOK', Durability, OneLockPerWord, NEW t \in Thread, TxStep(t), Local(t), NEW u \in Thread, Pending(u)',
         NEW a \in Addr, Holds(u, a)'
  PROVE  /\ Id(u)' = Id(u) /\ Active(u) /\ Holds(u, a) /\ lock'[LockOf(a)] = lock[LockOf(a)]
         /\ Pending(u) \/ (u = t /\ EndTx(t))
<1>1. CASE u # t
  <2>1. SameThread(u) /\ Id(u)' = Id(u) /\ Medium(u)' = Medium(u) /\ Holds(u, a) /\ lock'[LockOf(a)] = lock[LockOf(a)]
    BY <1>1, OthersFrame
  <2>2. Pending(u)
    BY <2>1 DEF SameThread, Pending, Placed, Done
  <2>. QED BY <2>1, <2>2 DEF Pending, Placed, Active
<1>2. CASE u = t
  <2>1. pc'[t] \in {"validate", "commit", "faa", "sync"}
    BY <1>2 DEF Pending, Placed
  <2>2. Pending(t) \/ EndTx(t)
    BY <1>2, OwnPlace
  <2>3. Id(t)' = Id(t)
    BY <2>1, OwnLog
  <2>4. EndTx(t) => lock' = lock /\ pc[t] = "run"
    BY DEF EndTx, Finished
  <2>5. Pending(t) => pc[t] # "run" /\ ~Unlocking(t) /\ Active(t)
    BY DEF Pending, Placed, Unlocking, Done, Active
  <2>6. lock'[LockOf(a)] = lock[LockOf(a)]
    BY <2>2, <2>4, <2>5, LockOfWord DEF Local, Taken, Unlocked
  <2>. QED BY <1>2, <2>2, <2>3, <2>4, <2>5, <2>6 DEF Holds, Owner, Active
<1>. QED BY <1>1, <1>2

(* Locks that others have taken stay out of reach of who came before.      *)
LEMMA BeyondTx ==
  ASSUME TypeOK, TypeOK', Durability, OneLockPerWord, IdInv,
         NEW key \in [Nat -> Nat], NEW now \in Nat, Serial(key, now),
         NEW t \in Thread, TxStep(t), Local(t), NEW key2, key2 = NewKey(key, now, t), NEW u \in Thread
  PROVE  BeyondOf(key2, u)'
<1>1. /\ key2 \in [Nat -> Nat] /\ SameKeys(key, key2) /\ Keys(key, now) /\ BeyondOf(key, u)
      /\ \A v \in Thread \ {t} : pc[v] # "idle" => key2[Id(v)] = key[Id(v)]
      /\ BeginTL2(t) \/ EndTx(t) => key2[Id(t)] = now + 1
      /\ ~BeginTL2(t) /\ ~EndTx(t) => key2 = key
  BY NewKeyFacts DEF Serial
<1>2. SUFFICES ASSUME Trying(u)' PROVE BeyondOf(key2, u)'
  BY DEF BeyondOf
<1>3. \A v \in Thread : key[Id(v)] \in Nat /\ key2[Id(v)] \in Nat /\ (Active(v) => key[Id(v)] <= now)
  BY <1>1, Types DEF Keys
<1>4. /\ Id(u)' = Id(u) /\ pc[u] # "idle"
      /\ \/ u = t /\ (BeginTL2(t) \/ EndTx(t))
         \/ /\ Trying(u) /\ key2[Id(u)] = key[Id(u)] /\ (u = t => rClock'[t] = rClock[t])
            /\ (u = t => ~BeginTL2(t) /\ ~EndTx(t))
  <2>1. CASE u = t
    <3>1. ~CallTL2(t)
      BY <1>2, <2>1, OwnLog DEF Trying
    <3>2. Id(t)' = Id(t) /\ pc[t] # "idle"
      BY <3>1, OwnLog
    <3>3. ~BeginTL2(t) => Trying(t) /\ rClock'[t] = rClock[t]
      BY <1>2, <2>1, OwnPlace
    <3>. QED BY <1>1, <2>1, <3>2, <3>3
  <2>2. CASE u # t
    <3>1. SameThread(u) /\ Id(u)' = Id(u)
      BY <2>2, OthersFrame
    <3>. QED BY <1>1, <1>2, <2>2, <3>1 DEF SameThread, Trying
  <2>. QED BY <2>1, <2>2
<1>5. ASSUME NEW i \in DOMAIN log', NEW a \in log'[i].writes, Key(key2, i)' > key2[Id(u)]
      PROVE  Beyond(u, LockOf(a))'
  <2>1. i \in DOMAIN log /\ log'[i] = log[i]
    BY <1>5, TxLog
  <2>2. Key(key2, i)' = Key(key, i) /\ Key(key, i) \in Nat /\ Key(key, i) <= now /\ a \in Addr /\ LockOf(a) \in Lock
    BY <1>1, <1>5, <2>1, LogTypes, KeyTypes, LockOfWord DEF SameKeys, Key, Keys
  <2>3. ~(u = t /\ (BeginTL2(t) \/ EndTx(t)))
    BY <1>1, <1>5, <2>2
  <2>4. Beyond(u, LockOf(a))
    BY <1>1, <1>4, <1>5, <2>1, <2>2, <2>3 DEF BeyondOf
  <2>. QED BY <1>4, <2>2, <2>3, <2>4, BeyondMono
<1>6. ASSUME NEW v \in Thread \ {u}, Pending(v)', key2[Id(v)] > key2[Id(u)], NEW a \in Addr, Holds(v, a)'
      PROVE  Beyond(u, LockOf(a))'
  <2>1. Active(v) /\ Holds(v, a) /\ lock'[LockOf(a)] = lock[LockOf(a)] /\ (Pending(v) \/ (v = t /\ EndTx(t)))
    BY <1>6, PendingFrame
  <2>2. CASE u = t /\ (BeginTL2(t) \/ EndTx(t))
    BY <1>1, <1>3, <1>6, <2>1, <2>2 DEF Active
  <2>3. CASE ~(u = t /\ (BeginTL2(t) \/ EndTx(t))) /\ v = t /\ EndTx(t)
    <3>1. lock'[LockOf(a)].owner = t /\ t # NoTid /\ t # u
      BY <1>6, <2>1, <2>3, Lines DEF Holds, Owner
    <3>2. ~Ticked(t)'
      BY <2>3 DEF EndTx, Goto, TypeOK, Ticked
    <3>. QED BY <3>1, <3>2 DEF Beyond, Ticked
  <2>4. CASE ~(u = t /\ (BeginTL2(t) \/ EndTx(t))) /\ ~(v = t /\ EndTx(t))
    <3>1. key2[Id(v)] = key[Id(v)]
      <4>1. v = t => ~BeginTL2(t)
        BY <2>1 DEF Active, BeginTL2, BeginTx
      <4>. QED BY <1>1, <2>1, <2>4, <4>1 DEF Active
    <3>2. Beyond(u, LockOf(a))
      BY <1>1, <1>4, <1>6, <2>1, <2>4, <3>1 DEF BeyondOf
    <3>. QED BY <1>4, <2>4, <3>2, BeyondMono, LockOfWord
  <2>. QED BY <2>2, <2>3, <2>4
<1>7. \A v \in Thread : Pending(v)' => Id(v)' = Id(v)
  <2>1. ASSUME NEW v \in Thread, Pending(v)' PROVE Id(v)' = Id(v)
    <3>1. CASE v = t
      BY <2>1, <3>1, OwnLog DEF Pending, Placed
    <3>2. CASE v # t
      BY <3>2, OthersFrame
    <3>. QED BY <3>1, <3>2
  <2>. QED BY <2>1
<1>. QED BY <1>4, <1>5, <1>6, <1>7 DEF BeyondOf

(* A step of t changes nothing that another may still find valid.          *)
LEMMA ReadsTx ==
  ASSUME TypeOK, TypeOK', Durability, OneLockPerWord, IdInv,
         NEW key \in [Nat -> Nat], NEW now \in Nat, Serial(key, now),
         NEW t \in Thread, TxStep(t), Local(t), NEW key2, key2 = NewKey(key, now, t), NEW u \in Thread
  PROVE  ReadOf(key2, u)'
<1>1. /\ key2 \in [Nat -> Nat] /\ SameKeys(key, key2)
      /\ \A v \in Thread \ {t} : pc[v] # "idle" => key2[Id(v)] = key[Id(v)]
      /\ BeginTL2(t) \/ EndTx(t) => key2[Id(t)] = now + 1
      /\ ~BeginTL2(t) /\ ~EndTx(t) => key2 = key
  BY NewKeyFacts
<1>2. CASE u = t
  <2>1. EndTx(t) => key2[Id(t)] > now
    BY <1>1
  <2>. QED BY <1>1, <1>2, <2>1, OwnReads DEF Local
<1>3. CASE u # t
  <2>1. /\ SameThread(u) /\ Id(u)' = Id(u) /\ Word(u)' = Word(u) /\ Medium(u)' = Medium(u)
        /\ (AtOp(u, "load")' <=> AtOp(u, "load"))
        /\ \A a \in Addr : Holds(u, a)' <=> Holds(u, a)
    BY <1>3, OthersFrame
  <2>2. CASE ~Trying(u) /\ ~Pending(u)
    BY <2>1, <2>2 DEF SameThread, ReadOf, Trying, Confirmed, Pending, Placed, Done
  <2>3. CASE Trying(u) \/ Pending(u)
    <3>1. PICK x \in Nat : x = key[Id(u)] /\ x = key2[Id(u)]
      BY <1>1, <1>3, <2>3, KeyTypes DEF Trying, Pending, Placed
    <3>2. \A a \in Addr, v \in Nat : ValueAt(key, x, a, v) => ValueAt(key2, x, a, v)'
      BY <1>1, TxLog, ValueFrame
    <3>3. ASSUME NEW r \in call[u].reads
          PROVE  /\ Trying(u)' /\ ~Beyond(u, LockOf(r[1]))' /\ ~Holds(u, r[1])' => r[2] = mem'[r[1]]
                 /\ Trying(u)' /\ Holds(u, r[1])' => ValueAt(key2, x, r[1], r[2])'
                 /\ Confirmed(u, r[1])' => ValueAt(key2, x, r[1], r[2])'
                 /\ pc'[u] = "run" /\ IsUpdate(call[u].prog) /\ Confirmed(u, r[1])' => InReadSet(u, LockOf(r[1]))'
                 /\ pc'[u] = "validate" => InReadSet(u, LockOf(r[1]))'
      <4>0. r[1] \in Addr /\ r[2] \in Nat /\ LockOf(r[1]) \in Lock
        BY ReadTypes
      <4>1. /\ Trying(u) /\ ~Beyond(u, LockOf(r[1])) /\ ~Holds(u, r[1]) => r[2] = mem[r[1]]
            /\ Trying(u) /\ Holds(u, r[1]) => ValueAt(key, x, r[1], r[2])
            /\ Confirmed(u, r[1]) => ValueAt(key, x, r[1], r[2])
            /\ pc[u] = "run" /\ IsUpdate(call[u].prog) /\ Confirmed(u, r[1]) => InReadSet(u, LockOf(r[1]))
            /\ pc[u] = "validate" => InReadSet(u, LockOf(r[1]))
        BY <3>1 DEF Serial, ReadOf
      <4>2. /\ Trying(u)' <=> Trying(u)
            /\ Confirmed(u, r[1])' <=> Confirmed(u, r[1])
            /\ InReadSet(u, LockOf(r[1]))' <=> InReadSet(u, LockOf(r[1]))
            /\ pc'[u] = pc[u]
        BY <2>1 DEF SameThread, Trying, Confirmed, InLoad, Pending, Placed, Done, InReadSet
      <4>3. Beyond(u, LockOf(r[1])) => Beyond(u, LockOf(r[1]))'
        BY <1>3, <4>0, BeyondMono
      <4>4. ~Beyond(u, LockOf(r[1])) => mem'[r[1]] = mem[r[1]]
        <5>1. SUFFICES ASSUME mem'[r[1]] # mem[r[1]] PROVE Beyond(u, LockOf(r[1]))
          OBVIOUS
        <5>2. Holds(t, r[1]) /\ ~Ticked(t)
          BY <4>0, <5>1 DEF Local, Ticked
        <5>. QED BY <1>3, <5>2, Lines DEF Beyond, Holds, Owner
      <4>. QED BY <2>1, <3>2, <4>0, <4>1, <4>2, <4>3, <4>4
    <3>4. call'[u] = call[u]
      BY <2>1 DEF SameThread
    <3>. QED BY <2>1, <3>1, <3>3, <3>4 DEF ReadOf
  <2>. QED BY <2>2, <2>3
<1>. QED BY <1>2, <1>3

(* Whoever stores a word comes after all who have seen it before.          *)
LEMMA PendingTx ==
  ASSUME TypeOK, TypeOK', Durability, OneLockPerWord, IdInv,
         NEW key \in [Nat -> Nat], NEW now \in Nat, Serial(key, now),
         NEW t \in Thread, TxStep(t), Local(t), NEW key2, key2 = NewKey(key, now, t), NEW u \in Thread
  PROVE  PendingOf(key2, u)'
<1>1. /\ key2 \in [Nat -> Nat] /\ SameKeys(key, key2) /\ Keys(key, now) /\ PendingOf(key, u)
      /\ \A v \in Thread \ {t} : pc[v] # "idle" => key2[Id(v)] = key[Id(v)]
      /\ BeginTL2(t) \/ EndTx(t) => key2[Id(t)] = now + 1
      /\ ~BeginTL2(t) /\ ~EndTx(t) => key2 = key
  BY NewKeyFacts DEF Serial
<1>2. SUFFICES ASSUME Pending(u)', NEW a \in Addr, Holds(u, a)'
               PROVE  /\ \A i \in DOMAIN log' : Writer(i, a)' \/ HasRead(log'[i].reads, a) => Key(key2, i)' < key2[Id(u)']
                      /\ \A v \in Thread \ {u} : Sees(v, a)' => key2[Id(v)'] < key2[Id(u)']
  BY DEF PendingOf
<1>3. Id(u)' = Id(u) /\ Active(u) /\ Holds(u, a) /\ (Pending(u) \/ (u = t /\ EndTx(t)))
  BY <1>2, PendingFrame
<1>4. \A v \in Thread : key[Id(v)] \in Nat /\ key2[Id(v)] \in Nat /\ (Active(v) => key[Id(v)] <= now)
  BY <1>1, Types DEF Keys
<1>5. \A i \in DOMAIN log : log'[i] = log[i] => Key(key2, i)' = Key(key, i) /\ Key(key, i) \in Nat /\ Key(key, i) <= now
  BY <1>1, LogTypes, KeyTypes DEF SameKeys, Key, Keys
<1>6. ASSUME NEW v \in Thread \ {u}, Sees(v, a)'
      PROVE  /\ Id(v)' = Id(v) /\ key2[Id(v)] = key[Id(v)] /\ Active(v) /\ Sees(v, a)
  <2>1. CASE v # t
    <3>1. /\ SameThread(v) /\ Id(v)' = Id(v) /\ Word(v)' = Word(v) /\ Medium(v)' = Medium(v)
          /\ (AtOp(v, "load")' <=> AtOp(v, "load"))
      BY <2>1, OthersFrame
    <3>2. Sees(v, a)
      BY <1>6, <3>1 DEF SameThread, Sees, Confirmed, Trying, Pending, Placed, Done, InLoad
    <3>3. Active(v)
      BY <3>2 DEF Sees, Confirmed, Trying, Pending, Placed, Active
    <3>. QED BY <1>1, <2>1, <3>1, <3>2, <3>3 DEF Active
  <2>2. CASE v = t
    <3>1. phase = "up" /\ ReadOf(key, t)
      BY DEF Local, Serial
    <3>2. ~BeginTL2(t) /\ ~EndTx(t) /\ (Sees(t, a) \/ (Trying(t) /\ Accessible(t, LockOf(a))))
      BY <1>6, <2>2, <3>1, OwnSees
    <3>3. ~Accessible(t, LockOf(a))
      BY <1>3, <1>6, <2>2, Lines DEF Accessible, Holds, Owner
    <3>4. Sees(t, a) /\ Active(t)
      BY <3>2, <3>3 DEF Sees, Confirmed, Trying, Pending, Placed, Active
    <3>5. ~CallTL2(t)
      BY <3>4 DEF CallTL2, Call, Active
    <3>. QED BY <1>1, <2>2, <3>2, <3>4, <3>5, OwnLog
  <2>. QED BY <2>1, <2>2
<1>7. CASE u = t /\ EndTx(t)
  <2>1. key2[Id(u)] = now + 1
    BY <1>1, <1>7
  <2>2. log' = log
    BY <1>7, TxLog
  <2>3. \A i \in DOMAIN log' : Key(key2, i)' < key2[Id(u)]
    BY <1>5, <2>1, <2>2
  <2>4. \A v \in Thread \ {u} : Sees(v, a)' => key2[Id(v)'] < key2[Id(u)]
    BY <1>4, <1>6, <2>1
  <2>. QED BY <1>3, <2>3, <2>4
<1>8. CASE ~(u = t /\ EndTx(t))
  <2>1. Pending(u) /\ key2[Id(u)] = key[Id(u)]
    <3>1. u = t => ~BeginTL2(t)
      BY <1>3 DEF Active, BeginTL2, BeginTx
    <3>. QED BY <1>1, <1>3, <1>8, <3>1 DEF Active
  <2>2. /\ \A i \in DOMAIN log : Writer(i, a) \/ HasRead(log[i].reads, a) => Key(key, i) < key[Id(u)]
        /\ \A v \in Thread \ {u} : Sees(v, a) => key[Id(v)] < key[Id(u)]
    BY <1>1, <1>3, <2>1 DEF PendingOf
  <2>3. ASSUME NEW i \in DOMAIN log', Writer(i, a)' \/ HasRead(log'[i].reads, a) PROVE Key(key2, i)' < key2[Id(u)]
    <3>1. CASE i \in DOMAIN log /\ log'[i] = log[i]
      BY <1>5, <2>1, <2>2, <2>3, <3>1 DEF Writer
    <3>2. CASE ~(i \in DOMAIN log /\ log'[i] = log[i])
      <4>1. /\ ~BeginTL2(t) /\ ~EndTx(t) /\ pc[t] = "run" /\ AtEnd(t)
            /\ log'[i].id = Id(t) /\ log'[i].reads = call[t].reads /\ log'[i].writes = {}
        BY <3>2, TxLog
      <4>2. HasRead(call[t].reads, a) /\ Sees(t, a)
        BY <2>3, <4>1 DEF Writer, Sees, Confirmed, Trying, InLoad, AtOp
      <4>3. u # t
        BY <2>1, <4>1 DEF Pending, Placed
      <4>. QED BY <1>1, <2>1, <2>2, <4>1, <4>2, <4>3 DEF Key
    <3>. QED BY <3>1, <3>2
  <2>4. \A v \in Thread \ {u} : Sees(v, a)' => key2[Id(v)'] < key2[Id(u)]
    BY <1>6, <2>1, <2>2
  <2>. QED BY <1>3, <2>3, <2>4
<1>. QED BY <1>7, <1>8

(* A step of t leaves each word with the value of its last writer.         *)
LEMMA SyncIsDone ==
  ASSUME TypeOK, Durability, NEW t \in Thread, TxStep(t), pc[t] = "sync"
  PROVE  Done(t)
<1>1. Fenced(t)
  BY DEF TxStep, Concurrency, LoadWord, CheckLoad, EndReadOnly, EndTx, Finished, Validate, Unlock, Return, Retry,
         CallTL2, Call, BeginTL2, BeginTx, TakeLockTL2, FailLockTL2, FailLock, StoreWordTL2, StoreWord, AtOp,
         CommitFlush, CommitTick, CommitSync, Abort, AbortTick, AbortSync
<1>2. Medium(t) = p_seq[t]
  BY <1>1, Lines DEF Fenced, Durability, MediumInv
<1>. QED  BY <1>2 DEF Done

(* The medium, main and back hold the last value of each word.             *)
LEMMA WordTx ==
  ASSUME TypeOK, TypeOK', Durability, OneLockPerWord, IdInv,
         NEW key \in [Nat -> Nat], NEW now \in Nat, Serial(key, now),
         NEW t \in Thread, TxStep(t), Local(t), NEW key2, key2 = NewKey(key, now, t), NEW a \in Addr
  PROVE  WordOf(key2, a)'
<1>1. /\ phase = "up" /\ phase' = "up" /\ pm' = pm /\ t # NoTid /\ LockOf(a) \in Lock
      /\ Owner(a) \in Thread \cup {NoTid} /\ Owner(a)' \in Thread \cup {NoTid}
  BY Types, LockOfWord, Lines DEF Local, TypeOK, LockWord, Owner
<1>2. key2 \in [Nat -> Nat] /\ SameKeys(key, key2)
  BY NewKeyFacts
<1>3. LogKeeps(a)
  BY TxLog
<1>4. ASSUME NEW v, Final(key, a, v)
      PROVE  Final(key2, a, v)'
  BY <1>2, <1>3, <1>4, FinalFrame
<1>5. WordOf(key, a)
  BY DEF Serial
<1>6. Final(key2, a, Recovered(pm[a]))'
  <2>1. PICK v : v = Recovered(pm[a])
    OBVIOUS
  <2>2. Recovered(pm[a])' = v
    BY <2>1, <1>1 DEF Recovered, Locked, Medium
  <2>3. Final(key2, a, v)'
    BY <2>1, <1>5, <1>4 DEF WordOf
  <2>. QED  BY <2>2, <2>3 DEF Final
<1>7. /\ Owner(a)' = NoTid \/ ~Done(Owner(a))' => Final(key2, a, region[a])'
      /\ Owner(a)' # NoTid /\ Done(Owner(a))' => Final(key2, a, mem[a])'
  <2>0. PICK v, w : v = region[a] /\ w = mem[a]
    OBVIOUS
  <2>1. /\ Owner(a) # NoTid /\ Done(Owner(a)) => Final(key2, a, w)'
        /\ Owner(a) = NoTid \/ ~Done(Owner(a)) => Final(key2, a, v)'
    BY <2>0, <1>1, <1>4, <1>5 DEF WordOf
  <2>2. /\ mem'[a] = w => (Final(key2, a, w)' => Final(key2, a, mem[a])')
        /\ region'[a] = v => (Final(key2, a, v)' => Final(key2, a, region[a])')
    BY DEF Final
  <2>3. /\ mem'[a] = w \/ (Owner(a) = t /\ pc[t] \in {"run", "abort"})
        /\ region'[a] = v \/ (Owner(a) = t /\ pc[t] = "sync")
    BY <2>0 DEF Local, Holds
  <2>4. pc[t] = "sync" => Done(t)
    BY SyncIsDone
  <2>5. pc'[t] # "idle" => (Done(t)' <=> Done(t))
    BY OwnPlace
  <2>6. Owner(a)' = t => pc'[t] # "idle"
    BY <1>1 DEF Local, Owner
  <2>7. ASSUME NEW u \in Thread \ {t}
        PROVE  Done(u)' <=> Done(u)
    BY <1>1 DEF Local, SameThread, Done, Medium
  <2>8. CASE Owner(a)' = Owner(a)
    <3>1. CASE Owner(a) = NoTid
      BY <2>1, <2>2, <2>3, <2>8, <3>1, <1>1
    <3>2. CASE Owner(a) = t
      <4>1. (Done(t)' <=> Done(t)) /\ Owner(a)' = t
        BY <2>5, <2>6, <2>8, <3>2
      <4>2. CASE Done(t)
        <5>1. mem'[a] = w
          BY <2>3, <4>2 DEF Done
        <5>. QED  BY <5>1, <4>1, <4>2, <2>1, <2>2, <3>2, <1>1
      <4>3. CASE ~Done(t)
        <5>1. region'[a] = v
          BY <2>3, <2>4, <4>3
        <5>. QED  BY <5>1, <4>1, <4>3, <2>1, <2>2, <3>2, <1>1
      <4>. QED  BY <4>2, <4>3
    <3>3. CASE Owner(a) \notin {t, NoTid}
      <4>1. PICK u \in Thread \ {t} : u = Owner(a)
        BY <3>3, <1>1
      <4>2. Owner(a)' = u /\ (Done(u)' <=> Done(u)) /\ mem'[a] = w /\ region'[a] = v
        BY <4>1, <2>7, <2>8, <2>3
      <4>. QED  BY <4>1, <4>2, <2>1, <2>2, <3>3
    <3>. QED  BY <3>1, <3>2, <3>3
  <2>9. CASE Taken(t, LockOf(a))
    <3>1. Owner(a) = NoTid /\ Owner(a)' = t /\ pc[t] = "run"
      BY <2>9 DEF Taken, Owner
    <3>2. ~Done(t) /\ ~Done(t)'
      BY <3>1, <2>5, <2>6 DEF Done
    <3>3. region'[a] = v
      BY <3>1, <2>3, <1>1
    <3>. QED  BY <3>1, <3>2, <3>3, <2>1, <2>2, <1>1
  <2>10. CASE Unlocked(t, LockOf(a))
    <3>1. Owner(a) = t /\ Unlocking(t) /\ Owner(a)' = NoTid
      BY <2>10 DEF Unlocked, Owner, Free
    <3>2. v = w
      <4>1. WriteInv(t) /\ Clean(t) /\ Holds(t, a)
        BY <3>1, <1>1, UpFacts DEF Unlocking, Clean, Holds
      <4>. QED  BY <4>1, <2>0 DEF WriteInv
    <3>3. region'[a] = v
      BY <3>1, <2>3 DEF Unlocking
    <3>. QED  BY <3>1, <3>2, <3>3, <2>1, <2>2, <1>1
  <2>11. lock'[LockOf(a)] = lock[LockOf(a)] \/ Taken(t, LockOf(a)) \/ Unlocked(t, LockOf(a))
    BY <1>1 DEF Local
  <2>12. Owner(a)' = Owner(a) \/ Taken(t, LockOf(a)) \/ Unlocked(t, LockOf(a))
    BY <2>11 DEF Owner
  <2>. QED  BY <2>8, <2>9, <2>10, <2>12
<1>. QED  BY <1>1, <1>6, <1>7 DEF WordOf

(* A step of a thread keeps the serial order, or extends it.               *)
LEMMA SerialTx ==
  ASSUME TypeOK, TypeOK', Durability, OneLockPerWord, IdInv, IdInv',
         NEW key \in [Nat -> Nat], NEW now \in Nat, Serial(key, now), NEW t \in Thread, TxStep(t)
  PROVE  \E key2 \in [Nat -> Nat], now2 \in Nat : Serial(key2, now2)'
<1>1. Local(t)
  BY LocalStep
<1>2. PICK key2, now2 : key2 = NewKey(key, now, t) /\ now2 = NewNow(now, t)
  OBVIOUS
<1>3. key2 \in [Nat -> Nat] /\ now2 \in Nat
  BY <1>2, NewKeyFacts DEF NewNow
<1>4. Keys(key2, now2)' /\ LogInv(key2)'
  BY <1>1, <1>2, KeysTx, LogTx
<1>5. \A u \in Thread : BeyondOf(key2, u)' /\ ReadOf(key2, u)' /\ PendingOf(key2, u)'
  BY <1>1, <1>2, BeyondTx, ReadsTx, PendingTx
<1>6. \A a \in Addr : WordOf(key2, a)'
  BY <1>1, <1>2, WordTx
<1>7. Serial(key2, now2)'
  BY <1>3, <1>4, <1>5, <1>6 DEF Serial
<1>. QED  BY <1>3, <1>7
-----------------------------------------------------------------------------
(* The serial order after a write-back.                                    *)
SameThreads ==
  /\ log' = log /\ call' = call /\ pc' = pc /\ k' = k /\ lock' = lock /\ mem' = mem
  /\ readSet' = readSet /\ rClock' = rClock
  /\ \A t \in Thread : Done(t)' <=> Done(t)

(* Steps that only write back keep the order.                              *)
LEMMA QuietFrame ==
  ASSUME TypeOK, NEW key \in [Nat -> Nat], NEW now \in Nat, Serial(key, now), SameThreads
  PROVE  /\ Keys(key, now)' /\ LogInv(key)'
         /\ \A t \in Thread : BeyondOf(key, t)' /\ ReadOf(key, t)' /\ PendingOf(key, t)'
<1>1. /\ Ids' = Ids
      /\ \A t \in Thread : /\ Id(t)' = Id(t) /\ (Active(t)' <=> Active(t)) /\ (Trying(t)' <=> Trying(t))
                           /\ (Pending(t)' <=> Pending(t)) /\ call'[t] = call[t]
  BY DEF SameThreads, Ids, Id, Active, Trying, Pending, Placed
<1>2. \A x, a, v : ValueAt(key, x, a, v) => ValueAt(key, x, a, v)'
  BY DEF SameThreads, ValueAt, Writer, Key
<1>3. \A t \in Thread, l \in Lock : Beyond(t, l)' <=> Beyond(t, l)
  BY DEF SameThreads, Beyond, Ticked
<1>4. \A t \in Thread, a \in Addr : /\ Holds(t, a)' <=> Holds(t, a)
                                    /\ Confirmed(t, a)' <=> Confirmed(t, a)
                                    /\ Sees(t, a)' <=> Sees(t, a)
  <2>1. \A t \in Thread, a \in Addr : Confirmed(t, a)' <=> Confirmed(t, a)
    BY <1>1 DEF SameThreads, Confirmed, InLoad, AtOp, AtEnd, Op, Word
  <2>. QED  BY <1>1, <2>1 DEF SameThreads, Holds, Owner, Sees
<1>5. Keys(key, now)'
  BY <1>1 DEF Keys, Serial
<1>6. LogInv(key)'
  <2>1. \A i \in DOMAIN log : Key(key, i)' = Key(key, i)
    BY DEF SameThreads, Key
  <2>2. LogInv(key)
    BY DEF Serial
  <2>3. ASSUME NEW i \in DOMAIN log', NEW r \in log'[i].reads
        PROVE  ValueAt(key, Key(key, i), r[1], r[2])'
    <3>1. PICK x : x = Key(key, i)
      OBVIOUS
    <3>2. Key(key, i)' = x
      BY <3>1 DEF SameThreads, Key
    <3>3. ValueAt(key, x, r[1], r[2])
      BY <2>2, <3>1 DEF LogInv, SameThreads
    <3>4. ValueAt(key, x, r[1], r[2])'
      BY <1>2, <3>3
    <3>. QED  BY <3>2, <3>4 DEF ValueAt
  <2>4. \A i \in DOMAIN log' : \A x \in log'[i].after : key[x] < Key(key, i)'
    BY <2>1, <2>2 DEF LogInv, SameThreads
  <2>. QED  BY <2>3, <2>4 DEF LogInv
<1>7. ASSUME NEW t \in Thread
      PROVE  BeyondOf(key, t)' /\ ReadOf(key, t)' /\ PendingOf(key, t)'
  <2>1. BeyondOf(key, t) /\ ReadOf(key, t) /\ PendingOf(key, t)
    BY DEF Serial
  <2>2. BeyondOf(key, t)'
    <3>1. \A i \in DOMAIN log : Key(key, i)' = Key(key, i)
      BY DEF SameThreads, Key
    <3>2. \A i \in DOMAIN log : \A a \in log[i].writes : LockOf(a) \in Lock
      BY LogTypes, LockOfWord
    <3>. QED  BY <1>1, <1>3, <1>4, <2>1, <3>1, <3>2, LockOfWord DEF BeyondOf, SameThreads
  <2>3. ReadOf(key, t)'
    <3>1. ASSUME NEW r \in call[t].reads
          PROVE  /\ r[1] \in Addr /\ LockOf(r[1]) \in Lock
                 /\ InReadSet(t, LockOf(r[1])) => InReadSet(t, LockOf(r[1]))'
      BY ReadTypes DEF InReadSet, SameThreads
    <3>2. PICK x : x = key[Id(t)]
      OBVIOUS
    <3>3. \A r \in call[t].reads : ValueAt(key, key[Id(t)], r[1], r[2]) => ValueAt(key, key[Id(t)], r[1], r[2])'
      <4>1. SUFFICES ASSUME NEW r \in call[t].reads, ValueAt(key, x, r[1], r[2])
                     PROVE  ValueAt(key, key[Id(t)], r[1], r[2])'
        BY <3>2
      <4>2. ValueAt(key, x, r[1], r[2])' /\ key[Id(t)]' = x
        BY <1>1, <1>2, <3>2, <4>1
      <4>. QED  BY <4>2 DEF ValueAt
    <3>4. mem' = mem /\ pc' = pc
      BY DEF SameThreads
    <3>. QED  BY <1>1, <1>3, <1>4, <2>1, <3>1, <3>3, <3>4 DEF ReadOf
  <2>4. PendingOf(key, t)'
    <3>1. \A i \in DOMAIN log : Key(key, i)' = Key(key, i)
      BY DEF SameThreads, Key
    <3>. QED  BY <1>1, <1>4, <2>1, <3>1 DEF PendingOf, Writer, SameThreads
  <2>. QED  BY <2>2, <2>3, <2>4
<1>. QED  BY <1>5, <1>6, <1>7

(* What recovery would make of the line of a word as the caches have it.   *)
LEMMA CachedWord ==
  ASSUME TypeOK, Durability, NEW key \in [Nat -> Nat], NEW now \in Nat, Serial(key, now), NEW a \in Addr
  PROVE  Final(key, a, Recovered(PersistLine(a)))
<1>1. WordOf(key, a)
  BY DEF Serial
<1>2. /\ PersistLine(a).main = mem[a] /\ PersistLine(a).back = region[a] /\ PersistLine(a).lseq = lock[LockOf(a)]
      /\ Owner(a) \in Thread \cup {NoTid} /\ lock[LockOf(a)].seq \in Nat
  BY Types DEF PersistLine
<1>3. CASE phase = "recover"
  BY <1>1, <1>3 DEF WordOf
<1>4. CASE phase = "up"
  <2>1. CASE Owner(a) = NoTid
    <3>1. mem[a] = region[a]
      BY <1>4, <2>1 DEF Durability, UpInv, FreeInv
    <3>2. Recovered(PersistLine(a)) = region[a]
      BY <1>2, <2>1, <3>1 DEF Recovered, Locked, Owner
    <3>. QED  BY <1>1, <1>4, <2>1, <3>2 DEF WordOf
  <2>2. CASE Owner(a) # NoTid
    <3>1. PICK u \in Thread : u = Owner(a)
      BY <1>2, <2>2
    <3>2. /\ WriteInv(u) /\ SeqInv(u) /\ Holds(u, a) /\ Medium(u) \in Nat /\ p_seq[u] \in Nat
          /\ pc[u] \in Places
      BY <1>4, <3>1, UpFacts, Types DEF Holds
    <3>3. Recovered(PersistLine(a)) = IF lock[LockOf(a)].seq = Medium(u) THEN region[a] ELSE mem[a]
      BY <1>2, <2>2, <3>1 DEF Recovered, Locked, Owner
    <3>4. CASE ~Ticked(u)
      <4>1. lock[LockOf(a)].seq = Medium(u)
        BY <3>2, <3>4 DEF SeqInv
      <4>2. ~Done(u)
        BY <3>4 DEF Done, Ticked
      <4>. QED  BY <1>1, <1>4, <2>2, <3>1, <3>3, <4>1, <4>2 DEF WordOf
    <3>5. CASE Ticked(u) /\ Medium(u) # p_seq[u]
      <4>1. lock[LockOf(a)].seq = Medium(u)
        BY <3>2, <3>5 DEF SeqInv
      <4>2. ~Done(u)
        BY <3>2, <3>5 DEF SeqInv, Done, Unlocking
      <4>. QED  BY <1>1, <1>4, <2>2, <3>1, <3>3, <4>1, <4>2 DEF WordOf
    <3>6. CASE Ticked(u) /\ Medium(u) = p_seq[u]
      <4>1. lock[LockOf(a)].seq # Medium(u)
        <5>1. lock[LockOf(a)].seq < p_seq[u]
          BY <3>2, <3>6 DEF SeqInv
        <5>. QED  BY <1>2, <3>2, <3>6, <5>1
      <4>2. Done(u) \/ mem[a] = region[a]
        BY <3>2, <3>6 DEF WriteInv, Ticked, Clean, Done
      <4>. QED  BY <1>1, <1>4, <2>2, <3>1, <3>3, <4>1, <4>2 DEF WordOf
    <3>. QED  BY <3>4, <3>5, <3>6
  <2>. QED  BY <2>1, <2>2
<1>. QED  BY <1>3, <1>4 DEF TypeOK

(* A write-back without a commit: the lines still say the same.            *)
LEMMA PseqEvicted ==
  ASSUME TypeOK, Durability, NEW u \in Thread, EvictTL2, pm' = [pm EXCEPT ![PseqLine(u)] = p_seq[u]],
         NEW a \in Addr
  PROVE  /\ pm'[a] = pm[a] /\ PersistLine(a)' = PersistLine(a)
         /\ \A t \in Thread : Medium(t)' = (IF t = u THEN p_seq[u] ELSE Medium(t))
         /\ Locked(pm[a])' => Locked(pm[a])
         /\ Locked(pm[a]) /\ ~Locked(pm[a])' => pm[a].lseq = [owner |-> u, seq |-> Medium(u)] /\ Medium(u) # p_seq[u]
<1>1. pm'[a] = pm[a] /\ \A t \in Thread : Medium(t)' = (IF t = u THEN p_seq[u] ELSE Medium(t))
  BY Lines DEF TypeOK, Medium
<1>2. PersistLine(a)' = PersistLine(a)
  BY DEF EvictTL2, PersistLine
<1>3. /\ LineInv(pm[a]) /\ pm[a].lseq.owner \in Thread \cup {NoTid} /\ pm[a].lseq.seq \in Nat
      /\ pm[a].lseq = [owner |-> pm[a].lseq.owner, seq |-> pm[a].lseq.seq]
  BY Types DEF Durability, TypeOK, PersistWord, LockWord
<1>4. \A t \in Thread : Medium(t) \in Nat /\ p_seq[t] \in Nat /\ Medium(t) <= p_seq[t]
  BY Types DEF Durability, MediumInv
<1>5. CASE pm[a].lseq.owner = u
  <2>1. u # NoTid
    BY Lines
  <2>2. /\ Locked(pm[a]) <=> pm[a].lseq.seq = Medium(u)
        /\ Locked(pm[a])' <=> pm[a].lseq.seq = p_seq[u]
    BY <1>1, <1>5, <2>1 DEF Locked
  <2>3. pm[a].lseq.seq <= Medium(u)
    BY <1>3, <1>5, <2>1 DEF LineInv
  <2>4. pm[a].lseq.seq = p_seq[u] => pm[a].lseq.seq = Medium(u)
    BY <1>3, <1>4, <2>3
  <2>. QED  BY <1>1, <1>2, <1>3, <1>5, <2>2, <2>4
<1>6. CASE pm[a].lseq.owner # u
  <2>1. Locked(pm[a])' <=> Locked(pm[a])
    BY <1>1, <1>3, <1>6 DEF Locked
  <2>. QED  BY <1>1, <1>2, <2>1
<1>. QED  BY <1>5, <1>6

(* A line locked in the medium by an attempt whose p_seq is not there yet. *)
LEMMA OwnLine ==
  ASSUME TypeOK, Durability, phase = "up", NEW u \in Thread, NEW a \in Addr,
         pm[a].lseq = [owner |-> u, seq |-> Medium(u)], Medium(u) # p_seq[u]
  PROVE  /\ Holds(u, a) /\ pm[a] = PersistLine(a)
         /\ pc[u] = "sync" \/ (pc[u] = "abortSync" /\ mem[a] = region[a])
<1>1. Locked(pm[a]) /\ LockedInv(a)
  BY Lines DEF Locked, Durability, UpInv
<1>2. lock[LockOf(a)] = pm[a].lseq
  BY <1>1 DEF LockedInv
<1>3. Holds(u, a) /\ lock[LockOf(a)].seq = Medium(u)
  BY <1>2 DEF Holds, Owner
<1>4. SeqInv(u) /\ WriteInv(u)
  BY UpFacts
<1>5. Ticked(u) /\ ~Unlocking(u)
  BY <1>3, <1>4 DEF SeqInv
<1>6. pc[u] \in {"sync", "abortSync"}
  BY <1>5 DEF Ticked, Unlocking
<1>7. pm[a] = PersistLine(a)
  BY <1>3, <1>4, <1>6 DEF SeqInv
<1>8. pc[u] = "abortSync" => mem[a] = region[a]
  BY <1>3, <1>4 DEF WriteInv, Clean
<1>. QED  BY <1>3, <1>6, <1>7, <1>8

LEMMA WordQuiet ==
  ASSUME TypeOK, TypeOK', Durability, EvictTL2,
         NEW key \in [Nat -> Nat], NEW now \in Nat, Serial(key, now), SameThreads,
         \A t \in Thread : Medium(t)' = Medium(t) \/ pc[t] # "sync",
         NEW a \in Addr
  PROVE  WordOf(key, a)'
<1>1. /\ phase' = phase /\ mem' = mem /\ region' = region /\ lock' = lock /\ log' = log
      /\ PersistLine(a)' = PersistLine(a) /\ Owner(a)' = Owner(a) /\ Owner(a) \in Thread \cup {NoTid}
  BY Types DEF EvictTL2, SameThreads, PersistLine, Owner
<1>2. WordOf(key, a)
  BY DEF Serial
<1>3. ASSUME NEW v, Final(key, a, v)
      PROVE  Final(key, a, v)'
  BY <1>1, <1>3 DEF Final, Writer, Key
<1>4. Final(key, a, Recovered(pm[a]))' /\ (phase = "recover" => Final(key, a, Recovered(PersistLine(a)))')
  <2>1. ASSUME NEW b \in Addr, pm' = [pm EXCEPT ![b] = PersistLine(b)]
        PROVE  Final(key, a, Recovered(pm[a]))' /\ (phase = "recover" => Final(key, a, Recovered(PersistLine(a)))')
    <3>1. \A t \in Thread : Medium(t)' = Medium(t)
      BY <2>1, Lines DEF TypeOK, Medium
    <3>2. pm'[a] = (IF a = b THEN PersistLine(a) ELSE pm[a])
      BY <2>1, Lines DEF TypeOK
    <3>3. /\ pm[a].lseq.owner \in Thread \cup {NoTid} /\ PersistLine(a).lseq.owner \in Thread \cup {NoTid}
      BY Types, PersistLineType DEF PersistWord, LockWord
    <3>4. PICK v, w : v = Recovered(PersistLine(a)) /\ w = Recovered(pm[a])
      OBVIOUS
    <3>5. Recovered(PersistLine(a))' = v /\ Recovered(pm[a])' = (IF a = b THEN v ELSE w)
      BY <1>1, <3>1, <3>2, <3>3, <3>4 DEF Recovered, Locked
    <3>6. Final(key, a, v)' /\ Final(key, a, w)'
      BY <1>2, <1>3, <3>4, CachedWord DEF WordOf
    <3>. QED  BY <3>5, <3>6 DEF Final
  <2>2. ASSUME NEW u \in Thread, pm' = [pm EXCEPT ![PseqLine(u)] = p_seq[u]]
        PROVE  Final(key, a, Recovered(pm[a]))' /\ (phase = "recover" => Final(key, a, Recovered(PersistLine(a)))')
    <3>1. /\ pm'[a] = pm[a] /\ \A t \in Thread : Medium(t)' = (IF t = u THEN p_seq[u] ELSE Medium(t))
          /\ Locked(pm[a])' => Locked(pm[a])
          /\ Locked(pm[a]) /\ ~Locked(pm[a])' => pm[a].lseq = [owner |-> u, seq |-> Medium(u)] /\ Medium(u) # p_seq[u]
      BY <2>2, PseqEvicted
    <3>2. PICK w : w = Recovered(pm[a])
      OBVIOUS
    <3>3. Recovered(pm[a])' = w
      <4>1. CASE Locked(pm[a])' <=> Locked(pm[a])
        BY <3>1, <3>2, <4>1 DEF Recovered
      <4>2. CASE Locked(pm[a]) /\ ~Locked(pm[a])'
        <5>1. phase = "up"
          BY <3>1, <4>2 DEF Durability, RecoverInv, TypeOK
        <5>2. pc[u] # "sync"
          BY <3>1, <4>2
        <5>3. pm[a] = PersistLine(a) /\ mem[a] = region[a]
          BY <3>1, <4>2, <5>1, <5>2, OwnLine
        <5>4. pm[a].main = pm[a].back
          BY <5>3 DEF PersistLine
        <5>. QED  BY <3>1, <3>2, <5>4 DEF Recovered
      <4>. QED  BY <3>1, <4>1, <4>2
    <3>4. Final(key, a, w)'
      BY <1>2, <1>3, <3>2 DEF WordOf
    <3>5. phase = "recover" => Final(key, a, Recovered(PersistLine(a)))'
      <4>1. SUFFICES ASSUME phase = "recover" PROVE Final(key, a, Recovered(PersistLine(a)))'
        OBVIOUS
      <4>2. \A t \in Thread : Medium(t)' = Medium(t)
        BY <3>1, <4>1 DEF Durability, RecoverInv
      <4>3. PersistLine(a).lseq.owner \in Thread \cup {NoTid}
        BY PersistLineType DEF PersistWord, LockWord
      <4>4. PICK v : v = Recovered(PersistLine(a))
        OBVIOUS
      <4>5. Recovered(PersistLine(a))' = v
        BY <1>1, <4>2, <4>3, <4>4 DEF Recovered, Locked
      <4>6. Final(key, a, v)'
        BY <1>2, <1>3, <4>1, <4>4 DEF WordOf
      <4>. QED  BY <4>5, <4>6 DEF Final
    <3>. QED  BY <3>3, <3>4, <3>5 DEF Final
  <2>. QED  BY <2>1, <2>2, EvictFacts
<1>5. phase = "up" => (IF Owner(a) # NoTid /\ Done(Owner(a)) THEN Final(key, a, mem[a]) ELSE Final(key, a, region[a]))'
  <2>1. PICK v, w : v = region[a] /\ w = mem[a]
    OBVIOUS
  <2>2. Owner(a) # NoTid => (Done(Owner(a))' <=> Done(Owner(a)))
    <3>1. ASSUME NEW u \in Thread, u = Owner(a)
          PROVE  Done(Owner(a))' <=> Done(Owner(a))
      <4>1. (Done(u)' <=> Done(u)) /\ Owner(a)' = u
        BY <1>1, <3>1 DEF SameThreads
      <4>. QED  BY <3>1, <4>1 DEF Done, Medium
    <3>. QED  BY <1>1, <3>1
  <2>3. phase = "up" => IF Owner(a) # NoTid /\ Done(Owner(a)) THEN Final(key, a, w)' ELSE Final(key, a, v)'
    BY <1>2, <1>3, <2>1 DEF WordOf
  <2>4. region'[a] = v /\ mem'[a] = w
    BY <1>1, <2>1
  <2>. QED  BY <1>1, <2>2, <2>3, <2>4 DEF Final
<1>. QED  BY <1>1, <1>4, <1>5 DEF WordOf

(* The write-back that makes p_seq of a committing thread durable puts its *)
(* transaction in the log, with the key it has.                            *)
Commit(u) ==
  /\ log' = Append(log, Effect(u, Written(u))) /\ Effect(u, Written(u)) \in Effects
  /\ pc[u] = "sync" /\ Medium(u) # p_seq[u] /\ phase = "up"
  /\ ~Done(u) /\ Done(u)'
  /\ \A t \in Thread \ {u} : (Done(t)' <=> Done(t)) /\ Medium(t)' = Medium(t)
  /\ pm' = [pm EXCEPT ![PseqLine(u)] = p_seq[u]]
  /\ EvictTL2

(* The p_seq of an update reaches the medium: it is in the log now.        *)
LEMMA CommitFacts ==
  ASSUME TypeOK, Durability, IdInv, NEW u \in Thread, Commit(u)
  PROVE  /\ phase' = phase /\ lock' = lock /\ mem' = mem /\ region' = region /\ p_seq' = p_seq /\ pc' = pc /\ k' = k
         /\ call' = call /\ rClock' = rClock /\ readSet' = readSet
         /\ Active(u) /\ Pending(u) /\ ~Pending(u)' /\ ~Trying(u)
         /\ \A a \in Addr : Holds(u, a) <=> a \in Written(u)
         /\ \E n \in Nat :
              /\ n \notin DOMAIN log /\ DOMAIN log' = DOMAIN log \cup {n} /\ Ids' = Ids \cup {Id(u)}
              /\ \A i \in DOMAIN log : log'[i] = log[i]
              /\ log'[n].id = Id(u) /\ log'[n].reads = call[u].reads /\ log'[n].writes = Written(u)
              /\ log'[n].after = call[u].after
<1>1. /\ phase' = phase /\ lock' = lock /\ mem' = mem /\ region' = region /\ p_seq' = p_seq /\ pc' = pc /\ k' = k
      /\ call' = call /\ rClock' = rClock /\ readSet' = readSet
  BY DEF Commit, EvictTL2, txVars
<1>2. Active(u) /\ Pending(u) /\ ~Pending(u)' /\ ~Trying(u) /\ ~Unlocking(u)
  BY DEF Commit, Active, Pending, Placed, Trying, Unlocking
<1>3. \A a \in Addr : Holds(u, a) <=> a \in Written(u)
  BY <1>2, UpFacts DEF Commit
<1>4. log' = Append(log, Effect(u, Written(u)))
  BY DEF Commit
<1>5. /\ Effect(u, Written(u)).id = Id(u) /\ Effect(u, Written(u)).reads = call[u].reads
      /\ Effect(u, Written(u)).writes = Written(u) /\ Effect(u, Written(u)).after = call[u].after
  BY DEF Effect, Id
<1>6. PICK n \in Nat :
        /\ n \notin DOMAIN log /\ DOMAIN log' = DOMAIN log \cup {n} /\ log'[n] = Effect(u, Written(u))
        /\ \A i \in DOMAIN log : log'[i] = log[i]
  BY <1>4, LogIndex
<1>7. Ids' = Ids \cup {Id(u)}
  BY <1>4, <1>5, LogGrows
<1>. QED  BY <1>1, <1>2, <1>3, <1>5, <1>6, <1>7

LEMMA CommitSame ==
  ASSUME TypeOK, Durability, IdInv, NEW u \in Thread, Commit(u), NEW t \in Thread
  PROVE  /\ Id(t)' = Id(t) /\ (Active(t)' <=> Active(t)) /\ (Trying(t)' <=> Trying(t)) /\ call'[t] = call[t]
         /\ Pending(t)' => t # u /\ Pending(t)
         /\ \A l \in Lock : Beyond(t, l)' <=> Beyond(t, l)
         /\ \A a \in Addr : /\ Holds(t, a)' <=> Holds(t, a)
                            /\ Confirmed(t, a)' => t # u /\ Confirmed(t, a)
                            /\ Sees(t, a)' => t # u /\ Sees(t, a)
<1>1. /\ lock' = lock /\ pc' = pc /\ k' = k /\ call' = call /\ rClock' = rClock /\ readSet' = readSet
      /\ ~Pending(u)' /\ ~Trying(u)
  BY CommitFacts
<1>2. Id(t)' = Id(t) /\ (Active(t)' <=> Active(t)) /\ (Trying(t)' <=> Trying(t)) /\ call'[t] = call[t]
  BY <1>1 DEF Id, Active, Trying
<1>3. Pending(t)' => t # u /\ Pending(t)
  <2>1. t # u => (Done(t)' <=> Done(t))
    BY DEF Commit
  <2>. QED  BY <1>1, <2>1 DEF Pending, Placed
<1>4. \A l \in Lock : Beyond(t, l)' <=> Beyond(t, l)
  BY <1>1 DEF Beyond, Ticked
<1>5. \A a \in Addr : (Holds(t, a)' <=> Holds(t, a)) /\ (Confirmed(t, a)' => t # u /\ Confirmed(t, a))
  BY <1>1, <1>2, <1>3 DEF Holds, Owner, Confirmed, InLoad, AtOp, AtEnd, Op, Word
<1>6. \A a \in Addr : Sees(t, a)' => t # u /\ Sees(t, a)
  BY <1>2, <1>5 DEF Sees
<1>. QED  BY <1>2, <1>3, <1>4, <1>5, <1>6

(* The new entry has read the values at its place.                         *)
LEMMA CommitKeys ==
  ASSUME TypeOK, Durability, IdInv, NEW key \in [Nat -> Nat], NEW now \in Nat, Serial(key, now),
         NEW u \in Thread, Commit(u)
  PROVE  Keys(key, now)' /\ LogInv(key)'
<1>1. /\ Active(u) /\ Pending(u) /\ ~Trying(u) /\ Ids' = Ids \cup {Id(u)}
      /\ \A a \in Addr : Holds(u, a) <=> a \in Written(u)
  BY CommitFacts
<1>2. \A t \in Thread : Id(t)' = Id(t) /\ (Active(t)' <=> Active(t)) /\ call'[t] = call[t]
  BY CommitSame
<1>3. Keys(key, now) /\ LogInv(key) /\ ReadOf(key, u) /\ PendingOf(key, u)
  BY DEF Serial
<1>4. Keys(key, now)'
  <2>1. \A x \in Ids' : key[x] <= now
    BY <1>1, <1>3 DEF Keys
  <2>2. \A x, y \in Ids' : key[x] = key[y] => x = y
    BY <1>1, <1>3 DEF Keys
  <2>3. ASSUME NEW t \in Thread, Active(t)
        PROVE  /\ key[Id(t)] <= now
               /\ \A x \in Ids' : key[x] = key[Id(t)] => x = Id(t)
               /\ \A v \in Thread : Active(v) /\ key[Id(v)] = key[Id(t)] => v = t
               /\ \A x \in call[t].after : key[x] < key[Id(t)]
    BY <1>1, <1>3, <2>3 DEF Keys
  <2>. QED  BY <1>2, <2>1, <2>2, <2>3 DEF Keys
<1>5. LogInv(key)'
  <2>1. PICK n \in Nat :
          /\ n \notin DOMAIN log /\ DOMAIN log' = DOMAIN log \cup {n}
          /\ \A i \in DOMAIN log : log'[i] = log[i]
          /\ log'[n].id = Id(u) /\ log'[n].reads = call[u].reads /\ log'[n].writes = Written(u)
          /\ log'[n].after = call[u].after
    BY CommitFacts
  <2>2. /\ log' = Append(log, Effect(u, Written(u))) /\ Effect(u, Written(u)) \in Effects
        /\ Effect(u, Written(u)).id = Id(u) /\ Effect(u, Written(u)).writes = Written(u)
    BY DEF Commit, Effect, Id
  <2>3. ASSUME NEW a \in Addr, NEW x \in Nat, NEW v, ValueAt(key, x, a, v), a \in Written(u) => key[Id(u)] >= x
        PROVE  ValueAt(key, x, a, v)'
    <3>1. LogAdds(key, x, a) /\ SameKeys(key, key)
      BY <2>2, <2>3 DEF LogAdds, SameKeys
    <3>. QED  BY <2>3, <3>1, ValueFrame
  <2>4. key[Id(u)] \in Nat /\ \A i \in DOMAIN log : Key(key, i) \in Nat
    BY KeyTypes
  <2>5. ASSUME NEW i \in DOMAIN log
        PROVE  /\ \A x \in log'[i].after : key[x] < Key(key, i)'
               /\ \A r \in log'[i].reads : ValueAt(key, Key(key, i), r[1], r[2])'
    <3>1. PICK x \in Nat : x = Key(key, i)
      BY <2>4
    <3>2. log'[i] = log[i] /\ Key(key, i)' = x
      BY <2>1, <3>1 DEF Key
    <3>3. ASSUME NEW r \in log[i].reads
          PROVE  ValueAt(key, x, r[1], r[2])'
      <4>1. r[1] \in Addr /\ ValueAt(key, x, r[1], r[2])
        BY <1>3, <3>1, LogTypes DEF LogInv
      <4>2. r[1] \in Written(u) => x < key[Id(u)]
        BY <1>1, <1>3, <3>1, <4>1 DEF PendingOf, HasRead
      <4>3. r[1] \in Written(u) => key[Id(u)] >= x
        BY <2>4, <4>2
      <4>. QED  BY <2>3, <4>1, <4>3
    <3>4. \A y \in log[i].after : key[y] < x
      BY <1>3, <3>1 DEF LogInv
    <3>. QED  BY <3>2, <3>3, <3>4 DEF ValueAt
  <2>6. /\ \A x \in log'[n].after : key[x] < Key(key, n)'
        /\ \A r \in log'[n].reads : ValueAt(key, Key(key, n), r[1], r[2])'
    <3>1. PICK x \in Nat : x = key[Id(u)]
      BY <2>4
    <3>2. Key(key, n)' = x
      BY <2>1, <3>1 DEF Key
    <3>3. ASSUME NEW r \in call[u].reads
          PROVE  ValueAt(key, x, r[1], r[2])'
      <4>1. r[1] \in Addr
        BY ReadTypes
      <4>2. Confirmed(u, r[1])
        BY <1>1 DEF Confirmed, Trying
      <4>3. ValueAt(key, x, r[1], r[2])
        BY <1>3, <3>1, <4>2 DEF ReadOf
      <4>4. key[Id(u)] >= x
        BY <3>1
      <4>. QED  BY <2>3, <4>1, <4>3, <4>4
    <3>4. \A y \in call[u].after : key[y] < x
      BY <1>1, <1>3, <3>1 DEF Keys
    <3>. QED  BY <2>1, <3>2, <3>3, <3>4 DEF ValueAt
  <2>. QED  BY <2>1, <2>5, <2>6 DEF LogInv
<1>. QED  BY <1>4, <1>5

(* To the others it is what it was before: pending, with its locks.        *)
LEMMA CommitThreads ==
  ASSUME TypeOK, Durability, IdInv, NEW key \in [Nat -> Nat], NEW now \in Nat, Serial(key, now),
         NEW u \in Thread, Commit(u), NEW t \in Thread
  PROVE  BeyondOf(key, t)' /\ ReadOf(key, t)' /\ PendingOf(key, t)'
<1>1. /\ Active(u) /\ Pending(u) /\ ~Trying(u)
      /\ \A a \in Addr : Holds(u, a) <=> a \in Written(u)
      /\ mem' = mem /\ pc' = pc /\ readSet' = readSet
  BY CommitFacts
<1>2. PICK n \in Nat :
        /\ n \notin DOMAIN log /\ DOMAIN log' = DOMAIN log \cup {n}
        /\ \A i \in DOMAIN log : log'[i] = log[i]
        /\ log'[n].id = Id(u) /\ log'[n].reads = call[u].reads /\ log'[n].writes = Written(u)
        /\ log'[n].after = call[u].after
  BY CommitFacts
<1>3. \A v \in Thread :
         /\ Id(v)' = Id(v) /\ (Trying(v)' <=> Trying(v)) /\ call'[v] = call[v]
         /\ Pending(v)' => v # u /\ Pending(v)
         /\ \A l \in Lock : Beyond(v, l)' <=> Beyond(v, l)
         /\ \A a \in Addr : /\ Holds(v, a)' <=> Holds(v, a)
                            /\ Confirmed(v, a)' => v # u /\ Confirmed(v, a)
                            /\ Sees(v, a)' => v # u /\ Sees(v, a)
  BY CommitSame
<1>4. BeyondOf(key, t) /\ ReadOf(key, t) /\ PendingOf(key, t) /\ PendingOf(key, u)
  BY DEF Serial
<1>5. /\ \A i \in DOMAIN log : Key(key, i)' = Key(key, i) /\ log[i].writes \subseteq Addr
      /\ Key(key, n)' = key[Id(u)] /\ Written(u) \subseteq Addr
  BY <1>2, LogTypes, WrittenType DEF Key
<1>6. BeyondOf(key, t)'
  <2>1. SUFFICES ASSUME Trying(t)'
                 PROVE  BeyondOf(key, t)'
    BY DEF BeyondOf
  <2>2. Trying(t) /\ t # u
    BY <1>1, <1>3, <2>1
  <2>3. ASSUME NEW i \in DOMAIN log, NEW a \in log[i].writes, Key(key, i) > key[Id(t)]
        PROVE  Beyond(t, LockOf(a))'
    BY <1>3, <1>4, <1>5, <2>2, <2>3, LockOfWord DEF BeyondOf
  <2>4. ASSUME NEW a \in Written(u), key[Id(u)] > key[Id(t)]
        PROVE  Beyond(t, LockOf(a))'
    BY <1>1, <1>3, <1>4, <1>5, <2>2, <2>4, LockOfWord DEF BeyondOf
  <2>5. \A i \in DOMAIN log' : \A a \in log'[i].writes : Key(key, i)' > key[Id(t)] => Beyond(t, LockOf(a))'
    BY <1>2, <1>5, <2>3, <2>4
  <2>6. ASSUME NEW v \in Thread \ {t}, Pending(v)', key[Id(v)] > key[Id(t)], NEW a \in Addr, Holds(v, a)'
        PROVE  Beyond(t, LockOf(a))'
    BY <1>3, <1>4, <2>2, <2>6, LockOfWord DEF BeyondOf
  <2>. QED  BY <1>3, <2>5, <2>6 DEF BeyondOf
<1>7. ReadOf(key, t)'
  <2>1. PICK x \in Nat : x = key[Id(t)]
    BY KeyTypes
  <2>2. key[Id(t)]' = x
    BY <1>3, <2>1
  <2>3. ASSUME NEW a \in Addr, NEW v, ValueAt(key, x, a, v), a \in Written(u) => key[Id(u)] >= x
        PROVE  ValueAt(key, x, a, v)'
    <3>1. /\ log' = Append(log, Effect(u, Written(u))) /\ Effect(u, Written(u)) \in Effects
          /\ Effect(u, Written(u)).id = Id(u) /\ Effect(u, Written(u)).writes = Written(u)
      BY DEF Commit, Effect, Id
    <3>2. LogAdds(key, x, a) /\ SameKeys(key, key)
      BY <2>3, <3>1 DEF LogAdds, SameKeys
    <3>. QED  BY <2>3, <3>2, ValueFrame
  <2>4. ASSUME NEW r \in call[t].reads
        PROVE  /\ Trying(t)' /\ ~Beyond(t, LockOf(r[1]))' /\ ~Holds(t, r[1])' => r[2] = mem'[r[1]]
               /\ Trying(t)' /\ Holds(t, r[1])' => ValueAt(key, x, r[1], r[2])'
               /\ Confirmed(t, r[1])' => ValueAt(key, x, r[1], r[2])'
               /\ pc'[t] = "run" /\ IsUpdate(call[t].prog) /\ Confirmed(t, r[1])' => InReadSet(t, LockOf(r[1]))'
               /\ pc'[t] = "validate" => InReadSet(t, LockOf(r[1]))'
    <3>1. r[1] \in Addr /\ LockOf(r[1]) \in Lock
      BY ReadTypes
    <3>2. /\ Trying(t) /\ ~Beyond(t, LockOf(r[1])) /\ ~Holds(t, r[1]) => r[2] = mem[r[1]]
          /\ Trying(t) /\ Holds(t, r[1]) => ValueAt(key, x, r[1], r[2])
          /\ Confirmed(t, r[1]) => ValueAt(key, x, r[1], r[2])
          /\ pc[t] = "run" /\ IsUpdate(call[t].prog) /\ Confirmed(t, r[1]) => InReadSet(t, LockOf(r[1]))
          /\ pc[t] = "validate" => InReadSet(t, LockOf(r[1]))
      BY <1>4, <2>1 DEF ReadOf
    <3>3. InReadSet(t, LockOf(r[1]))' <=> InReadSet(t, LockOf(r[1]))
      BY <1>1 DEF InReadSet
    <3>4. Trying(t) /\ Holds(t, r[1]) => r[1] \notin Written(u)
      BY <1>1, <3>1 DEF Holds
    <3>5. Confirmed(t, r[1])' /\ r[1] \in Written(u) => key[Id(u)] >= x
      <4>1. SUFFICES ASSUME Confirmed(t, r[1])', r[1] \in Written(u)
                     PROVE  key[Id(u)] >= x
        OBVIOUS
      <4>2. t # u /\ Sees(t, r[1]) /\ Holds(u, r[1])
        BY <1>1, <1>3, <3>1, <4>1 DEF Sees, HasRead
      <4>3. key[Id(t)] < key[Id(u)]
        BY <1>1, <1>4, <3>1, <4>2 DEF PendingOf
      <4>. QED  BY <2>1, <4>3, KeyTypes
    <3>. QED  BY <1>1, <1>3, <2>3, <3>1, <3>2, <3>3, <3>4, <3>5
  <2>5. \A r \in call'[t].reads :
           /\ Trying(t)' /\ Holds(t, r[1])' => ValueAt(key, key[Id(t)], r[1], r[2])'
           /\ Confirmed(t, r[1])' => ValueAt(key, key[Id(t)], r[1], r[2])'
    BY <1>3, <2>2, <2>4 DEF ValueAt
  <2>. QED  BY <1>3, <2>4, <2>5 DEF ReadOf
<1>8. PendingOf(key, t)'
  <2>1. SUFFICES ASSUME Pending(t)', NEW a \in Addr, Holds(t, a)'
                 PROVE  /\ \A i \in DOMAIN log' : Writer(i, a)' \/ HasRead(log'[i].reads, a) => Key(key, i)' < key[Id(t)]
                        /\ \A v \in Thread \ {t} : Sees(v, a)' => key[Id(v)] < key[Id(t)]
    BY <1>3 DEF PendingOf
  <2>2. t # u /\ Pending(t) /\ Holds(t, a)
    BY <1>3, <2>1
  <2>3. /\ \A i \in DOMAIN log : Writer(i, a) \/ HasRead(log[i].reads, a) => Key(key, i) < key[Id(t)]
        /\ \A v \in Thread \ {t} : Sees(v, a) => key[Id(v)] < key[Id(t)]
    BY <1>4, <2>2 DEF PendingOf
  <2>4. a \notin Written(u)
    BY <1>1, <2>2 DEF Holds
  <2>5. HasRead(call[u].reads, a) => Sees(u, a)
    BY <1>1 DEF Sees, Confirmed, Trying
  <2>6. \A i \in DOMAIN log : Writer(i, a)' \/ HasRead(log'[i].reads, a) => Key(key, i)' < key[Id(t)]
    BY <1>2, <1>5, <2>3 DEF Writer
  <2>7. Writer(n, a)' \/ HasRead(log'[n].reads, a) => Key(key, n)' < key[Id(t)]
    BY <1>2, <1>5, <2>2, <2>3, <2>4, <2>5 DEF Writer
  <2>. QED  BY <1>2, <1>3, <2>3, <2>6, <2>7
<1>. QED  BY <1>6, <1>7, <1>8

(* The words it has stored have a new last value, in the medium too.       *)
LEMMA CommitWord ==
  ASSUME TypeOK, TypeOK', Durability, IdInv, NEW key \in [Nat -> Nat], NEW now \in Nat, Serial(key, now),
         NEW u \in Thread, Commit(u), NEW a \in Addr
  PROVE  WordOf(key, a)'
<1>1. /\ phase' = "up" /\ lock' = lock /\ mem' = mem /\ region' = region
      /\ Active(u) /\ Pending(u) /\ Owner(a)' = Owner(a) /\ Owner(a) \in Thread \cup {NoTid}
      /\ Holds(u, a) <=> a \in Written(u)
  BY CommitFacts, Types DEF Commit, Owner
<1>2. /\ phase = "up" /\ pc[u] = "sync" /\ Medium(u) # p_seq[u] /\ Done(u)' /\ u # NoTid
      /\ pm' = [pm EXCEPT ![PseqLine(u)] = p_seq[u]] /\ EvictTL2
      /\ log' = Append(log, Effect(u, Written(u))) /\ Effect(u, Written(u)) \in Effects
      /\ Effect(u, Written(u)).id = Id(u) /\ Effect(u, Written(u)).writes = Written(u)
      /\ \A t \in Thread \ {u} : Done(t)' <=> Done(t)
  BY Lines DEF Commit, Effect, Id
<1>3. /\ pm'[a] = pm[a] /\ \A t \in Thread : Medium(t)' = (IF t = u THEN p_seq[u] ELSE Medium(t))
      /\ Locked(pm[a])' => Locked(pm[a])
      /\ Locked(pm[a]) /\ ~Locked(pm[a])' => pm[a].lseq = [owner |-> u, seq |-> Medium(u)] /\ Medium(u) # p_seq[u]
  BY <1>2, PseqEvicted
<1>4. WordOf(key, a) /\ PendingOf(key, u)
  BY DEF Serial
<1>5. CASE Holds(u, a)
  <2>1. WriteInv(u) /\ SeqInv(u)
    BY <1>2, UpFacts
  <2>2. mem[a] = Id(u) /\ pm[a] = PersistLine(a)
    BY <1>1, <1>2, <1>5, <2>1 DEF WriteInv, SeqInv, Pending
  <2>3. lock[LockOf(a)].seq = Medium(u) /\ Owner(a) = u
    BY <1>2, <1>5, <2>1 DEF SeqInv, Ticked, Holds
  <2>4. ~Locked(pm[a])'
    <3>1. pm[a].lseq = lock[LockOf(a)]
      BY <2>2 DEF PersistLine
    <3>2. pm[a].lseq.owner = u /\ pm[a].lseq.seq = Medium(u)
      BY <2>3, <3>1 DEF Owner
    <3>. QED  BY <1>2, <1>3, <3>2 DEF Locked
  <2>5. Recovered(pm[a])' = Id(u)
    BY <1>3, <2>2, <2>4 DEF Recovered, PersistLine
  <2>6. PICK v : v = Id(u)
    OBVIOUS
  <2>7. Final(key, a, v)'
    <3>1. \A i \in DOMAIN log : Writer(i, a) => Key(key, i) < key[Id(u)]
      BY <1>1, <1>4, <1>5 DEF PendingOf
    <3>. QED  BY <1>1, <1>2, <1>5, <2>6, <3>1, FinalNew
  <2>8. mem'[a] = v /\ Recovered(pm[a])' = v /\ Owner(a)' = u
    BY <1>1, <2>2, <2>3, <2>5, <2>6
  <2>9. Owner(a)' # NoTid /\ Done(Owner(a))'
    <3>1. Done(Owner(a))' <=> Done(u)'
      BY <2>8 DEF Done, Medium
    <3>. QED  BY <1>2, <2>8, <3>1
  <2>. QED  BY <1>1, <2>7, <2>8, <2>9 DEF WordOf, Final
<1>6. CASE ~Holds(u, a)
  <2>1. LogKeeps(a) /\ SameKeys(key, key)
    BY <1>1, <1>2, <1>6 DEF LogKeeps, SameKeys
  <2>2. ASSUME NEW v, Final(key, a, v)
        PROVE  Final(key, a, v)'
    BY <2>1, <2>2, FinalFrame
  <2>3. PICK v, w, x : v = region[a] /\ w = mem[a] /\ x = Recovered(pm[a])
    OBVIOUS
  <2>4. Recovered(pm[a])' = x
    <3>1. Locked(pm[a])' <=> Locked(pm[a])
      BY <1>2, <1>3, <1>6, OwnLine
    <3>. QED  BY <1>3, <2>3, <3>1 DEF Recovered
  <2>5. Owner(a) # NoTid => (Done(Owner(a))' <=> Done(Owner(a)))
    <3>1. ASSUME NEW t \in Thread, t = Owner(a)
          PROVE  Done(Owner(a))' <=> Done(Owner(a))
      <4>1. (Done(t)' <=> Done(t)) /\ Owner(a)' = t
        BY <1>1, <1>2, <1>6, <3>1 DEF Holds
      <4>. QED  BY <3>1, <4>1 DEF Done, Medium
    <3>. QED  BY <1>1, <3>1
  <2>6. /\ Final(key, a, x)'
        /\ IF Owner(a) # NoTid /\ Done(Owner(a)) THEN Final(key, a, w)' ELSE Final(key, a, v)'
    BY <1>2, <1>4, <2>2, <2>3 DEF WordOf
  <2>7. region'[a] = v /\ mem'[a] = w
    BY <1>1, <2>3
  <2>. QED  BY <1>1, <2>4, <2>5, <2>6, <2>7 DEF WordOf, Final
<1>. QED  BY <1>5, <1>6

(* A write-back commits at most one update.                                *)
LEMMA SerialEvict ==
  ASSUME TypeOK, TypeOK', Durability, IdInv, NEW key \in [Nat -> Nat], NEW now \in Nat, Serial(key, now), EvictTL2
  PROVE  Serial(key, now)'
<1>1. CASE /\ log' = log /\ \A t \in Thread : Done(t)' <=> Done(t)
           /\ \A t \in Thread : Medium(t)' = Medium(t) \/ pc[t] # "sync"
  <2>1. SameThreads
    BY <1>1 DEF SameThreads, EvictTL2, txVars
  <2>2. \A a \in Addr : WordOf(key, a)'
    BY <1>1, <2>1, WordQuiet
  <2>. QED  BY <2>1, <2>2, QuietFrame DEF Serial
<1>2. CASE \E u \in Thread : Commit(u)
  <2>1. PICK u \in Thread : Commit(u)
    BY <1>2
  <2>2. Keys(key, now)' /\ LogInv(key)'
    BY <2>1, CommitKeys
  <2>3. \A t \in Thread : BeyondOf(key, t)' /\ ReadOf(key, t)' /\ PendingOf(key, t)'
    BY <2>1, CommitThreads
  <2>4. \A a \in Addr : WordOf(key, a)'
    BY <2>1, CommitWord
  <2>. QED  BY <2>2, <2>3, <2>4 DEF Serial
<1>. QED  BY <1>1, <1>2, EvictLog DEF Commit
-----------------------------------------------------------------------------
(* A power failure and the recovery: no thread is in a call, and the words *)
(* recover to what they were.                                              *)
LEMMA IdleFrame ==
  ASSUME TypeOK, NEW key \in [Nat -> Nat], NEW now \in Nat, Serial(key, now), log' = log,
         \A t \in Thread : pc'[t] = "idle"
  PROVE  /\ Keys(key, now)' /\ LogInv(key)'
         /\ \A t \in Thread : BeyondOf(key, t)' /\ ReadOf(key, t)' /\ PendingOf(key, t)'
<1>1. Ids' = Ids
  BY DEF Ids
<1>2. ASSUME NEW t \in Thread
      PROVE  /\ ~Active(t)' /\ ~Trying(t)' /\ ~Pending(t)' /\ pc'[t] \notin {"run", "validate"}
             /\ \A a \in Addr : ~Confirmed(t, a)'
  BY DEF Active, Trying, Pending, Placed, Confirmed
<1>3. Keys(key, now)'
  BY <1>1, <1>2 DEF Keys, Serial
<1>4. LogInv(key)'
  <2>1. ASSUME NEW i \in DOMAIN log, NEW r \in log[i].reads
        PROVE  ValueAt(key, Key(key, i), r[1], r[2])'
    <3>1. PICK x : x = Key(key, i)
      OBVIOUS
    <3>2. ValueAt(key, x, r[1], r[2])
      BY <3>1 DEF Serial, LogInv
    <3>3. ValueAt(key, x, r[1], r[2])' /\ Key(key, i)' = x
      BY <3>1, <3>2 DEF ValueAt, Writer, Key
    <3>. QED  BY <3>3 DEF ValueAt
  <2>2. \A i \in DOMAIN log : \A x \in log[i].after : key[x] < Key(key, i)'
    BY DEF Serial, LogInv, Key
  <2>. QED  BY <2>1, <2>2 DEF LogInv
<1>5. ASSUME NEW t \in Thread
      PROVE  BeyondOf(key, t)' /\ ReadOf(key, t)' /\ PendingOf(key, t)'
  <2>1. BeyondOf(key, t)' /\ PendingOf(key, t)'
    BY <1>2 DEF BeyondOf, PendingOf
  <2>3. ReadOf(key, t)'
    BY <1>2 DEF ReadOf, Confirmed, Trying, Pending, Placed
  <2>. QED  BY <2>1, <2>3
<1>. QED  BY <1>3, <1>4, <1>5

(* A power failure loses the attempts and keeps the order.                 *)
LEMMA SerialCrash ==
  ASSUME TypeOK, TypeOK', Durability, OneLockPerWord,
         NEW key \in [Nat -> Nat], NEW now \in Nat, Serial(key, now), CrashTL2
  PROVE  Serial(key, now)'
<1>1. /\ phase' = "recover" /\ pm' = pm /\ log' = log
      /\ \A t \in Thread : pc'[t] = "idle" /\ Medium(t)' = Medium(t)
      /\ \A a \in Addr : PersistLine(a)' = pm[a]
  BY CrashStep DEF CrashTL2, CrashThreads
<1>2. ASSUME NEW a \in Addr
      PROVE  WordOf(key, a)'
  <2>1. pm[a].lseq.owner \in Thread \cup {NoTid}
    BY Types
  <2>2. PICK v : v = Recovered(pm[a])
    OBVIOUS
  <2>3. Recovered(pm[a])' = v /\ Recovered(PersistLine(a))' = v
    BY <1>1, <2>1, <2>2 DEF Recovered, Locked
  <2>4. Final(key, a, v)
    BY <2>2 DEF Serial, WordOf
  <2>5. Final(key, a, v)'
    BY <1>1, <2>4 DEF Final, Writer, Key
  <2>. QED  BY <1>1, <2>3, <2>5 DEF WordOf, Final
<1>. QED  BY <1>1, <1>2, IdleFrame DEF Serial

(* So does recovery, at each word.                                         *)
LEMMA SerialRecover ==
  ASSUME TypeOK, TypeOK', Durability, OneLockPerWord,
         NEW key \in [Nat -> Nat], NEW now \in Nat, Serial(key, now), RecoverWord
  PROVE  Serial(key, now)'
<1>1. phase = "recover" /\ phase' = "recover" /\ pm' = pm /\ p_seq' = p_seq /\ log' = log /\ pc' = pc
  BY DEF RecoverWord, histVars
<1>2. \A t \in Thread : pc[t] = "idle" /\ Medium(t) = p_seq[t] /\ Medium(t)' = Medium(t)
  BY <1>1 DEF Durability, RecoverInv, Medium
<1>3. PICK a \in Addr, t \in Thread :
        /\ Holds(t, a) /\ lock' = [lock EXCEPT ![LockOf(a)] = Free(0)]
        /\ IF lock[LockOf(a)].seq = p_seq[t] THEN mem' = [mem EXCEPT ![a] = region[a]] /\ region' = region
                                             ELSE region' = [region EXCEPT ![a] = mem[a]] /\ mem' = mem
  BY RecoverFacts
<1>4. ASSUME NEW b \in Addr
      PROVE  WordOf(key, b)'
  <2>1. Final(key, b, Recovered(pm[b])) /\ Final(key, b, Recovered(PersistLine(b)))
    BY <1>1 DEF Serial, WordOf
  <2>2. PICK v, w : v = Recovered(pm[b]) /\ w = Recovered(PersistLine(b))
    OBVIOUS
  <2>3. Recovered(pm[b])' = v
    <3>1. pm[b].lseq.owner \in Thread \cup {NoTid}
      BY Types
    <3>. QED  BY <1>1, <1>2, <2>2, <3>1 DEF Recovered, Locked
  <2>4. Recovered(PersistLine(b))' = w
    <3>1. CASE b # a
      <4>1. LockOf(b) # LockOf(a) /\ LockOf(b) \in Lock
        BY <3>1, LockOfWord DEF OneLockPerWord
      <4>2. PersistLine(b)' = PersistLine(b)
        BY <1>3, <3>1, <4>1 DEF PersistLine, TypeOK
      <4>3. PersistLine(b).lseq.owner \in Thread \cup {NoTid}
        BY PersistLineType DEF PersistWord, LockWord
      <4>. QED  BY <1>2, <2>2, <4>2, <4>3 DEF Recovered, Locked
    <3>2. CASE b = a
      <4>1. lock'[LockOf(a)] = Free(0)
        BY <1>3, LockOfWord DEF TypeOK
      <4>2. PersistLine(a)'.lseq.owner = NoTid /\ PersistLine(a)'.main = mem'[a]
        BY <4>1 DEF PersistLine, Free
      <4>3. Recovered(PersistLine(a))' = mem'[a]
        BY <4>2 DEF Recovered, Locked
      <4>4. w = IF lock[LockOf(a)].seq = p_seq[t] THEN region[a] ELSE mem[a]
        <5>1. PersistLine(a).lseq.owner = t /\ t # NoTid /\ PersistLine(a).lseq.seq = lock[LockOf(a)].seq
          BY <1>3, Lines DEF PersistLine, Holds, Owner
        <5>. QED  BY <1>2, <2>2, <3>2, <5>1 DEF Recovered, Locked, PersistLine
      <4>5. mem'[a] = IF lock[LockOf(a)].seq = p_seq[t] THEN region[a] ELSE mem[a]
        BY <1>3 DEF TypeOK
      <4>. QED  BY <3>2, <4>3, <4>4, <4>5
    <3>. QED  BY <3>1, <3>2
  <2>5. Final(key, b, v)' /\ Final(key, b, w)'
    BY <1>1, <2>1, <2>2 DEF Final, Writer, Key
  <2>. QED  BY <1>1, <2>3, <2>4, <2>5 DEF WordOf, Final
<1>. QED  BY <1>1, <1>2, <1>4, IdleFrame DEF Serial

(* And its end.                                                            *)
LEMMA SerialRecoverDone ==
  ASSUME TypeOK, TypeOK', Durability,
         NEW key \in [Nat -> Nat], NEW now \in Nat, Serial(key, now), RecoverDoneTL2
  PROVE  Serial(key, now)'
<1>1. /\ phase = "recover" /\ phase' = "up" /\ lock' = lock /\ mem' = mem /\ region' = region /\ pm' = pm
      /\ p_seq' = p_seq /\ pc' = pc /\ log' = log
      /\ \A a \in Addr : Owner(a) = NoTid /\ pm[a] = PersistLine(a)
  BY RecoverDoneFacts
<1>2. \A t \in Thread : pc[t] = "idle" /\ Medium(t)' = Medium(t)
  BY <1>1 DEF Durability, RecoverInv, Medium
<1>3. ASSUME NEW a \in Addr
      PROVE  WordOf(key, a)'
  <2>1. pm[a].lseq.owner = NoTid /\ pm[a].main = mem[a] /\ pm[a].back = region[a]
    <3>1. pm[a] = PersistLine(a) /\ Owner(a) = NoTid
      BY <1>1
    <3>. QED  BY <3>1 DEF PersistLine, Owner
  <2>2. mem[a] = region[a]
    BY <2>1 DEF Durability, LineInv
  <2>3. PICK v : v = mem[a]
    OBVIOUS
  <2>4. Recovered(pm[a]) = v /\ Recovered(pm[a])' = v /\ region'[a] = v /\ Owner(a)' = NoTid
    BY <1>1, <2>1, <2>2, <2>3 DEF Recovered, Locked, Owner
  <2>5. Final(key, a, v)
    BY <2>4 DEF Serial, WordOf
  <2>6. Final(key, a, v)'
    BY <1>1, <2>5 DEF Final, Writer, Key
  <2>. QED  BY <1>1, <2>4, <2>6 DEF WordOf, Final
<1>. QED  BY <1>1, <1>2, <1>3, IdleFrame DEF Serial

LEMMA SerialInit ==
  ASSUME InitTrinityTL2
  PROVE  \E key \in [Nat -> Nat], now \in Nat : Serial(key, now)
<1>1. TypeOK /\ log = <<>> /\ DOMAIN log = {} /\ phase = "up" /\ \A t \in Thread : pc[t] = "idle"
  BY TypeInit DEF InitTrinityTL2, InitTL2, InitHistory
<1>2. PICK key \in [Nat -> Nat] : key = [n \in Nat |-> 0]
  OBVIOUS
<1>3. Keys(key, 0) /\ LogInv(key)
  BY <1>1 DEF Keys, LogInv, Ids, Active
<1>4. \A t \in Thread : BeyondOf(key, t) /\ ReadOf(key, t) /\ PendingOf(key, t)
  BY <1>1 DEF BeyondOf, ReadOf, PendingOf, Trying, Pending, Placed, Confirmed
<1>5. ASSUME NEW a \in Addr
      PROVE  WordOf(key, a)
  <2>1. /\ mem[a] = InitVal /\ region[a] = InitVal /\ lock[LockOf(a)] = Free(0) /\ pm[a] = PersistLine(a)
    BY LockOfWord, Lines DEF InitTrinityTL2, InitTL2
  <2>2. Owner(a) = NoTid /\ pm[a].lseq.owner = NoTid /\ pm[a].main = InitVal
    BY <2>1 DEF Owner, Free, PersistLine
  <2>3. Recovered(pm[a]) = InitVal
    BY <2>2 DEF Recovered, Locked
  <2>4. Final(key, a, InitVal)
    BY <1>1 DEF Final
  <2>. QED  BY <1>1, <2>1, <2>2, <2>3, <2>4 DEF WordOf
<1>6. Serial(key, 0)
  BY <1>3, <1>4, <1>5 DEF Serial
<1>. QED  BY <1>6

LEMMA SerialStutter ==
  ASSUME TypeOK, NEW key \in [Nat -> Nat], NEW now \in Nat, Serial(key, now), UNCHANGED vars
  PROVE  Serial(key, now)'
<1>1. /\ phase' = phase /\ pm' = pm /\ region' = region /\ mem' = mem /\ lock' = lock /\ log' = log /\ p_seq' = p_seq
      /\ pc' = pc
  BY DEF vars, regionVars, txVars, histVars
<1>2. SameThreads
  BY DEF SameThreads, vars, regionVars, txVars, histVars, Done, Medium
<1>3. ASSUME NEW a \in Addr
      PROVE  WordOf(key, a)'
  <2>1. \A v : Final(key, a, v) => Final(key, a, v)'
    BY <1>1 DEF Final, Writer, Key
  <2>2. WordOf(key, a)
    BY DEF Serial
  <2>3. PICK v, w, x, y : /\ v = region[a] /\ w = mem[a] /\ x = Recovered(pm[a]) /\ y = Recovered(PersistLine(a))
    OBVIOUS
  <2>4. /\ Recovered(pm[a])' = x /\ Recovered(PersistLine(a))' = y /\ region'[a] = v /\ mem'[a] = w
        /\ Owner(a)' = Owner(a) /\ (Done(Owner(a))' <=> Done(Owner(a)))
    BY <1>1, <2>3 DEF Recovered, Locked, PersistLine, Medium, Owner, Done
  <2>5. /\ Final(key, a, x)' /\ (phase = "recover" => Final(key, a, y)')
        /\ phase = "up" => IF Owner(a) # NoTid /\ Done(Owner(a)) THEN Final(key, a, w)' ELSE Final(key, a, v)'
    BY <2>1, <2>2, <2>3 DEF WordOf
  <2>. QED  BY <1>1, <2>4, <2>5 DEF WordOf, Final
<1>. QED  BY <1>2, <1>3, QuietFrame DEF Serial

(* Every step keeps a serial order.                                        *)
LEMMA SerialStep ==
  ASSUME TypeOK, TypeOK', Durability, OneLockPerWord, IdInv, IdInv',
         NEW key \in [Nat -> Nat], NEW now \in Nat, Serial(key, now), NextTrinityTL2
  PROVE  \E key2 \in [Nat -> Nat], now2 \in Nat : Serial(key2, now2)'
<1>1. CASE \E t \in Thread : TxStep(t)
  BY <1>1, SerialTx
<1>2. CASE EvictTL2
  BY <1>2, SerialEvict
<1>3. CASE CrashTL2
  BY <1>3, SerialCrash
<1>4. CASE RecoverWord
  BY <1>4, SerialRecover
<1>5. CASE RecoverDoneTL2
  BY <1>5, SerialRecoverDone
<1>. QED  BY <1>1, <1>2, <1>3, <1>4, <1>5, NextCases
-----------------------------------------------------------------------------
(* The logged transactions in the order of their keys.                     *)
OrderedBy(n, key, p) ==
  /\ key \in [1 .. n -> Nat] /\ p \in [1 .. n -> 1 .. n]
  /\ IsInjective(p)
  /\ \A x \in 1 .. n : \E i \in 1 .. n : p[i] = x
  /\ \A i, j \in 1 .. n : i < j => key[p[i]] < key[p[j]]

(* A finite set of keys can be put in order.                               *)
LEMMA Sorted ==
  ASSUME NEW n \in Nat, NEW key \in [1 .. n -> Nat], \A i, j \in 1 .. n : key[i] = key[j] => i = j
  PROVE  \E p : OrderedBy(n, key, p)
<1>. DEFINE N == 1 .. n
            Low(i) == {j \in N : key[j] < key[i]}
            rank == [i \in N |-> Cardinality(Low(i)) + 1]
<1>1. IsFiniteSet(N) /\ Cardinality(N) = n
  BY FS_Interval
<1>2. \A i, j \in N : key[i] \in Nat /\ (i = j \/ key[i] < key[j] \/ key[j] < key[i]) /\ ~(key[i] < key[i])
  <2>1. \A i \in N : key[i] \in Nat
    OBVIOUS
  <2>. QED  BY <2>1
<1>4. \A i \in N : /\ IsFiniteSet(Low(i)) /\ Cardinality(Low(i)) \in Nat /\ Cardinality(Low(i)) < n
                   /\ rank[i] \in N /\ rank[i] = Cardinality(Low(i)) + 1
  <2>1. ASSUME NEW i \in N
        PROVE  IsFiniteSet(Low(i)) /\ Cardinality(Low(i)) \in Nat /\ Cardinality(Low(i)) < n
    <3>1. Low(i) \in SUBSET N /\ i \notin Low(i)
      BY <1>2, <2>1
    <3>2. Low(i) # N
      BY <2>1, <3>1
    <3>. HIDE DEF Low
    <3>. QED  BY <1>1, <3>1, <3>2, FS_Subset, FS_CardinalityType
  <2>2. ASSUME NEW i \in N
        PROVE  rank[i] = Cardinality(Low(i)) + 1 /\ rank[i] \in N
    <3>1. PICK c \in Nat : c = Cardinality(Low(i)) /\ c < n
      BY <2>1
    <3>2. rank[i] = c + 1
      BY <3>1
    <3>3. c + 1 \in N
      BY <3>1
    <3>. QED  BY <3>1, <3>2, <3>3
  <2>. HIDE DEF rank, Low
  <2>. QED  BY <2>1, <2>2
<1>5. ASSUME NEW i \in N, NEW j \in N, key[i] < key[j]
      PROVE  rank[i] < rank[j]
  <2>0. \A h \in N : key[h] < key[i] => key[h] < key[j]
    BY <1>2, <1>5
  <2>1. Low(i) \in SUBSET Low(j) /\ i \in Low(j) /\ i \notin Low(i)
    BY <1>2, <1>5, <2>0
  <2>2. Low(i) # Low(j)
    BY <2>1
  <2>3. Cardinality(Low(i)) < Cardinality(Low(j))
    <3>1. IsFiniteSet(Low(j)) /\ Cardinality(Low(i)) \in Nat /\ Cardinality(Low(j)) \in Nat
      BY <1>4
    <3>. HIDE DEF Low
    <3>. QED  BY <2>1, <2>2, <3>1, FS_Subset
  <2>4. /\ rank[i] = Cardinality(Low(i)) + 1 /\ rank[j] = Cardinality(Low(j)) + 1
        /\ Cardinality(Low(i)) \in Nat /\ Cardinality(Low(j)) \in Nat
    BY <1>4
  <2>. HIDE DEF rank, Low
  <2>. QED  BY <2>3, <2>4
<1>6. rank \in [N -> N]
  BY <1>4
<1>. HIDE DEF rank
<1>7. \A i, j \in N : rank[i] = rank[j] => i = j
  <2>. SUFFICES ASSUME NEW i \in N, NEW j \in N, rank[i] = rank[j], i # j PROVE FALSE
    OBVIOUS
  <2>1. rank[i] \in Nat /\ rank[j] \in Nat
    BY <1>6
  <2>2. key[i] < key[j] \/ key[j] < key[i]
    BY <1>2
  <2>3. rank[i] < rank[j] \/ rank[j] < rank[i]
    BY <1>5, <2>2
  <2>. QED  BY <2>1, <2>3
<1>8. rank \in Injection(N, N)
  BY <1>6, <1>7 DEF Injection, IsInjective
<1>9. rank \in Surjection(N, N)
  BY <1>1, <1>8, FS_Injection
<1>10. \A x \in N : \E i \in N : rank[i] = x
  BY <1>9 DEF Surjection
<1>. DEFINE p == [x \in N |-> CHOOSE i \in N : rank[i] = x]
<1>11. \A x \in N : p[x] \in N /\ rank[p[x]] = x
  BY <1>10
<1>12. p \in [N -> N]
  BY <1>11
<1>. HIDE DEF p
<1>13. IsInjective(p)
  <2>1. \A x, y \in N : p[x] = p[y] => x = y
    BY <1>11
  <2>2. DOMAIN p = N
    BY <1>12
  <2>. HIDE DEF N
  <2>. QED  BY <2>1, <2>2 DEF IsInjective
<1>14. \A x \in N : \E i \in N : p[i] = x
  BY <1>6, <1>7, <1>11
<1>15. ASSUME NEW i \in N, NEW j \in N, i < j
       PROVE  key[p[i]] < key[p[j]]
  <2>1. p[i] # p[j] /\ ~(rank[p[j]] < rank[p[i]])
    BY <1>11, <1>15
  <2>. QED  BY <1>2, <1>5, <1>11, <2>1
<1>. QED  BY <1>12, <1>13, <1>14, <1>15 DEF OrderedBy

LEMMA MaxIs ==
  ASSUME NEW S, S \subseteq Nat, NEW x \in S, \A y \in S : y <= x
  PROVE  Max(S) = x
<1>1. \A y \in S : (\A z \in S : y >= z) => y = x
  OBVIOUS
<1>. QED  BY <1>1 DEF Max

(* What a word holds after the first m transactions of the order.          *)
Value(key, low, a, v) ==
  \/ v = InitVal /\ \A i \in low : ~Writer(i, a)
  \/ \E i \in low : /\ Writer(i, a) /\ log[i].id = v
                    /\ \A j \in low : Writer(j, a) => key[j] <= key[i]

FirstOf(n, p, m, low) ==
  m \in 0 .. n /\ low \subseteq 1 .. n /\ \A j \in 1 .. n : p[j] \in low <=> j <= m

(* The fold of the property over the order finds the value of Value.       *)
LEMMA ValueIs ==
  ASSUME NEW n \in Nat, NEW key, NEW p, OrderedBy(n, key, p), NEW m, NEW low, FirstOf(n, p, m, low),
         NEW a, NEW v, Value(key, low, a, v)
  PROVE  ValueAfter(p, m, a) = v
<1>. DEFINE writers == {j \in 1 .. m : a \in log[p[j]].writes}
<1>0. m \in 0 .. n /\ low \subseteq 1 .. n /\ \A j \in 1 .. n : p[j] \in low <=> j <= m
  BY DEF FirstOf
<1>1. ASSUME NEW j \in writers
      PROVE  j \in 1 .. n /\ p[j] \in low /\ Writer(p[j], a)
  BY <1>0 DEF Writer
<1>2. CASE v = InitVal /\ \A i \in low : ~Writer(i, a)
  <2>1. writers = {}
    BY <1>1, <1>2
  <2>. QED  BY <1>2, <2>1 DEF ValueAfter
<1>3. CASE \E i \in low : /\ Writer(i, a) /\ log[i].id = v
                          /\ \A j \in low : Writer(j, a) => key[j] <= key[i]
  <2>1. PICK i \in low : /\ Writer(i, a) /\ log[i].id = v
                         /\ \A j \in low : Writer(j, a) => key[j] <= key[i]
    BY <1>3
  <2>2. PICK o \in 1 .. n : p[o] = i
    BY <1>0 DEF OrderedBy
  <2>3. o \in writers
    BY <1>0, <2>1, <2>2 DEF Writer
  <2>4. ASSUME NEW j \in writers
        PROVE  j <= o
    <3>1. j \in 1 .. n /\ key[p[j]] <= key[p[o]]
      BY <1>1, <2>1, <2>2
    <3>2. PICK x \in Nat, y \in Nat : x = key[p[j]] /\ y = key[p[o]] /\ (o < j => y < x)
      BY <3>1 DEF OrderedBy
    <3>3. x <= y
      BY <3>1, <3>2
    <3>4. ~(o < j)
      BY <3>2, <3>3
    <3>. QED  BY <3>1, <3>4
  <2>5. Max(writers) = o
    <3>1. writers \subseteq Nat
      BY <1>0
    <3>. HIDE DEF writers
    <3>. QED  BY <2>3, <2>4, <3>1, MaxIs
  <2>. QED  BY <2>1, <2>2, <2>3, <2>5 DEF ValueAfter
<1>. QED  BY <1>2, <1>3 DEF Value

(* The place of the transactions in the log by their keys.                 *)
LEMMA LogOrder ==
  ASSUME TypeOK, IdInv, NEW key \in [Nat -> Nat], NEW now \in Nat, Serial(key, now)
  PROVE  \E n, place, p :
           /\ n \in Nat /\ n = Len(log) /\ DOMAIN log = 1 .. n /\ n <= MaxTx /\ OrderedBy(n, place, p)
           /\ \A i \in 1 .. n : place[i] = Key(key, i)
<1>1. PICK n \in Nat : n = Len(log) /\ DOMAIN log = 1 .. n
  BY DEF TypeOK
<1>2. \A i \in 1 .. n : Key(key, i) \in Nat
  BY <1>1, KeyTypes
<1>3. PICK place : place = [i \in 1 .. n |-> Key(key, i)]
  OBVIOUS
<1>4. place \in [1 .. n -> Nat] /\ \A i \in 1 .. n : place[i] = Key(key, i)
  BY <1>2, <1>3
<1>5. \A i, j \in 1 .. n : place[i] = place[j] => i = j
  <2>1. ASSUME NEW i \in 1 .. n, NEW j \in 1 .. n, place[i] = place[j]
        PROVE  i = j
    <3>1. log[i].id \in Ids /\ log[j].id \in Ids /\ i \in DOMAIN log /\ j \in DOMAIN log
      BY <1>1 DEF Ids
    <3>2. key[log[i].id] = key[log[j].id]
      BY <1>4, <2>1 DEF Key
    <3>3. log[i].id = log[j].id
      BY <3>1, <3>2 DEF Serial, Keys
    <3>. QED  BY <3>1, <3>3 DEF IdInv
  <2>. QED  BY <2>1
<1>6. PICK p : OrderedBy(n, place, p)
  BY <1>4, <1>5, Sorted
<1>7. n <= MaxTx
  <2>1. calls \in Nat /\ calls <= MaxTx /\ MaxTx \in Nat
    BY HistoryAssumption DEF TypeOK
  <2>2. \A i \in 1 .. n : log[i].id \in 1 .. calls
    BY <1>1 DEF IdInv, Ids
  <2>3. \A i, j \in 1 .. n : log[i].id = log[j].id => i = j
    BY <1>1 DEF IdInv
  <2>4. PICK ids : ids = [i \in 1 .. n |-> log[i].id]
    OBVIOUS
  <2>5. ids \in Injection(1 .. n, 1 .. calls)
    <3>1. ids \in [1 .. n -> 1 .. calls]
      BY <2>2, <2>4
    <3>2. \A i, j \in 1 .. n : ids[i] = ids[j] => i = j
      BY <2>3, <2>4
    <3>. QED  BY <3>1, <3>2 DEF Injection, IsInjective
  <2>6. \A x \in Nat : IsFiniteSet(1 .. x) /\ Cardinality(1 .. x) = x
    <3>1. ASSUME NEW x \in Nat
          PROVE  IsFiniteSet(1 .. x) /\ Cardinality(1 .. x) = x
      <4>1. IsFiniteSet(1 .. x) /\ Cardinality(1 .. x) = (IF 1 > x THEN 0 ELSE x - 1 + 1)
        <5>1. 1 \in Int /\ x \in Int
          OBVIOUS
        <5>. QED  BY <5>1, FS_Interval, Zenon
      <4>2. PICK c : c = Cardinality(1 .. x)
        OBVIOUS
      <4>3. c = IF 1 > x THEN 0 ELSE x - 1 + 1
        BY <4>1, <4>2
      <4>4. c = x
        BY <4>3
      <4>. QED  BY <4>1, <4>2, <4>4
    <3>. QED  BY <3>1
  <2>7. Cardinality(1 .. n) <= Cardinality(1 .. calls)
    BY <2>1, <2>5, <2>6, FS_Injection
  <2>8. n <= calls
    BY <2>1, <2>6, <2>7
  <2>. QED  BY <2>1, <2>8
<1>. QED  BY <1>1, <1>4, <1>6, <1>7

LEMMA BeforeInOrder ==
  ASSUME NEW n \in Nat, NEW key, NEW p, OrderedBy(n, key, p), NEW i \in 1 .. n
  PROVE  \A j \in 1 .. n : key[p[j]] < key[p[i]] <=> j <= i - 1
<1>1. SUFFICES ASSUME NEW j \in 1 .. n
               PROVE  key[p[j]] < key[p[i]] <=> j <= i - 1
  OBVIOUS
<1>2. PICK x \in Nat, y \in Nat :
        /\ x = key[p[i]] /\ y = key[p[j]] /\ (i < j => x < y) /\ (j < i => y < x) /\ (i = j => x = y)
  BY DEF OrderedBy
<1>. HIDE DEF OrderedBy
<1>3. y < x <=> j < i
  BY <1>2
<1>4. j < i <=> j <= i - 1
  OBVIOUS
<1>. QED  BY <1>2, <1>3, <1>4

(* Keys give the order that the property asks for.                         *)
LEMMA SerialOrder ==
  ASSUME TypeOK, IdInv, NEW key \in [Nat -> Nat], NEW now \in Nat, Serial(key, now)
  PROVE  SerializableTo(DurableTL2)
<1>1. PICK n, place, p :
        /\ n \in Nat /\ n = Len(log) /\ DOMAIN log = 1 .. n /\ n <= MaxTx /\ OrderedBy(n, place, p)
        /\ \A i \in 1 .. n : place[i] = Key(key, i)
  BY LogOrder
<1>2. /\ p \in [1 .. n -> 1 .. n] /\ IsInjective(p) /\ \A i \in 1 .. n : p[i] \in 1 .. n
      /\ \A i \in 1 .. n : Key(key, i) \in Nat /\ place[i] \in Nat
  BY <1>1, KeyTypes DEF OrderedBy
<1>3. p \in Orders[Len(log)]
  <2>1. n \in 0 .. MaxTx
    BY <1>1, HistoryAssumption
  <2>2. Orders[n] = {q \in [1 .. n -> 1 .. n] : IsInjective(q)}
    BY <2>1 DEF Orders
  <2>. QED  BY <1>1, <1>2, <2>2
<1>4. ASSUME NEW i \in 1 .. n, NEW j \in 1 .. n, i < j, log[p[j]].id \in log[p[i]].after
      PROVE  FALSE
  <2>1. PICK x \in 1 .. n, y \in 1 .. n : x = p[i] /\ y = p[j]
    BY <1>2
  <2>2. key[log[y].id] < Key(key, x)
    BY <1>1, <1>4, <2>1 DEF Serial, LogInv
  <2>3. place[x] < place[y] /\ place[x] = Key(key, x) /\ place[y] = Key(key, y)
    BY <1>1, <1>4, <2>1 DEF OrderedBy
  <2>4. PICK u \in Nat, w \in Nat : u = Key(key, x) /\ w = Key(key, y)
    BY <1>2
  <2>5. w < u /\ u < w
    BY <2>2, <2>3, <2>4 DEF Key
  <2>. QED  BY <2>5
<1>5. ASSUME NEW i \in 1 .. n, NEW r \in log[p[i]].reads
      PROVE  r[2] = ValueAfter(p, i - 1, r[1])
  <2>1. PICK x \in 1 .. n : x = p[i]
    BY <1>2
  <2>2. PICK low : low = {j \in 1 .. n : place[j] < place[x]}
    OBVIOUS
  <2>3. PICK m : m = i - 1
    OBVIOUS
  <2>4. m \in 0 .. n
    BY <1>1, <2>3
  <2>5. \A j \in 1 .. n : p[j] \in low <=> j <= m
    BY <1>1, <1>2, <2>1, <2>2, <2>3, BeforeInOrder
  <2>6. Value(place, low, r[1], r[2])
    <3>1. ValueAt(key, Key(key, x), r[1], r[2])
      BY <1>1, <1>5, <2>1 DEF Serial, LogInv
    <3>2. PICK z \in Nat : z = Key(key, x)
      BY <1>2
    <3>3. \A j \in 1 .. n : (j \in low <=> Key(key, j) < z) /\ Key(key, j) \in Nat /\ place[j] = Key(key, j)
      BY <1>1, <1>2, <2>2, <3>2
    <3>4. low \subseteq 1 .. n
      BY <2>2
    <3>5. CASE r[2] = InitVal /\ \A j \in DOMAIN log : Writer(j, r[1]) => Key(key, j) >= Key(key, x)
      <4>1. ASSUME NEW j \in low
            PROVE  ~Writer(j, r[1])
        <5>1. PICK y \in Nat : y = Key(key, j) /\ y < z
          BY <3>3, <3>4
        <5>2. ~(Key(key, j) >= Key(key, x))
          BY <3>2, <5>1
        <5>. QED  BY <1>1, <3>4, <3>5, <5>2
      <4>. QED  BY <3>5, <4>1 DEF Value
    <3>6. CASE \E h \in DOMAIN log :
                 /\ Writer(h, r[1]) /\ log[h].id = r[2] /\ Key(key, h) < Key(key, x)
                 /\ \A j \in DOMAIN log : Writer(j, r[1]) /\ Key(key, j) < Key(key, x) => Key(key, j) <= Key(key, h)
      <4>1. PICK h \in DOMAIN log :
              /\ Writer(h, r[1]) /\ log[h].id = r[2] /\ Key(key, h) < Key(key, x)
              /\ \A j \in DOMAIN log : Writer(j, r[1]) /\ Key(key, j) < Key(key, x) => Key(key, j) <= Key(key, h)
        BY <3>6
      <4>2. h \in low /\ \A j \in low : Writer(j, r[1]) => place[j] <= place[h]
        BY <1>1, <3>2, <3>3, <3>4, <4>1
      <4>. QED  BY <4>1, <4>2 DEF Value
    <3>. QED  BY <3>1, <3>5, <3>6 DEF ValueAt
  <2>7. low \subseteq 1 .. n
    BY <2>2
  <2>8. ValueAfter(p, m, r[1]) = r[2]
    <3>1. FirstOf(n, p, m, low)
      BY <2>4, <2>5, <2>7 DEF FirstOf
    <3>. QED  BY <1>1, <2>6, <3>1, ValueIs
  <2>. QED  BY <2>3, <2>8
<1>6. ASSUME NEW a \in Addr
      PROVE  DurableTL2[a] = ValueAfter(p, n, a)
  <2>1. PICK v : v = Recovered(pm[a])
    OBVIOUS
  <2>2. DurableTL2[a] = v
    BY <2>1 DEF DurableTL2, Recovered, Locked, Medium
  <2>3. Final(key, a, v)
    BY <2>1 DEF Serial, WordOf
  <2>4. PICK all : all = 1 .. n
    OBVIOUS
  <2>5. Value(place, all, a, v)
    <3>1. CASE v = InitVal /\ \A i \in DOMAIN log : ~Writer(i, a)
      BY <1>1, <2>4, <3>1 DEF Value
    <3>2. CASE \E i \in DOMAIN log :
                 /\ Writer(i, a) /\ log[i].id = v
                 /\ \A j \in DOMAIN log : Writer(j, a) => Key(key, j) <= Key(key, i)
      <4>1. PICK i \in DOMAIN log :
              /\ Writer(i, a) /\ log[i].id = v
              /\ \A j \in DOMAIN log : Writer(j, a) => Key(key, j) <= Key(key, i)
        BY <3>2
      <4>2. i \in all /\ \A j \in all : Writer(j, a) => place[j] <= place[i]
        BY <1>1, <2>4, <4>1
      <4>. QED  BY <4>1, <4>2 DEF Value
    <3>. QED  BY <2>3, <3>1, <3>2 DEF Final
  <2>6. /\ all \subseteq 1 .. n /\ n \in 0 .. n
        /\ \A j \in 1 .. n : p[j] \in all <=> j <= n
    BY <1>1, <1>2, <2>4
  <2>7. ValueAfter(p, n, a) = v
    <3>1. FirstOf(n, p, n, all)
      BY <2>6 DEF FirstOf
    <3>. QED  BY <1>1, <2>5, <3>1, ValueIs
  <2>. QED  BY <2>2, <2>7
<1>. QED  BY <1>1, <1>3, <1>4, <1>5, <1>6 DEF SerializableTo
-----------------------------------------------------------------------------
(* The inductive invariant of TrinityTL2.                                  *)
TL2Inv ==
  /\ TypeOK /\ Durability /\ IdInv
  /\ \E key \in [Nat -> Nat], now \in Nat : Serial(key, now)

LEMMA IdStutter ==
  ASSUME TypeOK, IdInv, UNCHANGED vars
  PROVE  IdInv'
<1>1. /\ Ids' = Ids /\ log' = log /\ calls' = calls /\ returned' = returned /\ pc' = pc /\ call' = call
      /\ \A t \in Thread : Id(t)' = Id(t) /\ (Done(t)' <=> Done(t))
  BY DEF vars, regionVars, txVars, histVars, Ids, Id, Done, Medium
<1>2. \A t \in Thread : IdOf(t) => IdOf(t)'
  BY <1>1 DEF IdOf
<1>. QED  BY <1>1, <1>2 DEF IdInv

(* The invariant holds in every behaviour of TrinityTL2.                   *)
LEMMA TL2Invariant ==
  ASSUME OneLockPerWord
  PROVE  Spec => [](engine = "TL2" => TL2Inv)
<1>. DEFINE Inv == engine = "TL2" => TL2Inv
<1>1. Init => Inv
  BY TypeInit, DurabilityInit, IdInit, SerialInit DEF Init, TL2Inv
<1>2. Inv /\ [Next]_<<engine, vars>> => Inv'
  <2>1. ASSUME Inv, Next, engine' = "TL2"
        PROVE  TL2Inv'
    <3>1. engine = "TL2" /\ NextTrinityTL2 /\ TypeOK /\ Durability /\ IdInv
      BY <2>1 DEF Next, TL2Inv
    <3>2. TypeOK' /\ Durability' /\ IdInv'
      BY <3>1, TypeStep, DurabilityStep, IdStep
    <3>3. PICK key \in [Nat -> Nat], now \in Nat : Serial(key, now)
      BY <2>1, <3>1 DEF TL2Inv
    <3>4. \E key2 \in [Nat -> Nat], now2 \in Nat : Serial(key2, now2)'
      BY <3>1, <3>2, <3>3, SerialStep
    <3>. QED  BY <3>2, <3>4 DEF TL2Inv
  <2>2. ASSUME Inv, UNCHANGED <<engine, vars>>, engine' = "TL2"
        PROVE  TL2Inv'
    <3>1. UNCHANGED vars /\ TypeOK /\ Durability /\ IdInv
      BY <2>2 DEF TL2Inv
    <3>2. TypeOK' /\ Durability' /\ IdInv'
      BY <3>1, VarsStutter, IdStutter
    <3>3. PICK key \in [Nat -> Nat], now \in Nat : Serial(key, now)
      BY <2>2 DEF TL2Inv
    <3>4. Serial(key, now)'
      BY <3>1, <3>3, SerialStutter
    <3>. QED  BY <3>2, <3>4 DEF TL2Inv
  <2>. QED  BY <2>1, <2>2
<1>. QED  BY <1>1, <1>2, PTL DEF Spec

(* The inductive invariant of TrinityTL2.hpp: locks, clock, rollback and   *)
(* recovery (Durability), and a serial order that all that transactions    *)
(* have read agrees with (Serial).                                         *)
THEOREM TrinityTL2Invariant == OneLockPerWord => (Spec => [](engine = "TL2" => TL2Inv))
<1>. SUFFICES ASSUME OneLockPerWord PROVE Spec => [](engine = "TL2" => TL2Inv)
  OBVIOUS
<1>. QED BY TL2Invariant

(* The transactions of TrinityTL2.hpp are strictly serializable, as the    *)
(* property of that name of the run says it: one order of all that have    *)
(* committed explains what each has loaded and what a power failure now    *)
(* would leave, and respects which had returned before another began.      *)
THEOREM TrinityTL2StrictlySerializable ==
  OneLockPerWord => (Spec => [](engine = "TL2" => StrictlySerializable))
<1>. SUFFICES ASSUME OneLockPerWord PROVE Spec => [](engine = "TL2" => StrictlySerializable)
  OBVIOUS
<1>1. (engine = "TL2" => TL2Inv) => (engine = "TL2" => StrictlySerializable)
  <2>. SUFFICES ASSUME engine = "TL2", TL2Inv PROVE StrictlySerializable
    OBVIOUS
  <2>1. PICK key \in [Nat -> Nat], now \in Nat : Serial(key, now)
    BY DEF TL2Inv
  <2>2. SerializableTo(DurableTL2)
    BY <2>1, SerialOrder DEF TL2Inv
  <2>3. Durable = DurableTL2
    BY DEF Durable
  <2>. QED BY <2>2, <2>3 DEF StrictlySerializable
<1>. QED BY TL2Invariant, <1>1, PTL

(* When no thread is inside of a transaction of TrinityTL2.hpp, aborted or *)
(* not, all locks are free, none is ahead of the clock, and the two copies *)
(* of every word agree.                                                    *)
THEOREM TrinityTL2QuietIsClean ==
  OneLockPerWord => (Spec => [](engine = "TL2" => QuietIsClean))
<1>. SUFFICES ASSUME OneLockPerWord PROVE Spec => [](engine = "TL2" => QuietIsClean)
  OBVIOUS
<1>1. (engine = "TL2" => TL2Inv) => (engine = "TL2" => QuietIsClean)
  BY QuietAndClean DEF TL2Inv
<1>. QED BY TL2Invariant, <1>1, PTL
=============================================================================
