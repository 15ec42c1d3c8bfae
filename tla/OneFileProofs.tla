--------------------------- MODULE OneFileProofs ---------------------------
(***************************************************************************)
(* Theorems about module OneFile: transactions are strictly serializable,  *)
(* and durable when they return, whatever the number of threads, words and *)
(* transactions, and whoever helps whom.                                   *)
(***************************************************************************)
EXTENDS OneFile, FiniteSetTheorems, WellFoundedInduction, TLAPS

(* The types of the variables.                                             *)
Tx == [seq : Nat, idx : Thread]
Content == [val : Nat, seq : Nat]
Helpers == {"help", "copy", "recheck", "apply", "close", "helped"}
Runners == {"run", "open", "cas"}

StoresBefore(t) == {i \in 1 .. call[t].pos - 1 : i \in DOMAIN call[t].prog /\ call[t].prog[i].op = "store"}

Places == {"idle", "begin"} \cup Helpers \cup Runners
WriteSets == [num : 0 .. NumStores, log : [1 .. NumStores -> Addr \X Nat]]
Calls == [id : Nat, prog : Program \cup {<<>>}, pos : Nat \ {0},
          reads : SUBSET (Addr \X Nat), after : SUBSET Nat]
Effects == [id : Nat, reads : SUBSET (Addr \X Nat), writes : SUBSET Addr, after : SUBSET Nat]

TypeOK ==
  /\ mem \in [Addr -> Content] /\ pm \in [Addr -> Content] /\ pwb \subseteq Thread \X Addr
  /\ curTx \in Tx /\ request \in [Thread -> Tx] /\ writeSet \in [Thread -> WriteSets]
  /\ pc \in [Thread -> Places] /\ k \in [Thread -> Nat]
  /\ myTx \in [Thread -> Tx] /\ helping \in [Thread -> Tx] /\ loaded \in [Thread -> Content]
  /\ call \in [Thread -> Calls] /\ calls \in 0 .. MaxTx /\ returned \subseteq Nat
  /\ log \in Seq(Effects)

(* A thread that has committed and has yet to return.                      *)
Winner(t) == pc[t] \in Helpers /\ helping[t] # myTx[t]

(* A committed transaction whose request is no longer open; and all those  *)
(* with a sequence up to s.                                                *)
Closed(tx) == tx.seq = 1 \/ request[tx.idx].seq > tx.seq
Settled(s) == s < curTx.seq \/ Closed(curTx)

(* tx is, or was, in curTx.                                                *)
Known(tx) ==
  /\ 1 <= tx.seq /\ tx.seq <= curTx.seq
  /\ tx.seq = curTx.seq => tx = curTx
  /\ tx.seq < curTx.seq => Closed(tx)
  /\ tx.seq = 1 \/ request[tx.idx].seq >= tx.seq

(* The requests never go back, and only the owner opens one.               *)
Request(t) ==
  /\ request[t].seq = 0 \/ (request[t].seq >= 2 /\ request[t].idx = t)
  /\ request[t].seq <= curTx.seq + 1
  /\ pc[t] \in Runners \/ (pc[t] \in Helpers /\ ~Winner(t)) => request[t].seq <= myTx[t].seq + 1
  /\ pc[t] = "cas" => request[t] = NewTx(t)

(* What t knows of the transactions in myTx and helping.                   *)
Knows(t) ==
  /\ pc[t] \in Helpers => Known(helping[t])
  /\ pc[t] \in Helpers \cup Runners => Known(myTx[t])
  /\ pc[t] \in Runners \/ Winner(t) => Closed(myTx[t])
  /\ pc[t] = "helped" => Closed(helping[t])
  /\ Winner(t) => helping[t] = NewTx(t)
  /\ pc[t] \in {"copy", "recheck"} => Owner(t) # t
  /\ pc[t] \in {"copy", "recheck", "apply", "close"} => helping[t].seq >= 2

(* The write-set of a running transaction.                                 *)
Running(t) ==
  /\ pc[t] # "idle" => call[t].prog \in Program
  /\ pc[t] \in Runners =>
       /\ writeSet[t].num <= Cardinality(StoresBefore(t))
       /\ \A i \in 1 .. writeSet[t].num : writeSet[t].log[i][2] = call[t].id

Protocol ==
  /\ TypeOK
  /\ Known(curTx)
  /\ ~Closed(curTx) => Winner(curTx.idx) /\ helping[curTx.idx] = curTx
  /\ \A t \in Thread : Request(t) /\ Knows(t) /\ Running(t)
-----------------------------------------------------------------------------
(* The log, read with the help of two functions: where in it the update    *)
(* with each sequence is, and the sequence of each entry, which for a      *)
(* read-only transaction is that of the last update it may have seen.      *)
Writes(entry, s) == log[entry[s]].writes
ValOf(entry, v) == IF v = 0 THEN InitVal ELSE log[entry[v]].id
IsUpd(entry, key, i) == key[i] >= 2 /\ entry[key[i]] = i
Snapshot(entry, key, i) == IF IsUpd(entry, key, i) THEN key[i] - 1 ELSE key[i]

(* v is the sequence of the last of the updates up to m that stores to a.  *)
IsLast(entry, v, m, a) ==
  /\ v = 0 \/ (v \in 2 .. m /\ a \in Writes(entry, v))
  /\ \A s \in 2 .. m : a \in Writes(entry, s) => s <= v

HasRead(entry, r, m) == \E v \in Nat : IsLast(entry, v, m, r[1]) /\ r[2] = ValOf(entry, v)

LogInv(entry, key) ==
  /\ entry \in [2 .. curTx.seq -> 1 .. Len(log)] /\ key \in [1 .. Len(log) -> 1 .. curTx.seq]
  /\ \A s \in 2 .. curTx.seq : key[entry[s]] = s
  /\ \A s, u \in 2 .. curTx.seq : s < u => entry[s] < entry[u]
  /\ \A i \in 1 .. Len(log) :
       /\ log[i].writes # {} => IsUpd(entry, key, i)
       /\ key[i] >= 2 => entry[key[i]] <= i
       /\ Settled(Snapshot(entry, key, i))
       /\ \A r \in log[i].reads : HasRead(entry, r, Snapshot(entry, key, i))
  /\ \A i, j \in 1 .. Len(log) : log[i].id \in log[j].after => key[i] <= key[j] /\ i < j

CallInv(entry, key) ==
  /\ \A i \in 1 .. Len(log) : log[i].id \in 1 .. calls
  /\ \A i, j \in 1 .. Len(log) : log[i].id = log[j].id => i = j
  /\ returned \subseteq {log[i].id : i \in 1 .. Len(log)}
  /\ \A i \in 1 .. Len(log) : log[i].after \subseteq returned
  /\ \A i \in 1 .. Len(log) : log[i].id \in returned => Settled(key[i])
  /\ \A t, u \in Thread : pc[t] # "idle" /\ pc[u] # "idle" /\ call[t].id = call[u].id => t = u
  /\ \A t \in Thread : pc[t] # "idle" =>
       /\ call[t].id \in 1 .. calls /\ call[t].id \notin returned /\ call[t].after \subseteq returned
       /\ IF Winner(t) THEN call[t].id = ValOf(entry, helping[t].seq)
                       ELSE \A i \in 1 .. Len(log) : log[i].id # call[t].id
       /\ pc[t] \in Runners \/ (pc[t] \in Helpers /\ ~Winner(t)) =>
            \A i \in 1 .. Len(log) : log[i].id \in call[t].after => key[i] <= myTx[t].seq

MemInv(entry) ==
  \A a \in Addr :
    /\ mem[a].val = ValOf(entry, mem[a].seq)
    /\ \/ IsLast(entry, mem[a].seq, curTx.seq, a)
       \/ ~Closed(curTx) /\ IsLast(entry, mem[a].seq, curTx.seq - 1, a)
    /\ pm[a].val = ValOf(entry, pm[a].seq)
    /\ pm[a].seq = 0 \/ pm[a].seq \in 2 .. curTx.seq
    /\ \A s \in 2 .. curTx.seq : Settled(s) /\ a \in Writes(entry, s) => s <= pm[a].seq

(* The write-set of t is that of the update with sequence s.               *)
ValidSet(entry, t, s) ==
  /\ Stored(t) = Writes(entry, s)
  /\ \A i \in 1 .. writeSet[t].num : writeSet[t].log[i][2] = ValOf(entry, s)

SetInv(entry, t) ==
  LET theirs == writeSet[Owner(t)]
  IN  /\ Winner(t) \/ pc[t] \in {"apply", "close"} => ValidSet(entry, t, helping[t].seq)
      /\ pc[t] = "recheck" /\ Open(t) => ValidSet(entry, t, helping[t].seq)
      /\ pc[t] = "copy" /\ Open(t) /\ k[t] > 0 =>
           /\ writeSet[t].num = theirs.num
           /\ \A i \in 1 .. theirs.num : i < k[t] => writeSet[t].log[i] = theirs.log[i]

(* What t has applied, and written back.                                   *)
Nth(t, j) == writeSet[t].log[((t * 8 + j) % writeSet[t].num) + 1][1]

ApplyInv(entry, t) ==
  LET s == helping[t].seq
      word == mem[Entry(t)[1]]
  IN  /\ pc[t] = "apply" =>
           /\ \A j \in Nat : j < writeSet[t].num /\ 3 * j + 3 <= k[t] => mem[Nth(t, j)].seq >= s
           /\ k[t] < 3 * writeSet[t].num /\ k[t] % 3 = 1 /\ word.seq < s => loaded[t].val = word.val
           /\ k[t] < 3 * writeSet[t].num /\ k[t] % 3 = 2 =>
                loaded[t].seq <= word.seq /\ (word.seq < s => loaded[t] = word)
      /\ pc[t] = "close" => \A a \in Writes(entry, s) :
           mem[a].seq >= s /\ (<<t, a>> \in pwb \/ pm[a].seq >= s)

RunInv(entry, t) ==
  pc[t] \in Runners =>
    /\ \A r \in call[t].reads : HasRead(entry, r, myTx[t].seq)
    /\ pc[t] = "run" /\ k[t] # 0 =>
         /\ AtOp(t, "load")
         /\ mem[Word(t)].seq <= myTx[t].seq => loaded[t].val = mem[Word(t)].val

Ghost(entry, key) ==
  /\ LogInv(entry, key) /\ CallInv(entry, key) /\ MemInv(entry)
  /\ \A t \in Thread : SetInv(entry, t) /\ ApplyInv(entry, t) /\ RunInv(entry, t)

OneFileInv == Protocol /\ \E entry, key : Ghost(entry, key)
-----------------------------------------------------------------------------
LEMMA Smallest ==
  ASSUME NEW T, T \subseteq Nat, T # {}
  PROVE  \E x \in T : \A y \in T : x <= y
<1>. DEFINE R == OpToRel(<, Nat)
<1>1. IsWellFoundedOn(R, Nat)
  BY NatLessThanWellFounded
<1>2. \A x, y \in Nat : y < x => <<y, x>> \in R
  BY DEF OpToRel
<1>. HIDE DEF R
<1>3. PICK x \in T : \A y \in T : <<y, x>> \notin R
  BY <1>1, WFMin
<1>4. ASSUME NEW y \in T PROVE x <= y
  <2>1. x \in Nat /\ y \in Nat /\ ~(y < x)
    BY <1>2, <1>3
  <2>. QED BY <2>1
<1>. QED BY <1>4

LEMMA MinIsIn == ASSUME NEW S, S \subseteq Nat, S # {} PROVE Min(S) \in S
<1>1. PICK x \in S : \A y \in S : x <= y
  BY Smallest
<1>. QED BY <1>1 DEF Min

LEMMA Remainder ==
  ASSUME NEW x \in Nat, NEW n \in Nat \ {0}
  PROVE  x % n \in 0 .. n - 1
OBVIOUS

LEMMA Rotation ==
  ASSUME NEW x \in Nat, NEW n \in Nat \ {0}, NEW i \in 0 .. n - 1
  PROVE  \E j \in 0 .. n - 1 : (x + j) % n = i
<1>1. PICK r \in 0 .. n - 1, q \in Int : x = n * q + r
  <2>1. x % n \in 0 .. n - 1 /\ x \div n \in Int /\ x = n * (x \div n) + (x % n)
    OBVIOUS
  <2>. QED BY <2>1
<1>2. \A u \in Int : (n * u + i) % n = i
  OBVIOUS
<1>3. CASE i >= r
  <2>1. i - r \in 0 .. n - 1 /\ x + (i - r) = n * q + i
    BY <1>1, <1>3
  <2>2. (x + (i - r)) % n = i
    BY <1>2, <2>1
  <2>. QED BY <2>1, <2>2
<1>4. CASE i < r
  <2>1. i - r + n \in 0 .. n - 1 /\ x + (i - r + n) = n * q + n + i /\ q + 1 \in Int
    BY <1>1, <1>4
  <2>2. n * q + n = n * (q + 1)
    BY <1>1
  <2>3. (x + (i - r + n)) % n = i
    BY <1>2, <2>1, <2>2
  <2>. QED BY <2>1, <2>3
<1>. QED BY <1>1, <1>3, <1>4

(* What a thread stores to, and how many entries its write-set has.        *)
LEMMA WordFacts ==
  ASSUME TypeOK, NEW t \in Thread, Running(t), pc[t] = "run", ~AtEnd(t)
  PROVE  /\ call[t].pos \in DOMAIN call[t].prog /\ call[t].prog \in Program
         /\ Word(t) \in Addr
         /\ IsFiniteSet(StoresBefore(t))
         /\ Op(t).op = "store" => writeSet[t].num + 1 <= NumStores
<1>. DEFINE prog == call[t].prog
            pos == call[t].pos
            stores == {i \in DOMAIN prog : prog[i].op = "store"}
<1>1. prog \in Program /\ pos \in Nat \ {0}
  BY DEF TypeOK, Running, Runners, Calls
<1>2. prog \in Seq([op : {"load", "store"}, range : (SUBSET Addr) \ {{}}]) /\ Cardinality(stores) <= NumStores
  BY <1>1, OneFileAssumption
<1>3. pos \in DOMAIN prog
  BY <1>1, <1>2 DEF AtEnd
<1>4. Op(t).range \subseteq Addr /\ Op(t).range # {}
  <2>. DEFINE S == [op : {"load", "store"}, range : (SUBSET Addr) \ {{}}]
  <2>1. prog[pos] \in S
    <3>1. prog \in Seq(S) /\ pos \in DOMAIN prog
      BY <1>2, <1>3
    <3>. HIDE DEF S, prog, pos
    <3>. QED BY <3>1
  <2>. QED BY <2>1 DEF Op
<1>5. Word(t) \in Addr
  BY <1>4, MinIsIn DEF Word, Addr
<1>6. IsFiniteSet(stores)
  <2>1. Len(prog) \in Nat /\ DOMAIN prog = 1 .. Len(prog)
    BY <1>2
  <2>2. IsFiniteSet(1 .. Len(prog))
    BY <2>1, FS_Interval
  <2>. QED BY <2>1, <2>2, FS_Subset
<1>7. StoresBefore(t) \subseteq stores
  BY DEF StoresBefore
<1>8. IsFiniteSet(StoresBefore(t))
  BY <1>6, <1>7, FS_Subset
<1>9. ASSUME Op(t).op = "store" PROVE writeSet[t].num + 1 <= NumStores
  <2>1. StoresBefore(t) \cup {pos} \subseteq stores /\ pos \notin StoresBefore(t)
    BY <1>3, <1>7, <1>9, <1>1 DEF Op, StoresBefore
  <2>2. Cardinality(StoresBefore(t) \cup {pos}) = Cardinality(StoresBefore(t)) + 1
    BY <1>8, <2>1, FS_AddElement
  <2>3. Cardinality(StoresBefore(t) \cup {pos}) <= Cardinality(stores)
    BY <1>6, <2>1, FS_Subset
  <2>4. writeSet[t].num <= Cardinality(StoresBefore(t)) /\ writeSet[t].num \in Nat
    BY DEF Running, Runners, TypeOK, WriteSets
  <2>5. Cardinality(StoresBefore(t)) \in Nat /\ Cardinality(stores) \in Nat
    BY <1>6, <1>8, FS_CardinalityType
  <2>. HIDE DEF stores, pos, prog
  <2>. QED BY <1>2, <2>2, <2>3, <2>4, <2>5, OneFileAssumption
<1>. QED BY <1>1, <1>3, <1>5, <1>8, <1>9

(* Where apply() stands.                                                   *)
LEMMA EntryFacts ==
  ASSUME TypeOK, NEW t \in Thread, NEW j \in Nat, writeSet[t].num > 0
  PROVE  /\ ((t * 8 + j) % writeSet[t].num) + 1 \in 1 .. writeSet[t].num
         /\ Nth(t, j) \in Stored(t) /\ Nth(t, j) \in Addr
<1>1. t \in Nat /\ writeSet[t].num \in Nat \ {0} /\ writeSet[t].num <= NumStores /\ NumStores \in Nat
  BY HistoryAssumption, OneFileAssumption DEF TypeOK, WriteSets
<1>2. PICK n \in Nat \ {0} : n = writeSet[t].num
  BY <1>1
<1>3. t * 8 + j \in Nat
  BY <1>1
<1>4. (t * 8 + j) % n \in 0 .. n - 1
  BY <1>2, <1>3, Remainder
<1>5. ((t * 8 + j) % writeSet[t].num) + 1 \in 1 .. writeSet[t].num
  BY <1>2, <1>4
<1>6. PICK i \in 1 .. writeSet[t].num : i = ((t * 8 + j) % writeSet[t].num) + 1
  BY <1>5
<1>7. writeSet[t].log[i] \in Addr \X Nat
  BY <1>1, <1>6 DEF TypeOK, WriteSets
<1>. QED BY <1>5, <1>6, <1>7 DEF Nth, Stored

-----------------------------------------------------------------------------
(* The protocol of requests, curTx and helping.                            *)
LEMMA TypeInit == Init => TypeOK
<1>. SUFFICES ASSUME Init PROVE TypeOK
  OBVIOUS
<1>1. Min(Thread) \in Thread /\ Thread \subseteq Nat
  BY MinIsIn, HistoryAssumption, OneFileAssumption
<1>2. 1 \in Addr /\ NumStores \in Nat
  BY HistoryAssumption, OneFileAssumption DEF Addr
<1>3. NoCall \in Calls
  BY DEF NoCall, Calls
<1>4. EmptySet \in WriteSets
  BY <1>2 DEF EmptySet, InitVal, WriteSets
<1>5. Nothing \in Content /\ \A s \in Nat, t \in Thread : Trans(s, t) \in Tx
  BY DEF Nothing, InitVal, Content, Tx, Trans
<1>. QED BY <1>1, <1>3, <1>4, <1>5, HistoryAssumption DEF Init, InitHistory, TypeOK, Places

LEMMA TxFacts ==
  /\ Nothing \in Content
  /\ \A word \in Content : word.val \in Nat /\ word.seq \in Nat
  /\ \A s \in Nat, u \in Thread : Trans(s, u) \in Tx /\ Trans(s, u).seq = s /\ Trans(s, u).idx = u
  /\ \A tx \in Tx : tx.seq \in Nat /\ tx.idx \in Thread /\ [tx EXCEPT !.seq = tx.seq + 1] \in Tx
BY DEF Nothing, InitVal, Content, Tx, Trans

LEMMA TxSeq == ASSUME NEW tx \in Tx PROVE tx.seq \in Nat /\ tx.seq + 1 \in Nat /\ tx.idx \in Thread
BY DEF Tx

LEMMA CallFacts ==
  /\ NoCall \in Calls
  /\ \A n \in Nat, prog \in Program, after \in SUBSET Nat :
       [NoCall EXCEPT !.id = n, !.prog = prog, !.after = after] \in Calls
  /\ \A c \in Calls :
       /\ c.id \in Nat /\ c.pos \in Nat \ {0} /\ c.reads \subseteq Addr \X Nat /\ c.after \subseteq Nat
       /\ [c EXCEPT !.pos = c.pos + 1] \in Calls
       /\ [c EXCEPT !.pos = 1, !.reads = {}] \in Calls
       /\ \A reads \in SUBSET (Addr \X Nat) : [c EXCEPT !.pos = c.pos + 1, !.reads = reads] \in Calls
<1>. DEFINE R == SUBSET (Addr \X Nat)
            S == SUBSET Nat
            P == Program \cup {<<>>}
<1>1. {} \in R /\ {} \in S /\ <<>> \in P /\ \A prog \in Program : prog \in P
  OBVIOUS
<1>2. Calls = [id : Nat, prog : P, pos : Nat \ {0}, reads : R, after : S]
  BY DEF Calls
<1>. HIDE DEF R, S, P
<1>3. NoCall \in Calls
  BY <1>1, <1>2 DEF NoCall
<1>4. ASSUME NEW n \in Nat, NEW prog \in Program, NEW after \in S
      PROVE  [NoCall EXCEPT !.id = n, !.prog = prog, !.after = after] \in Calls
  <2>1. \A c \in Calls : [c EXCEPT !.id = n] \in Calls
    BY <1>2
  <2>2. \A c \in Calls : [c EXCEPT !.prog = prog] \in Calls
    BY <1>1, <1>2
  <2>3. \A c \in Calls : [c EXCEPT !.after = after] \in Calls
    BY <1>2
  <2>. QED BY <1>3, <2>1, <2>2, <2>3
<1>5. ASSUME NEW c \in Calls
      PROVE  c.id \in Nat /\ c.pos \in Nat \ {0} /\ c.reads \in R /\ c.after \in S
  BY <1>2
<1>6. ASSUME NEW c \in Calls, NEW pos \in Nat \ {0}, NEW reads \in R
      PROVE  [c EXCEPT !.pos = pos, !.reads = reads] \in Calls
  BY <1>2
<1>7. ASSUME NEW c \in Calls, NEW pos \in Nat \ {0} PROVE [c EXCEPT !.pos = pos] \in Calls
  BY <1>2
<1>8. ASSUME NEW c \in Calls
      PROVE  /\ [c EXCEPT !.pos = c.pos + 1] \in Calls
             /\ [c EXCEPT !.pos = 1, !.reads = {}] \in Calls
             /\ \A reads \in R : [c EXCEPT !.pos = c.pos + 1, !.reads = reads] \in Calls
  <2>1. c.pos + 1 \in Nat \ {0} /\ 1 \in Nat \ {0}
    BY <1>5
  <2>. QED BY <1>1, <1>6, <1>7, <2>1
<1>. QED BY <1>3, <1>4, <1>5, <1>8 DEF R, S

LEMMA WriteSetFacts ==
  ASSUME NEW w \in WriteSets
  PROVE  /\ w.num \in 0 .. NumStores /\ w.num \in Nat
         /\ \A i \in 1 .. NumStores : w.log[i] \in Addr \X Nat /\ w.log[i][1] \in Addr /\ w.log[i][2] \in Nat
         /\ \A i \in 1 .. w.num : i \in 1 .. NumStores
         /\ \A n \in 0 .. NumStores : [w EXCEPT !.num = n] \in WriteSets
         /\ \A i \in 1 .. NumStores, e \in Addr \X Nat :
              /\ [w EXCEPT !.log[i] = e] \in WriteSets
              /\ \A n \in 0 .. NumStores : [w EXCEPT !.num = n, !.log[i] = e] \in WriteSets
<1>. DEFINE E == Addr \X Nat
            L == [1 .. NumStores -> E]
<1>1. WriteSets = [num : 0 .. NumStores, log : L] /\ NumStores \in Nat
  BY OneFileAssumption DEF WriteSets
<1>2. \A e \in E : e[1] \in Addr /\ e[2] \in Nat
  OBVIOUS
<1>. HIDE DEF E
<1>3. w.log \in L /\ w.num \in 0 .. NumStores
  BY <1>1
<1>4. ASSUME NEW i \in 1 .. NumStores, NEW e \in E PROVE [w.log EXCEPT ![i] = e] \in L
  BY <1>3
<1>5. \A i \in 1 .. NumStores : w.log[i] \in E
  BY <1>3
<1>. HIDE DEF L
<1>6. \A n \in 0 .. NumStores : [w EXCEPT !.num = n] \in WriteSets
  BY <1>1
<1>7. ASSUME NEW i \in 1 .. NumStores, NEW e \in E
      PROVE  /\ [w EXCEPT !.log[i] = e] \in WriteSets
             /\ \A n \in 0 .. NumStores : [w EXCEPT !.num = n, !.log[i] = e] \in WriteSets
  <2>1. PICK l \in L : l = [w.log EXCEPT ![i] = e]
    BY <1>4
  <2>2. [w EXCEPT !.log[i] = e] = [w EXCEPT !.log = l]
    BY <2>1
  <2>3. \A n \in 0 .. NumStores : [w EXCEPT !.num = n, !.log[i] = e] = [w EXCEPT !.num = n, !.log = l]
    BY <1>1, <2>1
  <2>. QED BY <1>1, <2>2, <2>3
<1>8. \A i \in 1 .. w.num : i \in 1 .. NumStores
  BY <1>1, <1>3
<1>9. w.num \in Nat
  BY <1>1, <1>3
<1>10. \A i \in 1 .. NumStores : w.log[i] \in E /\ w.log[i][1] \in Addr /\ w.log[i][2] \in Nat
  BY <1>2, <1>5
<1>. QED BY <1>3, <1>6, <1>7, <1>8, <1>9, <1>10 DEF E

LEMMA TypeStep ==
  ASSUME TypeOK, NEW t \in Thread, Running(t), Call(t) \/ Step(t)
  PROVE  TypeOK'
<1>. USE DEF TypeOK, memVars, txVars, localVars, histVars
<1>a. ASSUME NEW where \in Places, Goto(t, where) PROVE pc' \in [Thread -> Places] /\ k' \in [Thread -> Nat]
  BY <1>a DEF Goto
<1>b. ASSUME Advance(t) PROVE pc' \in [Thread -> Places] /\ k' \in [Thread -> Nat]
  BY <1>b DEF Advance
<1>c. /\ "idle" \in Places /\ "begin" \in Places /\ "help" \in Places /\ "copy" \in Places
      /\ "recheck" \in Places /\ "apply" \in Places /\ "close" \in Places /\ "helped" \in Places
      /\ "run" \in Places /\ "open" \in Places /\ "cas" \in Places
  BY DEF Places, Helpers, Runners
<1>d. /\ Nothing \in Content
      /\ \A s \in Nat, u \in Thread : Trans(s, u) \in Tx /\ Trans(s, u).seq = s /\ Trans(s, u).idx = u
      /\ \A tx \in Tx : tx.seq \in Nat /\ tx.idx \in Thread /\ [tx EXCEPT !.seq = tx.seq + 1] \in Tx
  BY TxFacts
<1>h. writeSet[t] \in WriteSets /\ call[t] \in Calls /\ loaded[t] \in Content /\ NumStores \in Nat
  BY OneFileAssumption
<1>e. NewTx(t) \in Tx /\ NewTx(t).seq = myTx[t].seq + 1 /\ NewTx(t).idx = t
  <2>1. myTx[t] \in Tx
    OBVIOUS
  <2>2. myTx[t].seq + 1 \in Nat
    BY <2>1, TxSeq
  <2>. QED BY <1>d, <2>2 DEF NewTx
<1>1. CASE Call(t)
  <2>1. PICK prog \in Program :
           call' = [call EXCEPT ![t] = [NoCall EXCEPT !.id = calls + 1, !.prog = prog, !.after = returned]]
    BY <1>1 DEF Call, NewCall
  <2>2. [NoCall EXCEPT !.id = calls + 1, !.prog = prog, !.after = returned] \in Calls
    <3>1. calls + 1 \in Nat /\ returned \subseteq Nat
      BY HistoryAssumption
    <3>. QED BY <3>1, CallFacts
  <2>3. call' \in [Thread -> Calls]
    BY <2>1, <2>2
  <2>4. calls' \in 0 .. MaxTx
    <3>1. calls < MaxTx /\ calls' = calls + 1 /\ calls \in 0 .. MaxTx /\ MaxTx \in Nat
      BY <1>1, HistoryAssumption DEF Call, NewCall
    <3>. QED BY <3>1
  <2>. QED BY <1>1, <1>a, <1>c, <2>3, <2>4 DEF Call, NewCall
<1>2. CASE BeginTx(t)
  BY <1>2, <1>a, <1>c DEF BeginTx
<1>3. CASE BeginTxDone(t)
  <2>1. [writeSet[t] EXCEPT !.num = 0] \in WriteSets
    <3>1. 0 \in 0 .. NumStores
      BY <1>h
    <3>. QED BY <1>h, <3>1, WriteSetFacts
  <2>2. [call[t] EXCEPT !.pos = 1, !.reads = {}] \in Calls
    BY <1>h, CallFacts
  <2>3. writeSet' \in [Thread -> WriteSets] /\ call' \in [Thread -> Calls]
    BY <1>3, <2>1, <2>2 DEF BeginTxDone
  <2>. QED BY <1>3, <2>3, <1>a, <1>c DEF BeginTxDone
<1>4. CASE HelpStart(t)
  BY <1>4, <1>a, <1>c DEF HelpStart
<1>5. CASE HelpCopy(t)
  <2>1. Owner(t) \in Thread
    BY <1>d DEF Owner
  <2>2. [writeSet[t] EXCEPT !.num = writeSet[Owner(t)].num] \in WriteSets
    BY <2>1, <1>h, WriteSetFacts
  <2>3. CASE k[t] # 0
    <3>1. k[t] \in 1 .. NumStores
      <4>1. k[t] \in Nat /\ k[t] <= writeSet[t].num /\ writeSet[t].num \in 0 .. NumStores
        BY <1>5, <2>3, <1>h, WriteSetFacts DEF HelpCopy
      <4>. QED BY <4>1, <2>3, <1>h
    <3>2. writeSet[Owner(t)].log[k[t]] \in Addr \X Nat
      BY <2>1, <3>1, WriteSetFacts
    <3>3. [writeSet[t] EXCEPT !.log[k[t]] = writeSet[Owner(t)].log[k[t]]] \in WriteSets
      BY <3>1, <3>2, <1>h, WriteSetFacts
    <3>. QED BY <1>5, <2>3, <3>3, <1>b DEF HelpCopy
  <2>4. CASE k[t] = 0
    BY <1>5, <2>2, <2>4, <1>b DEF HelpCopy
  <2>. QED BY <2>3, <2>4
<1>6. CASE HelpCheck(t)
  BY <1>6, <1>a, <1>c DEF HelpCheck
<1>7. CASE ApplyLoad(t)
  <2>1. Entry(t)[1] \in Addr
    <3>1. k[t] \div 3 \in Nat /\ writeSet[t].num > 0
      BY <1>7 DEF ApplyLoad, WriteSets
    <3>. QED BY <3>1, EntryFacts DEF Entry, Nth
  <2>2. /\ [loaded[t] EXCEPT !.val = mem[Entry(t)[1]].val] \in Content
        /\ [loaded[t] EXCEPT !.seq = mem[Entry(t)[1]].seq] \in Content
    BY <2>1 DEF Content
  <2>3. loaded' \in [Thread -> Content]
    BY <1>7, <2>2 DEF ApplyLoad
  <2>. QED BY <1>7, <2>3, <1>b DEF ApplyLoad
<1>8. CASE ApplyDCAS(t)
  <2>1. Entry(t) \in Addr \X Nat
    <3>1. k[t] \div 3 \in Nat /\ writeSet[t].num > 0 /\ writeSet[t].num <= NumStores
      BY <1>8 DEF ApplyDCAS, WriteSets
    <3>2. ((t * 8 + (k[t] \div 3)) % writeSet[t].num) + 1 \in 1 .. writeSet[t].num
      BY <3>1, EntryFacts
    <3>3. PICK i \in 1 .. NumStores : i = ((t * 8 + (k[t] \div 3)) % writeSet[t].num) + 1
      BY <1>h, <3>2, WriteSetFacts
    <3>. QED BY <3>3, <1>h, WriteSetFacts DEF Entry
  <2>2. [val |-> Entry(t)[2], seq |-> helping[t].seq] \in Content
    BY <2>1, <1>d DEF Content
  <2>3. mem' \in [Addr -> Content]
    <3>1. mem' = mem \/ mem' = [mem EXCEPT ![Entry(t)[1]] = [val |-> Entry(t)[2], seq |-> helping[t].seq]]
      BY <1>8 DEF ApplyDCAS
    <3>2. Entry(t)[1] \in Addr
      BY <2>1
    <3>. QED BY <3>1, <3>2, <2>2, <1>d
  <2>4. loaded' \in [Thread -> Content]
    <3>1. loaded' = [loaded EXCEPT ![t] = Nothing]
      BY <1>8 DEF ApplyDCAS
    <3>. QED BY <3>1, <1>d
  <2>. QED BY <1>8, <2>3, <2>4, <1>b DEF ApplyDCAS
<1>9. CASE HelpFlush(t)
  <2>1. \A i \in 1 .. writeSet[t].num : writeSet[t].log[i][1] \in Addr
    BY <1>h, WriteSetFacts
  <2>2. pwb' \subseteq Thread \X Addr
    BY <1>9, <2>1 DEF HelpFlush
  <2>. QED BY <1>9, <2>2, <1>a, <1>c DEF HelpFlush
<1>10. CASE HelpClose(t)
  <2>1. Owner(t) \in Thread
    BY <1>d DEF Owner
  <2>2. [request[Owner(t)] EXCEPT !.seq = @ + 1] \in Tx
    BY <2>1, TxFacts
  <2>3. request' \in [Thread -> Tx]
    BY <1>10, <2>1, <2>2 DEF HelpClose
  <2>. QED BY <1>10, <2>3, <1>a, <1>c DEF HelpClose
<1>11. CASE PloadValue(t)
  <2>1. Word(t) \in Addr
    BY <1>11, WordFacts DEF PloadValue, AtOp
  <2>2. [loaded[t] EXCEPT !.val = mem[Word(t)].val] \in Content
    BY <2>1 DEF Content
  <2>. QED BY <1>11, <2>2, <1>b DEF PloadValue
<1>12. CASE PloadSeq(t)
  <2>1. Word(t) \in Addr
    BY <1>12, WordFacts DEF PloadSeq, AtOp
  <2>2. /\ call[t].reads \subseteq Addr \X Nat
        /\ \A reads \in SUBSET (Addr \X Nat) : [call[t] EXCEPT !.pos = call[t].pos + 1, !.reads = reads] \in Calls
    BY <1>h, CallFacts
  <2>3. Reading(t, Word(t), loaded[t].val) \subseteq Addr \X Nat
    <3>1. <<Word(t), loaded[t].val>> \in Addr \X Nat
      BY <2>1, <1>h, TxFacts
    <3>. QED BY <2>2, <3>1 DEF Reading
  <2>4. call' \in [Thread -> Calls]
    <3>1. PICK reads \in SUBSET (Addr \X Nat) :
             reads = IF Word(t) \in Stored(t) THEN call[t].reads ELSE Reading(t, Word(t), loaded[t].val)
      BY <2>2, <2>3
    <3>2. call' = call \/ call' = [call EXCEPT ![t] = [call[t] EXCEPT !.pos = call[t].pos + 1, !.reads = reads]]
      BY <1>12, <3>1 DEF PloadSeq
    <3>. QED BY <2>2, <3>2
  <2>. QED BY <1>12, <2>4, <1>a, <1>c, <1>d DEF PloadSeq
<1>13. CASE Pstore(t)
  <2>1. Word(t) \in Addr /\ writeSet[t].num + 1 <= NumStores
    BY <1>13, WordFacts DEF Pstore, AtOp
  <2>2. writeSet[t].num + 1 \in 1 .. NumStores /\ <<Word(t), call[t].id>> \in Addr \X Nat
    <3>1. writeSet[t].num \in 0 .. NumStores /\ call[t].id \in Nat
      BY <1>h, WriteSetFacts, CallFacts
    <3>. QED BY <2>1, <3>1, <1>h
  <2>3. [writeSet[t] EXCEPT !.num = writeSet[t].num + 1,
                            !.log[writeSet[t].num + 1] = <<Word(t), call[t].id>>] \in WriteSets
    <3>1. writeSet[t].num + 1 \in 0 .. NumStores
      BY <2>2, <1>h
    <3>. QED BY <2>2, <3>1, <1>h, WriteSetFacts
  <2>4. [call[t] EXCEPT !.pos = call[t].pos + 1] \in Calls
    BY <1>h, CallFacts
  <2>5. writeSet' \in [Thread -> WriteSets] /\ call' \in [Thread -> Calls]
    BY <1>13, <2>3, <2>4 DEF Pstore
  <2>. QED BY <1>13, <2>5 DEF Pstore
<1>g. ASSUME Returns(t) PROVE /\ pc' \in [Thread -> Places] /\ k' \in [Thread -> Nat]
                              /\ myTx' \in [Thread -> Tx] /\ helping' \in [Thread -> Tx]
                              /\ call' \in [Thread -> Calls] /\ returned' \subseteq Nat
  <2>1. call[t].id \in Nat /\ NoCall \in Calls
    BY <1>h, CallFacts
  <2>2. Trans(0, t) \in Tx
    BY <1>d
  <2>3. pc' \in [Thread -> Places] /\ k' \in [Thread -> Nat]
    BY <1>g, <1>a, <1>c DEF Returns
  <2>. QED BY <1>g, <2>1, <2>2, <2>3 DEF Returns
<1>14. CASE CommitReadOnly(t)
  <2>1. Effect(t, {}) \in Effects
    BY DEF Effect, Calls, Effects
  <2>. QED BY <1>14, <2>1, <1>g DEF CommitReadOnly, Returns
<1>15. CASE CommitStale(t) \/ CommitLost(t)
  BY <1>15, <1>a, <1>c DEF CommitStale, CommitLost
<1>16. CASE CommitOpen(t)
  BY <1>16, <1>a, <1>c DEF CommitOpen
<1>17. CASE CommitRequest(t)
  BY <1>17, <1>a, <1>c, <1>e DEF CommitRequest
<1>18. CASE CommitWon(t)
  <2>1. Stored(t) \subseteq Addr
    BY OneFileAssumption DEF Stored, WriteSets
  <2>2. Effect(t, Stored(t)) \in Effects
    BY <2>1 DEF Effect, Calls, Effects
  <2>. QED BY <1>18, <2>2, <1>a, <1>c, <1>e DEF CommitWon
<1>19. CASE CommitDone(t)
  BY <1>19, <1>g DEF CommitDone, Returns
<1>. QED BY <1>1, <1>2, <1>3, <1>4, <1>5, <1>6, <1>7, <1>8, <1>9, <1>10, <1>11, <1>12,
            <1>13, <1>14, <1>15, <1>16, <1>17, <1>18, <1>19 DEF Step, Help, Commit

LEMMA ProtocolInit == Init => Protocol
<1>. SUFFICES ASSUME Init PROVE Protocol
  OBVIOUS
<1>1. TypeOK
  BY TypeInit
<1>2. curTx.seq = 1 /\ curTx \in Tx /\ \A t \in Thread : pc[t] = "idle" /\ request[t].seq = 0
  BY <1>1 DEF Init, TypeOK, Trans
<1>. QED BY <1>1, <1>2 DEF Protocol, Known, Closed, Request, Knows, Running, Winner, Helpers, Runners

(* A request is open exactly for the current transaction, until it is      *)
(* closed.                                                                 *)
LEMMA OpenFacts ==
  ASSUME Protocol, NEW t \in Thread, pc[t] \in Helpers
  PROVE  /\ Open(t) <=> helping[t] = curTx /\ ~Closed(curTx)
         /\ Open(t) <=> ~Closed(helping[t])
         /\ Open(t) => Winner(Owner(t)) /\ helping[Owner(t)] = curTx /\ curTx.seq >= 2
<1>. DEFINE tx == helping[t]
            i == tx.idx
<1>1. /\ Known(tx) /\ Known(curTx) /\ Request(i) /\ tx \in Tx /\ curTx \in Tx /\ request[i] \in Tx
      /\ i \in Thread /\ tx.seq \in Nat /\ curTx.seq \in Nat /\ request[i].seq \in Nat
  BY TxSeq DEF Protocol, Knows, TypeOK
<1>2. ASSUME Open(t) PROVE tx = curTx /\ ~Closed(curTx)
  <2>1. request[i] = tx
    BY <1>2 DEF Open, Owner
  <2>2. tx.seq # 1
    BY <1>1, <2>1 DEF Request
  <2>3. ~Closed(tx)
    BY <1>1, <2>1, <2>2 DEF Closed
  <2>. QED BY <1>1, <2>3 DEF Known
<1>3. ASSUME ~Open(t) PROVE Closed(tx)
  <2>1. request[i] # tx
    BY <1>3 DEF Open, Owner
  <2>2. CASE tx.seq # 1
    <3>1. request[i].seq >= tx.seq /\ request[i].idx = i
      BY <1>1, <2>2 DEF Known, Request
    <3>2. request[i].seq # tx.seq
      BY <1>1, <2>1, <3>1 DEF Tx
    <3>. QED BY <1>1, <3>1, <3>2 DEF Closed
  <2>. QED BY <2>2 DEF Closed
<1>4. ASSUME Open(t) PROVE Winner(Owner(t)) /\ helping[Owner(t)] = curTx /\ curTx.seq >= 2
  <2>1. tx = curTx /\ ~Closed(curTx)
    BY <1>2, <1>4
  <2>2. curTx.seq # 1
    BY <2>1 DEF Closed
  <2>. QED BY <1>1, <2>1, <2>2 DEF Protocol, Owner, Known
<1>. QED BY <1>2, <1>3, <1>4

(* A step of t that leaves curTx and the requests alone.                   *)
LEMMA LocalStep ==
  ASSUME Protocol, TypeOK', UNCHANGED <<curTx, request>>, NEW t \in Thread,
         \A u \in Thread \ {t} : /\ pc'[u] = pc[u] /\ myTx'[u] = myTx[u] /\ helping'[u] = helping[u]
                                 /\ call'[u] = call[u] /\ writeSet'[u] = writeSet[u],
         Request(t)', Knows(t)', Running(t)',
         Winner(t) /\ helping[t] = curTx /\ ~Closed(curTx) => Winner(t)' /\ helping'[t] = curTx
  PROVE  Protocol'
<1>1. Known(curTx)'
  BY DEF Protocol, Known, Closed
<1>2. ASSUME NEW u \in Thread, u # t PROVE Request(u)' /\ Knows(u)' /\ Running(u)' /\ (Winner(u)' <=> Winner(u))
  <2>1. Winner(u)' <=> Winner(u)
    BY <1>2 DEF Winner
  <2>2. Request(u)'
    BY <1>2, <2>1 DEF Protocol, Request, NewTx
  <2>3. Knows(u)'
    BY <1>2, <2>1 DEF Protocol, Knows, Known, Closed, NewTx, Owner
  <2>4. Running(u)'
    BY <1>2 DEF Protocol, Running, StoresBefore
  <2>. QED BY <2>1, <2>2, <2>3, <2>4
<1>3. ASSUME ~Closed(curTx)' PROVE Winner(curTx.idx)' /\ helping'[curTx.idx] = curTx
  <2>1. ~Closed(curTx) /\ Winner(curTx.idx) /\ helping[curTx.idx] = curTx /\ curTx.idx \in Thread
    BY <1>3, TxSeq DEF Protocol, Closed, TypeOK
  <2>. QED BY <2>1, <1>2
<1>. QED BY <1>1, <1>2, <1>3 DEF Protocol

LEMMA ProtocolLocal ==
  ASSUME Protocol, TypeOK', NEW t \in Thread, UNCHANGED <<curTx, request>>, Call(t) \/ Step(t)
  PROVE  Protocol'
<1>. USE DEF memVars, txVars, localVars, histVars
<1>1. /\ TypeOK /\ Request(t) /\ Knows(t) /\ Running(t) /\ Known(curTx)
      /\ curTx \in Tx /\ curTx.seq \in Nat /\ myTx[t] \in Tx /\ myTx[t].seq \in Nat /\ request[t].seq \in Nat
  BY TxSeq DEF Protocol, TypeOK
<1>. DEFINE Others == \A u \in Thread \ {t} : /\ pc'[u] = pc[u] /\ myTx'[u] = myTx[u] /\ helping'[u] = helping[u]
                                             /\ call'[u] = call[u] /\ writeSet'[u] = writeSet[u]
            Rest == /\ Request(t)' /\ Knows(t)' /\ Running(t)'
                    /\ Winner(t) /\ helping[t] = curTx /\ ~Closed(curTx) => Winner(t)' /\ helping'[t] = curTx
<1>a. ASSUME NEW where, Goto(t, where) PROVE pc'[t] = where /\ \A u \in Thread \ {t} : pc'[u] = pc[u]
  BY <1>a, <1>1 DEF Goto, TypeOK
<1>b. ASSUME Advance(t) PROVE pc' = pc
  BY <1>b DEF Advance
<1>c. \A tx \in Tx : (Known(tx) <=> Known(tx)') /\ (Closed(tx) <=> Closed(tx)')
  BY DEF Known, Closed
<1>2. CASE Call(t)
  <2>1. Others /\ pc[t] = "idle" /\ pc'[t] = "begin"
    BY <1>2, <1>a, <1>1 DEF Call, NewCall, TypeOK
  <2>2. call'[t].prog \in Program
    BY <1>2, <1>1 DEF Call, NewCall, NoCall, TypeOK
  <2>3. Rest
    BY <2>1, <2>2, <1>1, <1>2 DEF Call, Request, Knows, Running, Winner, Helpers, Runners
  <2>. QED BY <2>1, <2>3, LocalStep
<1>3. CASE BeginTx(t)
  <2>1. Others /\ pc[t] = "begin" /\ pc'[t] = "help" /\ myTx'[t] = curTx /\ helping'[t] = curTx /\ call' = call
    BY <1>3, <1>a, <1>1 DEF BeginTx, TypeOK
  <2>2. Knows(t)'
    BY <2>1, <1>1, <1>c DEF Knows, Winner, Helpers, Runners
  <2>3. Request(t)' /\ Running(t)' /\ ~Winner(t)
    BY <2>1, <1>1 DEF Request, Running, Winner, Helpers, Runners
  <2>. QED BY <2>1, <2>2, <2>3, LocalStep
<1>4. CASE BeginTxDone(t)
  <2>1. /\ Others /\ pc[t] = "helped" /\ pc'[t] \in {"run", "begin"} /\ helping[t] = myTx[t]
        /\ UNCHANGED <<myTx, helping>> /\ call'[t].pos = 1 /\ call'[t].prog = call[t].prog /\ writeSet'[t].num = 0
    <3>1. call'[t].pos = 1 /\ call'[t].prog = call[t].prog
      BY <1>4, <1>1 DEF BeginTxDone, TypeOK, Calls
    <3>2. writeSet'[t].num = 0
      BY <1>4, <1>1 DEF BeginTxDone, TypeOK, WriteSets
    <3>. QED BY <1>4, <1>a, <1>1, <3>1, <3>2 DEF BeginTxDone, TypeOK
  <2>2. Running(t)'
    <3>1. StoresBefore(t)' = {}
      BY <2>1 DEF StoresBefore
    <3>2. Cardinality(StoresBefore(t)') = 0
      BY <3>1, FS_EmptySet
    <3>3. (writeSet[t].num)' <= Cardinality(StoresBefore(t))'
      BY <2>1, <3>2
    <3>. QED BY <2>1, <3>3, <1>1 DEF Running, Helpers
  <2>3. Request(t)' /\ Knows(t)' /\ ~Winner(t)
    BY <2>1, <1>1, <1>c DEF Request, Knows, Winner, Helpers, Runners
  <2>. QED BY <2>1, <2>2, <2>3, LocalStep
<1>d. ASSUME Others, UNCHANGED <<call, myTx, helping>>, pc[t] \in Helpers, pc'[t] \in Helpers, Knows(t)'
      PROVE  Rest
  <2>1. Winner(t)' <=> Winner(t)
    BY <1>d DEF Winner
  <2>2. Request(t)'
    BY <1>d, <2>1, <1>1 DEF Request, Helpers, Runners
  <2>3. Running(t)'
    BY <1>d, <1>1 DEF Running, Helpers, Runners
  <2>. QED BY <1>d, <2>1, <2>2, <2>3
<1>5. CASE HelpStart(t)
  <2>1. /\ Others /\ UNCHANGED <<call, myTx, helping>> /\ pc[t] = "help"
        /\ pc'[t] = IF ~Open(t) THEN "helped" ELSE IF Owner(t) = t THEN "apply" ELSE "copy"
    BY <1>5, <1>a DEF HelpStart
  <2>2. Winner(t)' <=> Winner(t)
    BY <2>1 DEF Winner, Helpers
  <2>3. Knows(t)'
    BY <2>1, <2>2, <1>1, <1>c, OpenFacts DEF Knows, Helpers, Runners, NewTx, Owner, Known, Closed
  <2>. QED BY <2>1, <2>3, <1>d, LocalStep DEF Helpers
<1>6. CASE HelpCopy(t)
  <2>1. Others /\ UNCHANGED <<call, myTx, helping, pc>> /\ pc[t] = "copy"
    BY <1>6, <1>b, <1>1 DEF HelpCopy, TypeOK
  <2>2. Knows(t)'
    BY <2>1, <1>1, <1>c DEF Knows, Winner, NewTx, Owner, Known, Closed
  <2>. QED BY <2>1, <2>2, <1>d, LocalStep DEF Helpers
<1>7. CASE HelpCheck(t)
  <2>1. /\ Others /\ UNCHANGED <<call, myTx, helping>>
        /\ \/ pc[t] = "copy" /\ pc'[t] = IF curTx = helping[t] THEN "recheck" ELSE "helped"
           \/ pc[t] = "recheck" /\ pc'[t] = IF Open(t) THEN "apply" ELSE "helped"
    BY <1>7, <1>a DEF HelpCheck
  <2>2. Winner(t)' <=> Winner(t)
    BY <2>1 DEF Winner, Helpers
  <2>3. curTx # helping[t] => Closed(helping[t])
    <3>1. Known(helping[t]) /\ helping[t] \in Tx /\ helping[t].seq \in Nat
      BY <2>1, <1>1, TxSeq DEF Knows, TypeOK, Helpers
    <3>. QED BY <3>1, <1>1 DEF Known
  <2>4. ~Open(t) => Closed(helping[t])
    BY <2>1, OpenFacts DEF Helpers
  <2>5. Knows(t)'
    BY <2>1, <2>2, <2>3, <2>4, <1>1 DEF Knows, Helpers, Runners, NewTx, Owner, Known, Closed
  <2>. QED BY <2>1, <2>5, <1>d, LocalStep DEF Helpers
<1>8. CASE ApplyLoad(t) \/ ApplyDCAS(t) \/ HelpFlush(t)
  <2>1. Others /\ UNCHANGED <<call, myTx, helping>> /\ pc[t] = "apply" /\ pc'[t] \in {"apply", "close"}
    BY <1>8, <1>a, <1>b DEF ApplyLoad, ApplyDCAS, HelpFlush
  <2>2. Winner(t)' <=> Winner(t)
    BY <2>1 DEF Winner, Helpers
  <2>3. Knows(t)'
    BY <2>1, <2>2, <1>1 DEF Knows, Helpers, Runners, NewTx, Owner, Known, Closed
  <2>. QED BY <2>1, <2>3, <1>d, LocalStep DEF Helpers
<1>9. CASE HelpClose(t)
  <2>1. Others /\ UNCHANGED <<call, myTx, helping>> /\ pc[t] = "close" /\ pc'[t] = "helped"
    BY <1>9, <1>a DEF HelpClose
  <2>2. ~Open(t)
    <3>1. ASSUME Open(t) PROVE FALSE
      <4>1. Owner(t) \in Thread /\ request \in [Thread -> Tx]
        BY <1>1, TxSeq DEF Owner, TypeOK
      <4>2. request'[Owner(t)].seq = request[Owner(t)].seq + 1 /\ request[Owner(t)].seq \in Nat
        BY <1>9, <3>1, <4>1, TxSeq DEF HelpClose, Tx
      <4>. QED BY <4>2
    <3>. QED BY <3>1
  <2>3. Closed(helping[t])
    BY <2>1, <2>2, OpenFacts DEF Helpers
  <2>4. Winner(t)' <=> Winner(t)
    BY <2>1 DEF Winner, Helpers
  <2>5. Knows(t)'
    BY <2>1, <2>3, <2>4, <1>1 DEF Knows, Helpers, Runners, NewTx, Owner, Known, Closed
  <2>. QED BY <2>1, <2>5, <1>d, LocalStep DEF Helpers
<1>e. ASSUME Others, UNCHANGED <<myTx, helping>>, pc[t] = "run", pc'[t] = "run", Running(t)' PROVE Rest
  BY <1>e, <1>1 DEF Request, Knows, Winner, Helpers, Runners, Known, Closed
<1>f. ASSUME Others, call'[t].prog = call[t].prog, pc[t] \in Runners, pc'[t] = "begin" PROVE Rest
  BY <1>f, <1>1 DEF Request, Knows, Running, Winner, Helpers, Runners
<1>10. CASE PloadValue(t)
  <2>1. Others /\ UNCHANGED <<call, myTx, helping, writeSet, pc>> /\ pc[t] = "run"
    BY <1>10, <1>b DEF PloadValue, AtOp
  <2>2. Running(t)'
    BY <2>1, <1>1 DEF Running, StoresBefore
  <2>. QED BY <2>1, <2>2, <1>e, LocalStep
<1>11. CASE PloadSeq(t)
  <2>1. Others /\ UNCHANGED <<myTx, helping, writeSet>> /\ pc[t] = "run" /\ call'[t].prog = call[t].prog
    BY <1>11, <1>a, <1>1 DEF PloadSeq, AtOp, TypeOK, Calls
  <2>2. CASE pc'[t] = "begin"
    BY <2>1, <2>2, <1>f, LocalStep DEF Runners
  <2>3. CASE pc'[t] # "begin"
    <3>1. pc'[t] = "run" /\ call'[t].pos = call[t].pos + 1 /\ call'[t].id = call[t].id
      BY <1>11, <2>3, <1>a, <1>1 DEF PloadSeq, TypeOK, Calls
    <3>2. StoresBefore(t)' = StoresBefore(t)
      <4>1. call[t].pos \in Nat \ {0} /\ call[t].prog[call[t].pos].op = "load"
        BY <1>11, <1>1 DEF PloadSeq, AtOp, Op, TypeOK, Calls
      <4>. QED BY <2>1, <3>1, <4>1 DEF StoresBefore
    <3>3. Running(t)'
      BY <2>1, <3>1, <3>2, <1>1 DEF Running, Runners
    <3>. QED BY <2>1, <3>1, <3>3, <1>e, LocalStep
  <2>. QED BY <2>2, <2>3
<1>12. CASE Pstore(t)
  <2>1. /\ Others /\ UNCHANGED <<myTx, helping, pc>> /\ pc[t] = "run" /\ call'[t].prog = call[t].prog
        /\ call'[t].pos = call[t].pos + 1 /\ call'[t].id = call[t].id
    BY <1>12, <1>1 DEF Pstore, AtOp, TypeOK, Calls
  <2>2. /\ call[t].pos \in DOMAIN call[t].prog /\ call[t].pos \in Nat \ {0} /\ IsFiniteSet(StoresBefore(t))
        /\ call[t].prog[call[t].pos].op = "store" /\ call[t].prog \in Program
        /\ writeSet[t].num + 1 <= NumStores
    BY <1>12, <1>1, WordFacts DEF Pstore, AtOp, TypeOK, Calls, Op
  <2>3. StoresBefore(t)' = StoresBefore(t) \cup {call[t].pos} /\ call[t].pos \notin StoresBefore(t)
    BY <2>1, <2>2 DEF StoresBefore
  <2>4. Cardinality(StoresBefore(t)') = Cardinality(StoresBefore(t)) + 1 /\ Cardinality(StoresBefore(t)) \in Nat
    BY <2>2, <2>3, FS_AddElement, FS_CardinalityType
  <2>5. /\ writeSet[t].num <= Cardinality(StoresBefore(t)) /\ writeSet[t].num \in Nat
        /\ \A i \in 1 .. writeSet[t].num : writeSet[t].log[i][2] = call[t].id
    BY <2>1, <1>1, WriteSetFacts DEF Running, Runners, TypeOK
  <2>6. CASE writeSet' = writeSet
    BY <2>1, <2>2, <2>4, <2>5, <2>6, <1>e, LocalStep DEF Running
  <2>7. CASE writeSet' # writeSet
    <3>1. /\ writeSet'[t].num = writeSet[t].num + 1
          /\ writeSet'[t].log[writeSet[t].num + 1] = <<Word(t), call[t].id>>
          /\ \A i \in 1 .. writeSet[t].num : writeSet'[t].log[i] = writeSet[t].log[i]
      <4>1. PICK m : /\ m = writeSet[t].num + 1 /\ m \in 1 .. NumStores
                     /\ \A i \in 1 .. writeSet[t].num : i \in 1 .. NumStores /\ i # m
        BY <2>2, <2>5, OneFileAssumption
      <4>2. writeSet' = [writeSet EXCEPT ![t].num = m, ![t].log[m] = <<Word(t), call[t].id>>]
        BY <1>12, <2>7, <4>1 DEF Pstore
      <4>3. writeSet'[t] = [writeSet[t] EXCEPT !.num = m, !.log[m] = <<Word(t), call[t].id>>]
        BY <4>2, <1>1 DEF TypeOK
      <4>4. writeSet[t].log \in [1 .. NumStores -> Addr \X Nat] /\ DOMAIN writeSet[t] = {"num", "log"}
        BY <1>1 DEF TypeOK, WriteSets
      <4>5. writeSet'[t].num = m /\ writeSet'[t].log = [writeSet[t].log EXCEPT ![m] = <<Word(t), call[t].id>>]
        BY <4>3, <4>4
      <4>. QED BY <4>1, <4>4, <4>5
    <3>2. \A i \in 1 .. writeSet'[t].num : writeSet'[t].log[i][2] = call[t].id
      BY <3>1, <2>5
    <3>3. Running(t)'
      BY <2>1, <2>2, <2>4, <2>5, <3>1, <3>2 DEF Running
    <3>. QED BY <2>1, <3>3, <1>e, LocalStep
  <2>. QED BY <2>6, <2>7
<1>13. CASE CommitReadOnly(t) \/ CommitDone(t)
  <2>1. Others /\ pc'[t] = "idle" /\ (pc[t] = "run" \/ pc[t] = "helped")
    BY <1>13, <1>a, <1>1 DEF CommitReadOnly, CommitDone, Returns, TypeOK
  <2>2. Winner(t) => Closed(helping[t])
    BY <2>1, <1>1 DEF Winner, Knows, Helpers
  <2>3. Rest
    BY <2>1, <2>2, <1>1 DEF Request, Knows, Running, Winner, Helpers, Runners
  <2>. QED BY <2>1, <2>3, LocalStep
<1>14. CASE CommitStale(t) \/ CommitLost(t)
  <2>1. Others /\ pc[t] \in Runners /\ pc'[t] = "begin" /\ call' = call
    BY <1>14, <1>a DEF CommitStale, CommitLost, Runners
  <2>. QED BY <2>1, <1>f, LocalStep
<1>15. CASE CommitOpen(t)
  <2>1. Others /\ UNCHANGED <<myTx, helping, call, writeSet>> /\ pc[t] = "run" /\ pc'[t] = "open"
    BY <1>15, <1>a DEF CommitOpen
  <2>2. Rest
    BY <2>1, <1>1 DEF Request, Knows, Running, StoresBefore, Winner, Helpers, Runners, Known, Closed
  <2>. QED BY <2>1, <2>2, LocalStep
<1>16. CASE CommitRequest(t)
  <2>1. /\ Others /\ UNCHANGED <<myTx, helping, call, writeSet>> /\ pc[t] = "open" /\ pc'[t] = "cas"
        /\ request'[t] = NewTx(t)
    BY <1>16, <1>a, <1>1 DEF CommitRequest, TypeOK
  <2>2. Rest
    BY <2>1, <1>1 DEF Request, Knows, Running, StoresBefore, Winner, Helpers, Runners, Known, Closed, NewTx
  <2>. QED BY <2>1, <2>2, LocalStep
<1>17. CASE CommitWon(t)
  <2>1. curTx' = NewTx(t) /\ curTx = myTx[t]
    BY <1>17 DEF CommitWon
  <2>2. NewTx(t).seq = myTx[t].seq + 1
    BY DEF NewTx, Trans
  <2>3. curTx.seq = curTx.seq + 1
    BY <2>1, <2>2
  <2>. QED BY <2>3, <1>1
<1>18. CASE Help(t)
  BY <1>5, <1>6, <1>7, <1>8, <1>9, <1>18 DEF Help
<1>19. CASE Commit(t)
  BY <1>13, <1>14, <1>15, <1>16, <1>17, <1>19 DEF Commit
<1>. QED BY <1>2, <1>3, <1>4, <1>10, <1>11, <1>12, <1>18, <1>19 DEF Step

(* A step that opens or closes a request.                                  *)
LEMMA ProtocolRequest ==
  ASSUME Protocol, TypeOK', NEW t \in Thread, HelpClose(t) \/ CommitRequest(t)
  PROVE  Protocol'
<1>. USE DEF memVars, txVars, localVars, histVars
<1>1. /\ TypeOK /\ Request(t) /\ Knows(t) /\ Known(curTx) /\ t \in Nat
      /\ curTx \in Tx /\ curTx.seq \in Nat /\ myTx[t] \in Tx /\ myTx[t].seq \in Nat
      /\ \A u \in Thread : request[u] \in Tx /\ request[u].seq \in Nat
  BY TxSeq, HistoryAssumption DEF Protocol, TypeOK
<1>2. UNCHANGED <<curTx, myTx, helping, call, writeSet>>
  BY DEF HelpClose, CommitRequest
<1>3. /\ \A u \in Thread \ {t} : pc'[u] = pc[u]
      /\ \/ pc[t] = "close" /\ pc'[t] = "helped"
         \/ /\ pc[t] = "open" /\ pc'[t] = "cas"
            /\ request' = [request EXCEPT ![t] = NewTx(t)] /\ request'[t] = NewTx(t)
  BY <1>1 DEF HelpClose, CommitRequest, Goto, TypeOK
<1>4. ASSUME NEW u \in Thread PROVE Winner(u)' <=> Winner(u)
  BY <1>2, <1>3, <1>4 DEF Winner, Helpers
<1>5. /\ pc[t] = "open" => NewTx(t).seq = myTx[t].seq + 1 /\ NewTx(t).idx = t /\ request[t].seq <= myTx[t].seq + 1
      /\ pc[t] = "open" => 1 <= myTx[t].seq /\ myTx[t].seq <= curTx.seq
  BY <1>1 DEF NewTx, Trans, Request, Knows, Known, Runners
<1>6. ASSUME pc[t] = "close"
      PROVE  /\ Closed(helping[t])'
             /\ \/ request' = request
                \/ /\ Owner(t) \in Thread /\ Owner(t) = curTx.idx /\ Winner(Owner(t)) /\ curTx.seq >= 2
                   /\ request' = [request EXCEPT ![Owner(t)] = [request[Owner(t)] EXCEPT !.seq = curTx.seq + 1]]
  <2>1. CASE Open(t)
    <3>1. /\ helping[t] = curTx /\ Winner(Owner(t)) /\ curTx.seq >= 2 /\ Owner(t) \in Thread /\ Owner(t) = curTx.idx
          /\ request[Owner(t)] = curTx
      BY <1>6, <2>1, <1>1, OpenFacts, TxSeq DEF Helpers, Owner, Open
    <3>2. request' = [request EXCEPT ![Owner(t)] = [request[Owner(t)] EXCEPT !.seq = curTx.seq + 1]]
      BY <1>6, <1>3, <2>1, <3>1, <1>1 DEF HelpClose, CommitRequest, TypeOK
    <3>3. request'[Owner(t)].seq = curTx.seq + 1
      BY <3>1, <3>2, <1>1 DEF TypeOK, Tx
    <3>. QED BY <3>1, <3>2, <3>3, <1>1, <1>2 DEF Closed, Owner
  <2>2. CASE ~Open(t)
    <3>1. request' = request
      BY <1>6, <2>2 DEF HelpClose, CommitRequest
    <3>2. Closed(helping[t])
      BY <1>6, <2>2, OpenFacts DEF Helpers
    <3>. QED BY <3>1, <3>2, <1>2 DEF Closed
  <2>. QED BY <2>1, <2>2
<1>7. ASSUME NEW u \in Thread
      PROVE  /\ request'[u] \in Tx /\ request'[u].seq \in Nat /\ request'[u].seq >= request[u].seq
             /\ request'[u].seq <= curTx.seq + 1
             /\ request'[u].seq = 0 \/ (request'[u].seq >= 2 /\ request'[u].idx = u)
             /\ request'[u] = request[u] \/ Winner(u) \/ (u = t /\ pc[t] = "open" /\ request'[u] = NewTx(t))
  <2>1. request'[u] \in Tx /\ request'[u].seq \in Nat /\ Request(u)
    BY TxSeq, <1>7 DEF TypeOK, Protocol
  <2>2. CASE request'[u] = request[u]
    BY <2>1, <2>2, <1>1, <1>7 DEF Request
  <2>3. CASE request'[u] # request[u]
    <3>1. CASE pc[t] = "open"
      <4>1. u = t /\ request'[t] = NewTx(t)
        BY <1>3, <2>3, <3>1, <1>1, <1>7 DEF TypeOK
      <4>. QED BY <2>1, <3>1, <4>1, <1>1, <1>5
    <3>2. CASE pc[t] = "close"
      <4>1. /\ u = Owner(t) /\ Winner(u) /\ curTx.seq >= 2
            /\ request'[u] = [request[u] EXCEPT !.seq = curTx.seq + 1]
        BY <1>6, <2>3, <3>2, <1>1, <1>7 DEF TypeOK
      <4>2. request'[u].seq = curTx.seq + 1 /\ request'[u].idx = request[u].idx
        BY <4>1, <1>1, <1>7 DEF Tx
      <4>3. request[u].seq <= curTx.seq + 1 /\ request[u].seq # 0
        <5>1. u = curTx.idx /\ curTx.seq >= 2
          BY <1>6, <2>3, <3>2, <4>1
        <5>. QED BY <5>1, <2>1, <1>1, <1>7 DEF Request, Known
      <4>. QED BY <2>1, <4>1, <4>2, <4>3, <1>1, <1>7 DEF Request
    <3>. QED BY <1>3, <3>1, <3>2
  <2>. QED BY <2>2, <2>3
<1>8. ASSUME NEW tx \in Tx PROVE (Closed(tx) => Closed(tx)') /\ (Known(tx) => Known(tx)')
  <2>1. tx.idx \in Thread /\ tx.seq \in Nat
    BY TxSeq
  <2>2. /\ request'[tx.idx].seq \in Nat /\ request[tx.idx].seq \in Nat
        /\ request'[tx.idx].seq >= request[tx.idx].seq
    BY <2>1, <1>1, <1>7
  <2>3. Closed(tx) => Closed(tx)'
    BY <2>1, <2>2 DEF Closed
  <2>. QED BY <2>1, <2>2, <2>3, <1>2 DEF Known
<1>9. ASSUME NEW u \in Thread PROVE Request(u)'
  <2>1. Request(u) /\ request[u].seq \in Nat
    BY <1>1, <1>9 DEF Protocol
  <2>2. pc'[u] = "cas" => request'[u] = NewTx(u)'
    BY <2>1, <1>2, <1>3, <1>7, <1>9 DEF Request, NewTx, Trans, Winner, Helpers
  <2>3. pc'[u] \in Runners \/ (pc'[u] \in Helpers /\ ~Winner(u)') => request'[u].seq <= myTx'[u].seq + 1
    <3>1. SUFFICES ASSUME pc'[u] \in Runners \/ (pc'[u] \in Helpers /\ ~Winner(u)') PROVE request'[u].seq <= myTx[u].seq + 1
      BY <1>2
    <3>2. (pc[u] \in Runners \/ pc[u] \in Helpers) /\ ~Winner(u)
      BY <3>1, <1>3, <1>4, <1>9 DEF Winner, Helpers, Runners
    <3>3. CASE request'[u] = request[u]
      BY <2>1, <3>2, <3>3 DEF Request
    <3>4. CASE request'[u] # request[u]
      <4>1. u = t /\ pc[t] = "open" /\ request'[u] = NewTx(t)
        BY <1>7, <1>9, <3>2, <3>4
      <4>. QED BY <4>1, <1>1, <1>5
    <3>. QED BY <3>3, <3>4
  <2>. QED BY <1>2, <1>7, <1>9, <2>2, <2>3 DEF Request
<1>10. ASSUME NEW u \in Thread PROVE Knows(u)'
  <2>1. Knows(u) /\ myTx[u] \in Tx /\ helping[u] \in Tx /\ (Winner(u)' <=> Winner(u))
    BY <1>1, <1>4, <1>10 DEF Protocol, TypeOK
  <2>2. /\ (Known(helping[u]) => Known(helping[u])') /\ (Closed(helping[u]) => Closed(helping[u])')
        /\ (Known(myTx[u]) => Known(myTx[u])') /\ (Closed(myTx[u]) => Closed(myTx[u])')
    <3>1. PICK h \in Tx, m \in Tx : h = helping[u] /\ m = myTx[u] /\ h = helping'[u] /\ m = myTx'[u]
      BY <2>1, <1>2
    <3>2. (Closed(h) => Closed(h)') /\ (Known(h) => Known(h)') /\ (Closed(m) => Closed(m)') /\ (Known(m) => Known(m)')
      BY <1>8
    <3>. QED BY <3>1, <3>2 DEF Known, Closed
  <2>3. pc'[u] \in Helpers \cup Runners => pc[u] \in Helpers \cup Runners
    BY <1>3, <1>10 DEF Helpers, Runners
  <2>4. (pc'[u] \in Helpers => pc[u] \in Helpers) /\ (pc'[u] \in Runners => pc[u] \in Runners)
    BY <1>3, <1>10 DEF Helpers, Runners
  <2>5. pc'[u] = "helped" => Closed(helping[u])'
    <3>1. CASE u = t
      BY <3>1, <1>3, <1>6
    <3>2. CASE u # t
      BY <3>2, <1>3, <1>10, <2>1, <2>2 DEF Knows
    <3>. QED BY <3>1, <3>2
  <2>6. pc'[u] \in {"copy", "recheck", "apply", "close"} => pc[u] = pc'[u]
    BY <1>3, <1>10
  <2>7. Owner(u)' = Owner(u) /\ NewTx(u)' = NewTx(u) /\ helping'[u] = helping[u]
    BY <1>2 DEF Owner, NewTx, Trans
  <2>. QED BY <2>1, <2>2, <2>3, <2>4, <2>5, <2>6, <2>7 DEF Knows
<1>11. ASSUME NEW u \in Thread PROVE Running(u)'
  <2>1. Running(u)
    BY <1>11 DEF Protocol
  <2>. QED BY <2>1, <1>2, <1>3, <1>11 DEF Running, StoresBefore, Helpers, Runners
<1>12. Known(curTx)'
  BY <1>1, <1>2, <1>8 DEF Known, Closed
<1>13. ASSUME ~Closed(curTx)' PROVE Winner(curTx.idx)' /\ helping'[curTx.idx] = curTx
  <2>1. ~Closed(curTx)
    BY <1>13, <1>1, <1>2, <1>8 DEF Closed
  <2>2. Winner(curTx.idx) /\ helping[curTx.idx] = curTx /\ curTx.idx \in Thread
    BY <2>1, <1>1, TxSeq DEF Protocol
  <2>. QED BY <2>2, <1>2, <1>4
<1>. QED BY <1>2, <1>9, <1>10, <1>11, <1>12, <1>13 DEF Protocol

LEMMA ProtocolWon == ASSUME Protocol, TypeOK', NEW t \in Thread, CommitWon(t) PROVE Protocol'
<1>. USE DEF memVars, txVars, localVars, histVars
<1>1. /\ TypeOK /\ Request(t) /\ Knows(t) /\ Known(curTx) /\ Running(t) /\ pc[t] = "cas"
      /\ curTx \in Tx /\ curTx.seq \in Nat /\ request[t] \in Tx
  BY TxSeq DEF Protocol, TypeOK, CommitWon
<1>2. /\ curTx = myTx[t] /\ curTx' = NewTx(t) /\ curTx'.seq = curTx.seq + 1 /\ curTx'.idx = t
      /\ request[t] = curTx' /\ Closed(curTx)
  BY <1>1 DEF CommitWon, NewTx, Trans, Request, Knows, Runners
<1>3. /\ UNCHANGED <<request, myTx, call, writeSet>>
      /\ pc'[t] = "help" /\ helping'[t] = curTx' /\ \A u \in Thread \ {t} : pc'[u] = pc[u] /\ helping'[u] = helping[u]
  BY <1>1, <1>2 DEF CommitWon, Goto, TypeOK
<1>4. ASSUME NEW tx \in Tx, Known(tx) PROVE tx.seq < curTx'.seq /\ Closed(tx) /\ Closed(tx)' /\ Known(tx)'
  <2>1. tx.seq \in Nat
    BY TxSeq
  <2>2. Closed(tx)
    BY <2>1, <1>1, <1>2, <1>4 DEF Known
  <2>. QED BY <2>1, <2>2, <1>1, <1>2, <1>3, <1>4 DEF Known, Closed
<1>5. Known(curTx)'
  BY <1>1, <1>2, <1>3 DEF Known
<1>6. Winner(t)'
  <2>1. myTx'[t].seq # curTx'.seq
    BY <1>1, <1>2, <1>3
  <2>. QED BY <2>1, <1>3 DEF Winner, Helpers
<1>7. ASSUME NEW u \in Thread, u # t PROVE (Winner(u)' <=> Winner(u)) /\ Request(u)' /\ Knows(u)' /\ Running(u)'
  <2>1. Request(u) /\ Knows(u) /\ Running(u) /\ myTx[u] \in Tx /\ helping[u] \in Tx /\ request[u].seq \in Nat
    BY <1>1, TxSeq, <1>7 DEF Protocol, TypeOK
  <2>2. Winner(u)' <=> Winner(u)
    BY <1>3, <1>7 DEF Winner
  <2>3. Request(u)'
    BY <2>1, <2>2, <1>1, <1>2, <1>3, <1>7 DEF Request, NewTx
  <2>4. /\ (Known(helping[u]) => Known(helping[u])') /\ (Closed(helping[u]) => Closed(helping[u])')
        /\ (Known(myTx[u]) => Known(myTx[u])') /\ (Closed(myTx[u]) => Closed(myTx[u])')
    <3>1. PICK h \in Tx, m \in Tx : h = helping[u] /\ m = myTx[u] /\ h = helping'[u] /\ m = myTx'[u]
      BY <2>1, <1>3, <1>7
    <3>2. (Known(h) => Known(h)') /\ (Known(m) => Known(m)')
      BY <1>4
    <3>. QED BY <3>1, <3>2, <1>3 DEF Known, Closed
  <2>5. Knows(u)'
    <3>1. Owner(u)' = Owner(u) /\ NewTx(u)' = NewTx(u) /\ helping'[u] = helping[u] /\ pc'[u] = pc[u]
      BY <1>3, <1>7 DEF Owner, NewTx, Trans
    <3>. QED BY <2>1, <2>2, <2>4, <3>1 DEF Knows
  <2>. QED BY <2>1, <2>2, <2>3, <2>5, <1>3, <1>7 DEF Running, StoresBefore
<1>8. Request(t)'
  BY <1>1, <1>2, <1>3, <1>6 DEF Request, Helpers, Runners
<1>9. Knows(t)'
  <2>1. Known(myTx[t])' /\ Closed(myTx[t])'
    BY <1>1, <1>2, <1>3, <1>4 DEF Known, Closed
  <2>. QED BY <2>1, <1>2, <1>3, <1>5, <1>6 DEF Knows, Helpers, Runners, NewTx, Known, Closed
<1>10. Running(t)'
  BY <1>1, <1>3 DEF Running, Runners
<1>. QED BY <1>2, <1>3, <1>5, <1>6, <1>7, <1>8, <1>9, <1>10 DEF Protocol

LEMMA ProtocolStep == Protocol /\ [Next]_vars => Protocol'
<1>. SUFFICES ASSUME Protocol, [Next]_vars PROVE Protocol'
  OBVIOUS
<1>. USE DEF memVars, txVars, localVars, histVars
<1>1. ASSUME NEW t \in Thread, Call(t) \/ Step(t) PROVE Protocol'
  <2>1. TypeOK'
    BY <1>1, TypeStep DEF Protocol
  <2>2. CASE HelpClose(t) \/ CommitRequest(t)
    BY <2>1, <2>2, ProtocolRequest
  <2>3. CASE CommitWon(t)
    BY <2>1, <2>3, ProtocolWon
  <2>4. CASE ~(HelpClose(t) \/ CommitRequest(t) \/ CommitWon(t))
    <3>1. UNCHANGED <<curTx, request>>
      BY <1>1, <2>4 DEF Call, NewCall, Step, BeginTx, BeginTxDone, Help, HelpStart, HelpCopy, HelpCheck, ApplyLoad,
           ApplyDCAS, HelpFlush, PloadValue, PloadSeq, Pstore, Commit, CommitReadOnly, CommitStale,
           CommitOpen, CommitLost, CommitDone, Returns
    <3>. QED BY <1>1, <2>1, <3>1, ProtocolLocal
  <2>. QED BY <2>2, <2>3, <2>4
<1>2. ASSUME UNCHANGED <<curTx, request, writeSet, pc, k, myTx, helping, call>>, TypeOK' PROVE Protocol'
  <2>1. \A t \in Thread : Request(t)' /\ Knows(t)' /\ Running(t)'
    <3>1. ASSUME NEW t \in Thread PROVE Request(t)' /\ Knows(t)' /\ Running(t)'
      <4>1. Request(t) /\ Knows(t) /\ Running(t)
        BY DEF Protocol
      <4>2. Request(t)'
        BY <1>2, <4>1 DEF Request, Winner, NewTx, Trans
      <4>3. Knows(t)'
        BY <1>2, <4>1 DEF Knows, Known, Closed, Winner, NewTx, Trans, Owner
      <4>. QED BY <1>2, <4>1, <4>2, <4>3 DEF Running, StoresBefore
    <3>. QED BY <3>1
  <2>. QED BY <1>2, <2>1 DEF Protocol, Known, Closed, Winner
<1>3. ASSUME NEW a \in Addr, WriteBack(a) PROVE Protocol'
  <2>1. TypeOK'
    BY <1>3 DEF WriteBack, Protocol, TypeOK
  <2>. QED BY <1>2, <1>3, <2>1 DEF WriteBack
<1>4. CASE UNCHANGED vars
  <2>1. TypeOK'
    BY <1>4 DEF vars, Protocol, TypeOK
  <2>. QED BY <1>2, <1>4, <2>1 DEF vars
<1>. QED BY <1>1, <1>3, <1>4 DEF Next

-----------------------------------------------------------------------------
(* What a step of t leaves alone.                                          *)
LEMMA Frame ==
  ASSUME TypeOK, NEW t \in Thread, Call(t) \/ Step(t)
  PROVE  /\ pm' = pm /\ pwb \subseteq pwb'
         /\ \A u \in Thread \ {t} :
              /\ pc'[u] = pc[u] /\ k'[u] = k[u] /\ myTx'[u] = myTx[u] /\ helping'[u] = helping[u]
              /\ loaded'[u] = loaded[u] /\ call'[u] = call[u] /\ writeSet'[u] = writeSet[u]
<1>. USE DEF memVars, txVars, localVars, histVars
<1>1. CASE Call(t) \/ BeginTx(t) \/ BeginTxDone(t)
  BY <1>1 DEF Call, NewCall, BeginTx, BeginTxDone, Goto, TypeOK
<1>2. CASE Help(t)
  <2>1. CASE HelpStart(t) \/ HelpCopy(t) \/ HelpCheck(t)
    BY <2>1 DEF HelpStart, HelpCopy, HelpCheck, Goto, Advance, TypeOK
  <2>2. CASE ApplyLoad(t) \/ ApplyDCAS(t) \/ HelpFlush(t) \/ HelpClose(t)
    BY <2>2 DEF ApplyLoad, ApplyDCAS, HelpFlush, HelpClose, Goto, Advance, TypeOK
  <2>. QED BY <1>2, <2>1, <2>2 DEF Help
<1>3. CASE PloadValue(t) \/ PloadSeq(t) \/ Pstore(t)
  BY <1>3 DEF PloadValue, PloadSeq, Pstore, Goto, Advance, TypeOK
<1>4. CASE Commit(t)
  BY <1>4 DEF Commit, CommitReadOnly, CommitStale, CommitOpen, CommitRequest, CommitWon, CommitLost, CommitDone,
       Returns, Goto, TypeOK
<1>. QED BY <1>1, <1>2, <1>3, <1>4 DEF Step

(* The updates up to curTx, however their entries are found.               *)
LEMMA OldEntries ==
  ASSUME TypeOK, NEW entry, NEW entry2,
         \A s \in 2 .. curTx.seq : log'[entry2[s]] = log[entry[s]]
  PROVE  /\ \A s \in 2 .. curTx.seq : Writes(entry2, s)' = Writes(entry, s)
         /\ \A v : v = 0 \/ v \in 2 .. curTx.seq => ValOf(entry2, v)' = ValOf(entry, v)
         /\ \A m \in Nat : m <= curTx.seq => \A a, v :
              IsLast(entry, v, m, a) <=> IsLast(entry2, v, m, a)'
         /\ \A m \in Nat : \A r : m <= curTx.seq => (HasRead(entry, r, m) <=> HasRead(entry2, r, m)')
<1>0. curTx.seq \in Nat
  BY TxSeq DEF TypeOK
<1>1. \A s \in 2 .. curTx.seq : Writes(entry2, s)' = Writes(entry, s)
  BY DEF Writes
<1>2. \A v : v = 0 \/ v \in 2 .. curTx.seq => ValOf(entry2, v)' = ValOf(entry, v)
  BY DEF ValOf
<1>3. ASSUME NEW m \in Nat, m <= curTx.seq, NEW a, NEW v
      PROVE  IsLast(entry, v, m, a) <=> IsLast(entry2, v, m, a)'
  <2>1. \A s \in 2 .. m : s \in 2 .. curTx.seq
    BY <1>0, <1>3
  <2>2. \A s \in 2 .. m : Writes(entry2, s)' = Writes(entry, s)
    BY <1>1, <2>1
  <2>. QED BY <2>2 DEF IsLast
<1>4. ASSUME NEW m \in Nat, NEW r, m <= curTx.seq
      PROVE  HasRead(entry, r, m) <=> HasRead(entry2, r, m)'
  <2>1. \A v : IsLast(entry, v, m, r[1]) => v = 0 \/ v \in 2 .. curTx.seq
    BY <1>0, <1>4 DEF IsLast
  <2>2. \A v : IsLast(entry, v, m, r[1]) <=> IsLast(entry2, v, m, r[1])'
    BY <1>3, <1>4
  <2>. QED BY <1>2, <2>1, <2>2 DEF HasRead
<1>. QED BY <1>1, <1>2, <1>3, <1>4

(* A word changes only when a helper that is not late applies the current  *)
(* transaction to it.                                                      *)
LEMMA DCASFacts ==
  ASSUME Protocol, NEW entry, NEW t \in Thread, MemInv(entry), SetInv(entry, t), ApplyDCAS(t), mem' # mem
  PROVE  LET a == Entry(t)[1]
         IN  /\ a \in Addr /\ a \in Writes(entry, curTx.seq) /\ curTx.seq >= 2 /\ mem[a].seq < curTx.seq
             /\ helping[t] = curTx /\ ~Closed(curTx)
             /\ mem' = [mem EXCEPT ![a] = [val |-> ValOf(entry, curTx.seq), seq |-> curTx.seq]]
<1>. DEFINE a == Entry(t)[1]
            s == helping[t].seq
            i == ((t * 8 + (k[t] \div 3)) % writeSet[t].num) + 1
<1>1. /\ TypeOK /\ Knows(t) /\ Known(curTx) /\ curTx.seq \in Nat /\ s \in Nat /\ writeSet[t] \in WriteSets
      /\ pc[t] = "apply" /\ k[t] \div 3 \in Nat /\ writeSet[t].num > 0 /\ helping[t] \in Tx
  <2>1. pc[t] = "apply" /\ k[t] < 3 * writeSet[t].num
    BY DEF ApplyDCAS
  <2>2. TypeOK /\ writeSet[t] \in WriteSets /\ curTx.seq \in Nat /\ s \in Nat /\ k[t] \in Nat /\ helping[t] \in Tx
    BY TxSeq DEF Protocol, TypeOK
  <2>3. writeSet[t].num \in Nat
    BY <2>2, WriteSetFacts
  <2>4. writeSet[t].num > 0 /\ k[t] \div 3 \in Nat
    BY <2>1, <2>2, <2>3
  <2>. QED BY <2>1, <2>2, <2>4 DEF Protocol
<1>2. i \in 1 .. writeSet[t].num /\ a \in Stored(t) /\ a \in Addr
  BY <1>1, EntryFacts DEF Entry, Nth
<1>3. /\ Stored(t) = Writes(entry, s) /\ Entry(t)[2] = ValOf(entry, s)
      /\ s >= 2 /\ Known(helping[t]) /\ s <= curTx.seq
  BY <1>1, <1>2 DEF SetInv, ValidSet, Entry, Knows, Helpers, Known
<1>4. loaded[t].seq < s /\ mem[a] = loaded[t] /\ mem' = [mem EXCEPT ![a] = [val |-> Entry(t)[2], seq |-> s]]
  BY DEF ApplyDCAS
<1>5. \/ IsLast(entry, mem[a].seq, curTx.seq, a)
      \/ ~Closed(curTx) /\ IsLast(entry, mem[a].seq, curTx.seq - 1, a)
  BY <1>2 DEF MemInv
<1>6. a \in Writes(entry, s) /\ mem[a].seq < s /\ mem[a].seq \in Nat
  BY <1>1, <1>2, <1>3, <1>4, TxFacts DEF TypeOK
<1>7. ~IsLast(entry, mem[a].seq, curTx.seq, a)
  BY <1>1, <1>3, <1>6 DEF IsLast
<1>8. ~Closed(curTx) /\ s = curTx.seq
  <2>1. ~Closed(curTx) /\ IsLast(entry, mem[a].seq, curTx.seq - 1, a)
    BY <1>5, <1>7
  <2>2. ~(s <= curTx.seq - 1)
    BY <1>1, <1>3, <1>6, <2>1 DEF IsLast
  <2>. QED BY <1>1, <1>3, <2>1, <2>2
<1>9. helping[t] = curTx
  BY <1>3, <1>8 DEF Known
<1>. QED BY <1>2, <1>3, <1>4, <1>6, <1>8, <1>9

LEMMA MemMonotone ==
  ASSUME Protocol, NEW entry, NEW t \in Thread, MemInv(entry), SetInv(entry, t), Call(t) \/ Step(t),
         NEW b \in Addr
  PROVE  mem'[b] = mem[b] \/ (mem'[b].seq = curTx.seq /\ ~Closed(curTx) /\ mem[b].seq < curTx.seq)
<1>1. CASE mem' = mem
  BY <1>1
<1>2. CASE mem' # mem
  <2>1. ApplyDCAS(t)
    BY <1>2 DEF memVars, Call, Step, BeginTx, BeginTxDone, Help, HelpStart, HelpCopy, HelpCheck, ApplyLoad,
         HelpFlush, HelpClose, PloadValue, PloadSeq, Pstore, Commit, CommitReadOnly, CommitStale,
         CommitOpen, CommitRequest, CommitWon, CommitLost, CommitDone, Returns
  <2>2. PICK a \in Addr : /\ mem[a].seq < curTx.seq /\ ~Closed(curTx)
                          /\ mem' = [mem EXCEPT ![a] = [val |-> ValOf(entry, curTx.seq), seq |-> curTx.seq]]
    BY <1>2, <2>1, DCASFacts
  <2>3. mem \in [Addr -> Content]
    BY DEF Protocol, TypeOK
  <2>. QED BY <2>2, <2>3
<1>. QED BY <1>1, <1>2

(* The contents of the words and of the medium.                            *)
LEMMA MemQuiet ==
  ASSUME Protocol, NEW entry, MemInv(entry), UNCHANGED <<mem, pm, curTx>>, Closed(curTx)' <=> Closed(curTx),
         \A s \in 2 .. curTx.seq : log'[entry[s]] = log[entry[s]]
  PROVE  MemInv(entry)'
<1>1. /\ \A v : v = 0 \/ v \in 2 .. curTx.seq => ValOf(entry, v)' = ValOf(entry, v)
      /\ \A m \in Nat : m <= curTx.seq => \A a, v : IsLast(entry, v, m, a) <=> IsLast(entry, v, m, a)'
      /\ \A s \in 2 .. curTx.seq : Writes(entry, s)' = Writes(entry, s)
  BY OldEntries DEF Protocol
<1>2. curTx.seq \in Nat /\ 1 <= curTx.seq
  BY TxSeq DEF Protocol, TypeOK, Known
<1>3. ASSUME NEW a \in Addr
      PROVE  /\ mem[a].val = ValOf(entry, mem[a].seq)'
             /\ \/ IsLast(entry, mem[a].seq, curTx.seq, a)'
                \/ ~Closed(curTx) /\ IsLast(entry, mem[a].seq, curTx.seq - 1, a)'
             /\ pm[a].val = ValOf(entry, pm[a].seq)'
             /\ pm[a].seq = 0 \/ pm[a].seq \in 2 .. curTx.seq
             /\ \A s \in 2 .. curTx.seq : Settled(s) /\ a \in Writes(entry, s)' => s <= pm[a].seq
  <2>1. mem[a].seq = 0 \/ mem[a].seq \in 2 .. curTx.seq
    BY <1>2, <1>3 DEF MemInv, IsLast
  <2>2. PICK v, w : v = mem[a].seq /\ v = mem'[a].seq /\ w = pm[a].seq /\ w = pm'[a].seq
    OBVIOUS
  <2>3. ValOf(entry, v)' = ValOf(entry, v) /\ ValOf(entry, w)' = ValOf(entry, w)
    BY <1>1, <1>3, <2>1, <2>2 DEF MemInv
  <2>4. /\ IsLast(entry, v, curTx.seq, a) <=> IsLast(entry, v, curTx.seq, a)'
        /\ IsLast(entry, v, curTx.seq - 1, a) <=> IsLast(entry, v, curTx.seq - 1, a)'
    <3>1. PICK c \in Nat : c = curTx.seq /\ c = curTx'.seq /\ c - 1 \in Nat /\ c - 1 <= c
      BY <1>2
    <3>2. /\ IsLast(entry, v, c, a) <=> IsLast(entry, v, c, a)'
          /\ IsLast(entry, v, c - 1, a) <=> IsLast(entry, v, c - 1, a)'
      BY <1>1, <3>1
    <3>. QED BY <3>1, <3>2 DEF IsLast
  <2>. QED BY <1>1, <1>3, <2>2, <2>3, <2>4 DEF MemInv, ValOf, IsLast
<1>. QED BY <1>3 DEF MemInv, Settled


-----------------------------------------------------------------------------
LEMMA GhostInit == Init => \E entry, key : Ghost(entry, key)
<1>. SUFFICES ASSUME Init PROVE \E entry, key : Ghost(entry, key)
  OBVIOUS
<1>. DEFINE none == [i \in {} |-> 0]
<1>1. TypeOK /\ curTx.seq = 1 /\ log = <<>> /\ Len(log) = 0 /\ returned = {} /\ \A t \in Thread : pc[t] = "idle"
  BY TypeInit DEF Init, InitHistory, Trans
<1>2. \A a \in Addr : mem[a].seq = 0 /\ mem[a].val = InitVal /\ pm[a].seq = 0 /\ pm[a].val = InitVal
  BY DEF Init, Nothing
<1>3. 2 .. curTx.seq = {} /\ 1 .. Len(log) = {}
  BY <1>1
<1>4. LogInv(none, none)
  BY <1>1, <1>3 DEF LogInv
<1>5. CallInv(none, none)
  BY <1>1, <1>3 DEF CallInv
<1>6. MemInv(none)
  BY <1>2, <1>3 DEF MemInv, ValOf, IsLast
<1>7. \A t \in Thread : SetInv(none, t) /\ ApplyInv(none, t) /\ RunInv(none, t)
  BY <1>1 DEF SetInv, ApplyInv, RunInv, Winner, Helpers, Runners
<1>. QED BY <1>4, <1>5, <1>6, <1>7 DEF Ghost

(* What becomes of curTx and of its request.                               *)
LEMMA ClosedFacts ==
  ASSUME Protocol, NEW t \in Thread, Call(t) \/ Step(t), ~CommitWon(t)
  PROVE  /\ curTx' = curTx
         /\ Closed(curTx) => Closed(curTx)'
         /\ (HelpClose(t) /\ Open(t)) \/ (Closed(curTx)' <=> Closed(curTx))
<1>. USE DEF memVars, txVars, localVars, histVars
<1>1. /\ TypeOK /\ Request(t) /\ Knows(t) /\ curTx \in Tx /\ curTx.seq \in Nat /\ curTx.idx \in Thread
      /\ \A u \in Thread : request[u].seq \in Nat
  BY TxSeq DEF Protocol, TypeOK
<1>2. curTx' = curTx /\ (request' = request \/ (HelpClose(t) /\ Open(t)) \/ CommitRequest(t))
  BY DEF Call, NewCall, Step, BeginTx, BeginTxDone, Help, HelpStart, HelpCopy, HelpCheck, ApplyLoad,
         ApplyDCAS, HelpFlush, HelpClose, PloadValue, PloadSeq, Pstore, Commit, CommitReadOnly, CommitStale,
         CommitOpen, CommitRequest, CommitLost, CommitDone, Returns
<1>3. CASE request' = request
  BY <1>2, <1>3 DEF Closed
<1>4. CASE HelpClose(t) /\ Open(t)
  <2>1. Owner(t) \in Thread /\ request \in [Thread -> Tx]
    BY <1>1, TxSeq DEF TypeOK, Owner
  <2>2. request' = [request EXCEPT ![Owner(t)] = [request[Owner(t)] EXCEPT !.seq = @ + 1]]
    BY <1>4 DEF HelpClose
  <2>3. request'[curTx.idx].seq >= request[curTx.idx].seq
    BY <1>1, <2>1, <2>2 DEF Tx
  <2>4. request'[curTx.idx].seq \in Nat
    BY <1>1, <2>1, <2>2 DEF Tx
  <2>. QED BY <1>1, <1>2, <1>4, <2>3, <2>4 DEF Closed
<1>5. CASE CommitRequest(t)
  <2>1. /\ pc[t] = "open" /\ \A u \in Thread \ {t} : request'[u] = request[u]
        /\ request'[t].seq = myTx[t].seq + 1 /\ request[t].seq <= myTx[t].seq + 1 /\ myTx[t].seq \in Nat
    BY <1>1, <1>5, TxSeq DEF CommitRequest, NewTx, Trans, Request, Runners, TypeOK
  <2>2. ~Closed(curTx) => curTx.idx # t
    BY <2>1 DEF Protocol, Winner, Helpers
  <2>3. Closed(curTx) => Closed(curTx)'
    BY <1>1, <1>2, <2>1 DEF Closed
  <2>. QED BY <1>1, <1>2, <2>1, <2>2, <2>3 DEF Closed
<1>. QED BY <1>2, <1>3, <1>4, <1>5

LEMMA LogQuiet ==
  ASSUME NEW entry, NEW key, LogInv(entry, key), UNCHANGED <<curTx, log>>, Closed(curTx) => Closed(curTx)'
  PROVE  LogInv(entry, key)'
<1>1. \A s : Settled(s) => Settled(s)'
  BY DEF Settled
<1>2. \A r, m : HasRead(entry, r, m) <=> HasRead(entry, r, m)'
  BY DEF HasRead, IsLast, ValOf, Writes
<1>3. \A i : /\ IsUpd(entry, key, i) <=> IsUpd(entry, key, i)'
             /\ Snapshot(entry, key, i) = Snapshot(entry, key, i)'
  BY DEF IsUpd, Snapshot
<1>4. ASSUME NEW i \in 1 .. Len(log)
      PROVE  /\ Settled(Snapshot(entry, key, i))'
             /\ \A r \in log[i].reads : HasRead(entry, r, Snapshot(entry, key, i))'
  <2>1. PICK m : m = Snapshot(entry, key, i) /\ m = Snapshot(entry, key, i)'
    BY <1>3
  <2>2. Settled(m) /\ \A r \in log[i].reads : HasRead(entry, r, m)
    BY <1>4, <2>1 DEF LogInv
  <2>3. Settled(m)' /\ \A r \in log[i].reads : HasRead(entry, r, m)'
    BY <1>1, <1>2, <2>2
  <2>. QED BY <2>1, <2>3 DEF Settled, HasRead, IsLast
<1>. QED BY <1>3, <1>4 DEF LogInv

(* The update in curTx is applied, and written back, when its request is   *)
(* closed.                                                                 *)
LEMMA MemClose ==
  ASSUME Protocol, NEW entry, NEW t \in Thread, MemInv(entry), ApplyInv(entry, t), HelpClose(t), Open(t)
  PROVE  MemInv(entry)'
<1>. USE DEF memVars, txVars, localVars, histVars
<1>1. /\ TypeOK /\ curTx.seq \in Nat /\ curTx.seq >= 2 /\ helping[t] = curTx /\ ~Closed(curTx)
      /\ pc[t] = "close"
  BY OpenFacts, TxSeq DEF Protocol, TypeOK, HelpClose, Helpers
<1>2. UNCHANGED <<mem, pm, curTx, log>> /\ ~\E a \in Addr : <<t, a>> \in pwb
  BY DEF HelpClose, Fenced
<1>3. ASSUME NEW a \in Addr
      PROVE  /\ IsLast(entry, mem[a].seq, curTx.seq, a)
             /\ \A s \in 2 .. curTx.seq : a \in Writes(entry, s) => s <= pm[a].seq
  <2>1. mem[a].seq \in Nat /\ pm[a].seq \in Nat
    BY <1>1, <1>3, TxFacts DEF TypeOK
  <2>2. a \in Writes(entry, curTx.seq) => mem[a].seq >= curTx.seq /\ pm[a].seq >= curTx.seq
    BY <1>1, <1>2, <1>3 DEF ApplyInv
  <2>3. IsLast(entry, mem[a].seq, curTx.seq, a) \/ IsLast(entry, mem[a].seq, curTx.seq - 1, a)
    BY <1>3 DEF MemInv
  <2>4. IsLast(entry, mem[a].seq, curTx.seq, a)
    <3>1. CASE IsLast(entry, mem[a].seq, curTx.seq - 1, a)
      <4>1. mem[a].seq < curTx.seq /\ a \notin Writes(entry, curTx.seq)
        BY <1>1, <2>1, <2>2, <3>1 DEF IsLast
      <4>. QED BY <1>1, <2>1, <3>1, <4>1 DEF IsLast
    <3>. QED BY <2>3, <3>1
  <2>5. \A s \in 2 .. curTx.seq : s < curTx.seq /\ a \in Writes(entry, s) => s <= pm[a].seq
    BY <1>3 DEF MemInv, Settled
  <2>. QED BY <1>1, <2>1, <2>2, <2>4, <2>5
<1>4. \A a, v, m : IsLast(entry, v, m, a) <=> IsLast(entry, v, m, a)'
  BY <1>2 DEF IsLast, Writes
<1>5. ASSUME NEW a \in Addr
      PROVE  /\ (mem[a].val = ValOf(entry, mem[a].seq))' /\ (pm[a].val = ValOf(entry, pm[a].seq))'
             /\ IsLast(entry, mem[a].seq, curTx.seq, a)'
             /\ (pm[a].seq = 0 \/ pm[a].seq \in 2 .. curTx.seq)'
             /\ (\A s \in 2 .. curTx.seq : a \in Writes(entry, s) => s <= pm[a].seq)'
  BY <1>2, <1>3, <1>5 DEF MemInv, ValOf, IsLast, Writes
<1>. QED BY <1>5 DEF MemInv

LEMMA MemApply ==
  ASSUME Protocol, NEW entry, NEW t \in Thread, MemInv(entry), SetInv(entry, t), ApplyDCAS(t)
  PROVE  MemInv(entry)'
<1>. USE DEF memVars, txVars, localVars, histVars
<1>1. TypeOK /\ UNCHANGED <<pm, curTx, request, log>> /\ (Closed(curTx)' <=> Closed(curTx)) /\ curTx.seq \in Nat
  BY TxSeq DEF Protocol, ApplyDCAS, Closed, TypeOK
<1>2. CASE mem' = mem
  BY <1>1, <1>2, MemQuiet
<1>3. CASE mem' # mem
  <2>1. PICK a \in Addr : /\ a \in Writes(entry, curTx.seq) /\ curTx.seq >= 2
                          /\ mem' = [mem EXCEPT ![a] = [val |-> ValOf(entry, curTx.seq), seq |-> curTx.seq]]
    BY <1>3, DCASFacts
  <2>2. /\ \A v, m, b : IsLast(entry, v, m, b) <=> IsLast(entry, v, m, b)'
        /\ \A v : ValOf(entry, v) = ValOf(entry, v)'
        /\ \A s : Writes(entry, s) = Writes(entry, s)' /\ (Settled(s) <=> Settled(s)')
    BY <1>1 DEF IsLast, ValOf, Writes, Settled
  <2>3. ASSUME NEW b \in Addr
        PROVE  /\ mem'[b].val = ValOf(entry, mem'[b].seq)
               /\ \/ IsLast(entry, mem'[b].seq, curTx.seq, b)
                  \/ ~Closed(curTx) /\ IsLast(entry, mem'[b].seq, curTx.seq - 1, b)
    <3>1. CASE b = a
      <4>1. mem'[b].seq = curTx.seq /\ mem'[b].val = ValOf(entry, curTx.seq)
        BY <1>1, <2>1, <3>1 DEF TypeOK
      <4>2. IsLast(entry, curTx.seq, curTx.seq, a)
        BY <1>1, <2>1 DEF IsLast
      <4>. QED BY <3>1, <4>1, <4>2
    <3>2. CASE b # a
      <4>1. mem'[b] = mem[b]
        BY <1>1, <2>1, <3>2 DEF TypeOK
      <4>. QED BY <2>3, <4>1 DEF MemInv
    <3>. QED BY <3>1, <3>2
  <2>4. ASSUME NEW b \in Addr
        PROVE  /\ (mem[b].val = ValOf(entry, mem[b].seq))'
               /\ (\/ IsLast(entry, mem[b].seq, curTx.seq, b)
                   \/ ~Closed(curTx) /\ IsLast(entry, mem[b].seq, curTx.seq - 1, b))'
               /\ (pm[b].val = ValOf(entry, pm[b].seq))'
               /\ (pm[b].seq = 0 \/ pm[b].seq \in 2 .. curTx.seq)'
               /\ (\A s \in 2 .. curTx.seq : Settled(s) /\ b \in Writes(entry, s) => s <= pm[b].seq)'
    <3>1. PICK v : v = mem'[b].seq
      OBVIOUS
    <3>2. mem'[b].val = ValOf(entry, v) /\ ValOf(entry, v) = ValOf(entry, v)'
      BY <2>2, <2>3, <2>4, <3>1
    <3>3. /\ IsLast(entry, v, curTx.seq, b) <=> IsLast(entry, v, curTx.seq, b)'
          /\ IsLast(entry, v, curTx.seq - 1, b) <=> IsLast(entry, v, curTx.seq - 1, b)'
      BY <1>1 DEF IsLast, Writes
    <3>4. (pm[b].val = ValOf(entry, pm[b].seq))'
      BY <1>1, <2>4 DEF MemInv, ValOf
    <3>5. (\A s \in 2 .. curTx.seq : Settled(s) /\ b \in Writes(entry, s) => s <= pm[b].seq)'
      BY <1>1, <2>2, <2>4 DEF MemInv
    <3>6. (pm[b].seq = 0 \/ pm[b].seq \in 2 .. curTx.seq)'
      BY <1>1, <2>4 DEF MemInv
    <3>. QED BY <1>1, <2>3, <2>4, <3>1, <3>2, <3>3, <3>4, <3>5, <3>6 DEF ValOf, IsLast
  <2>. QED BY <2>4 DEF MemInv
<1>. QED BY <1>2, <1>3

(* A committed transaction is nobody's yet to apply.                       *)
LEMMA MemWon ==
  ASSUME Protocol, Protocol', NEW entry, NEW entry2, NEW t \in Thread, MemInv(entry), CommitWon(t),
         \A s \in 2 .. curTx.seq : log'[entry2[s]] = log[entry[s]]
  PROVE  MemInv(entry2)'
<1>. USE DEF memVars, txVars, localVars, histVars
<1>1. /\ TypeOK /\ curTx.seq \in Nat /\ 1 <= curTx.seq /\ curTx = myTx[t] /\ Closed(curTx)
      /\ curTx'.seq = curTx.seq + 1 /\ UNCHANGED <<mem, pm>> /\ ~Closed(curTx)'
  <2>1. /\ TypeOK /\ curTx.seq \in Nat /\ 1 <= curTx.seq /\ curTx = myTx[t] /\ UNCHANGED <<mem, pm, request>>
        /\ curTx' = NewTx(t) /\ curTx'.seq = curTx.seq + 1 /\ pc[t] = "cas" /\ Knows(t) /\ Request(t)
    BY TxSeq DEF Protocol, TypeOK, Known, CommitWon, NewTx, Trans
  <2>2. Closed(curTx) /\ request[t] = NewTx(t)
    BY <2>1 DEF Knows, Runners, Request
  <2>3. ~Closed(curTx)'
    BY <2>1, <2>2 DEF Closed, NewTx, Trans
  <2>. QED BY <2>1, <2>2, <2>3
<1>2. PICK c \in Nat : c = curTx.seq /\ c = curTx'.seq - 1
  BY <1>1
<1>3. /\ \A v : v = 0 \/ v \in 2 .. c => ValOf(entry2, v)' = ValOf(entry, v)
      /\ \A a, v : IsLast(entry, v, c, a) <=> IsLast(entry2, v, c, a)'
      /\ \A s \in 2 .. c : Writes(entry2, s)' = Writes(entry, s)
  <2>1. /\ \A v : v = 0 \/ v \in 2 .. curTx.seq => ValOf(entry2, v)' = ValOf(entry, v)
        /\ \A m \in Nat : m <= curTx.seq => \A a, v : IsLast(entry, v, m, a) <=> IsLast(entry2, v, m, a)'
        /\ \A s \in 2 .. curTx.seq : Writes(entry2, s)' = Writes(entry, s)
    BY <1>1, OldEntries
  <2>2. \A a, v : IsLast(entry, v, c, a) <=> IsLast(entry2, v, c, a)'
    BY <1>2, <2>1
  <2>. QED BY <1>2, <2>1, <2>2
<1>4. ASSUME NEW a \in Addr
      PROVE  /\ (mem[a].val = ValOf(entry2, mem[a].seq))'
             /\ (~Closed(curTx) /\ IsLast(entry2, mem[a].seq, curTx.seq - 1, a))'
             /\ (pm[a].val = ValOf(entry2, pm[a].seq))'
             /\ (pm[a].seq = 0 \/ pm[a].seq \in 2 .. curTx.seq)'
             /\ (\A s \in 2 .. curTx.seq : Settled(s) /\ a \in Writes(entry2, s) => s <= pm[a].seq)'
  <2>1. PICK v, w : v = mem[a].seq /\ v = mem'[a].seq /\ w = pm[a].seq /\ w = pm'[a].seq
    BY <1>1
  <2>2. /\ mem[a].val = ValOf(entry, v) /\ IsLast(entry, v, c, a)
        /\ pm[a].val = ValOf(entry, w) /\ (w = 0 \/ w \in 2 .. c)
        /\ \A s \in 2 .. c : a \in Writes(entry, s) => s <= w
    BY <1>1, <1>2, <1>4, <2>1 DEF MemInv, Settled
  <2>3. v = 0 \/ v \in 2 .. c
    BY <2>2 DEF IsLast
  <2>4. mem'[a].val = ValOf(entry2, v)' /\ pm'[a].val = ValOf(entry2, w)' /\ IsLast(entry2, v, c, a)'
    BY <1>1, <1>3, <2>2, <2>3
  <2>5. (\A s \in 2 .. curTx.seq : Settled(s) /\ a \in Writes(entry2, s) => s <= pm[a].seq)'
    <3>1. SUFFICES ASSUME NEW s \in 2 .. curTx'.seq, Settled(s)', a \in Writes(entry2, s)' PROVE s <= w
      BY <2>1 DEF Settled
    <3>2. s \in 2 .. c
      BY <1>1, <1>2, <3>1 DEF Settled
    <3>. QED BY <1>3, <2>2, <3>1, <3>2
  <2>6. w = 0 \/ w \in 2 .. curTx'.seq
    BY <1>1, <1>2, <2>2
  <2>. QED BY <1>1, <1>2, <2>1, <2>4, <2>5, <2>6 DEF ValOf, IsLast
<1>. QED BY <1>4 DEF MemInv

-----------------------------------------------------------------------------
(* The same fact after a step: an open request is the current one.         *)
LEMMA OpenNext ==
  ASSUME Protocol', NEW t \in Thread, pc'[t] \in Helpers, Open(t)'
  PROVE  helping'[t] = curTx' /\ ~Closed(curTx)'
<1>1. PICK tx \in Tx, cur \in Tx, i \in Thread :
         tx = helping'[t] /\ cur = curTx' /\ i = tx.idx /\ tx.seq \in Nat /\ cur.seq \in Nat /\ request'[i].seq \in Nat
  BY TxSeq DEF Protocol, TypeOK
<1>2. request'[i] = tx /\ Known(tx)' /\ Request(i)'
  BY <1>1 DEF Open, Owner, Protocol, Knows, Known, Closed
<1>3. tx.seq # 1 /\ ~(request'[i].seq > tx.seq)
  BY <1>1, <1>2 DEF Request
<1>4. ~Closed(tx)'
  BY <1>1, <1>3 DEF Closed
<1>5. tx.seq <= curTx'.seq /\ (tx.seq = curTx'.seq => tx = curTx') /\ ~(tx.seq < curTx'.seq)
  BY <1>2, <1>4 DEF Known
<1>. QED BY <1>1, <1>4, <1>5 DEF Closed

(* What a step of t does to the write-set of another thread, to what it    *)
(* has applied, and to what it has read.                                   *)
LEMMA OthersStep ==
  ASSUME Protocol, Protocol', NEW entry, NEW entry2, NEW t \in Thread, NEW u \in Thread, u # t,
         Call(t) \/ Step(t), MemInv(entry), SetInv(entry, t),
         SetInv(entry, u), ApplyInv(entry, u), RunInv(entry, u),
         \A s \in 2 .. curTx.seq : log'[entry2[s]] = log[entry[s]]
  PROVE  SetInv(entry2, u)' /\ ApplyInv(entry2, u)' /\ RunInv(entry2, u)'
<1>1. /\ pm' = pm /\ pwb \subseteq pwb'
      /\ pc'[u] = pc[u] /\ k'[u] = k[u] /\ myTx'[u] = myTx[u] /\ helping'[u] = helping[u]
      /\ loaded'[u] = loaded[u] /\ call'[u] = call[u] /\ writeSet'[u] = writeSet[u]
  BY Frame DEF Protocol
<1>2. /\ TypeOK /\ Knows(u) /\ Running(u) /\ curTx.seq \in Nat /\ k[u] \in Nat
      /\ helping[u] \in Tx /\ helping[u].seq \in Nat /\ myTx[u].seq \in Nat /\ writeSet[u] \in WriteSets
      /\ \A b \in Addr : mem[b].seq \in Nat
      /\ loaded[u].seq \in Nat
  BY TxSeq, TxFacts DEF Protocol, TypeOK
<1>3. /\ \A v : v = 0 \/ v \in 2 .. curTx.seq => ValOf(entry2, v)' = ValOf(entry, v)
      /\ \A s \in 2 .. curTx.seq : Writes(entry2, s)' = Writes(entry, s)
      /\ \A m \in Nat : \A r : m <= curTx.seq => (HasRead(entry, r, m) <=> HasRead(entry2, r, m)')
  BY <1>2, OldEntries
<1>4. \A b \in Addr : mem'[b] = mem[b] \/ (mem'[b].seq = curTx.seq /\ ~Closed(curTx) /\ mem[b].seq < curTx.seq)
  BY MemMonotone
<1>5. PICK w, h, m, c, x : /\ w = writeSet[u] /\ w = writeSet'[u] /\ h = helping[u] /\ h = helping'[u]
                           /\ m = myTx[u] /\ m = myTx'[u] /\ c = call[u] /\ c = call'[u]
                           /\ x = k[u] /\ x = k'[u]
  BY <1>1
<1>6. /\ pc[u] \in Helpers => 1 <= h.seq /\ h.seq <= curTx.seq
      /\ Winner(u) \/ pc[u] \in {"copy", "recheck", "apply", "close"} => h.seq \in 2 .. curTx.seq
      /\ pc[u] \in Helpers \cup Runners => 1 <= m.seq /\ m.seq <= curTx.seq
  <2>1. /\ pc[u] \in Helpers => 1 <= h.seq /\ h.seq <= curTx.seq
        /\ pc[u] \in Helpers \cup Runners => 1 <= m.seq /\ m.seq <= curTx.seq
    BY <1>2, <1>5 DEF Knows, Known
  <2>2. Winner(u) => pc[u] \in Helpers /\ h.seq = m.seq + 1
    BY <1>2, <1>5 DEF Knows, Winner, NewTx, Trans
  <2>3. h.seq \in Nat /\ m.seq \in Nat
    BY <1>2, <1>5
  <2>. QED BY <1>2, <1>5, <2>1, <2>2, <2>3 DEF Knows, Helpers
<1>7. (Winner(u)' <=> Winner(u)) /\ Owner(u)' = Owner(u)
  BY <1>1 DEF Winner, Owner
<1>8. pc[u] \in Helpers => (Open(u)' => Open(u))
  <2>1. ASSUME pc[u] \in Helpers, Open(u)' PROVE Open(u)
    <3>1. helping'[u] = curTx' /\ ~Closed(curTx)'
      BY <1>1, <2>1, OpenNext
    <3>2. ~CommitWon(t)
      <4>1. CommitWon(t) => curTx'.seq = curTx.seq + 1
        BY DEF CommitWon, NewTx, Trans
      <4>. QED BY <1>1, <1>2, <1>5, <1>6, <2>1, <3>1, <4>1
    <3>3. curTx' = curTx /\ ~Closed(curTx)
      BY <3>1, <3>2, ClosedFacts
    <3>. QED BY <1>1, <2>1, <3>1, <3>3, OpenFacts
  <2>. QED BY <2>1
<1>9. SetInv(entry2, u)'
  <2>1. Stored(u)' = Stored(u)
    BY <1>1 DEF Stored
  <2>2. ASSUME Winner(u) \/ pc[u] \in {"recheck", "apply", "close"}, ValidSet(entry, u, h.seq)
        PROVE  ValidSet(entry2, u, h.seq)'
    <3>1. h.seq \in 2 .. curTx.seq
      BY <1>6, <2>2
    <3>2. Writes(entry2, h.seq)' = Writes(entry, h.seq) /\ ValOf(entry2, h.seq)' = ValOf(entry, h.seq)
      BY <1>3, <3>1
    <3>. QED BY <1>1, <2>1, <2>2, <3>2 DEF ValidSet
  <2>3. Winner(u)' \/ pc'[u] \in {"apply", "close"} => ValidSet(entry2, u, helping[u].seq)'
    <3>1. SUFFICES ASSUME Winner(u)' \/ pc'[u] \in {"apply", "close"} PROVE ValidSet(entry2, u, h.seq)'
      BY <1>5 DEF ValidSet, Writes, ValOf
    <3>. QED BY <1>1, <1>5, <1>7, <2>2, <3>1 DEF SetInv
  <2>4. pc'[u] = "recheck" /\ Open(u)' => ValidSet(entry2, u, helping[u].seq)'
    <3>1. SUFFICES ASSUME pc'[u] = "recheck", Open(u)' PROVE ValidSet(entry2, u, h.seq)'
      BY <1>5 DEF ValidSet, Writes, ValOf
    <3>. QED BY <1>1, <1>5, <1>8, <2>2, <3>1 DEF SetInv, Helpers
  <2>5. ASSUME pc'[u] = "copy", Open(u)', k'[u] > 0
        PROVE  LET theirs == writeSet'[Owner(u)']
               IN  /\ writeSet'[u].num = theirs.num
                   /\ \A i \in 1 .. theirs.num : i < k'[u] => writeSet'[u].log[i] = theirs.log[i]
    <3>1. pc[u] = "copy" /\ Open(u) /\ k[u] > 0 /\ pc[u] \in Helpers
      BY <1>1, <1>8, <2>5 DEF Helpers
    <3>2. Winner(Owner(u)) /\ helping[Owner(u)] = curTx /\ Owner(u) = curTx.idx /\ Owner(u) \in Thread
      BY <3>1, <1>2, OpenFacts, TxSeq DEF Owner
    <3>3. writeSet'[Owner(u)] = writeSet[Owner(u)]
      <4>1. CASE Owner(u) = t
        <5>1. Winner(t) /\ Owner(t) = t /\ Knows(t)
          BY <3>2, <4>1 DEF Owner, Protocol
        <5>2. ~BeginTxDone(t) /\ ~HelpCopy(t) /\ ~Pstore(t)
          BY <5>1 DEF BeginTxDone, HelpCopy, Pstore, AtOp, Winner, Knows, Helpers
        <5>3. writeSet' = writeSet
          BY <5>2 DEF txVars, Call, Step, BeginTx, Help, HelpStart, HelpCheck, ApplyLoad, ApplyDCAS,
               HelpFlush, HelpClose, PloadValue, PloadSeq, Commit, CommitReadOnly, CommitStale,
               CommitOpen, CommitRequest, CommitWon, CommitLost, CommitDone, Returns
        <5>. QED BY <5>3
      <4>2. CASE Owner(u) # t
        BY <3>2, <4>2, Frame DEF Protocol
      <4>. QED BY <4>1, <4>2
    <3>. QED BY <1>1, <1>7, <3>1, <3>3 DEF SetInv
  <2>. QED BY <2>3, <2>4, <2>5 DEF SetInv
<1>10. ApplyInv(entry2, u)'
  <2>1. w.num \in Nat /\ x \in Nat /\ h.seq \in Nat
    BY <1>2, <1>5, WriteSetFacts
  <2>2. ASSUME pc[u] = "apply", NEW j \in Nat, w.num > 0
        PROVE  /\ Nth(u, j)' = Nth(u, j) /\ Nth(u, j) \in Addr
    BY <1>2, <1>5, <2>2, EntryFacts DEF Nth
  <2>3. pc[u] = "apply" =>
           (\A j \in Nat : j < writeSet[u].num /\ 3 * j + 3 <= k[u] => mem[Nth(u, j)].seq >= helping[u].seq)'
    <3>1. SUFFICES ASSUME pc[u] = "apply", NEW j \in Nat, j < w.num, 3 * j + 3 <= x
                   PROVE  mem'[Nth(u, j)'].seq >= h.seq
      BY <1>5
    <3>2. PICK b \in Addr : b = Nth(u, j) /\ b = Nth(u, j)'
      BY <2>1, <2>2, <3>1
    <3>3. mem[b].seq >= h.seq
      BY <1>5, <3>1, <3>2 DEF ApplyInv
    <3>4. mem'[b].seq >= h.seq
      BY <1>2, <1>4, <2>1, <3>3
    <3>. QED BY <3>2, <3>4
  <2>4. pc[u] = "apply" /\ x < 3 * w.num =>
           LET word == mem'[Entry(u)'[1]]
           IN  /\ x % 3 = 1 /\ word.seq < h.seq => loaded'[u].val = word.val
               /\ x % 3 = 2 => loaded'[u].seq <= word.seq /\ (word.seq < h.seq => loaded'[u] = word)
    <3>1. SUFFICES ASSUME pc[u] = "apply", x < 3 * w.num
                   PROVE  LET word == mem'[Entry(u)'[1]]
                          IN  /\ x % 3 = 1 /\ word.seq < h.seq => loaded'[u].val = word.val
                              /\ x % 3 = 2 => loaded'[u].seq <= word.seq /\ (word.seq < h.seq => loaded'[u] = word)
      OBVIOUS
    <3>2. w.num > 0 /\ x \div 3 \in Nat
      BY <2>1, <3>1
    <3>3. PICK b \in Addr : b = Entry(u)[1] /\ b = Entry(u)'[1]
      BY <1>5, <2>2, <3>1, <3>2 DEF Entry, Nth
    <3>4. /\ x % 3 = 1 /\ mem[b].seq < h.seq => loaded[u].val = mem[b].val
          /\ x % 3 = 2 => loaded[u].seq <= mem[b].seq /\ (mem[b].seq < h.seq => loaded[u] = mem[b])
      BY <1>5, <3>1, <3>3 DEF ApplyInv
    <3>5. CASE mem'[b] = mem[b]
      BY <1>1, <3>3, <3>4, <3>5
    <3>6. CASE mem'[b] # mem[b]
      <4>1. mem'[b].seq = curTx.seq /\ mem[b].seq < curTx.seq /\ h.seq <= curTx.seq
        BY <1>4, <1>6, <3>1, <3>6 DEF Helpers
      <4>. QED BY <1>1, <1>2, <2>1, <3>3, <3>4, <4>1
    <3>. QED BY <3>5, <3>6
  <2>5. pc[u] = "close" => \A a \in Writes(entry2, h.seq)' :
           mem'[a].seq >= h.seq /\ (<<u, a>> \in pwb' \/ pm'[a].seq >= h.seq)
    <3>1. SUFFICES ASSUME pc[u] = "close", NEW a \in Writes(entry2, h.seq)'
                   PROVE  mem'[a].seq >= h.seq /\ (<<u, a>> \in pwb' \/ pm'[a].seq >= h.seq)
      OBVIOUS
    <3>2. a \in Writes(entry, h.seq)
      BY <1>3, <1>6, <3>1
    <3>3. mem[a].seq >= h.seq /\ (<<u, a>> \in pwb \/ pm[a].seq >= h.seq)
      BY <1>5, <3>1, <3>2 DEF ApplyInv
    <3>4. a \in Addr
      <4>1. a \in Stored(u)
        BY <1>5, <3>1, <3>2 DEF SetInv, ValidSet
      <4>. QED BY <4>1, <1>2, WriteSetFacts DEF Stored
    <3>. QED BY <1>1, <1>2, <1>4, <2>1, <3>3, <3>4
  <2>. QED BY <1>1, <1>5, <2>3, <2>4, <2>5 DEF ApplyInv, Writes
<1>11. RunInv(entry2, u)'
  <2>1. SUFFICES ASSUME pc[u] \in Runners
                 PROVE  /\ \A r \in c.reads : HasRead(entry2, r, m.seq)'
                        /\ pc[u] = "run" /\ x # 0 =>
                             /\ AtOp(u, "load")'
                             /\ mem'[Word(u)'].seq <= m.seq => loaded'[u].val = mem'[Word(u)'].val
    BY <1>1, <1>5 DEF RunInv, HasRead, IsLast, ValOf, Writes
  <2>2. m.seq \in Nat /\ m.seq <= curTx.seq /\ (m.seq = curTx.seq => m = curTx) /\ Closed(m)
    BY <1>2, <1>5, <2>1 DEF Knows, Known
  <2>3. \A r \in c.reads : HasRead(entry2, r, m.seq)'
    BY <1>3, <1>5, <2>1, <2>2 DEF RunInv
  <2>4. ASSUME pc[u] = "run", x # 0
        PROVE  AtOp(u, "load")' /\ (mem'[Word(u)'].seq <= m.seq => loaded'[u].val = mem'[Word(u)'].val)
    <3>1. AtOp(u, "load") /\ (mem[Word(u)].seq <= m.seq => loaded[u].val = mem[Word(u)].val)
      BY <1>5, <2>1, <2>4 DEF RunInv
    <3>2. AtOp(u, "load")' /\ Word(u)' = Word(u)
      BY <1>1, <3>1 DEF AtOp, AtEnd, Op, Word
    <3>3. Word(u) \in Addr
      BY <1>2, <2>4, <3>1, WordFacts DEF AtOp
    <3>4. PICK b \in Addr : b = Word(u) /\ b = Word(u)'
      BY <3>2, <3>3
    <3>5. mem'[b] = mem[b] \/ ~(mem'[b].seq <= m.seq)
      <4>1. CASE mem'[b] # mem[b]
        <5>1. mem'[b].seq = curTx.seq /\ m.seq # curTx.seq
          BY <1>4, <2>2, <4>1
        <5>. QED BY <1>2, <2>2, <5>1
      <4>. QED BY <4>1
    <3>. QED BY <1>1, <3>1, <3>2, <3>4, <3>5
  <2>. QED BY <2>3, <2>4
<1>. QED BY <1>9, <1>10, <1>11

(* What a step of t does to its own write-set.                             *)
LEMMA OwnSet ==
  ASSUME Protocol, Protocol', NEW entry, NEW t \in Thread, Call(t) \/ Step(t), ~CommitWon(t),
         \A u \in Thread : SetInv(entry, u),
         \A s \in 2 .. curTx.seq : log'[entry[s]] = log[entry[s]]
  PROVE  SetInv(entry, t)'
<1>. USE DEF memVars, txVars, localVars, histVars
<1>1. /\ TypeOK /\ Knows(t) /\ curTx.seq \in Nat /\ k[t] \in Nat /\ helping[t] \in Tx /\ Owner(t) \in Thread
      /\ helping[t].seq \in Nat /\ myTx[t].seq \in Nat /\ \A u \in Thread : writeSet[u] \in WriteSets
  BY TxSeq DEF Protocol, TypeOK, Owner
<1>2. /\ \A v : v = 0 \/ v \in 2 .. curTx.seq => ValOf(entry, v)' = ValOf(entry, v)
      /\ \A s \in 2 .. curTx.seq : Writes(entry, s)' = Writes(entry, s)
  BY <1>1, OldEntries
<1>3. Winner(t) \/ pc[t] \in {"copy", "recheck", "apply", "close"} => helping[t].seq \in 2 .. curTx.seq
  <2>1. Winner(t) => pc[t] \in Helpers /\ helping[t].seq = myTx[t].seq + 1 /\ 1 <= myTx[t].seq
    BY <1>1 DEF Knows, Winner, NewTx, Trans, Known
  <2>2. pc[t] \in Helpers => helping[t].seq <= curTx.seq
    BY <1>1 DEF Knows, Known
  <2>. QED BY <1>1, <2>1, <2>2 DEF Knows, Helpers
<1>a. ASSUME helping'[t] = helping[t], writeSet'[t] = writeSet[t], ValidSet(entry, t, helping[t].seq),
             Winner(t) \/ pc[t] \in {"copy", "recheck", "apply", "close"}
      PROVE  ValidSet(entry, t, helping[t].seq)'
  <2>1. PICK s \in 2 .. curTx.seq : s = helping[t].seq /\ s = helping'[t].seq
    BY <1>3, <1>a
  <2>2. ValidSet(entry, t, s) /\ Writes(entry, s)' = Writes(entry, s) /\ ValOf(entry, s)' = ValOf(entry, s)
    BY <1>2, <1>a, <2>1
  <2>3. Stored(t)' = Stored(t)
    BY <1>a DEF Stored
  <2>4. \A i \in 1 .. writeSet'[t].num : writeSet'[t].log[i][2] = ValOf(entry, s)'
    BY <1>a, <2>2 DEF ValidSet
  <2>5. ValidSet(entry, t, s)'
    BY <1>a, <2>2, <2>3, <2>4 DEF ValidSet
  <2>. QED BY <2>1, <2>5
<1>b. ASSUME NEW where, Goto(t, where) PROVE pc'[t] = where /\ k'[t] = 0
  BY <1>b, <1>1 DEF Goto, TypeOK
<1>c. ASSUME Advance(t) PROVE pc' = pc /\ k'[t] = k[t] + 1
  BY <1>c, <1>1 DEF Advance, TypeOK
<1>4. CASE pc'[t] \notin Helpers
  BY <1>4 DEF SetInv, Winner, Helpers
<1>5. CASE BeginTx(t)
  <2>1. pc'[t] = "help" /\ helping'[t] = myTx'[t]
    BY <1>5, <1>b, <1>1 DEF BeginTx, TypeOK
  <2>. QED BY <2>1 DEF SetInv, Winner
<1>6. CASE HelpStart(t)
  <2>1. /\ pc[t] = "help" /\ UNCHANGED <<helping, myTx, writeSet, request>> /\ k'[t] = 0
        /\ pc'[t] = IF ~Open(t) THEN "helped" ELSE IF Owner(t) = t THEN "apply" ELSE "copy"
    BY <1>6, <1>b DEF HelpStart
  <2>2. Winner(t)' => Winner(t)
    BY <2>1 DEF Winner, Helpers
  <2>3. pc'[t] = "apply" => Winner(t)
    BY <2>1, OpenFacts DEF Helpers
  <2>4. Winner(t) => ValidSet(entry, t, helping[t].seq)'
    BY <1>a, <2>1 DEF SetInv
  <2>. QED BY <2>1, <2>2, <2>3, <2>4 DEF SetInv
<1>7. CASE HelpCopy(t)
  <2>1. /\ pc[t] = "copy" /\ pc'[t] = "copy" /\ UNCHANGED <<helping, myTx, request>> /\ k'[t] = k[t] + 1
        /\ k[t] = 0 \/ k[t] <= writeSet[t].num
    BY <1>7, <1>c DEF HelpCopy
  <2>2. Owner(t) # t /\ ~Winner(t) /\ Owner(t)' = Owner(t)
    BY <1>1, <2>1 DEF Knows, Owner, Winner, NewTx, Trans
  <2>3. ~Winner(t)' /\ (Open(t)' <=> Open(t))
    BY <2>1, <2>2 DEF Winner, Open, Owner
  <2>4. writeSet'[Owner(t)] = writeSet[Owner(t)]
    BY <1>1, <1>7, <2>2 DEF HelpCopy, TypeOK
  <2>. DEFINE theirs == writeSet[Owner(t)]
  <2>5. ASSUME Open(t)
        PROVE  /\ writeSet'[t].num = theirs.num
               /\ \A i \in 1 .. theirs.num : i < k[t] + 1 => writeSet'[t].log[i] = theirs.log[i]
    <3>1. CASE k[t] = 0
      <4>1. writeSet'[t].num = theirs.num
        BY <1>1, <1>7, <3>1 DEF HelpCopy, TypeOK, WriteSets
      <4>. QED BY <3>1, <4>1
    <3>2. CASE k[t] # 0
      <4>1. /\ writeSet[t].num = theirs.num
            /\ \A i \in 1 .. theirs.num : i < k[t] => writeSet[t].log[i] = theirs.log[i]
        BY <1>1, <2>1, <2>5, <3>2 DEF SetInv
      <4>2. k[t] \in 1 .. NumStores
        <5>1. writeSet[t].num \in 0 .. NumStores
          BY <1>1, WriteSetFacts
        <5>. QED BY <1>1, <2>1, <3>2, <5>1, OneFileAssumption
      <4>3. /\ writeSet'[t].num = writeSet[t].num /\ writeSet'[t].log[k[t]] = theirs.log[k[t]]
            /\ \A i \in 1 .. NumStores : i # k[t] => writeSet'[t].log[i] = writeSet[t].log[i]
        BY <1>1, <1>7, <3>2, <4>2 DEF HelpCopy, TypeOK, WriteSets
      <4>4. \A i \in 1 .. theirs.num : i \in 1 .. NumStores
        BY <1>1, WriteSetFacts
      <4>. QED BY <1>1, <4>1, <4>3, <4>4
    <3>. QED BY <3>1, <3>2
  <2>. QED BY <2>1, <2>2, <2>3, <2>4, <2>5 DEF SetInv
<1>8. CASE HelpCheck(t) /\ pc[t] = "copy"
  <2>1. /\ UNCHANGED <<helping, myTx, writeSet, request>> /\ k[t] > writeSet[t].num
        /\ pc'[t] = IF curTx = helping[t] THEN "recheck" ELSE "helped"
    BY <1>8, <1>b DEF HelpCheck
  <2>2. ~Winner(t) /\ ~Winner(t)' /\ (Open(t)' <=> Open(t))
    <3>1. ~Winner(t)
      BY <1>1, <1>8 DEF Knows, Owner, NewTx, Trans, HelpCheck
    <3>. QED BY <1>8, <2>1, <3>1 DEF Winner, Helpers, Open, Owner
  <2>3. ASSUME Open(t) PROVE ValidSet(entry, t, helping[t].seq)
    <3>1. Winner(Owner(t)) /\ helping[Owner(t)] = helping[t]
      BY <1>8, <2>3, OpenFacts DEF Helpers
    <3>2. ValidSet(entry, Owner(t), helping[t].seq)
      BY <1>1, <3>1 DEF SetInv
    <3>3. /\ writeSet[t].num = writeSet[Owner(t)].num
          /\ \A i \in 1 .. writeSet[t].num : writeSet[t].log[i] = writeSet[Owner(t)].log[i]
      <4>1. writeSet[t].num \in Nat /\ k[t] > 0
        <5>1. writeSet[t].num \in Nat
          BY <1>1, WriteSetFacts
        <5>. QED BY <1>1, <2>1, <5>1
      <4>. QED BY <1>1, <1>8, <2>1, <2>3, <4>1 DEF SetInv
    <3>4. Stored(t) = Stored(Owner(t))
      BY <3>3 DEF Stored
    <3>. QED BY <3>2, <3>3, <3>4 DEF ValidSet
  <2>4. Open(t) => ValidSet(entry, t, helping[t].seq)'
    BY <1>8, <1>a, <2>1, <2>3
  <2>. QED BY <2>1, <2>2, <2>4 DEF SetInv
<1>9. CASE HelpCheck(t) /\ pc[t] # "copy"
  <2>1. /\ UNCHANGED <<helping, myTx, writeSet, request>> /\ pc[t] = "recheck"
        /\ pc'[t] = IF Open(t) THEN "apply" ELSE "helped"
    BY <1>9, <1>b DEF HelpCheck
  <2>2. ~Winner(t) /\ ~Winner(t)'
    <3>1. ~Winner(t)
      BY <1>1, <2>1 DEF Knows, Owner, NewTx, Trans
    <3>. QED BY <2>1, <3>1 DEF Winner, Helpers
  <2>3. Open(t) => ValidSet(entry, t, helping[t].seq)'
    BY <1>a, <2>1 DEF SetInv
  <2>. QED BY <2>1, <2>2, <2>3 DEF SetInv
<1>10. CASE ApplyLoad(t) \/ ApplyDCAS(t) \/ HelpFlush(t) \/ HelpClose(t)
  <2>1. /\ UNCHANGED <<helping, myTx, writeSet>> /\ pc[t] \in {"apply", "close"}
        /\ pc'[t] \in {"apply", "close", "helped"}
    BY <1>10, <1>b, <1>c DEF ApplyLoad, ApplyDCAS, HelpFlush, HelpClose
  <2>2. ValidSet(entry, t, helping[t].seq)'
    BY <1>a, <2>1 DEF SetInv
  <2>. QED BY <2>1, <2>2 DEF SetInv
<1>11. CASE Call(t) \/ BeginTxDone(t) \/ PloadValue(t) \/ PloadSeq(t) \/ Pstore(t) \/ Commit(t)
  <2>1. pc'[t] \notin Helpers
    BY <1>11, <1>b, <1>c DEF Call, BeginTxDone, PloadValue, PloadSeq, Pstore, AtOp, Commit, CommitReadOnly,
       CommitStale, CommitOpen, CommitRequest, CommitLost, CommitDone, Returns, Helpers
  <2>. QED BY <1>4, <2>1
<1>. QED BY <1>5, <1>6, <1>7, <1>8, <1>9, <1>10, <1>11 DEF Step, Help

(* What a step of t does to what it has applied.                           *)
LEMMA OwnApply ==
  ASSUME Protocol, Protocol', NEW entry, NEW t \in Thread, Call(t) \/ Step(t), ~CommitWon(t),
         MemInv(entry), SetInv(entry, t), ApplyInv(entry, t),
         \A s \in 2 .. curTx.seq : log'[entry[s]] = log[entry[s]]
  PROVE  ApplyInv(entry, t)'
<1>. USE DEF memVars, txVars, localVars, histVars
<1>b. ASSUME NEW where, Goto(t, where) PROVE pc'[t] = where /\ k'[t] = 0
  BY <1>b DEF Protocol, TypeOK, Goto
<1>c. ASSUME Advance(t) PROVE pc' = pc /\ k'[t] = k[t] + 1
  BY <1>c DEF Protocol, TypeOK, Advance
<1>1. /\ TypeOK /\ Knows(t) /\ curTx.seq \in Nat /\ helping[t].seq \in Nat /\ writeSet[t] \in WriteSets
      /\ \A b \in Addr : mem[b].seq \in Nat
      /\ loaded[t].seq \in Nat
  BY TxSeq, TxFacts DEF Protocol, TypeOK
<1>2. \A b \in Addr : mem'[b] = mem[b] \/ (mem'[b].seq = curTx.seq /\ ~Closed(curTx) /\ mem[b].seq < curTx.seq)
  BY MemMonotone
<1>3. PICK n \in Nat, x \in Nat, s \in Nat : n = writeSet[t].num /\ x = k[t] /\ s = helping[t].seq
  BY <1>1, WriteSetFacts DEF TypeOK
<1>4. CASE HelpStart(t) \/ HelpCheck(t)
  <2>1. k'[t] = 0 /\ pc'[t] # "close"
    BY <1>4, <1>b DEF HelpStart, HelpCheck
  <2>2. \A j \in Nat : ~(3 * j + 3 <= 0)
    OBVIOUS
  <2>. QED BY <2>1, <2>2 DEF ApplyInv
<1>d. ASSUME pc[t] = "apply", x < 3 * n
      PROVE  /\ Entry(t)[1] \in Addr /\ Entry(t)[1] = Nth(t, x \div 3) /\ x \div 3 \in Nat
             /\ \A j \in Nat : Nth(t, j) \in Addr
  <2>1. n > 0 /\ x \div 3 \in Nat
    BY <1>d
  <2>. QED BY <1>1, <1>3, <2>1, EntryFacts DEF Entry, Nth
<1>e. ASSUME pc[t] = "apply", x < 3 * n, writeSet'[t] = writeSet[t], helping'[t] = helping[t],
             pc'[t] = "apply", k'[t] = x + 1,
             LET b == Entry(t)[1]
             IN  /\ x % 3 = 0 /\ mem'[b].seq < s => loaded'[t].val = mem'[b].val
                 /\ x % 3 = 1 => loaded'[t].seq <= mem'[b].seq /\ (mem'[b].seq < s => loaded'[t] = mem'[b])
                 /\ x % 3 = 2 => mem'[b].seq >= s
      PROVE  ApplyInv(entry, t)'
  <2>1. PICK b \in Addr : b = Entry(t)[1] /\ b = Nth(t, x \div 3)
    BY <1>d, <1>e
  <2>2. \A j \in Nat : Nth(t, j)' = Nth(t, j) /\ Nth(t, j) \in Addr
    BY <1>d, <1>e DEF Nth
  <2>3. ASSUME NEW j \in Nat, j < n, 3 * j + 3 <= x + 1 PROVE mem'[Nth(t, j)'].seq >= s
    <3>1. CASE 3 * j + 3 <= x
      <4>1. PICK d \in Addr : d = Nth(t, j) /\ d = Nth(t, j)'
        BY <2>2
      <4>2. mem[d].seq >= s
        BY <1>3, <1>e, <2>3, <3>1, <4>1 DEF ApplyInv
      <4>. QED BY <1>1, <1>2, <1>3, <4>1, <4>2
    <3>2. CASE ~(3 * j + 3 <= x)
      <4>1. x % 3 = 2 /\ x \div 3 = j
        BY <2>3, <3>2
      <4>. QED BY <1>e, <2>1, <2>2, <4>1
    <3>. QED BY <3>1, <3>2
  <2>4. (x + 1) % 3 # 0 => Entry(t)'[1] = b
    <3>1. (x + 1) % 3 # 0 => (x + 1) \div 3 = x \div 3
      OBVIOUS
    <3>. QED BY <1>e, <2>1, <3>1, <1>3 DEF Entry, Nth
  <2>5. ((x + 1) % 3 = 1 => x % 3 = 0) /\ ((x + 1) % 3 = 2 => x % 3 = 1)
    OBVIOUS
  <2>6. /\ (x + 1) % 3 = 1 /\ mem'[Entry(t)'[1]].seq < s => loaded'[t].val = mem'[Entry(t)'[1]].val
        /\ (x + 1) % 3 = 2 => /\ loaded'[t].seq <= mem'[Entry(t)'[1]].seq
                              /\ mem'[Entry(t)'[1]].seq < s => loaded'[t] = mem'[Entry(t)'[1]]
    <3>1. CASE (x + 1) % 3 = 1
      BY <1>e, <2>1, <2>4, <2>5, <3>1
    <3>2. CASE (x + 1) % 3 = 2
      BY <1>e, <2>1, <2>4, <2>5, <3>2
    <3>. QED BY <3>1, <3>2
  <2>. QED BY <1>3, <1>e, <2>3, <2>6 DEF ApplyInv
<1>5. CASE ApplyLoad(t)
  <2>1. /\ pc[t] = "apply" /\ x < 3 * n /\ x % 3 < 2 /\ UNCHANGED <<mem, writeSet, helping>>
        /\ pc'[t] = "apply" /\ k'[t] = x + 1
    BY <1>3, <1>5, <1>c DEF ApplyLoad
  <2>2. PICK b \in Addr : b = Entry(t)[1]
    BY <1>d, <2>1
  <2>3. PICK o \in Content, word \in Content : o = loaded[t] /\ word = mem[b] /\ word = mem'[b]
    BY <1>1, <2>1 DEF TypeOK
  <2>4. IF x % 3 = 0 THEN loaded'[t] = [o EXCEPT !.val = word.val] ELSE loaded'[t] = [o EXCEPT !.seq = word.seq]
    BY <1>1, <1>3, <1>5, <2>2, <2>3 DEF ApplyLoad, TypeOK
  <2>5. CASE x % 3 = 0
    <3>1. loaded'[t].val = word.val
      BY <2>3, <2>4, <2>5 DEF Content
    <3>. QED BY <1>e, <2>1, <2>2, <2>3, <2>5, <3>1
  <2>6. CASE x % 3 # 0
    <3>1. x % 3 = 1
      BY <2>1, <2>6
    <3>2. word.seq < s => o.val = word.val
      BY <1>3, <2>1, <2>2, <2>3, <3>1 DEF ApplyInv
    <3>3. loaded'[t].seq = word.seq /\ (word.seq < s => loaded'[t] = word)
      BY <2>3, <2>4, <2>6, <3>2 DEF Content
    <3>4. word.seq <= word.seq
      BY <2>3, TxFacts
    <3>. QED BY <1>e, <2>1, <2>2, <2>3, <3>1, <3>3, <3>4
  <2>. QED BY <2>5, <2>6
<1>6. CASE ApplyDCAS(t)
  <2>1. /\ pc[t] = "apply" /\ x < 3 * n /\ x % 3 = 2 /\ UNCHANGED <<writeSet, helping>>
        /\ pc'[t] = "apply" /\ k'[t] = x + 1
    BY <1>3, <1>6, <1>c DEF ApplyDCAS
  <2>2. PICK b \in Addr : b = Entry(t)[1]
    BY <1>d, <2>1
  <2>3. loaded[t].seq <= mem[b].seq /\ (mem[b].seq < s => loaded[t] = mem[b])
    BY <1>3, <2>1, <2>2 DEF ApplyInv
  <2>4. mem'[b].seq >= s
    <3>1. CASE mem[b].seq < s
      <4>1. mem' = [mem EXCEPT ![b] = [val |-> Entry(t)[2], seq |-> s]]
        BY <1>3, <1>6, <2>2, <2>3, <3>1 DEF ApplyDCAS
      <4>2. mem'[b].seq = s
        BY <4>1, <1>1 DEF TypeOK
      <4>. QED BY <4>2, <1>3
    <3>2. CASE ~(mem[b].seq < s)
      BY <1>1, <1>2, <1>3, <2>2, <3>2
    <3>. QED BY <3>1, <3>2
  <2>. QED BY <1>e, <2>1, <2>2, <2>4
<1>7. CASE HelpFlush(t)
  <2>1. /\ pc[t] = "apply" /\ x >= 3 * n /\ UNCHANGED <<mem, pm, curTx, writeSet, helping>> /\ pc'[t] = "close"
        /\ pwb' = pwb \cup {<<t, writeSet[t].log[i][1]>> : i \in 1 .. n}
    BY <1>3, <1>7, <1>b DEF HelpFlush
  <2>2. s \in 2 .. curTx.seq
    BY <1>1, <1>3, <2>1 DEF Knows, Known, Helpers
  <2>3. Writes(entry, s)' = Writes(entry, s) /\ Writes(entry, s) = Stored(t)
    <3>1. Writes(entry, s)' = Writes(entry, s)
      BY <1>1, <2>2, OldEntries
    <3>. QED BY <1>3, <2>1, <3>1 DEF SetInv, ValidSet
  <2>4. ASSUME NEW a \in Stored(t) PROVE mem[a].seq >= s /\ <<t, a>> \in pwb'
    <3>1. PICK i \in 1 .. n : a = writeSet[t].log[i][1]
      BY <1>3 DEF Stored
    <3>2. t * 8 \in Nat /\ n \in Nat \ {0} /\ i - 1 \in 0 .. n - 1
      BY <3>1, HistoryAssumption
    <3>3. PICK j \in 0 .. n - 1 : (t * 8 + j) % n = i - 1
      BY <3>2, Rotation
    <3>4. ((t * 8 + j) % n) + 1 = i
      BY <3>1, <3>3
    <3>5. Nth(t, j) = a
      BY <1>3, <3>1, <3>4 DEF Nth
    <3>6. j \in Nat /\ j < n /\ 3 * j + 3 <= x
      BY <2>1, <3>2
    <3>. QED BY <1>3, <2>1, <3>1, <3>5, <3>6 DEF ApplyInv
  <2>. QED BY <1>3, <2>1, <2>3, <2>4 DEF ApplyInv, Writes
<1>8. CASE ~(HelpStart(t) \/ HelpCheck(t) \/ ApplyLoad(t) \/ ApplyDCAS(t) \/ HelpFlush(t))
  <2>1. pc'[t] \notin {"apply", "close"}
    BY <1>8, <1>b, <1>c DEF Call, Step, BeginTx, BeginTxDone, Help, HelpCopy, HelpClose, PloadValue, PloadSeq, Pstore,
       AtOp, Commit, CommitReadOnly, CommitStale, CommitOpen, CommitRequest, CommitLost, CommitDone, Returns
  <2>. QED BY <2>1 DEF ApplyInv
<1>. QED BY <1>4, <1>5, <1>6, <1>7, <1>8

(* What a step of t does to what it has read.                              *)
LEMMA OwnRun ==
  ASSUME Protocol, Protocol', NEW entry, NEW t \in Thread, Call(t) \/ Step(t), ~CommitWon(t),
         MemInv(entry), RunInv(entry, t),
         \A s \in 2 .. curTx.seq : log'[entry[s]] = log[entry[s]]
  PROVE  RunInv(entry, t)'
<1>. USE DEF memVars, txVars, localVars, histVars
<1>b. ASSUME NEW where, Goto(t, where) PROVE pc'[t] = where /\ k'[t] = 0
  BY <1>b DEF Protocol, TypeOK, Goto
<1>c. ASSUME Advance(t) PROVE pc' = pc /\ k'[t] = k[t] + 1
  BY <1>c DEF Protocol, TypeOK, Advance
<1>1. /\ TypeOK /\ Knows(t) /\ Running(t) /\ curTx.seq \in Nat /\ myTx[t].seq \in Nat /\ k[t] \in Nat
      /\ \A b \in Addr : mem[b].seq \in Nat
  BY TxSeq, TxFacts DEF Protocol, TypeOK
<1>2. PICK m \in Nat : m = myTx[t].seq
  BY <1>1
<1>3. pc[t] \in Runners => 1 <= m /\ m <= curTx.seq /\ (m = curTx.seq => Closed(curTx))
  BY <1>1, <1>2 DEF Knows, Known
<1>4. \A r : pc[t] \in Runners => (HasRead(entry, r, m) <=> HasRead(entry, r, m)')
  BY <1>1, <1>2, <1>3, OldEntries
<1>d. ASSUME pc[t] \in Runners, myTx'[t] = myTx[t],
             \A r \in call'[t].reads : HasRead(entry, r, m), pc'[t] # "run" \/ k'[t] = 0
      PROVE  RunInv(entry, t)'
  BY <1>2, <1>4, <1>d DEF RunInv, HasRead, IsLast, ValOf, Writes
<1>5. CASE BeginTxDone(t)
  <2>1. k'[t] = 0 /\ call'[t].reads = {}
    BY <1>1, <1>5, <1>b DEF BeginTxDone, TypeOK, Calls
  <2>. QED BY <2>1 DEF RunInv
<1>6. CASE PloadValue(t)
  <2>1. /\ AtOp(t, "load") /\ k[t] = 0 /\ k'[t] = 1 /\ pc' = pc /\ UNCHANGED <<mem, myTx, call, log>> /\ pc[t] = "run"
        /\ loaded'[t].val = mem[Word(t)].val
    BY <1>1, <1>6, <1>c DEF PloadValue, AtOp, TypeOK, Content
  <2>2. AtOp(t, "load")' /\ Word(t)' = Word(t)
    BY <2>1 DEF AtOp, AtEnd, Op, Word
  <2>3. \A r \in call[t].reads : HasRead(entry, r, m)'
    BY <1>2, <1>4, <2>1 DEF RunInv, Runners
  <2>. QED BY <1>2, <2>1, <2>2, <2>3 DEF RunInv, HasRead, IsLast, ValOf, Writes
<1>7. CASE PloadSeq(t) /\ mem[Word(t)].seq <= m
  <2>1. /\ AtOp(t, "load") /\ k[t] = 1 /\ pc[t] = "run" /\ k'[t] = 0 /\ UNCHANGED myTx
        /\ call'[t].reads \subseteq call[t].reads \cup {<<Word(t), loaded[t].val>>}
    BY <1>1, <1>2, <1>7, <1>b DEF PloadSeq, AtOp, TypeOK, Calls, Reading
  <2>2. PICK a \in Addr : a = Word(t)
    BY <1>1, <2>1, WordFacts DEF AtOp
  <2>3. loaded[t].val = ValOf(entry, mem[a].seq)
    BY <1>2, <1>7, <2>1, <2>2 DEF RunInv, Runners, MemInv
  <2>4. IsLast(entry, mem[a].seq, m, a)
    <3>1. PICK c \in Nat : m <= c /\ IsLast(entry, mem[a].seq, c, a)
      <4>1. CASE IsLast(entry, mem[a].seq, curTx.seq, a)
        BY <1>1, <1>3, <2>1, <4>1 DEF Runners
      <4>2. CASE ~Closed(curTx) /\ IsLast(entry, mem[a].seq, curTx.seq - 1, a)
        <5>1. m # curTx.seq /\ m <= curTx.seq
          BY <1>3, <2>1, <4>2 DEF Runners
        <5>2. curTx.seq - 1 \in Nat /\ m <= curTx.seq - 1
          BY <1>1, <5>1
        <5>. QED BY <4>2, <5>2
      <4>. QED BY <4>1, <4>2 DEF MemInv
    <3>. QED BY <1>1, <1>2, <1>7, <2>2, <3>1 DEF IsLast
  <2>5. HasRead(entry, <<Word(t), loaded[t].val>>, m)
    BY <1>1, <2>2, <2>3, <2>4 DEF HasRead
  <2>6. \A r \in call'[t].reads : HasRead(entry, r, m)
    BY <1>2, <2>1, <2>5 DEF RunInv, Runners
  <2>. QED BY <1>d, <2>1, <2>6 DEF Runners
<1>8. CASE PloadSeq(t) /\ ~(mem[Word(t)].seq <= m)
  <2>1. Word(t) \in Addr
    BY <1>1, <1>8, WordFacts DEF PloadSeq, AtOp
  <2>2. mem[Word(t)].seq > myTx[t].seq
    BY <1>1, <1>2, <1>8, <2>1
  <2>3. pc'[t] = "begin"
    BY <1>8, <2>2, <1>b DEF PloadSeq
  <2>. QED BY <2>3 DEF RunInv, Runners
<1>9. CASE Pstore(t)
  <2>1. /\ AtOp(t, "store") /\ pc[t] = "run" /\ k' = k /\ UNCHANGED myTx /\ call'[t].reads = call[t].reads
    BY <1>1, <1>9 DEF Pstore, AtOp, TypeOK, Calls
  <2>2. k[t] = 0
    BY <2>1 DEF RunInv, Runners, AtOp
  <2>3. \A r \in call'[t].reads : HasRead(entry, r, m)
    BY <1>2, <2>1 DEF RunInv, Runners
  <2>. QED BY <1>d, <2>1, <2>2, <2>3 DEF Runners
<1>10. CASE CommitOpen(t) \/ CommitRequest(t)
  <2>1. pc[t] \in Runners /\ pc'[t] # "run" /\ UNCHANGED <<myTx, call>>
    BY <1>10, <1>b DEF CommitOpen, CommitRequest, Runners
  <2>2. \A r \in call'[t].reads : HasRead(entry, r, m)
    BY <1>2, <2>1 DEF RunInv
  <2>. QED BY <1>d, <2>1, <2>2
<1>11. CASE ~(BeginTxDone(t) \/ PloadValue(t) \/ PloadSeq(t) \/ Pstore(t) \/ CommitOpen(t) \/ CommitRequest(t))
  <2>1. pc'[t] \notin Runners
    BY <1>11, <1>b, <1>c DEF Call, Step, BeginTx, Help, HelpStart, HelpCopy, HelpCheck, ApplyLoad, ApplyDCAS, HelpFlush,
       HelpClose, Commit, CommitReadOnly, CommitStale, CommitLost, CommitDone, Returns, Runners
  <2>. QED BY <2>1 DEF RunInv
<1>. QED BY <1>5, <1>6, <1>7, <1>8, <1>9, <1>10, <1>11

-----------------------------------------------------------------------------
(* The calls, the log and what has been returned.                          *)
LEMMA CallQuiet ==
  ASSUME Protocol, Protocol', NEW entry, NEW key, NEW t \in Thread, LogInv(entry, key), CallInv(entry, key),
         Step(t), ~CommitWon(t), ~CommitReadOnly(t), ~CommitDone(t)
  PROVE  CallInv(entry, key)'
<1>. USE DEF memVars, txVars, localVars, histVars
<1>. DEFINE Reads(u) == pc[u] \in Runners \/ (pc[u] \in Helpers /\ ~Winner(u))
<1>b. ASSUME NEW where, Goto(t, where) PROVE pc'[t] = where
  BY <1>b DEF Protocol, TypeOK, Goto
<1>c. ASSUME Advance(t) PROVE pc' = pc
  BY <1>c DEF Advance
<1>1. TypeOK /\ UNCHANGED <<log, calls, returned>> /\ pc[t] # "idle"
  BY DEF Protocol, Step, BeginTx, BeginTxDone, Help, HelpStart, HelpCopy, HelpCheck, ApplyLoad, ApplyDCAS, HelpFlush,
       HelpClose, PloadValue, PloadSeq, Pstore, AtOp, Commit, CommitStale, CommitOpen, CommitRequest, CommitLost
<1>2. curTx' = curTx /\ \A s : Settled(s) => Settled(s)'
  BY ClosedFacts DEF Settled
<1>3. \A u \in Thread : call'[u].id = call[u].id /\ call'[u].after = call[u].after
  <2>1. call'[t].id = call[t].id /\ call'[t].after = call[t].after
    <3>1. CASE call' = call
      BY <3>1
    <3>2. CASE call' # call
      <4>1. BeginTxDone(t) \/ PloadSeq(t) \/ Pstore(t)
        BY <3>2 DEF Step, BeginTx, Help, HelpStart, HelpCopy, HelpCheck, ApplyLoad, ApplyDCAS, HelpFlush,
             HelpClose, PloadValue, Commit, CommitStale, CommitOpen, CommitRequest, CommitLost
      <4>. QED BY <1>1, <4>1 DEF BeginTxDone, PloadSeq, Pstore, TypeOK, Calls
    <3>. QED BY <3>1, <3>2
  <2>. QED BY <1>1, <2>1, Frame
<1>4. \/ /\ BeginTx(t) /\ ~Winner(t) /\ ~Winner(t)' /\ myTx'[t] = curTx
      \/ /\ UNCHANGED <<myTx, helping>> /\ (Winner(t)' <=> Winner(t)) /\ (Reads(t)' => Reads(t))
  <2>1. CASE BeginTx(t)
    <3>1. myTx'[t] = curTx /\ helping'[t] = curTx /\ pc[t] = "begin"
      BY <1>1, <2>1 DEF BeginTx, TypeOK
    <3>. QED BY <2>1, <3>1 DEF Winner, Helpers
  <2>2. CASE ~BeginTx(t)
    <3>1. UNCHANGED <<myTx, helping>>
      BY <2>2 DEF Step, BeginTxDone, Help, HelpStart, HelpCopy, HelpCheck, ApplyLoad, ApplyDCAS, HelpFlush,
           HelpClose, PloadValue, PloadSeq, Pstore, Commit, CommitStale, CommitOpen, CommitRequest, CommitLost
    <3>2. \/ pc[t] \in Helpers /\ pc'[t] \in Helpers
          \/ pc[t] \in Runners /\ pc'[t] \in Runners \cup {"begin"}
          \/ pc[t] \in Helpers /\ helping[t] = myTx[t] /\ pc'[t] \in {"run", "begin"}
      BY <2>2, <1>b, <1>c DEF Step, BeginTxDone, Help, HelpStart, HelpCopy, HelpCheck, ApplyLoad, ApplyDCAS, HelpFlush,
           HelpClose, PloadValue, PloadSeq, Pstore, AtOp, Commit, CommitStale, CommitOpen, CommitRequest, CommitLost,
           Helpers, Runners
    <3>3. Winner(t)' <=> Winner(t)
      BY <3>1, <3>2 DEF Winner, Helpers, Runners
    <3>. QED BY <3>1, <3>2, <3>3 DEF Winner, Helpers, Runners
  <2>. QED BY <2>1, <2>2
<1>5. ASSUME NEW u \in Thread, pc'[u] # "idle"
      PROVE  /\ pc[u] # "idle" /\ (Winner(u)' <=> Winner(u)) /\ (Winner(u) => helping'[u] = helping[u])
             /\ Reads(u)' => myTx'[u] = curTx \/ (myTx'[u] = myTx[u] /\ Reads(u))
  <2>1. CASE u = t
    BY <1>1, <1>4, <2>1
  <2>2. CASE u # t
    <3>1. pc'[u] = pc[u] /\ myTx'[u] = myTx[u] /\ helping'[u] = helping[u]
      BY <1>1, <2>2, Frame
    <3>. QED BY <1>5, <3>1 DEF Winner
  <2>. QED BY <2>1, <2>2
<1>6. \A v : ValOf(entry, v)' = ValOf(entry, v)
  BY <1>1 DEF ValOf
<1>. DEFINE Own(u) == /\ call[u].id \in 1 .. calls /\ call[u].id \notin returned /\ call[u].after \subseteq returned
                      /\ IF Winner(u) THEN call[u].id = ValOf(entry, helping[u].seq)
                                      ELSE \A i \in 1 .. Len(log) : log[i].id # call[u].id
                      /\ Reads(u) => \A i \in 1 .. Len(log) : log[i].id \in call[u].after => key[i] <= myTx[u].seq
<1>7. ASSUME NEW u \in Thread, pc'[u] # "idle" PROVE Own(u)'
  <2>1. Own(u)
    BY <1>5, <1>7 DEF CallInv
  <2>2. \A i \in 1 .. Len(log) : key[i] <= curTx.seq
    BY DEF LogInv
  <2>3. (Reads(u) => \A i \in 1 .. Len(log) : log[i].id \in call[u].after => key[i] <= myTx[u].seq)'
    BY <1>1, <1>3, <1>5, <1>7, <2>1, <2>2
  <2>4. IF Winner(u)' THEN call'[u].id = ValOf(entry, helping[u].seq)'
                      ELSE \A i \in 1 .. Len(log') : log'[i].id # call'[u].id
    BY <1>1, <1>3, <1>5, <1>6, <1>7, <2>1 DEF ValOf
  <2>. QED BY <1>1, <1>3, <2>1, <2>3, <2>4
<1>8. \A u, v \in Thread : pc'[u] # "idle" /\ pc'[v] # "idle" /\ call'[u].id = call'[v].id => u = v
  BY <1>3, <1>5 DEF CallInv
<1>9. \A i \in 1 .. Len(log) : log[i].id \in returned => Settled(key[i])'
  BY <1>2 DEF CallInv
<1>. QED BY <1>1, <1>7, <1>8, <1>9 DEF CallInv

LEMMA CallNew ==
  ASSUME Protocol, NEW entry, NEW key, NEW t \in Thread, CallInv(entry, key), Call(t)
  PROVE  CallInv(entry, key)'
<1>. USE DEF memVars, txVars, localVars, histVars
<1>1. /\ TypeOK /\ UNCHANGED <<curTx, request, log, returned, myTx, helping>> /\ pc[t] = "idle"
      /\ calls' = calls + 1 /\ calls \in Nat /\ pc'[t] = "begin"
      /\ \A u \in Thread \ {t} : pc'[u] = pc[u] /\ call'[u] = call[u]
  BY HistoryAssumption DEF Protocol, TypeOK, Call, NewCall, Goto
<1>2. call'[t].id = calls + 1 /\ call'[t].after = returned
  BY <1>1 DEF Call, NewCall, NoCall, TypeOK
<1>3. \A i \in 1 .. Len(log) : log[i].id \in 1 .. calls
  BY DEF CallInv
<1>4. calls + 1 \notin returned /\ \A i \in 1 .. Len(log) : log[i].id # calls + 1
  BY <1>1, <1>3 DEF CallInv
<1>5. \A u \in Thread : pc[u] # "idle" => call[u].id \in 1 .. calls
  BY DEF CallInv
<1>6. /\ \A v : ValOf(entry, v)' = ValOf(entry, v)
      /\ \A s : Settled(s)' <=> Settled(s)
  BY <1>1 DEF ValOf, Settled, Closed
<1>7. \A u, v \in Thread : pc'[u] # "idle" /\ pc'[v] # "idle" /\ call'[u].id = call'[v].id => u = v
  <2>1. ASSUME NEW u \in Thread, NEW v \in Thread, pc'[u] # "idle", pc'[v] # "idle", call'[u].id = call'[v].id
        PROVE  u = v
    <3>1. CASE u # t /\ v # t
      BY <1>1, <2>1, <3>1 DEF CallInv
    <3>2. CASE u = t /\ v # t
      BY <1>1, <1>2, <1>5, <2>1, <3>2
    <3>3. CASE u # t /\ v = t
      BY <1>1, <1>2, <1>5, <2>1, <3>3
    <3>. QED BY <3>1, <3>2, <3>3
  <2>. QED BY <2>1
<1>. DEFINE Own(u) == /\ call[u].id \in 1 .. calls /\ call[u].id \notin returned /\ call[u].after \subseteq returned
                      /\ IF Winner(u) THEN call[u].id = ValOf(entry, helping[u].seq)
                                      ELSE \A i \in 1 .. Len(log) : log[i].id # call[u].id
                      /\ pc[u] \in Runners \/ (pc[u] \in Helpers /\ ~Winner(u)) =>
                           \A i \in 1 .. Len(log) : log[i].id \in call[u].after => key[i] <= myTx[u].seq
<1>8. ASSUME NEW u \in Thread, pc'[u] # "idle" PROVE Own(u)'
  <2>1. CASE u = t
    <3>1. ~Winner(t)' /\ pc'[t] \notin Helpers \cup Runners
      BY <1>1 DEF Winner, Helpers, Runners
    <3>2. calls + 1 \in 1 .. calls + 1
      BY <1>1
    <3>. QED BY <1>1, <1>2, <1>4, <2>1, <3>1, <3>2
  <2>2. CASE u # t
    <3>1. Own(u) /\ (Winner(u)' <=> Winner(u))
      BY <1>1, <1>8, <2>2 DEF CallInv, Winner
    <3>. QED BY <1>1, <1>6, <1>8, <2>2, <3>1 DEF ValOf
  <2>. QED BY <2>1, <2>2
<1>9. \A i \in 1 .. Len(log) : log[i].id \in 1 .. calls'
  BY <1>1, <1>3
<1>10. \A i \in 1 .. Len(log) : log[i].id \in returned => Settled(key[i])'
  BY <1>6 DEF CallInv
<1>. QED BY <1>1, <1>7, <1>8, <1>9, <1>10 DEF CallInv

LEMMA CallDone ==
  ASSUME Protocol, NEW entry, NEW key, NEW t \in Thread, LogInv(entry, key), CallInv(entry, key), CommitDone(t)
  PROVE  CallInv(entry, key)'
<1>. USE DEF memVars, txVars, localVars, histVars
<1>1. /\ TypeOK /\ UNCHANGED <<curTx, request, log, calls>> /\ Winner(t) /\ pc[t] = "helped"
      /\ returned' = returned \cup {call[t].id} /\ pc'[t] = "idle"
      /\ \A u \in Thread \ {t} : pc'[u] = pc[u] /\ call'[u] = call[u] /\ myTx'[u] = myTx[u] /\ helping'[u] = helping[u]
  BY DEF Protocol, TypeOK, CommitDone, Returns, Goto, Winner, Helpers
<1>2. /\ helping[t].seq \in 2 .. curTx.seq /\ Settled(helping[t].seq)
  <2>1. /\ Known(helping[t]) /\ Closed(helping[t]) /\ helping[t].seq = myTx[t].seq + 1 /\ 1 <= myTx[t].seq
        /\ myTx[t].seq \in Nat /\ curTx.seq \in Nat
    BY <1>1, TxSeq DEF Protocol, Knows, Known, NewTx, Trans, Helpers, TypeOK
  <2>. QED BY <2>1 DEF Known, Settled
<1>3. PICK n \in 1 .. Len(log) : n = entry[helping[t].seq] /\ log[n].id = call[t].id /\ key[n] = helping[t].seq
  BY <1>1, <1>2 DEF LogInv, CallInv, ValOf
<1>4. \A i \in 1 .. Len(log) : log[i].id = call[t].id => i = n
  BY <1>3 DEF CallInv
<1>5. /\ \A v : ValOf(entry, v)' = ValOf(entry, v)
      /\ \A s : Settled(s)' <=> Settled(s)
  BY <1>1 DEF ValOf, Settled, Closed
<1>6. \A i \in 1 .. Len(log) : log[i].id \in returned' => Settled(key[i])'
  BY <1>1, <1>2, <1>3, <1>4, <1>5 DEF CallInv
<1>7. returned' \subseteq {log[i].id : i \in 1 .. Len(log)}
  BY <1>1, <1>3 DEF CallInv
<1>. DEFINE Own(u) == /\ call[u].id \in 1 .. calls /\ call[u].id \notin returned /\ call[u].after \subseteq returned
                      /\ IF Winner(u) THEN call[u].id = ValOf(entry, helping[u].seq)
                                      ELSE \A i \in 1 .. Len(log) : log[i].id # call[u].id
                      /\ pc[u] \in Runners \/ (pc[u] \in Helpers /\ ~Winner(u)) =>
                           \A i \in 1 .. Len(log) : log[i].id \in call[u].after => key[i] <= myTx[u].seq
<1>8. ASSUME NEW u \in Thread, pc'[u] # "idle" PROVE Own(u)'
  <2>1. u # t /\ Own(u) /\ (Winner(u)' <=> Winner(u)) /\ call[u].id # call[t].id
    BY <1>1, <1>8 DEF CallInv, Winner
  <2>. QED BY <1>1, <1>5, <1>8, <2>1 DEF ValOf
<1>9. \A u, v \in Thread : pc'[u] # "idle" /\ pc'[v] # "idle" /\ call'[u].id = call'[v].id => u = v
  BY <1>1 DEF CallInv
<1>10. \A i \in 1 .. Len(log) : log[i].after \subseteq returned'
  BY <1>1 DEF CallInv
<1>. QED BY <1>1, <1>6, <1>7, <1>8, <1>9, <1>10 DEF CallInv

(* A transaction that takes effect is the last in the log.                 *)
LEMMA Appended ==
  ASSUME Protocol, NEW t \in Thread, CommitReadOnly(t) \/ CommitWon(t)
  PROVE  LET n == Len(log) + 1
         IN  /\ Len(log) \in Nat /\ Len(log') = n
             /\ \A i \in 1 .. Len(log) : log'[i] = log[i]
             /\ log'[n].id = call[t].id /\ log'[n].reads = call[t].reads /\ log'[n].after = call[t].after
             /\ log'[n].writes = IF CommitWon(t) THEN Stored(t) ELSE {}
<1>. DEFINE new == Effect(t, IF CommitWon(t) THEN Stored(t) ELSE {})
<1>1. ~(CommitReadOnly(t) /\ CommitWon(t))
  BY DEF CommitReadOnly, CommitWon
<1>2. log' = Append(log, new) /\ log \in Seq(Effects)
  BY <1>1 DEF CommitReadOnly, CommitWon, Protocol, TypeOK
<1>. HIDE DEF new
<1>3. Len(log) \in Nat /\ Len(log') = Len(log) + 1 /\ log'[Len(log) + 1] = new /\ \A i \in 1 .. Len(log) : log'[i] = log[i]
  BY <1>2
<1>. QED BY <1>3 DEF new, Effect

(* The functions of a log that has grown.                                  *)
Grown(entry, key, entry2, key2, s) ==
  LET n == Len(log) + 1
  IN  /\ key2 = [i \in 1 .. n |-> IF i = n THEN s ELSE key[i]]
      /\ entry2 = [u \in 2 .. (IF s > curTx.seq THEN s ELSE curTx.seq) |-> IF u > curTx.seq THEN n ELSE entry[u]]

LEMMA LogReadOnly ==
  ASSUME Protocol, NEW entry, NEW key, NEW entry2, NEW key2, NEW t \in Thread,
         LogInv(entry, key), CallInv(entry, key), RunInv(entry, t),
         CommitReadOnly(t), Grown(entry, key, entry2, key2, myTx[t].seq)
  PROVE  LogInv(entry2, key2)' /\ CallInv(entry2, key2)' /\ entry2 = entry
<1>. USE DEF memVars, txVars, localVars, histVars
<1>1. PICK n, m, c : /\ n = Len(log) + 1 /\ m = myTx[t].seq /\ c = curTx.seq /\ c = curTx'.seq /\ n = Len(log') /\ n - 1 = Len(log)
                     /\ n \in Nat \ {0} /\ m \in 1 .. c /\ c \in Nat /\ (m = c => Closed(curTx))
                     /\ \A i \in 1 .. n - 1 : log'[i] = log[i]
                     /\ log'[n].id = call[t].id /\ log'[n].reads = call[t].reads /\ log'[n].after = call[t].after
                     /\ log'[n].writes = {}
  <2>1. /\ curTx.seq \in Nat /\ myTx[t].seq \in Nat /\ Known(myTx[t]) /\ Closed(myTx[t]) /\ UNCHANGED curTx
    BY TxSeq DEF Protocol, TypeOK, CommitReadOnly, Returns, Knows, Runners
  <2>2. ~CommitWon(t)
    BY DEF CommitReadOnly, CommitWon
  <2>3. myTx[t].seq \in 1 .. curTx.seq /\ (myTx[t].seq = curTx.seq => Closed(curTx))
    BY <2>1 DEF Known
  <2>. QED BY <2>1, <2>2, <2>3, Appended
<1>2. /\ TypeOK /\ UNCHANGED <<curTx, request, calls>> /\ ~Winner(t) /\ pc[t] = "run"
      /\ returned' = returned \cup {call[t].id} /\ pc'[t] = "idle"
      /\ \A u \in Thread \ {t} : pc'[u] = pc[u] /\ call'[u] = call[u] /\ myTx'[u] = myTx[u] /\ helping'[u] = helping[u]
  BY DEF Protocol, TypeOK, CommitReadOnly, Returns, Goto, Winner, Helpers
<1>3. /\ entry \in [2 .. c -> 1 .. n - 1] /\ key \in [1 .. n - 1 -> 1 .. c]
      /\ \A s \in 2 .. c : key[entry[s]] = s
      /\ \A s, u \in 2 .. c : s < u => entry[s] < entry[u]
  BY <1>1 DEF LogInv
<1>4. key2 = [i \in 1 .. n |-> IF i = n THEN m ELSE key[i]]
  BY <1>1 DEF Grown
<1>5. entry2 = entry
  <2>1. entry2 = [u \in 2 .. c |-> IF u > c THEN n ELSE entry[u]]
    BY <1>1 DEF Grown
  <2>2. entry2 = [u \in 2 .. c |-> entry[u]]
    BY <1>1, <2>1
  <2>. QED BY <1>3, <2>2
<1>6. key2 \in [1 .. n -> 1 .. c] /\ key2[n] = m /\ \A i \in 1 .. n - 1 : key2[i] = key[i] /\ i \in 1 .. n /\ i # n
  BY <1>1, <1>3, <1>4
<1>7. entry \in [2 .. c -> 1 .. n] /\ \A s \in 2 .. c : entry[s] \in 1 .. n - 1 /\ log'[entry[s]] = log[entry[s]]
  BY <1>1, <1>3
<1>8. /\ \A r, l : l \in Nat /\ l <= c => (HasRead(entry, r, l) <=> HasRead(entry, r, l)')
      /\ \A v : v = 0 \/ v \in 2 .. c => ValOf(entry, v)' = ValOf(entry, v)
  <2>1. \A s \in 2 .. curTx.seq : log'[entry[s]] = log[entry[s]]
    BY <1>1, <1>7
  <2>2. /\ \A h \in Nat : \A r : h <= curTx.seq => (HasRead(entry, r, h) <=> HasRead(entry, r, h)')
        /\ \A v : v = 0 \/ v \in 2 .. curTx.seq => ValOf(entry, v)' = ValOf(entry, v)
    BY <1>2, <2>1, OldEntries
  <2>. QED BY <1>1, <2>2
<1>9. \A s : Settled(s)' <=> Settled(s)
  BY <1>2 DEF Settled, Closed
<1>10. ASSUME NEW i \in 1 .. n
       PROVE  /\ log'[i].writes # {} => IsUpd(entry, key2, i)
              /\ key2[i] >= 2 => entry[key2[i]] <= i
              /\ Settled(Snapshot(entry, key2, i))'
              /\ \A r \in log'[i].reads : HasRead(entry, r, Snapshot(entry, key2, i))'
  <2>1. CASE i = n
    <3>1. m >= 2 => entry[m] \in 1 .. n - 1
      BY <1>1, <1>7
    <3>2. (m >= 2 => entry[m] <= n) /\ ~IsUpd(entry, key2, n)
      BY <1>1, <1>6, <3>1 DEF IsUpd
    <3>3. Snapshot(entry, key2, n) = m
      BY <1>6, <3>2 DEF Snapshot
    <3>4. Settled(m)'
      BY <1>1, <1>9 DEF Settled
    <3>5. \A r \in log'[n].reads : HasRead(entry, r, m)'
      BY <1>1, <1>2, <1>8 DEF RunInv, Runners
    <3>. QED BY <1>1, <1>6, <2>1, <3>2, <3>3, <3>4, <3>5
  <2>2. CASE i # n
    <3>1. i \in 1 .. n - 1 /\ log'[i] = log[i] /\ key2[i] = key[i] /\ key[i] \in 1 .. c
      BY <1>1, <1>3, <1>6, <1>10, <2>2
    <3>2. PICK l \in Nat : l = Snapshot(entry, key, i) /\ l <= c
      BY <1>1, <3>1 DEF Snapshot, IsUpd
    <3>3. (IsUpd(entry, key2, i) <=> IsUpd(entry, key, i)) /\ Snapshot(entry, key2, i) = l
      BY <3>1, <3>2 DEF Snapshot, IsUpd
    <3>4. /\ log[i].writes # {} => IsUpd(entry, key, i)
          /\ key[i] >= 2 => entry[key[i]] <= i
          /\ Settled(l)
          /\ \A r \in log[i].reads : HasRead(entry, r, l)
      BY <1>1, <3>1, <3>2 DEF LogInv
    <3>. QED BY <1>8, <1>9, <3>1, <3>2, <3>3, <3>4
  <2>. QED BY <2>1, <2>2
<1>11. /\ call[t].id \in 1 .. calls /\ call[t].id \notin returned /\ call[t].after \subseteq returned
       /\ \A i \in 1 .. n - 1 : log[i].id # call[t].id
       /\ \A i \in 1 .. n - 1 : log[i].id \in call[t].after => key[i] <= m
       /\ \A i \in 1 .. n - 1 : log[i].after \subseteq returned /\ log[i].id \in 1 .. calls
  BY <1>1, <1>2 DEF CallInv, Runners
<1>12. \A i \in 1 .. n : i = n \/ i \in 1 .. n - 1
  BY <1>1
<1>13. \A i, j \in 1 .. n : log'[i].id \in log'[j].after => key2[i] <= key2[j] /\ i < j
  <2>1. ASSUME NEW i \in 1 .. n, NEW j \in 1 .. n, log'[i].id \in log'[j].after PROVE key2[i] <= key2[j] /\ i < j
    <3>1. i # n
      BY <1>1, <1>11, <1>12, <2>1
    <3>2. CASE j = n
      <4>1. i \in 1 .. n - 1 /\ key2[i] = key[i] /\ log[i].id \in call[t].after
        BY <1>1, <1>6, <1>12, <2>1, <3>1, <3>2
      <4>2. key[i] <= m
        BY <1>11, <4>1
      <4>. QED BY <1>1, <1>6, <3>2, <4>1, <4>2
    <3>3. CASE j # n
      <4>1. i \in 1 .. n - 1 /\ j \in 1 .. n - 1 /\ log[i].id \in log[j].after
        BY <1>1, <1>12, <2>1, <3>1, <3>3
      <4>2. key[i] <= key[j] /\ i < j
        BY <1>1, <4>1 DEF LogInv
      <4>. QED BY <1>6, <4>1, <4>2
    <3>. QED BY <3>2, <3>3
  <2>. QED BY <2>1
<1>14. LogInv(entry2, key2)'
  <2>1. entry2 \in [2 .. c -> 1 .. n] /\ \A s \in 2 .. c : key2[entry2[s]] = s
    BY <1>3, <1>5, <1>6, <1>7
  <2>2. /\ \A s, u \in 2 .. c : s < u => entry2[s] < entry2[u]
        /\ \A i \in 1 .. n : IsUpd(entry2, key2, i) <=> IsUpd(entry, key2, i)
        /\ \A i \in 1 .. n : key2[i] >= 2 => entry2[key2[i]] <= i
    BY <1>3, <1>5, <1>10
  <2>3. ASSUME NEW i \in 1 .. n
        PROVE  /\ log'[i].writes # {} => IsUpd(entry2, key2, i)
               /\ Settled(Snapshot(entry2, key2, i))'
               /\ \A r \in log'[i].reads : HasRead(entry2, r, Snapshot(entry2, key2, i))'
    BY <1>5, <1>10, <2>3
  <2>. QED BY <1>1, <1>6, <1>13, <2>1, <2>2, <2>3 DEF LogInv
<1>15. \A i \in 1 .. n : /\ log'[i].id \in 1 .. calls' /\ log'[i].after \subseteq returned'
                         /\ log'[i].id \in returned' => Settled(key2[i])'
  <2>1. ASSUME NEW i \in 1 .. n - 1
        PROVE  /\ log[i].id \in 1 .. calls' /\ log[i].after \subseteq returned'
               /\ log[i].id \in returned' => Settled(key[i])'
    BY <1>1, <1>2, <1>9, <1>11, <2>1 DEF CallInv
  <2>2. Settled(m)'
    BY <1>1, <1>9 DEF Settled
  <2>3. call[t].id \in 1 .. calls' /\ call[t].after \subseteq returned'
    BY <1>2, <1>11
  <2>. QED BY <1>1, <1>6, <1>12, <2>1, <2>2, <2>3
<1>16. \A i, j \in 1 .. n : log'[i].id = log'[j].id => i = j
  BY <1>1, <1>11, <1>12 DEF CallInv
<1>17. returned' \subseteq {log'[i].id : i \in 1 .. n}
  <2>1. \A x \in returned : \E i \in 1 .. n - 1 : x = log[i].id
    BY <1>1 DEF CallInv
  <2>2. n \in 1 .. n /\ log'[n].id = call[t].id /\ \A i \in 1 .. n - 1 : i \in 1 .. n /\ log'[i].id = log[i].id
    BY <1>1, <1>6
  <2>. QED BY <1>2, <2>1, <2>2
<1>. DEFINE Own(en, ke, u) ==
              /\ call[u].id \in 1 .. calls /\ call[u].id \notin returned /\ call[u].after \subseteq returned
              /\ IF Winner(u) THEN call[u].id = ValOf(en, helping[u].seq)
                              ELSE \A i \in 1 .. Len(log) : log[i].id # call[u].id
              /\ pc[u] \in Runners \/ (pc[u] \in Helpers /\ ~Winner(u)) =>
                   \A i \in 1 .. Len(log) : log[i].id \in call[u].after => ke[i] <= myTx[u].seq
<1>18. ASSUME NEW u \in Thread, pc'[u] # "idle" PROVE Own(entry2, key2, u)'
  <2>1. /\ u # t /\ Own(entry, key, u) /\ (Winner(u)' <=> Winner(u)) /\ call[u].id # call[t].id
    BY <1>2, <1>18 DEF CallInv, Winner
  <2>2. pc'[u] = pc[u] /\ call'[u] = call[u] /\ myTx'[u] = myTx[u] /\ helping'[u] = helping[u]
    BY <1>2, <2>1
  <2>3. Winner(u) => call[u].id = ValOf(entry2, helping[u].seq)'
    <3>1. Winner(u) => helping[u].seq \in 2 .. c
      <4>1. helping[u] \in Tx /\ myTx[u] \in Tx /\ Knows(u)
        BY <1>2 DEF TypeOK, Protocol
      <4>2. Winner(u) => Known(helping[u]) /\ Known(myTx[u]) /\ helping[u].seq = myTx[u].seq + 1
        BY <4>1 DEF Knows, Winner, NewTx, Trans
      <4>. QED BY <1>1, <4>1, <4>2, TxSeq DEF Known
    <3>2. PICK v : v = helping[u].seq /\ v = helping'[u].seq
      BY <2>2
    <3>3. Winner(u) => call[u].id = ValOf(entry2, v)'
      BY <1>5, <1>8, <2>1, <3>1, <3>2 DEF ValOf
    <3>. QED BY <3>2, <3>3 DEF ValOf
  <2>4. ~Winner(u) => \A i \in 1 .. n : log'[i].id # call[u].id
    <3>1. ~Winner(u) => \A i \in 1 .. n - 1 : log[i].id # call[u].id
      BY <1>1, <2>1
    <3>. QED BY <1>1, <1>12, <2>1, <3>1
  <2>5. pc[u] \in Runners \/ (pc[u] \in Helpers /\ ~Winner(u)) =>
           \A i \in 1 .. n : log'[i].id \in call[u].after => key2[i] <= myTx[u].seq
    <3>1. call[t].id \notin call[u].after
      BY <1>11, <2>1
    <3>2. pc[u] \in Runners \/ (pc[u] \in Helpers /\ ~Winner(u)) =>
            \A i \in 1 .. n - 1 : log[i].id \in call[u].after => key[i] <= myTx[u].seq
      BY <1>1, <2>1
    <3>. QED BY <1>1, <1>6, <1>12, <3>1, <3>2
  <2>. QED BY <1>1, <1>2, <2>1, <2>2, <2>3, <2>4, <2>5
<1>19. \A u, v \in Thread : pc'[u] # "idle" /\ pc'[v] # "idle" /\ call'[u].id = call'[v].id => u = v
  BY <1>2 DEF CallInv
<1>20. CallInv(entry2, key2)'
  BY <1>1, <1>15, <1>16, <1>17, <1>18, <1>19 DEF CallInv
<1>. QED BY <1>5, <1>14, <1>20

LEMMA LogWon ==
  ASSUME Protocol, NEW entry, NEW key, NEW entry2, NEW key2, NEW t \in Thread,
         LogInv(entry, key), CallInv(entry, key), RunInv(entry, t),
         CommitWon(t), Grown(entry, key, entry2, key2, curTx.seq + 1)
  PROVE  /\ LogInv(entry2, key2)' /\ CallInv(entry2, key2)' /\ SetInv(entry2, t)'
         /\ \A s \in 2 .. curTx.seq : log'[entry2[s]] = log[entry[s]]
<1>. USE DEF memVars, txVars, localVars, histVars
<1>1. PICK n, c : /\ n = Len(log) + 1 /\ c = curTx.seq /\ c + 1 = curTx'.seq /\ n = Len(log') /\ n - 1 = Len(log)
                  /\ n \in Nat \ {0} /\ c \in Nat \ {0}
                  /\ \A i \in 1 .. n - 1 : log'[i] = log[i]
                  /\ log'[n].id = call[t].id /\ log'[n].reads = call[t].reads /\ log'[n].after = call[t].after
                  /\ log'[n].writes = Stored(t)
  <2>1. curTx.seq \in Nat /\ 1 <= curTx.seq
    BY TxSeq DEF Protocol, TypeOK, Known
  <2>2. curTx'.seq = curTx.seq + 1
    BY DEF CommitWon, NewTx, Trans
  <2>. QED BY <2>1, <2>2, Appended
<1>2. /\ TypeOK /\ UNCHANGED <<calls, returned, call, myTx, writeSet>> /\ pc[t] = "cas" /\ pc'[t] = "help"
      /\ curTx = myTx[t] /\ helping'[t] = NewTx(t) /\ helping'[t].seq = c + 1 /\ ~Winner(t) /\ Winner(t)'
      /\ \A u \in Thread \ {t} : pc'[u] = pc[u] /\ helping'[u] = helping[u]
  <2>1. /\ TypeOK /\ UNCHANGED <<calls, returned, call, myTx, writeSet>> /\ pc[t] = "cas" /\ pc'[t] = "help"
        /\ curTx = myTx[t] /\ helping'[t] = NewTx(t)
        /\ \A u \in Thread \ {t} : pc'[u] = pc[u] /\ helping'[u] = helping[u]
    BY DEF Protocol, TypeOK, CommitWon, Goto
  <2>2. NewTx(t).seq = c + 1 /\ NewTx(t) # myTx[t]
    BY <1>1, <2>1 DEF NewTx, Trans
  <2>. QED BY <2>1, <2>2 DEF Winner, Helpers
<1>3. /\ entry \in [2 .. c -> 1 .. n - 1] /\ key \in [1 .. n - 1 -> 1 .. c]
      /\ \A s \in 2 .. c : key[entry[s]] = s
      /\ \A s, u \in 2 .. c : s < u => entry[s] < entry[u]
  BY <1>1 DEF LogInv
<1>4. key2 = [i \in 1 .. n |-> IF i = n THEN c + 1 ELSE key[i]]
  BY <1>1 DEF Grown
<1>5. entry2 = [u \in 2 .. c + 1 |-> IF u > c THEN n ELSE entry[u]]
  BY <1>1 DEF Grown
<1>6. key2 \in [1 .. n -> 1 .. c + 1] /\ key2[n] = c + 1 /\ \A i \in 1 .. n - 1 : key2[i] = key[i] /\ i \in 1 .. n /\ i # n
  BY <1>1, <1>3, <1>4
<1>7. /\ entry2 \in [2 .. c + 1 -> 1 .. n] /\ entry2[c + 1] = n
      /\ \A s \in 2 .. c : entry2[s] = entry[s] /\ entry[s] \in 1 .. n - 1 /\ log'[entry2[s]] = log[entry[s]]
  <2>1. /\ \A s \in 2 .. c : s \in 2 .. c + 1 /\ ~(s > c) /\ entry[s] \in 1 .. n - 1
        /\ c + 1 \in 2 .. c + 1 /\ c + 1 > c /\ n \in 1 .. n
        /\ \A x \in 1 .. n - 1 : x \in 1 .. n
        /\ \A s \in 2 .. c + 1 : s > c \/ s \in 2 .. c
    BY <1>1, <1>3
  <2>2. entry2[c + 1] = n /\ \A s \in 2 .. c : entry2[s] = entry[s]
    BY <1>5, <2>1
  <2>3. entry2 \in [2 .. c + 1 -> 1 .. n]
    BY <1>5, <2>1
  <2>. QED BY <1>1, <2>1, <2>2, <2>3
<1>8. /\ \A r, l : l \in Nat /\ l <= c => (HasRead(entry, r, l) <=> HasRead(entry2, r, l)')
      /\ \A v : v = 0 \/ v \in 2 .. c => ValOf(entry2, v)' = ValOf(entry, v)
  <2>1. \A s \in 2 .. curTx.seq : log'[entry2[s]] = log[entry[s]]
    BY <1>1, <1>7
  <2>2. /\ \A m \in Nat : \A r : m <= curTx.seq => (HasRead(entry, r, m) <=> HasRead(entry2, r, m)')
        /\ \A v : v = 0 \/ v \in 2 .. curTx.seq => ValOf(entry2, v)' = ValOf(entry, v)
    BY <1>2, <2>1, OldEntries
  <2>. QED BY <1>1, <2>2
<1>9. \A s \in Nat : s <= c => Settled(s)'
  BY <1>1 DEF Settled
<1>a. \A s \in 2 .. c + 1 : s = c + 1 \/ s \in 2 .. c
  BY <1>1
<1>10. ASSUME NEW i \in 1 .. n
       PROVE  /\ log'[i].writes # {} => IsUpd(entry2, key2, i)
              /\ key2[i] >= 2 => entry2[key2[i]] <= i
              /\ Settled(Snapshot(entry2, key2, i))'
              /\ \A r \in log'[i].reads : HasRead(entry2, r, Snapshot(entry2, key2, i))'
  <2>1. CASE i = n
    <3>1. IsUpd(entry2, key2, n) /\ Snapshot(entry2, key2, n) = c
      BY <1>1, <1>6, <1>7 DEF IsUpd, Snapshot
    <3>2. Settled(c)' /\ \A r \in log'[n].reads : HasRead(entry2, r, c)'
      BY <1>1, <1>2, <1>8, <1>9 DEF RunInv, Runners
    <3>. QED BY <1>1, <1>6, <1>7, <2>1, <3>1, <3>2
  <2>2. CASE i # n
    <3>1. i \in 1 .. n - 1 /\ log'[i] = log[i] /\ key2[i] = key[i] /\ key[i] \in 1 .. c
      BY <1>1, <1>3, <1>6, <1>10, <2>2
    <3>2. PICK l \in Nat : l = Snapshot(entry, key, i) /\ l <= c
      BY <1>1, <3>1 DEF Snapshot, IsUpd
    <3>3. key[i] >= 2 => entry2[key[i]] = entry[key[i]]
      BY <1>1, <1>7, <3>1
    <3>4. (IsUpd(entry2, key2, i) <=> IsUpd(entry, key, i)) /\ Snapshot(entry2, key2, i) = l
      BY <3>1, <3>2, <3>3 DEF Snapshot, IsUpd
    <3>5. /\ log[i].writes # {} => IsUpd(entry, key, i)
          /\ key[i] >= 2 => entry[key[i]] <= i
          /\ \A r \in log[i].reads : HasRead(entry, r, l)
      BY <1>1, <3>1, <3>2 DEF LogInv
    <3>. QED BY <1>8, <1>9, <3>1, <3>2, <3>3, <3>4, <3>5
  <2>. QED BY <2>1, <2>2
<1>11. /\ call[t].id \in 1 .. calls /\ call[t].id \notin returned /\ call[t].after \subseteq returned
       /\ \A i \in 1 .. n - 1 : log[i].id # call[t].id
       /\ \A i \in 1 .. n - 1 : log[i].after \subseteq returned /\ log[i].id \in 1 .. calls
  BY <1>1, <1>2 DEF CallInv, Runners
<1>12. \A i \in 1 .. n : i = n \/ i \in 1 .. n - 1
  BY <1>1
<1>13. \A i, j \in 1 .. n : log'[i].id \in log'[j].after => key2[i] <= key2[j] /\ i < j
  <2>1. ASSUME NEW i \in 1 .. n, NEW j \in 1 .. n, log'[i].id \in log'[j].after PROVE key2[i] <= key2[j] /\ i < j
    <3>1. i # n
      BY <1>1, <1>11, <1>12, <2>1
    <3>2. CASE j = n
      <4>1. i \in 1 .. n - 1 /\ key2[i] = key[i] /\ key[i] \in 1 .. c
        BY <1>3, <1>6, <1>12, <3>1
      <4>. QED BY <1>1, <1>6, <3>2, <4>1
    <3>3. CASE j # n
      <4>1. i \in 1 .. n - 1 /\ j \in 1 .. n - 1 /\ log[i].id \in log[j].after
        BY <1>1, <1>12, <2>1, <3>1, <3>3
      <4>2. key[i] <= key[j] /\ i < j
        BY <1>1, <4>1 DEF LogInv
      <4>. QED BY <1>6, <4>1, <4>2
    <3>. QED BY <3>2, <3>3
  <2>. QED BY <2>1
<1>14. LogInv(entry2, key2)'
  <2>1. \A s \in 2 .. c + 1 : key2[entry2[s]] = s
    BY <1>3, <1>6, <1>7, <1>a
  <2>2. \A s, u \in 2 .. c + 1 : s < u => entry2[s] < entry2[u]
    <3>1. ASSUME NEW s \in 2 .. c + 1, NEW u \in 2 .. c + 1, s < u PROVE entry2[s] < entry2[u]
      <4>1. s \in 2 .. c /\ entry2[s] = entry[s] /\ entry[s] < n
        BY <1>1, <1>7, <1>a, <3>1
      <4>. QED BY <1>3, <1>7, <1>a, <3>1, <4>1
    <3>. QED BY <3>1
  <2>. QED BY <1>1, <1>6, <1>7, <1>10, <1>13, <2>1, <2>2 DEF LogInv
<1>15. \A i \in 1 .. n : /\ log'[i].id \in 1 .. calls' /\ log'[i].after \subseteq returned'
                         /\ log'[i].id \in returned' => Settled(key2[i])'
  <2>1. ASSUME NEW i \in 1 .. n - 1
        PROVE  /\ log[i].id \in 1 .. calls' /\ log[i].after \subseteq returned' /\ Settled(key[i])'
    BY <1>2, <1>3, <1>9, <1>11, <2>1
  <2>. QED BY <1>1, <1>2, <1>6, <1>11, <1>12, <2>1
<1>16. \A i, j \in 1 .. n : log'[i].id = log'[j].id => i = j
  BY <1>1, <1>11, <1>12 DEF CallInv
<1>17. returned' \subseteq {log'[i].id : i \in 1 .. n}
  <2>1. \A x \in returned : \E i \in 1 .. n - 1 : x = log[i].id
    BY <1>1 DEF CallInv
  <2>2. n \in 1 .. n /\ log'[n].id = call[t].id /\ \A i \in 1 .. n - 1 : i \in 1 .. n /\ log'[i].id = log[i].id
    BY <1>1, <1>6
  <2>. QED BY <1>2, <2>1, <2>2
<1>b. ValOf(entry2, c + 1)' = call[t].id /\ Writes(entry2, c + 1)' = Stored(t)
  BY <1>1, <1>7 DEF ValOf, Writes
<1>. DEFINE Own(en, ke, u) ==
              /\ call[u].id \in 1 .. calls /\ call[u].id \notin returned /\ call[u].after \subseteq returned
              /\ IF Winner(u) THEN call[u].id = ValOf(en, helping[u].seq)
                              ELSE \A i \in 1 .. Len(log) : log[i].id # call[u].id
              /\ pc[u] \in Runners \/ (pc[u] \in Helpers /\ ~Winner(u)) =>
                   \A i \in 1 .. Len(log) : log[i].id \in call[u].after => ke[i] <= myTx[u].seq
<1>18. ASSUME NEW u \in Thread, pc'[u] # "idle" PROVE Own(entry2, key2, u)'
  <2>a. CASE u = t
    <3>1. call[t].id = ValOf(entry2, helping[t].seq)'
      <4>1. PICK v : v = c + 1 /\ v = helping'[t].seq
        BY <1>2
      <4>. QED BY <1>b, <4>1 DEF ValOf
    <3>2. ~(pc'[t] \in Runners)
      BY <1>2 DEF Runners
    <3>. QED BY <1>2, <1>11, <2>a, <3>1, <3>2
  <2>b. CASE u # t
    <3>1. pc[u] # "idle"
      BY <1>2, <1>18, <2>b
    <3>2. pc[t] # "idle" /\ call[u].id # call[t].id
      BY <1>2, <2>b, <3>1 DEF CallInv
    <3>3. Own(entry, key, u) /\ (Winner(u)' <=> Winner(u))
      BY <1>2, <2>b, <3>1 DEF CallInv, Winner
    <3>4. pc'[u] = pc[u] /\ helping'[u] = helping[u]
      BY <1>2, <2>b
    <3>5. Winner(u) => call[u].id = ValOf(entry2, helping[u].seq)'
      <4>1. helping[u] \in Tx /\ myTx[u] \in Tx /\ Knows(u)
        BY <1>2 DEF TypeOK, Protocol
      <4>2. Winner(u) => Known(helping[u]) /\ Known(myTx[u]) /\ helping[u].seq = myTx[u].seq + 1
        BY <4>1 DEF Knows, Winner, NewTx, Trans
      <4>3. Winner(u) => helping[u].seq \in 2 .. c
        BY <1>1, <4>1, <4>2, TxSeq DEF Known
      <4>4. PICK v : v = helping[u].seq /\ v = helping'[u].seq
        BY <3>4
      <4>5. Winner(u) => call[u].id = ValOf(entry2, v)'
        BY <1>8, <3>3, <4>3, <4>4
      <4>. QED BY <4>4, <4>5 DEF ValOf
    <3>6. ~Winner(u) => \A i \in 1 .. n : log'[i].id # call[u].id
      <4>1. ~Winner(u) => \A i \in 1 .. n - 1 : log[i].id # call[u].id
        BY <1>1, <3>3
      <4>. QED BY <1>1, <1>12, <3>2, <4>1
    <3>7. pc[u] \in Runners \/ (pc[u] \in Helpers /\ ~Winner(u)) =>
             \A i \in 1 .. n : log'[i].id \in call[u].after => key2[i] <= myTx[u].seq
      <4>1. call[t].id \notin call[u].after
        BY <1>11, <3>3
      <4>2. pc[u] \in Runners \/ (pc[u] \in Helpers /\ ~Winner(u)) =>
              \A i \in 1 .. n - 1 : log[i].id \in call[u].after => key[i] <= myTx[u].seq
        BY <1>1, <3>3
      <4>. QED BY <1>1, <1>6, <1>12, <4>1, <4>2
    <3>. QED BY <1>1, <1>2, <3>3, <3>4, <3>5, <3>6, <3>7
  <2>. QED BY <2>a, <2>b
<1>19. \A u, v \in Thread : pc'[u] # "idle" /\ pc'[v] # "idle" /\ call'[u].id = call'[v].id => u = v
  <2>1. \A u \in Thread : pc'[u] # "idle" => pc[u] # "idle"
    BY <1>2
  <2>. QED BY <1>2, <2>1 DEF CallInv
<1>20. CallInv(entry2, key2)'
  BY <1>1, <1>15, <1>16, <1>17, <1>18, <1>19 DEF CallInv
<1>21. SetInv(entry2, t)'
  <2>1. \A i \in 1 .. writeSet[t].num : writeSet[t].log[i][2] = call[t].id
    BY <1>2 DEF Protocol, Running, Runners
  <2>2. PICK v : v = c + 1 /\ v = helping'[t].seq
    BY <1>2
  <2>3. ValidSet(entry2, t, v)'
    BY <1>2, <1>b, <2>1, <2>2 DEF ValidSet, Stored
  <2>4. ValidSet(entry2, t, helping[t].seq)'
    BY <2>2, <2>3 DEF ValidSet, ValOf, Writes
  <2>. QED BY <1>2, <2>4 DEF SetInv
<1>. QED BY <1>1, <1>7, <1>14, <1>20, <1>21

LEMMA SetQuiet ==
  ASSUME NEW entry, NEW u \in Thread, SetInv(entry, u),
         UNCHANGED <<curTx, request, writeSet, pc, k, myTx, helping, log>>
  PROVE  SetInv(entry, u)'
<1>1. /\ Owner(u)' = Owner(u) /\ (Winner(u)' <=> Winner(u)) /\ (Open(u)' <=> Open(u))
      /\ writeSet' = writeSet /\ pc' = pc /\ k' = k
  BY DEF Owner, Winner, Open
<1>2. ValidSet(entry, u, helping[u].seq)' <=> ValidSet(entry, u, helping[u].seq)
  <2>1. PICK s : s = helping[u].seq /\ s = helping'[u].seq
    OBVIOUS
  <2>2. Stored(u)' = Stored(u) /\ Writes(entry, s)' = Writes(entry, s) /\ ValOf(entry, s)' = ValOf(entry, s)
    BY DEF Stored, Writes, ValOf
  <2>3. ValidSet(entry, u, s)' <=> ValidSet(entry, u, s)
    BY <1>1, <2>2 DEF ValidSet
  <2>. QED BY <2>1, <2>3
<1>3. PICK o : o = Owner(u) /\ o = Owner(u)'
  BY <1>1
<1>. QED BY <1>1, <1>2, <1>3 DEF SetInv

(* A line reaches the medium.                                              *)
LEMMA GhostWriteBack ==
  ASSUME Protocol, NEW entry, NEW key, NEW a \in Addr, Ghost(entry, key), WriteBack(a)
  PROVE  Ghost(entry, key)'
<1>. USE DEF memVars, txVars, localVars, histVars
<1>1. /\ TypeOK /\ UNCHANGED <<mem, txVars, pc, k, localVars, call, histVars>> /\ curTx.seq \in Nat
      /\ pm' = [pm EXCEPT ![a] = mem[a]] /\ pwb' = {w \in pwb : w[2] # a}
      /\ \A b \in Addr : mem[b].seq \in Nat /\ pm[b].seq \in Nat
  BY TxSeq, TxFacts DEF Protocol, TypeOK, WriteBack
<1>2. LogInv(entry, key)'
  BY <1>1, LogQuiet DEF Ghost, Closed
<1>3. CallInv(entry, key)'
  BY <1>1 DEF Ghost, CallInv, Winner, ValOf, Settled, Closed
<1>4. pm'[a] = mem[a] /\ \A b \in Addr \ {a} : pm'[b] = pm[b]
  BY <1>1 DEF TypeOK
<1>5. /\ mem[a].val = ValOf(entry, mem[a].seq)
      /\ mem[a].seq = 0 \/ mem[a].seq \in 2 .. curTx.seq
      /\ \A s \in 2 .. curTx.seq : Settled(s) /\ a \in Writes(entry, s) => s <= mem[a].seq
  <2>1. CASE IsLast(entry, mem[a].seq, curTx.seq, a)
    BY <2>1 DEF Ghost, MemInv, IsLast
  <2>2. CASE ~Closed(curTx) /\ IsLast(entry, mem[a].seq, curTx.seq - 1, a)
    BY <1>1, <2>2 DEF Ghost, MemInv, IsLast, Settled
  <2>. QED BY <2>1, <2>2 DEF Ghost, MemInv
<1>6. MemInv(entry)'
  <2>1. ASSUME NEW b \in Addr
        PROVE  /\ mem[b].val = ValOf(entry, mem[b].seq)
               /\ \/ IsLast(entry, mem[b].seq, curTx.seq, b)
                  \/ ~Closed(curTx) /\ IsLast(entry, mem[b].seq, curTx.seq - 1, b)
               /\ pm'[b].val = ValOf(entry, pm'[b].seq)
               /\ pm'[b].seq = 0 \/ pm'[b].seq \in 2 .. curTx.seq
               /\ \A s \in 2 .. curTx.seq : Settled(s) /\ b \in Writes(entry, s) => s <= pm'[b].seq
    BY <1>4, <1>5, <2>1 DEF Ghost, MemInv
  <2>2. /\ \A v, m, b : IsLast(entry, v, m, b) <=> IsLast(entry, v, m, b)'
        /\ \A v : ValOf(entry, v) = ValOf(entry, v)'
        /\ \A s : Writes(entry, s) = Writes(entry, s)' /\ (Settled(s) <=> Settled(s)')
        /\ Closed(curTx) <=> Closed(curTx)'
    BY <1>1 DEF IsLast, ValOf, Writes, Settled, Closed
  <2>3. ASSUME NEW b \in Addr
        PROVE  (/\ mem[b].val = ValOf(entry, mem[b].seq)
                /\ \/ IsLast(entry, mem[b].seq, curTx.seq, b)
                   \/ ~Closed(curTx) /\ IsLast(entry, mem[b].seq, curTx.seq - 1, b)
                /\ pm[b].val = ValOf(entry, pm[b].seq)
                /\ pm[b].seq = 0 \/ pm[b].seq \in 2 .. curTx.seq
                /\ \A s \in 2 .. curTx.seq : Settled(s) /\ b \in Writes(entry, s) => s <= pm[b].seq)'
    <3>1. PICK v, w, c : /\ v = mem[b].seq /\ v = mem'[b].seq /\ w = pm'[b].seq /\ c = curTx.seq /\ c = curTx'.seq
                         /\ c - 1 = curTx.seq - 1 /\ c - 1 = curTx'.seq - 1
      BY <1>1
    <3>2. /\ mem'[b].val = ValOf(entry, v)' /\ pm'[b].val = ValOf(entry, w)'
          /\ IsLast(entry, v, c, b)' \/ (~Closed(curTx)' /\ IsLast(entry, v, c - 1, b)')
      BY <1>1, <2>1, <2>2, <2>3, <3>1
    <3>3. (\A s \in 2 .. curTx.seq : Settled(s) /\ b \in Writes(entry, s) => s <= pm[b].seq)'
      BY <1>1, <2>1, <2>2, <2>3
    <3>4. (mem[b].val = ValOf(entry, mem[b].seq) /\ pm[b].val = ValOf(entry, pm[b].seq))'
      BY <3>1, <3>2 DEF ValOf
    <3>5. (\/ IsLast(entry, mem[b].seq, curTx.seq, b)
           \/ ~Closed(curTx) /\ IsLast(entry, mem[b].seq, curTx.seq - 1, b))'
      BY <3>1, <3>2 DEF IsLast
    <3>6. (pm[b].seq = 0 \/ pm[b].seq \in 2 .. curTx.seq)'
      BY <1>1, <2>1, <2>3
    <3>. QED BY <3>3, <3>4, <3>5, <3>6
  <2>. QED BY <2>3 DEF MemInv
<1>7. ASSUME NEW u \in Thread PROVE SetInv(entry, u)' /\ ApplyInv(entry, u)' /\ RunInv(entry, u)'
  <2>1. SetInv(entry, u)'
    BY <1>1, <1>7, SetQuiet DEF Ghost
  <2>2. RunInv(entry, u)'
    BY <1>1, <1>7 DEF Ghost, RunInv, HasRead, IsLast, Writes, ValOf, AtOp, AtEnd, Op, Word
  <2>3. ASSUME pc[u] = "close", NEW b \in Writes(entry, helping[u].seq)
        PROVE  mem[b].seq >= helping[u].seq /\ (<<u, b>> \in pwb' \/ pm'[b].seq >= helping[u].seq)
    <3>1. mem[b].seq >= helping[u].seq /\ (<<u, b>> \in pwb \/ pm[b].seq >= helping[u].seq)
      BY <1>7, <2>3 DEF Ghost, ApplyInv
    <3>2. b \in Addr
      <4>1. b \in Stored(u) /\ writeSet[u] \in WriteSets
        BY <1>1, <1>7, <2>3 DEF Ghost, SetInv, ValidSet, TypeOK
      <4>. QED BY <4>1, WriteSetFacts DEF Stored
    <3>. QED BY <1>1, <1>4, <3>1, <3>2
  <2>4. ApplyInv(entry, u)'
    <3>1. ApplyInv(entry, u)
      BY <1>7 DEF Ghost
    <3>2. Writes(entry, helping[u].seq)' = Writes(entry, helping[u].seq)
      BY <1>1 DEF Writes
    <3>3. Entry(u)' = Entry(u) /\ \A j \in Nat : Nth(u, j)' = Nth(u, j)
      BY <1>1 DEF Entry, Nth
    <3>. QED BY <1>1, <2>3, <3>1, <3>2, <3>3 DEF ApplyInv
  <2>. QED BY <2>1, <2>2, <2>4
<1>. QED BY <1>2, <1>3, <1>6, <1>7 DEF Ghost

-----------------------------------------------------------------------------
LEMMA GhostStep ==
  ASSUME Protocol, Protocol', NEW entry, NEW key, Ghost(entry, key), [Next]_vars
  PROVE  \E e, y : Ghost(e, y)'
<1>. USE DEF memVars, txVars, localVars, histVars
<1>1. ASSUME NEW t \in Thread, CommitWon(t) PROVE \E e, y : Ghost(e, y)'
  <2>. DEFINE n == Len(log) + 1
              s == curTx.seq + 1
              key2 == [i \in 1 .. n |-> IF i = n THEN s ELSE key[i]]
              entry2 == [u \in 2 .. (IF s > curTx.seq THEN s ELSE curTx.seq) |-> IF u > curTx.seq THEN n ELSE entry[u]]
  <2>1. PICK e, y : e = entry2 /\ y = key2
    OBVIOUS
  <2>2. Grown(entry, key, e, y, curTx.seq + 1)
    BY <2>1 DEF Grown
  <2>. HIDE DEF entry2, key2
  <2>3. /\ LogInv(e, y)' /\ CallInv(e, y)' /\ SetInv(e, t)'
        /\ \A u \in 2 .. curTx.seq : log'[e[u]] = log[entry[u]]
    BY <1>1, <2>2, LogWon DEF Ghost
  <2>4. MemInv(e)'
    BY <1>1, <2>3, MemWon DEF Ghost
  <2>5. Step(t)
    BY <1>1 DEF Step, Commit
  <2>6. \A u \in Thread \ {t} : SetInv(e, u)' /\ ApplyInv(e, u)' /\ RunInv(e, u)'
    BY <2>3, <2>5, OthersStep DEF Ghost
  <2>7. ApplyInv(e, t)' /\ RunInv(e, t)'
    <3>1. pc'[t] = "help"
      BY <1>1 DEF CommitWon, Goto, Protocol, TypeOK
    <3>. QED BY <3>1 DEF ApplyInv, RunInv, Runners
  <2>. QED BY <2>3, <2>4, <2>6, <2>7 DEF Ghost
<1>2. ASSUME NEW t \in Thread, CommitReadOnly(t) PROVE \E e, y : Ghost(e, y)'
  <2>. DEFINE n == Len(log) + 1
              s == myTx[t].seq
              key2 == [i \in 1 .. n |-> IF i = n THEN s ELSE key[i]]
              entry2 == [u \in 2 .. (IF s > curTx.seq THEN s ELSE curTx.seq) |-> IF u > curTx.seq THEN n ELSE entry[u]]
  <2>1. PICK e, y : e = entry2 /\ y = key2
    OBVIOUS
  <2>2. Grown(entry, key, e, y, myTx[t].seq)
    BY <2>1 DEF Grown
  <2>. HIDE DEF entry2, key2
  <2>3. LogInv(e, y)' /\ CallInv(e, y)' /\ e = entry
    BY <1>2, <2>2, LogReadOnly DEF Ghost
  <2>4. /\ Step(t) /\ ~CommitWon(t) /\ ~HelpClose(t) /\ UNCHANGED <<mem, pm>>
    BY <1>2 DEF Step, Commit, CommitReadOnly, Returns, CommitWon, HelpClose
  <2>5. \A u \in 2 .. curTx.seq : log'[entry[u]] = log[entry[u]]
    BY <1>2, Appended DEF Ghost, LogInv
  <2>6. UNCHANGED curTx /\ (Closed(curTx)' <=> Closed(curTx))
    BY <2>4, ClosedFacts
  <2>7. MemInv(entry)'
    BY <2>4, <2>5, <2>6, MemQuiet DEF Ghost
  <2>8. \A u \in Thread \ {t} : SetInv(entry, u)' /\ ApplyInv(entry, u)' /\ RunInv(entry, u)'
    BY <2>4, <2>5, OthersStep DEF Ghost
  <2>9. SetInv(entry, t)' /\ ApplyInv(entry, t)' /\ RunInv(entry, t)'
    BY <2>4, <2>5, OwnSet, OwnApply, OwnRun DEF Ghost
  <2>10. MemInv(e)' /\ \A u \in Thread : SetInv(e, u)' /\ ApplyInv(e, u)' /\ RunInv(e, u)'
    BY <2>3, <2>7, <2>8, <2>9
  <2>. QED BY <2>3, <2>10 DEF Ghost
<1>3. ASSUME NEW t \in Thread, Call(t) \/ Step(t), ~CommitWon(t), ~CommitReadOnly(t) PROVE Ghost(entry, key)'
  <2>1. log' = log
    BY <1>3 DEF Call, NewCall, Step, BeginTx, BeginTxDone, Help, HelpStart, HelpCopy, HelpCheck, ApplyLoad,
         ApplyDCAS, HelpFlush, HelpClose, PloadValue, PloadSeq, Pstore, Commit, CommitStale,
         CommitOpen, CommitRequest, CommitLost, CommitDone, Returns
  <2>2. /\ UNCHANGED curTx /\ (Closed(curTx) => Closed(curTx)')
        /\ (HelpClose(t) /\ Open(t)) \/ (Closed(curTx)' <=> Closed(curTx))
    BY <1>3, ClosedFacts
  <2>3. LogInv(entry, key)'
    BY <2>1, <2>2, LogQuiet DEF Ghost
  <2>4. CallInv(entry, key)'
    BY <1>3, CallQuiet, CallNew, CallDone DEF Ghost
  <2>5. MemInv(entry)'
    <3>1. CASE ApplyDCAS(t)
      BY <3>1, MemApply DEF Ghost
    <3>2. CASE HelpClose(t) /\ Open(t)
      BY <3>2, MemClose DEF Ghost
    <3>3. CASE ~ApplyDCAS(t) /\ ~(HelpClose(t) /\ Open(t))
      <4>1. UNCHANGED <<mem, pm>>
        BY <1>3, <3>3 DEF Call, Step, BeginTx, BeginTxDone, Help, HelpStart, HelpCopy, HelpCheck, ApplyLoad,
             HelpFlush, HelpClose, PloadValue, PloadSeq, Pstore, Commit, CommitStale,
             CommitOpen, CommitRequest, CommitLost, CommitDone, Returns
      <4>. QED BY <2>1, <2>2, <3>3, <4>1, MemQuiet DEF Ghost
    <3>. QED BY <3>1, <3>2, <3>3
  <2>6. \A u \in Thread \ {t} : SetInv(entry, u)' /\ ApplyInv(entry, u)' /\ RunInv(entry, u)'
    BY <1>3, <2>1, OthersStep DEF Ghost
  <2>7. SetInv(entry, t)' /\ ApplyInv(entry, t)' /\ RunInv(entry, t)'
    BY <1>3, <2>1, OwnSet, OwnApply, OwnRun DEF Ghost
  <2>. QED BY <2>3, <2>4, <2>5, <2>6, <2>7 DEF Ghost
<1>4. ASSUME NEW a \in Addr, WriteBack(a) PROVE Ghost(entry, key)'
  BY <1>4, GhostWriteBack
<1>5. CASE UNCHANGED vars
  <2>1. UNCHANGED <<mem, pm, pwb, curTx, request, writeSet, pc, k, myTx, helping, loaded, call, calls, log, returned>>
    BY <1>5 DEF vars
  <2>2. LogInv(entry, key)'
    BY <2>1, LogQuiet DEF Ghost, Closed
  <2>3. CallInv(entry, key)'
    BY <2>1 DEF Ghost, CallInv, Winner, ValOf, Settled, Closed
  <2>4. MemInv(entry)'
    BY <2>1, MemQuiet DEF Ghost, Closed
  <2>5. ASSUME NEW u \in Thread PROVE SetInv(entry, u)' /\ ApplyInv(entry, u)' /\ RunInv(entry, u)'
    <3>1. SetInv(entry, u)'
      BY <2>1, <2>5, SetQuiet DEF Ghost
    <3>2. RunInv(entry, u)'
      BY <2>1, <2>5 DEF Ghost, RunInv, HasRead, IsLast, Writes, ValOf, AtOp, AtEnd, Op, Word
    <3>3. ApplyInv(entry, u)'
      <4>1. ApplyInv(entry, u)
        BY <2>5 DEF Ghost
      <4>2. Writes(entry, helping[u].seq)' = Writes(entry, helping[u].seq)
        BY <2>1 DEF Writes
      <4>3. Entry(u)' = Entry(u) /\ \A j \in Nat : Nth(u, j)' = Nth(u, j)
        BY <2>1 DEF Entry, Nth
      <4>. QED BY <2>1, <4>1, <4>2, <4>3 DEF ApplyInv
    <3>. QED BY <3>1, <3>2, <3>3
  <2>. QED BY <2>2, <2>3, <2>4, <2>5 DEF Ghost
<1>6. CASE \E t \in Thread : Call(t) \/ Step(t)
  BY <1>1, <1>2, <1>3, <1>6
<1>7. CASE \E a \in Addr : WriteBack(a)
  BY <1>4, <1>7
<1>. QED BY <1>5, <1>6, <1>7 DEF Next

(* The requests are opened by their owners and closed once applied, what   *)
(* is in the words is what the last update applied has stored, and every   *)
(* transaction has read what the updates up to a sequence have stored:     *)
(* beginTx(), helpApply(), pload() and commitTx() keep it, whoever helps   *)
(* whom.                                                                   *)
THEOREM OneFileInvariant == Spec => []OneFileInv
<1>1. Init => OneFileInv
  BY ProtocolInit, GhostInit DEF OneFileInv
<1>2. OneFileInv /\ [Next]_vars => OneFileInv'
  <2>. SUFFICES ASSUME OneFileInv, [Next]_vars PROVE OneFileInv'
    OBVIOUS
  <2>1. Protocol /\ Protocol'
    BY ProtocolStep DEF OneFileInv
  <2>2. PICK entry, key : Ghost(entry, key)
    BY DEF OneFileInv
  <2>3. \E e, y : Ghost(e, y)'
    BY <2>1, <2>2, GhostStep
  <2>. QED BY <2>1, <2>3 DEF OneFileInv
<1>. QED BY <1>1, <1>2, PTL DEF Spec

-----------------------------------------------------------------------------
(* The serial order: by the sequence, and then by the place in the log.    *)
Before(key, i, j) == key[i] < key[j] \/ (key[i] = key[j] /\ i < j)

LEMMA Sorted ==
  ASSUME NEW n \in Nat, NEW key \in [1 .. n -> Nat]
  PROVE  \E p \in [1 .. n -> 1 .. n] :
           /\ IsInjective(p)
           /\ \A x \in 1 .. n : \E i \in 1 .. n : p[i] = x
           /\ \A i, j \in 1 .. n : i < j => Before(key, p[i], p[j])
<1>. DEFINE N == 1 .. n
            Low(i) == {j \in N : Before(key, j, i)}
            rank == [i \in N |-> Cardinality(Low(i)) + 1]
<1>1. IsFiniteSet(N) /\ Cardinality(N) = n
  BY FS_Interval
<1>2. \A i, j \in N : key[i] \in Nat /\ (i = j \/ Before(key, i, j) \/ Before(key, j, i)) /\ ~Before(key, i, i)
  BY DEF Before
<1>3. \A h, i, j \in N : Before(key, h, i) /\ Before(key, i, j) => Before(key, h, j)
  <2>1. \A h \in N : key[h] \in Nat
    OBVIOUS
  <2>. QED BY <2>1 DEF Before
<1>4. \A i \in N : /\ IsFiniteSet(Low(i)) /\ Cardinality(Low(i)) \in Nat /\ Cardinality(Low(i)) < n
                   /\ rank[i] \in N /\ rank[i] = Cardinality(Low(i)) + 1
  <2>1. ASSUME NEW i \in N PROVE IsFiniteSet(Low(i)) /\ Cardinality(Low(i)) \in Nat /\ Cardinality(Low(i)) < n
    <3>1. Low(i) \in SUBSET N /\ i \notin Low(i)
      BY <1>2, <2>1
    <3>2. Low(i) # N
      BY <2>1, <3>1
    <3>. HIDE DEF Low
    <3>. QED BY <1>1, <3>1, <3>2, FS_Subset, FS_CardinalityType
  <2>. QED BY <2>1
<1>5. \A i, j \in N : Before(key, i, j) => rank[i] < rank[j]
  <2>1. ASSUME NEW i \in N, NEW j \in N, Before(key, i, j) PROVE rank[i] < rank[j]
    <3>1. Low(i) \in SUBSET Low(j) /\ i \in Low(j) /\ i \notin Low(i)
      BY <1>2, <1>3, <2>1
    <3>2. Low(i) # Low(j)
      BY <3>1
    <3>3. Cardinality(Low(i)) < Cardinality(Low(j))
      <4>1. IsFiniteSet(Low(j)) /\ Cardinality(Low(i)) \in Nat /\ Cardinality(Low(j)) \in Nat
        BY <1>4
      <4>. HIDE DEF Low
      <4>. QED BY <3>1, <3>2, <4>1, FS_Subset
    <3>4. /\ rank[i] = Cardinality(Low(i)) + 1 /\ rank[j] = Cardinality(Low(j)) + 1
          /\ Cardinality(Low(i)) \in Nat /\ Cardinality(Low(j)) \in Nat
      BY <1>4, <2>1
    <3>. HIDE DEF rank, Low
    <3>. QED BY <3>3, <3>4
  <2>. QED BY <2>1
<1>6. rank \in [N -> N]
  BY <1>4
<1>. HIDE DEF rank
<1>7. \A i, j \in N : rank[i] = rank[j] => i = j
  <2>. SUFFICES ASSUME NEW i \in N, NEW j \in N, rank[i] = rank[j], i # j PROVE FALSE
    OBVIOUS
  <2>1. rank[i] \in Nat /\ rank[j] \in Nat
    BY <1>6
  <2>2. Before(key, i, j) \/ Before(key, j, i)
    BY <1>2
  <2>3. rank[i] < rank[j] \/ rank[j] < rank[i]
    BY <1>5, <2>2
  <2>. QED BY <2>1, <2>3
<1>8. rank \in Injection(N, N)
  BY <1>6, <1>7 DEF Injection, IsInjective
<1>9. rank \in Surjection(N, N)
  BY <1>1, <1>8, FS_Injection
<1>10. \A x \in N : \E i \in N : rank[i] = x
  BY <1>9 DEF Surjection
<1>. DEFINE p == [x \in N |-> CHOOSE i \in N : rank[i] = x]
<1>11. \A x \in N : p[x] \in N /\ rank[p[x]] = x
  BY <1>10
<1>12. p \in [N -> N]
  BY <1>11
<1>. HIDE DEF p
<1>13. IsInjective(p)
  <2>1. \A x, y \in N : p[x] = p[y] => x = y
    BY <1>11
  <2>2. DOMAIN p = N
    BY <1>12
  <2>. HIDE DEF N
  <2>. QED BY <2>1, <2>2 DEF IsInjective
<1>14. \A x \in N : \E i \in N : p[i] = x
  BY <1>6, <1>7, <1>11
<1>15. \A i, j \in N : i < j => Before(key, p[i], p[j])
  <2>1. ASSUME NEW i \in N, NEW j \in N, i < j PROVE Before(key, p[i], p[j])
    <3>1. p[i] # p[j] /\ ~(rank[p[j]] < rank[p[i]])
      BY <1>11, <2>1
    <3>. QED BY <1>2, <1>5, <1>11, <3>1
  <2>. QED BY <2>1
<1>. QED BY <1>12, <1>13, <1>14, <1>15

LEMMA MaxIs ==
  ASSUME NEW S, S \subseteq Nat, NEW x \in S, \A y \in S : y <= x
  PROVE  Max(S) = x
<1>1. \A y \in S : (\A z \in S : y >= z) => y = x
  OBVIOUS
<1>. QED BY <1>1 DEF Max

LEMMA MaxIsIn ==
  ASSUME NEW S, S # {}, NEW n \in Nat, S \subseteq 1 .. n
  PROVE  Max(S) \in S
<1>. DEFINE T == {d \in Nat : n - d \in S}
<1>1. T # {} /\ T \subseteq Nat
  <2>1. PICK x \in S : TRUE
    OBVIOUS
  <2>2. n - x \in Nat /\ n - (n - x) = x
    BY <2>1
  <2>. QED BY <2>1, <2>2
<1>2. PICK d \in T : \A y \in T : d <= y
  BY <1>1, Smallest
<1>3. \A y \in S : y <= n - d
  <2>1. ASSUME NEW y \in S PROVE y <= n - d
    <3>1. n - y \in Nat /\ n - (n - y) = y /\ y \in Nat
      BY <2>1
    <3>2. n - y \in T
      BY <3>1
    <3>. QED BY <1>2, <3>1, <3>2
  <2>. QED BY <2>1
<1>4. n - d \in S /\ \A y \in S : n - d >= y
  BY <1>2, <1>3
<1>. QED BY <1>4 DEF Max

(* The updates among the first i transactions of the order are those up to *)
(* sequence m; what a word holds after them.                               *)
UpTo(entry, key, p, i, m) ==
  /\ \A j \in 1 .. i : IsUpd(entry, key, p[j]) => key[p[j]] <= m
  /\ \A s \in 2 .. m : \E j \in 1 .. i : entry[s] = p[j]

Serial(key, p) ==
  /\ p \in [1 .. Len(log) -> 1 .. Len(log)]
  /\ \A i, j \in 1 .. Len(log) : i < j => Before(key, p[i], p[j])

LEMMA ValueFacts ==
  ASSUME TypeOK, NEW entry, NEW key, LogInv(entry, key), NEW p, Serial(key, p),
         NEW i \in 0 .. Len(log), NEW m \in 0 .. curTx.seq, UpTo(entry, key, p, i, m),
         NEW a, NEW v, IsLast(entry, v, m, a)
  PROVE  ValueAfter(p, i, a) = ValOf(entry, v)
<1>. DEFINE writers == {j \in 1 .. i : a \in log[p[j]].writes}
<1>0. PICK n \in Nat : n = Len(log)
  BY DEF TypeOK
<1>a. /\ p \in [1 .. n -> 1 .. n] /\ \A x, y \in 1 .. n : x < y => Before(key, p[x], p[y])
      /\ i \in 0 .. n /\ curTx.seq \in Nat
      /\ \A j \in 1 .. i : IsUpd(entry, key, p[j]) => key[p[j]] <= m
      /\ \A s \in 2 .. m : \E j \in 1 .. i : entry[s] = p[j]
  BY <1>0, TxSeq DEF Serial, UpTo, TypeOK
<1>1. \A j \in 1 .. i : j \in 1 .. n /\ p[j] \in 1 .. n /\ key[p[j]] \in Nat
  <2>1. \A x \in 1 .. n : key[x] \in Nat
    <3>1. key \in [1 .. n -> 1 .. curTx.seq]
      BY <1>0 DEF LogInv
    <3>. QED BY <1>a, <3>1
  <2>2. \A j \in 1 .. i : j \in 1 .. n
    BY <1>0, <1>a
  <2>. QED BY <1>0, <1>a, <2>1, <2>2
<1>2. ASSUME NEW j \in writers
      PROVE  j \in 1 .. i /\ key[p[j]] \in 2 .. m /\ entry[key[p[j]]] = p[j] /\ key[p[j]] <= v
  <2>1. j \in 1 .. i /\ IsUpd(entry, key, p[j])
    BY <1>0, <1>a, <1>1, <1>2 DEF LogInv
  <2>2. key[p[j]] \in 2 .. m /\ entry[key[p[j]]] = p[j] /\ a \in Writes(entry, key[p[j]])
    BY <1>0, <1>a, <1>1, <1>2, <2>1 DEF IsUpd, Writes
  <2>. QED BY <1>0, <1>a, <2>1, <2>2 DEF IsLast
<1>3. CASE v = 0
  <2>1. writers = {}
    <3>1. ASSUME NEW j \in writers PROVE FALSE
      <4>1. key[p[j]] \in 2 .. m /\ key[p[j]] <= 0
        BY <1>0, <1>a, <1>2, <1>3, <3>1
      <4>. QED BY <1>0, <1>a, <4>1
    <3>. QED BY <1>0, <1>a, <3>1
  <2>. QED BY <1>0, <1>a, <1>3, <2>1 DEF ValueAfter, ValOf
<1>4. CASE v # 0
  <2>1. v \in 2 .. m /\ a \in Writes(entry, v)
    BY <1>0, <1>a, <1>4 DEF IsLast
  <2>2. PICK o \in 1 .. i : entry[v] = p[o]
    BY <1>0, <1>a, <2>1
  <2>3. o \in writers /\ key[p[o]] = v
    <3>1. v \in 2 .. curTx.seq
      BY <1>0, <1>a, <2>1
    <3>. QED BY <1>0, <1>a, <2>1, <2>2, <3>1 DEF Writes, LogInv
  <2>4. ASSUME NEW j \in writers PROVE j <= o
    <3>1. key[p[j]] <= v /\ key[p[j]] \in Nat /\ j \in 1 .. n /\ o \in 1 .. n
      BY <1>0, <1>a, <1>1, <1>2, <2>2, <2>4
    <3>2. CASE key[p[j]] = v
      <4>1. p[j] = p[o]
        BY <1>0, <1>a, <1>2, <2>2, <2>4, <3>2
      <4>2. ~(o < j)
        <5>1. ~Before(key, p[o], p[j])
          BY <1>0, <1>a, <1>1, <2>2, <4>1, <3>1 DEF Before
        <5>. QED BY <1>0, <1>a, <3>1, <5>1
      <4>. QED BY <1>0, <1>a, <3>1, <4>2
    <3>3. CASE key[p[j]] # v
      <4>1. ~Before(key, p[o], p[j])
        BY <1>0, <1>a, <2>1, <2>3, <3>1, <3>3 DEF Before
      <4>2. ~(o < j)
        BY <1>0, <1>a, <3>1, <4>1
      <4>. QED BY <1>0, <1>a, <3>1, <4>2
    <3>. QED BY <1>0, <1>a, <3>2, <3>3
  <2>5. Max(writers) = o
    <3>1. writers \subseteq Nat
      BY <1>0, <1>a
    <3>. HIDE DEF writers
    <3>. QED BY <1>0, <1>a, <2>3, <2>4, <3>1, MaxIs
  <2>. QED BY <1>0, <1>a, <1>4, <2>2, <2>3, <2>5 DEF ValueAfter, ValOf
<1>. QED BY <1>0, <1>a, <1>3, <1>4

(* What loads see once all that is committed is applied.                   *)
LEMMA CommittedFacts ==
  ASSUME Protocol, NEW entry, MemInv(entry), \A t \in Thread : SetInv(entry, t), NEW a \in Addr
  PROVE  \E v \in Nat : IsLast(entry, v, curTx.seq, a) /\ Committed[a] = ValOf(entry, v)
<1>. DEFINE o == curTx.idx
            mine == {i \in Pending : writeSet[o].log[i][1] = a}
<1>1. /\ TypeOK /\ curTx.seq \in Nat /\ o \in Thread /\ Known(curTx) /\ Request(o) /\ mem[a].seq \in Nat
      /\ writeSet[o] \in WriteSets /\ request[o].seq \in Nat
  BY TxSeq, TxFacts DEF Protocol, TypeOK
<1>2. Committed[a] = IF mine = {} THEN mem[a].val ELSE writeSet[o].log[Max(mine)][2]
  BY DEF Committed
<1>3. CASE Closed(curTx)
  <2>1. request[o] # curTx
    <3>1. request[o].seq # 1
      BY <1>1 DEF Request
    <3>. QED BY <1>1, <1>3, <3>1 DEF Closed
  <2>2. mine = {}
    BY <2>1 DEF Pending
  <2>3. IsLast(entry, mem[a].seq, curTx.seq, a) /\ mem[a].val = ValOf(entry, mem[a].seq)
    BY <1>3 DEF MemInv
  <2>. QED BY <1>1, <1>2, <2>2, <2>3
<1>4. CASE ~Closed(curTx)
  <2>1. Winner(o) /\ helping[o] = curTx /\ pc[o] \in Helpers
    BY <1>1, <1>4 DEF Protocol, Winner
  <2>2. request[o] = curTx /\ curTx.seq >= 2
    BY <1>1, <1>4, <2>1, OpenFacts DEF Open, Owner
  <2>3. /\ Stored(o) = Writes(entry, curTx.seq)
        /\ \A i \in 1 .. writeSet[o].num : writeSet[o].log[i][2] = ValOf(entry, curTx.seq)
    BY <1>1, <2>1 DEF SetInv, ValidSet
  <2>4. Pending = 1 .. writeSet[o].num /\ writeSet[o].num \in Nat
    BY <1>1, <2>2, WriteSetFacts DEF Pending
  <2>5. CASE mine = {}
    <3>1. a \notin Writes(entry, curTx.seq)
      BY <2>3, <2>4, <2>5 DEF Stored
    <3>2. IsLast(entry, mem[a].seq, curTx.seq, a)
      <4>1. CASE IsLast(entry, mem[a].seq, curTx.seq - 1, a)
        <5>1. \A s \in 2 .. curTx.seq : s = curTx.seq \/ s \in 2 .. curTx.seq - 1
          BY <1>1
        <5>2. \A s \in 2 .. curTx.seq - 1 : s \in 2 .. curTx.seq
          BY <1>1
        <5>. QED BY <3>1, <4>1, <5>1, <5>2 DEF IsLast
      <4>. QED BY <4>1 DEF MemInv
    <3>3. mem[a].val = ValOf(entry, mem[a].seq)
      BY DEF MemInv
    <3>. QED BY <1>1, <1>2, <2>5, <3>2, <3>3
  <2>6. CASE mine # {}
    <3>1. Max(mine) \in mine
      BY <2>4, <2>6, MaxIsIn
    <3>2. Committed[a] = ValOf(entry, curTx.seq)
      BY <1>2, <2>3, <2>4, <2>6, <3>1
    <3>3. a \in Writes(entry, curTx.seq)
      BY <2>3, <2>4, <2>6 DEF Stored
    <3>4. IsLast(entry, curTx.seq, curTx.seq, a)
      BY <1>1, <2>2, <3>3 DEF IsLast
    <3>. QED BY <1>1, <3>2, <3>4
  <2>. QED BY <2>5, <2>6
<1>. QED BY <1>3, <1>4

LEMMA OneFileSerializable == OneFileInv => StrictlySerializable
<1>. SUFFICES ASSUME OneFileInv PROVE StrictlySerializable
  OBVIOUS
<1>1. PICK entry, key : Ghost(entry, key)
  BY DEF OneFileInv
<1>2. /\ Protocol /\ TypeOK /\ LogInv(entry, key) /\ CallInv(entry, key) /\ MemInv(entry) /\ curTx.seq \in Nat
      /\ 1 <= curTx.seq /\ \A t \in Thread : SetInv(entry, t)
  BY <1>1, TxSeq DEF OneFileInv, Ghost, Protocol, TypeOK, Known
<1>3. PICK n \in Nat : n = Len(log)
  BY <1>2 DEF TypeOK
<1>4. /\ key \in [1 .. n -> Nat] /\ \A i \in 1 .. n : key[i] \in 1 .. curTx.seq
      /\ entry \in [2 .. curTx.seq -> 1 .. n]
      /\ \A s \in 2 .. curTx.seq : key[entry[s]] = s
  BY <1>2, <1>3 DEF LogInv
<1>5. PICK p \in [1 .. n -> 1 .. n] :
         /\ IsInjective(p)
         /\ \A x \in 1 .. n : \E i \in 1 .. n : p[i] = x
         /\ \A i, j \in 1 .. n : i < j => Before(key, p[i], p[j])
  BY <1>4, Sorted
<1>a. Serial(key, p)
  BY <1>3, <1>5 DEF Serial
<1>6. n <= MaxTx
  <2>. DEFINE ids == [i \in 1 .. n |-> log[i].id]
  <2>1. calls \in 0 .. MaxTx /\ calls \in Int /\ MaxTx \in Nat
    BY <1>2, HistoryAssumption DEF TypeOK
  <2>2. ids \in [1 .. n -> 1 .. calls] /\ \A i, j \in 1 .. n : ids[i] = ids[j] => i = j
    BY <1>2, <1>3 DEF CallInv
  <2>. HIDE DEF ids
  <2>3. ids \in Injection(1 .. n, 1 .. calls)
    BY <2>2 DEF Injection, IsInjective
  <2>4. Cardinality(1 .. n) <= Cardinality(1 .. calls)
    BY <2>1, <2>3, FS_Injection, FS_Interval
  <2>5. Cardinality(1 .. n) = n /\ Cardinality(1 .. calls) = calls
    BY <2>1, FS_Interval
  <2>. QED BY <2>1, <2>4, <2>5
<1>7. p \in Orders[Len(log)]
  BY <1>3, <1>5, <1>6, HistoryAssumption DEF Orders
<1>8. \A i, j \in 1 .. n : i < j => log[p[j]].id \notin log[p[i]].after
  <2>1. ASSUME NEW i \in 1 .. n, NEW j \in 1 .. n, i < j, log[p[j]].id \in log[p[i]].after PROVE FALSE
    <3>1. PICK x \in 1 .. n, y \in 1 .. n : x = p[i] /\ y = p[j]
      BY <1>5
    <3>2. key[y] <= key[x] /\ y < x
      BY <1>2, <1>3, <2>1, <3>1 DEF LogInv
    <3>3. Before(key, x, y)
      BY <1>5, <2>1, <3>1
    <3>. QED BY <1>4, <3>2, <3>3 DEF Before
  <2>. QED BY <2>1
<1>9. ASSUME NEW i \in 1 .. n, NEW r \in log[p[i]].reads PROVE r[2] = ValueAfter(p, i - 1, r[1])
  <2>1. PICK x \in 1 .. n : x = p[i]
    BY <1>5
  <2>a. key[x] \in 1 .. curTx.seq
    BY <1>4
  <2>2. PICK m \in Nat : m = Snapshot(entry, key, x)
    BY <1>2, <2>a DEF Snapshot
  <2>3. /\ IsUpd(entry, key, x) => m = key[x] - 1
        /\ ~IsUpd(entry, key, x) => m = key[x]
        /\ key[x] \in 1 .. curTx.seq /\ m \in 0 .. curTx.seq
    BY <1>2, <2>a, <2>2 DEF Snapshot
  <2>4. PICK v \in Nat : IsLast(entry, v, m, r[1]) /\ r[2] = ValOf(entry, v)
    BY <1>2, <1>3, <1>9, <2>1, <2>2 DEF LogInv, HasRead
  <2>5. ASSUME NEW j \in 1 .. i - 1, IsUpd(entry, key, p[j]) PROVE key[p[j]] <= m
    <3>1. j \in 1 .. n /\ j < i
      BY <2>5
    <3>2. PICK y \in 1 .. n : y = p[j]
      BY <1>5, <3>1
    <3>3. Before(key, y, x) /\ y # x
      BY <1>5, <2>1, <3>1, <3>2 DEF IsInjective
    <3>4. key[y] <= key[x] /\ key[y] \in Nat /\ key[x] \in Nat
      BY <1>4, <3>3 DEF Before
    <3>5. IsUpd(entry, key, x) => key[y] # key[x]
      BY <2>5, <3>2, <3>3 DEF IsUpd
    <3>6. CASE IsUpd(entry, key, x)
      <4>1. m = key[x] - 1 /\ key[y] # key[x]
        BY <2>3, <3>5, <3>6
      <4>2. PICK kx \in Nat, ky \in Nat : kx = key[x] /\ ky = key[y]
        BY <3>4
      <4>3. ky <= kx /\ ky # kx /\ m = kx - 1
        BY <3>4, <4>1, <4>2
      <4>4. key[y] <= m
        <5>1. ky <= kx - 1
          <6>1. \A a, b \in Nat : a <= b /\ a # b => a <= b - 1
            OBVIOUS
          <6>. QED BY <4>2, <4>3, <6>1
        <5>2. ky <= m
          BY <4>3, <5>1
        <5>. QED BY <4>2, <5>2
      <4>. QED BY <3>2, <4>4
    <3>7. CASE ~IsUpd(entry, key, x)
      BY <2>3, <3>2, <3>4, <3>7
    <3>. QED BY <3>6, <3>7
  <2>6. ASSUME NEW s \in 2 .. m PROVE \E j \in 1 .. i - 1 : entry[s] = p[j]
    <3>1. s \in 2 .. curTx.seq
      BY <1>2, <2>3, <2>6
    <3>2. PICK y \in 1 .. n : y = entry[s] /\ key[y] = s
      BY <1>4, <3>1
    <3>3. PICK j \in 1 .. n : p[j] = y
      BY <1>5
    <3>4. y # x
      <4>1. ASSUME y = x PROVE FALSE
        <5>1. IsUpd(entry, key, x) /\ key[x] = s
          <6>1. entry[s] = x /\ key[x] = s /\ s >= 2
            BY <2>6, <3>2, <4>1
          <6>. QED BY <6>1 DEF IsUpd
        <5>2. m = s - 1
          BY <2>3, <5>1
        <5>. QED BY <2>6, <5>2
      <4>. QED BY <4>1
    <3>5. ~Before(key, x, y)
      <4>1. ASSUME Before(key, x, y) PROVE FALSE
        <5>1. key[x] >= s /\ key[x] \in Nat /\ s \in Nat
          <6>1. key[x] \in Nat /\ s \in Nat /\ s <= m
            BY <1>2, <2>a, <2>6
          <6>2. CASE IsUpd(entry, key, x)
            BY <2>3, <6>1, <6>2
          <6>3. CASE ~IsUpd(entry, key, x)
            BY <2>3, <6>1, <6>3
          <6>. QED BY <6>1, <6>2, <6>3
        <5>2. key[x] = s /\ x < y
          BY <3>2, <4>1, <5>1 DEF Before
        <5>3. entry[s] <= x
          <6>1. key[x] >= 2
            BY <5>2, <2>6
          <6>. QED BY <1>2, <1>3, <2>1, <5>2, <6>1 DEF LogInv
        <5>. QED BY <3>2, <5>2, <5>3
      <4>. QED BY <4>1
    <3>6. ~(i < j) /\ i # j
      BY <1>5, <2>1, <3>3, <3>4, <3>5
    <3>7. j \in 1 .. i - 1
      BY <3>6
    <3>. QED BY <3>2, <3>3, <3>7
  <2>7. PICK h \in 0 .. n : h = i - 1
    OBVIOUS
  <2>8. /\ m \in 0 .. curTx.seq
        /\ h \in 0 .. Len(log) /\ UpTo(entry, key, p, h, m)
    BY <1>3, <2>3, <2>5, <2>6, <2>7 DEF UpTo
  <2>9. ValueAfter(p, h, r[1]) = ValOf(entry, v)
    BY <1>2, <1>a, <2>4, <2>8, ValueFacts
  <2>. QED BY <2>4, <2>7, <2>9
<1>10. ASSUME NEW a \in Addr PROVE Committed[a] = ValueAfter(p, n, a)
  <2>1. PICK v \in Nat : IsLast(entry, v, curTx.seq, a) /\ Committed[a] = ValOf(entry, v)
    BY <1>2, CommittedFacts
  <2>2. \A j \in 1 .. n : IsUpd(entry, key, p[j]) => key[p[j]] <= curTx.seq
    <3>1. \A x \in 1 .. n : key[x] <= curTx.seq
      BY <1>2, <1>4
    <3>. QED BY <1>5, <3>1
  <2>3. \A s \in 2 .. curTx.seq : \E j \in 1 .. n : entry[s] = p[j]
    BY <1>4, <1>5
  <2>4. n \in 0 .. Len(log) /\ curTx.seq \in 0 .. curTx.seq /\ UpTo(entry, key, p, n, curTx.seq)
    BY <1>2, <1>3, <2>2, <2>3 DEF UpTo
  <2>5. ValueAfter(p, n, a) = ValOf(entry, v)
    BY <1>2, <1>a, <2>1, <2>4, ValueFacts
  <2>. QED BY <2>1, <2>5
<1>11. SerializableTo(Committed)
  <2>1. PICK q : q = p
    OBVIOUS
  <2>. QED BY <1>3, <1>7, <1>8, <1>9, <1>10 DEF SerializableTo
<1>. QED BY <1>11 DEF StrictlySerializable

LEMMA OneFileDurable == OneFileInv => DurableAtReturn
<1>. SUFFICES ASSUME OneFileInv, NEW i \in DOMAIN log, log[i].id \in returned
              PROVE  /\ \A a \in log[i].writes : NotOlder(a, log[i].id)
                     /\ \A r \in log[i].reads : NotOlder(r[1], r[2])
  BY DEF DurableAtReturn
<1>1. PICK entry, key : Ghost(entry, key)
  BY DEF OneFileInv
<1>2. /\ TypeOK /\ LogInv(entry, key) /\ CallInv(entry, key) /\ MemInv(entry) /\ curTx.seq \in Nat /\ 1 <= curTx.seq
      /\ i \in 1 .. Len(log) /\ DOMAIN log = 1 .. Len(log) /\ Len(log) \in Nat
      /\ log[i].writes \subseteq Addr /\ log[i].reads \subseteq Addr \X Nat
  <2>1. TypeOK /\ curTx.seq \in Nat /\ 1 <= curTx.seq /\ log \in Seq(Effects)
    BY TxSeq DEF OneFileInv, Protocol, TypeOK, Known
  <2>2. log[i] \in Effects /\ DOMAIN log = 1 .. Len(log) /\ Len(log) \in Nat
    BY <2>1
  <2>. QED BY <1>1, <2>1, <2>2 DEF Ghost, Effects
<1>3. ASSUME NEW a \in Addr, NEW s \in 2 .. curTx.seq, Settled(s), a \in Writes(entry, s)
      PROVE  NotOlder(a, ValOf(entry, s))
  <2>1. PICK w : w = pm[a].seq
    OBVIOUS
  <2>2. s <= w /\ pm[a].val = ValOf(entry, w) /\ (w = 0 \/ w \in 2 .. curTx.seq)
    BY <1>2, <1>3, <2>1 DEF MemInv
  <2>3. w \in 2 .. curTx.seq /\ (w = s \/ s < w)
    BY <1>2, <1>3, <2>2
  <2>4. entry[s] \in 1 .. Len(log) /\ entry[w] \in 1 .. Len(log) /\ (s < w => entry[s] < entry[w])
    BY <1>2, <1>3, <2>3 DEF LogInv
  <2>5. ValOf(entry, s) = log[entry[s]].id /\ pm[a].val = log[entry[w]].id
    BY <1>3, <2>2, <2>3 DEF ValOf
  <2>. QED BY <1>2, <2>3, <2>4, <2>5 DEF NotOlder
<1>4. ASSUME NEW a \in log[i].writes PROVE NotOlder(a, log[i].id)
  <2>1. IsUpd(entry, key, i) /\ key[i] \in 1 .. curTx.seq /\ Settled(key[i])
    BY <1>2, <1>4 DEF LogInv, CallInv
  <2>2. key[i] \in 2 .. curTx.seq /\ a \in Writes(entry, key[i]) /\ ValOf(entry, key[i]) = log[i].id
    BY <1>2, <1>4, <2>1 DEF IsUpd, Writes, ValOf
  <2>3. NotOlder(a, ValOf(entry, key[i]))
    BY <1>2, <1>3, <1>4, <2>1, <2>2
  <2>. QED BY <2>2, <2>3
<1>5. ASSUME NEW r \in log[i].reads PROVE NotOlder(r[1], r[2])
  <2>1. PICK m \in Nat : m = Snapshot(entry, key, i) /\ Settled(m) /\ m <= curTx.seq
    <3>1. key[i] \in 1 .. curTx.seq /\ Settled(Snapshot(entry, key, i))
      BY <1>2 DEF LogInv
    <3>. QED BY <1>2, <3>1 DEF Snapshot, IsUpd
  <2>2. PICK v \in Nat : IsLast(entry, v, m, r[1]) /\ r[2] = ValOf(entry, v)
    BY <1>2, <1>5, <2>1 DEF LogInv, HasRead
  <2>3. CASE v = 0
    BY <2>2, <2>3 DEF NotOlder, ValOf
  <2>4. CASE v # 0
    <3>1. v \in 2 .. m /\ r[1] \in Writes(entry, v) /\ r[1] \in Addr
      BY <1>2, <1>5, <2>2, <2>4 DEF IsLast
    <3>2. v \in 2 .. curTx.seq /\ Settled(v)
      BY <1>2, <2>1, <3>1 DEF Settled
    <3>3. NotOlder(r[1], ValOf(entry, v))
      BY <1>3, <3>1, <3>2
    <3>. QED BY <2>2, <3>3
  <2>. QED BY <2>3, <2>4
<1>. QED BY <1>4, <1>5

(* Transactions are strictly serializable, read-only ones too, in the      *)
(* order in which commitTx() takes them into curTx, and what pload() sees  *)
(* once helpApply() is done is what they have stored, in this order.       *)
THEOREM OneFileStrictlySerializable == Spec => []StrictlySerializable
BY OneFileInvariant, OneFileSerializable, PTL

(* What a transaction that has returned from commitTx() has stored, and    *)
(* what it has read, is in the medium, or something newer: the             *)
(* compare-and-swap that closes a request in helpApply() is a fence for    *)
(* the lines that helper has flushed.                                      *)
THEOREM OneFileDurableAtReturn == Spec => []DurableAtReturn
BY OneFileInvariant, OneFileDurable, PTL
=============================================================================
