-------------------------- MODULE DurableStoreProofs --------------------------
(***************************************************************************)
(* Theorems about two engines which commit by other means than Trinity:    *)
(* module Quadra, with one fence and no sequence number in the header, and *)
(* module TrinityVR (V here), with a volatile replica and lines of several *)
(* words.  Both end with the proof that the engine implements              *)
(* DurableStore.                                                           *)
(***************************************************************************)
EXTENDS Quadra, Integers, FiniteSetTheorems, TLAPS

CONSTANTS NumLines, WordsPerLine, Range_, MaxLog
VARIABLE vr

V == INSTANCE TrinityVR
-----------------------------------------------------------------------------
(***************************************************************************)
(* Quadra: what a transaction of QuadraFC.hpp has committed survives power *)
(* failures at any moment, whatever the number of words and whether or not *)
(* there are transactions that store nothing, and it does so all or        *)
(* nothing unless such transactions make another share the count of the    *)
(* last one (SharesCount of module Quadra).                                *)
(***************************************************************************)
Persist == [main : Val, back : Val, seq : Nat, count : [0 .. 1 -> Nat]]
Quiet == {"idle", "createRoot", "createId"}
Body == {"tx", "pstoreCount", "pstoreSeq", "pstoreMain"}
Ending == {"count", "sync"}
Running == Quiet \cup Body \cup Ending

(* The entry of count[] of the running transaction, and of the last one.   *)
Mine == v_seq % 2
Before == (v_seq - 1) % 2

RegionTypeOK ==
  /\ DOMAIN cache = Line /\ DOMAIN pm = Line
  /\ \A a \in Addr : cache[a] \in Persist /\ pm[a] \in Persist
  /\ pc \in Running \cup {"down", "revert"}
  /\ v_seq \in Nat \ {0} /\ cur \in Nat \ {0}
  /\ v_log \subseteq Addr /\ todo \subseteq Addr
  /\ pc \in Body \ {"tx"} => store.addr \in Addr /\ store.val \in Val

(* The medium is a function of the lines.                                  *)
MediumTypeOK == pm = [l \in Line |-> pm[l]]

(* The highest seq in the medium, and the words that have the last one.    *)
Highest(s) == (\A a \in Addr : pm[a].seq <= s) /\ \E a \in Addr : pm[a].seq = s
Last == {a \in Addr : pm[a].seq = v_seq - 1}
LastCounted == \A a \in Last : pm[a].count[Before] = Cardinality(Last)

(* The same of any s: transactions without stores have moved v_seq on, and *)
(* after an odd number of them the running one shares a count with s.      *)
Words(s) == {a \in Addr : pm[a].seq = s}
Counted(s) == \A a \in Words(s) : pm[a].count[s % 2] = Cardinality(Words(s))
Reverted(s) == \A a \in Words(s) : pm[a].main = pm[a].back
Storing == v_log # {} \/ pc \in {"pstoreCount", "pstoreSeq"}
Shares(s) == Storing /\ s % 2 = Mine
Sound(s) == Highest(s) /\ (Shares(s) \/ Counted(s) \/ Reverted(s))

InvControl ==
  /\ pc \notin Body \cup Ending => v_log = {}
  /\ pc = "count" => todo \subseteq v_log
  /\ pc = "sync" => todo = {}
  /\ pc = "down" => cache = pm
  /\ \E b \in Addr : Highest(pm[b].seq)
  /\ ~file => /\ pc = "down" /\ v_seq = 1
              /\ \A a \in Addr : pm[a].seq = 0 /\ pm[a].main = pm[a].back

(* The log holds the words that carry v_seq, and nobody has a higher one.  *)
InvSeq ==
  pc # "down" => \A a \in Addr : /\ cache[a].seq <= v_seq
                                 /\ a \in v_log <=> cache[a].seq = v_seq

(* The counts stay 0 until endTx() has stored to all words.                *)
InvCount ==
  /\ pc \in Body => \A a \in v_log : cache[a].count[Mine] = 0
  /\ pc \in Ending => \A a \in v_log :
       cache[a].count[Mine] = IF a \in todo THEN 0 ELSE Cardinality(v_log)

(* The first store to a word, under way.                                   *)
Entering(a) == pc \in {"pstoreCount", "pstoreSeq"} /\ a = store.addr
InvStore ==
  /\ \A a \in Addr : Entering(a) => a \notin v_log /\ cache[a].back = cache[a].main
  /\ pc = "pstoreSeq" => cache[store.addr].count[Mine] = 0
  /\ pc = "pstoreMain" => store.addr \in v_log

(* What the medium holds of a word that is not in the log, and of one that *)
(* is, before and after its seq has arrived there.                         *)
InvOutside ==
  pc \in Running => \A a \in Addr \ v_log :
    /\ pm[a].seq = cache[a].seq /\ pm[a].main = cache[a].main
    /\ pm[a].count[Before] = cache[a].count[Before]
    /\ pm[a] = cache[a] \/ Entering(a)

InvLogged ==
  \A a \in v_log :
    /\ pm[a].seq <= v_seq
    /\ pm[a].seq # v_seq => pm[a].main = cache[a].back
    /\ pm[a].seq = v_seq =>
         /\ pm[a].back = cache[a].back
         /\ pm[a].count[Mine] = 0 \/ (pc \in Ending /\ pm[a] = cache[a])
    /\ pc = "sync" => pm[a] = cache[a] \/ a \in pwb

(* As long as no word of the running transaction is in the medium, the     *)
(* last one can be told from a torn one: its words are as many as they     *)
(* say, unless it has been reverted, or the running one shares its count.  *)
InvLast ==
  pc \in Running /\ (\A a \in Addr : pm[a].seq # v_seq) =>
    \E s \in 0 .. v_seq - 1 : Sound(s)

(* revert(): words change in main only, and stay a torn transaction's.     *)
InvRevert ==
  pc = "revert" =>
    /\ Highest(v_seq - 1) /\ ~LastCounted /\ todo \subseteq Last
    /\ \A a \in Addr :
         /\ pm[a].seq = cache[a].seq /\ pm[a].back = cache[a].back
         /\ pm[a].count = cache[a].count
         /\ pm[a] = cache[a] \/ a \in (Last \ todo) \cap pwb
    /\ \A a \in Last \ todo : cache[a].main = cache[a].back

QuadraInv ==
  /\ RegionTypeOK /\ InvControl /\ InvSeq /\ InvCount /\ InvStore
  /\ InvOutside /\ InvLogged /\ InvLast /\ InvRevert
-----------------------------------------------------------------------------
LEMMA LineFacts ==
  ASSUME QuadraAssumption
  PROVE  pmd \in Line /\ pmd \notin Addr /\ Addr \subseteq Line
BY DEF QuadraAssumption, Line, Addr, pmd

LEMMA ParityFacts ==
  ASSUME NEW n \in Nat \ {0}
  PROVE  /\ n % 2 \in 0 .. 1 /\ (n - 1) % 2 \in 0 .. 1
         /\ (n - 1) % 2 # n % 2 /\ n + 1 - 1 = n
OBVIOUS

LEMMA LogFacts ==
  ASSUME QuadraAssumption, NEW S \in SUBSET Addr
  PROVE  /\ IsFiniteSet(S) /\ Cardinality(S) \in Nat
         /\ S # {} => Cardinality(S) # 0
         /\ \A T \in SUBSET S : Cardinality(T) = Cardinality(S) => T = S
<1>1. IsFiniteSet(Addr)
  BY FS_Interval DEF QuadraAssumption, Addr
<1>2. IsFiniteSet(S)
  BY <1>1, FS_Subset
<1>. QED BY <1>2, FS_Subset, FS_CardinalityType, FS_EmptySet

(* What the stores of pstore() and endTx() make of a persist.              *)
LEMMA BackStored ==
  ASSUME NEW p \in Persist, NEW q, q = [p EXCEPT !.back = p.main]
  PROVE  q \in Persist /\ q.main = p.main /\ q.back = p.main /\ q.seq = p.seq /\ q.count = p.count
BY DEF Persist

LEMMA MainStored ==
  ASSUME NEW p \in Persist, NEW v \in Val, NEW q, q = [p EXCEPT !.main = v]
  PROVE  q \in Persist /\ q.main = v /\ q.back = p.back /\ q.seq = p.seq /\ q.count = p.count
BY DEF Persist

LEMMA SeqStored ==
  ASSUME NEW p \in Persist, NEW s \in Nat, NEW q, q = [p EXCEPT !.seq = s]
  PROVE  q \in Persist /\ q.main = p.main /\ q.back = p.back /\ q.seq = s /\ q.count = p.count
BY DEF Persist

LEMMA CountStored ==
  ASSUME NEW p \in Persist, NEW i \in 0 .. 1, NEW n \in Nat, NEW q,
         q = [p EXCEPT !.count[i] = n]
  PROVE  /\ q \in Persist /\ q.main = p.main /\ q.back = p.back /\ q.seq = p.seq
         /\ q.count[i] = n /\ \A j \in 0 .. 1 \ {i} : q.count[j] = p.count[j]
<1>1. q = [main |-> p.main, back |-> p.back, seq |-> p.seq, count |-> [p.count EXCEPT ![i] = n]]
  BY DEF Persist
<1>2. p.count \in [0 .. 1 -> Nat]
  BY DEF Persist
<1>. QED BY <1>1, <1>2 DEF Persist

(* A store to a line leaves the others alone.                              *)
LEMMA LineStored ==
  ASSUME RegionTypeOK, NEW l \in Line, NEW c, cache' = [cache EXCEPT ![l] = c]
  PROVE  DOMAIN cache' = Line /\ cache'[l] = c /\ \A k \in Line \ {l} : cache'[k] = cache[k]
BY DEF RegionTypeOK

(* A region of words has a highest sequence number.                        *)
LEMMA HighestFacts ==
  ASSUME RegionTypeOK, NEW s \in Nat, Highest(s)
  PROVE  HighestSeq(pm) = s /\ LastTx(pm) = {a \in Addr : pm[a].seq = s}
<1>1. \A a \in Addr : pm[a].seq \in Nat
  BY DEF RegionTypeOK, Persist
<1>2. HighestSeq(pm) = s
  BY <1>1 DEF HighestSeq, Highest
<1>. QED BY <1>2 DEF LastTx

(* A step that leaves the medium alone and goes on storing, if it was.     *)
LEMMA LastKept ==
  ASSUME InvLast, pm' = pm, v_seq' = v_seq, pc' \in Running => pc \in Running,
         Storing => Storing'
  PROVE  InvLast'
<1>1. ASSUME NEW s, Sound(s) PROVE Sound(s)'
  BY <1>1 DEF Sound, Highest, Shares, Counted, Reverted, Words, Mine
<1>. QED BY <1>1 DEF InvLast
-----------------------------------------------------------------------------
LEMMA InitInv == QuadraAssumption /\ Init => QuadraInv
<1>. SUFFICES ASSUME QuadraAssumption, Init PROVE QuadraInv
  OBVIOUS
<1>. USE LineFacts DEF Init
<1>1. ASSUME NEW a \in Addr
      PROVE  /\ cache[a] = NewPersist /\ cache[a] \in Persist
             /\ cache[a].seq = 0 /\ cache[a].main = cache[a].back
  BY DEF NewPersist, Persist, QuadraAssumption
<1>2. 1 \in Addr /\ 0 \in Nat
  BY DEF Addr, QuadraAssumption
<1>3. RegionTypeOK
  BY <1>1 DEF RegionTypeOK, Running, Quiet, Body, Ending
<1>4. InvControl
  <2>1. \A a \in Addr : pm[a].seq = 0 /\ pm[a].main = pm[a].back
    BY <1>1
  <2>2. Highest(pm[1].seq)
    BY <1>2, <2>1 DEF Highest
  <2>. QED BY <1>2, <2>1, <2>2 DEF InvControl, Body, Ending
<1>. QED BY <1>1, <1>3, <1>4 DEF QuadraInv, InvSeq, InvCount, InvStore, InvOutside, InvLogged, InvLast,
            InvRevert, Running, Quiet, Body, Ending, Entering

LEMMA OpenExistingInv ==
  ASSUME QuadraAssumption, QuadraInv, OpenExisting
  PROVE  QuadraInv'
<1>. USE LineFacts DEF QuadraInv, OpenExisting, Running, Quiet, Body, Ending
<1>1. PICK b \in Addr : Highest(pm[b].seq)
  BY DEF InvControl
<1>. DEFINE s == pm[b].seq
<1>2. s \in Nat /\ \A a \in Addr : pm[a].seq \in Nat /\ pm[a].seq <= s
  BY <1>1 DEF RegionTypeOK, Persist, Highest
<1>3. HighestSeq(pm) = s /\ LastTx(pm) = {a \in Addr : pm[a].seq = s}
  BY <1>1, <1>2, HighestFacts
<1>4. cache = pm /\ v_seq' = s + 1 /\ v_seq' - 1 = s /\ pm' = pm /\ cache' = cache
  BY <1>2, <1>3 DEF InvControl
<1>5. Last' = LastTx(pm) /\ Before' = s % 2 /\ LastCounted' = LastTxCommitted(pm)
  BY <1>3, <1>4 DEF Last, Before, LastCounted, LastTxCommitted
<1>6. Highest(v_seq - 1)'
  BY <1>1, <1>4 DEF Highest
<1>7. RegionTypeOK'
  BY <1>2, <1>3, <1>4 DEF RegionTypeOK
<1>8. InvControl'
  BY <1>1, <1>4 DEF InvControl, Highest
<1>9. InvSeq'
  BY <1>2, <1>4 DEF InvSeq, InvControl
<1>10. InvCount' /\ InvStore' /\ InvOutside' /\ InvLogged'
  BY <1>4 DEF InvCount, InvStore, InvOutside, InvLogged, InvControl, Entering
<1>11. InvLast'
  <2>1. PICK n \in Nat : n = s
    BY <1>2
  <2>2. pc' = "idle" => LastTxCommitted(pm)
    BY <1>4
  <2>3. pc' = "idle" => Sound(n)'
    BY <1>1, <1>3, <1>4, <2>1, <2>2 DEF Sound, Highest, Counted, Words, LastTxCommitted
  <2>4. n \in (0 .. v_seq - 1)' /\ (pc' \in Running => pc' = "idle")
    BY <1>2, <1>4, <2>1
  <2>. QED BY <2>3, <2>4 DEF InvLast
<1>12. InvRevert'
  BY <1>4, <1>5, <1>6 DEF InvRevert
<1>. QED BY <1>7, <1>8, <1>9, <1>10, <1>11, <1>12

LEMMA OpenNewInv ==
  ASSUME QuadraAssumption, QuadraInv, OpenNew
  PROVE  QuadraInv'
<1>. USE LineFacts DEF QuadraInv, OpenNew, Running, Quiet, Body, Ending
<1>1. /\ v_seq = 1 /\ v_log = {} /\ cache = pm
      /\ \A a \in Addr : pm[a].seq = 0 /\ pm[a].main = pm[a].back
  BY DEF InvControl
<1>2. RegionTypeOK'
  BY DEF RegionTypeOK
<1>3. InvControl'
  BY <1>1 DEF InvControl, Highest
<1>4. InvSeq'
  BY <1>1 DEF InvSeq
<1>5. InvCount' /\ InvStore' /\ InvOutside' /\ InvLogged'
  BY <1>1 DEF InvCount, InvStore, InvOutside, InvLogged, Entering
<1>6. InvLast'
  <2>1. PICK b \in Addr : Highest(pm[b].seq)
    BY DEF InvControl
  <2>2. Sound(0)'
    BY <1>1, <2>1 DEF Sound, Highest, Reverted, Words
  <2>. QED BY <1>1, <2>2 DEF InvLast
<1>. QED BY <1>2, <1>3, <1>4, <1>5, <1>6 DEF InvRevert

LEMMA RevertInv ==
  ASSUME QuadraAssumption, QuadraInv, Revert
  PROVE  QuadraInv'
<1>. USE LineFacts DEF QuadraInv, Revert, StorePWB, Running, Quiet, Body, Ending
<1>1. PICK a \in todo : /\ StorePWB(a, [cache[a] EXCEPT !.main = cache[a].back])
                        /\ todo' = todo \ {a}
  OBVIOUS
<1>. DEFINE c == [cache[a] EXCEPT !.main = cache[a].back]
<1>2. a \in Addr /\ a \in Last /\ cache[a] \in Persist /\ cache[a].back \in Val
  BY DEF RegionTypeOK, Persist, InvRevert
<1>3. /\ c \in Persist /\ c.main = cache[a].back /\ c.back = cache[a].back
      /\ c.seq = cache[a].seq /\ c.count = cache[a].count
  BY <1>2, MainStored
<1>4. /\ DOMAIN cache' = Line /\ cache'[a] = c
      /\ \A k \in Line \ {a} : cache'[k] = cache[k]
  BY <1>1, <1>2, LineStored
<1>. HIDE DEF c
<1>5. RegionTypeOK'
  BY <1>1, <1>2, <1>3, <1>4 DEF RegionTypeOK
<1>6. InvControl'
  BY <1>1 DEF InvControl, Highest
<1>7. InvSeq'
  BY <1>2, <1>3, <1>4 DEF InvSeq
<1>8. InvCount' /\ InvStore' /\ InvOutside' /\ InvLogged' /\ InvLast'
  BY DEF InvCount, InvStore, InvOutside, InvLogged, InvLast, InvControl, Entering
<1>9. InvRevert'
  BY <1>1, <1>2, <1>3, <1>4 DEF InvRevert, Highest, LastCounted, Last, Before
<1>. QED BY <1>5, <1>6, <1>7, <1>8, <1>9

LEMMA RevertDoneInv ==
  ASSUME QuadraAssumption, QuadraInv, RevertDone
  PROVE  QuadraInv'
<1>. USE LineFacts DEF QuadraInv, RevertDone, Running, Quiet, Body, Ending
<1>1. \A a \in Addr : pm[a] = cache[a]
  BY DEF InvRevert, Fenced
<1>2. RegionTypeOK' /\ InvControl' /\ InvSeq'
  BY DEF RegionTypeOK, InvControl, InvSeq, Highest
<1>3. InvCount' /\ InvStore' /\ InvOutside' /\ InvLogged'
  BY <1>1 DEF InvCount, InvStore, InvOutside, InvLogged, InvControl, Entering
<1>4. InvLast'
  <2>1. Highest(v_seq - 1) /\ \A a \in Last : pm[a].main = pm[a].back
    BY <1>1 DEF InvRevert, Last
  <2>2. Sound(v_seq - 1)'
    BY <2>1 DEF Sound, Highest, Reverted, Words, Last
  <2>3. v_seq - 1 \in (0 .. v_seq - 1)'
    BY DEF RegionTypeOK
  <2>. QED BY <2>2, <2>3 DEF InvLast
<1>. QED BY <1>2, <1>3, <1>4 DEF InvRevert

(* The steps that move on in the code and store nothing.                   *)
LEMMA ControlInv ==
  ASSUME QuadraAssumption, QuadraInv, BeginTx \/ BeginNestedTx \/ EndNestedTx \/ CreateDone \/ UNCHANGED vars
  PROVE  QuadraInv'
<1>. USE LineFacts DEF QuadraInv, BeginTx, BeginNestedTx, EndNestedTx, CreateDone, vars,
                       Running, Quiet, Body, Ending
<1>1. RegionTypeOK' /\ InvControl' /\ InvSeq'
  BY DEF RegionTypeOK, InvControl, InvSeq, Highest
<1>2. InvCount'
  BY DEF InvCount, InvControl, Mine
<1>3. InvStore'
  BY DEF InvStore, Entering, Mine
<1>4. InvOutside'
  BY DEF InvOutside, Entering, Before
<1>5. InvLogged'
  <2>1. UNCHANGED <<cache, pm, pwb, v_log, v_seq>> /\ Mine' = Mine
    BY DEF Mine
  <2>2. pc' = pc \/ pc' \notin Ending
    OBVIOUS
  <2>3. v_log # {} /\ pc' # pc => pc \notin Ending
    BY DEF InvControl
  <2>. HIDE DEF Ending, BeginTx, BeginNestedTx, EndNestedTx, CreateDone, vars
  <2>4. pc' = "sync" => pc' \in Ending
    BY DEF Ending
  <2>. QED BY <2>1, <2>2, <2>3, <2>4 DEF InvLogged
<1>6. InvLast'
  BY LastKept DEF Storing
<1>7. InvRevert'
  <2>1. LastCounted' = LastCounted /\ Last' = Last /\ (Highest(v_seq - 1))' = Highest(v_seq - 1)
    BY DEF Highest, LastCounted, Last, Before
  <2>2. UNCHANGED <<cache, pm, pwb, v_seq, todo>> /\ (pc' = "revert" => pc = "revert")
    OBVIOUS
  <2>. QED BY <2>1, <2>2 DEF InvRevert
<1>. QED BY <1>1, <1>2, <1>3, <1>4, <1>5, <1>6, <1>7

LEMMA PstoreBackInv ==
  ASSUME QuadraAssumption, QuadraInv, NEW a \in Addr, NEW v \in Val, PstoreBack(a, v)
  PROVE  QuadraInv'
<1>. USE LineFacts DEF QuadraInv, PstoreBack, Store, Running, Quiet, Body, Ending
<1>. DEFINE c == [cache[a] EXCEPT !.back = cache[a].main]
<1>1. cache[a] \in Persist
  BY DEF RegionTypeOK
<1>2. /\ c \in Persist /\ c.main = cache[a].main /\ c.back = cache[a].main
      /\ c.seq = cache[a].seq /\ c.count = cache[a].count
  BY <1>1, BackStored
<1>3. /\ DOMAIN cache' = Line /\ cache'[a] = c
      /\ \A k \in Line \ {a} : cache'[k] = cache[k]
  BY LineStored
<1>. HIDE DEF c
<1>4. a \notin v_log /\ store'.addr = a /\ store'.val = v
  BY DEF InvSeq
<1>5. RegionTypeOK'
  BY <1>2, <1>3, <1>4 DEF RegionTypeOK
<1>6. InvControl' /\ InvLast' /\ InvRevert'
  BY LastKept DEF InvControl, InvRevert, Highest, LastCounted, Last, Before, Storing
<1>7. InvSeq'
  BY <1>2, <1>3 DEF InvSeq
<1>8. InvCount' /\ InvStore'
  BY <1>2, <1>3, <1>4 DEF InvCount, InvStore, Entering, Mine
<1>9. InvOutside'
  BY <1>2, <1>3, <1>4 DEF InvOutside, Entering, Before
<1>10. InvLogged'
  BY <1>2, <1>3, <1>4 DEF InvLogged, Mine, RegionTypeOK
<1>. QED BY <1>5, <1>6, <1>7, <1>8, <1>9, <1>10

LEMMA PstoreCountInv ==
  ASSUME QuadraAssumption, QuadraInv, PstoreCount
  PROVE  QuadraInv'
<1>. USE LineFacts DEF QuadraInv, PstoreCount, Store, Running, Quiet, Body, Ending
<1>. DEFINE a == store.addr
            c == [cache[a] EXCEPT !.count[v_seq % 2] = 0]
<1>1. a \in Addr /\ cache[a] \in Persist /\ Entering(a)
  BY DEF RegionTypeOK, Entering
<1>2. Mine \in 0 .. 1 /\ Before \in 0 .. 1 \ {Mine}
  BY ParityFacts DEF RegionTypeOK, Mine, Before
<1>3. /\ c \in Persist /\ c.main = cache[a].main /\ c.back = cache[a].back
      /\ c.seq = cache[a].seq /\ c.count[Mine] = 0 /\ c.count[Before] = cache[a].count[Before]
  BY <1>1, <1>2, CountStored DEF Mine
<1>4. /\ DOMAIN cache' = Line /\ cache'[a] = c
      /\ \A k \in Line \ {a} : cache'[k] = cache[k]
  BY <1>1, LineStored
<1>. HIDE DEF c
<1>5. a \notin v_log /\ cache[a].back = cache[a].main
  BY <1>1 DEF InvStore
<1>6. RegionTypeOK'
  BY <1>1, <1>3, <1>4 DEF RegionTypeOK
<1>7. InvControl' /\ InvLast' /\ InvRevert'
  BY LastKept DEF InvControl, InvRevert, Highest, LastCounted, Last, Before, Storing
<1>8. InvSeq'
  BY <1>1, <1>3, <1>4 DEF InvSeq
<1>9. InvCount' /\ InvStore'
  BY <1>1, <1>3, <1>4, <1>5 DEF InvCount, InvStore, Entering, Mine, RegionTypeOK
<1>10. InvOutside'
  <2>1. Before' = Before
    BY DEF Before
  <2>2. ASSUME NEW b \in Addr \ v_log, b # a PROVE pm[b] = cache[b]
    BY <2>2 DEF InvOutside, Entering
  <2>3. /\ pm[a].seq = cache[a].seq /\ pm[a].main = cache[a].main
        /\ pm[a].count[Before] = cache[a].count[Before]
    BY <1>1, <1>5 DEF InvOutside
  <2>4. Entering(a)'
    BY DEF Entering
  <2>5. ASSUME NEW b \in Addr \ v_log, b # a
        PROVE  pm[b] = cache'[b]
    BY <1>4, <2>2, <2>5
  <2>6. pm' = pm /\ v_log' = v_log
    OBVIOUS
  <2>. SUFFICES ASSUME NEW b \in Addr \ v_log
                PROVE  /\ pm[b].seq = cache'[b].seq /\ pm[b].main = cache'[b].main
                       /\ pm[b].count[Before] = cache'[b].count[Before]
                       /\ pm[b] = cache'[b] \/ Entering(b)'
    BY <2>1, <2>6 DEF InvOutside
  <2>7. CASE b = a
    BY <1>3, <1>4, <2>3, <2>4, <2>7
  <2>8. CASE b # a
    BY <2>5, <2>8
  <2>. QED BY <2>7, <2>8
<1>11. InvLogged'
  BY <1>3, <1>4, <1>5 DEF InvLogged, Mine, RegionTypeOK
<1>. QED BY <1>6, <1>7, <1>8, <1>9, <1>10, <1>11

LEMMA PstoreSeqInv ==
  ASSUME QuadraAssumption, QuadraInv, PstoreSeq
  PROVE  QuadraInv'
<1>. USE LineFacts DEF QuadraInv, PstoreSeq, Store, Running, Quiet, Body, Ending
<1>. DEFINE a == store.addr
            c == [cache[a] EXCEPT !.seq = v_seq]
<1>1. a \in Addr /\ cache[a] \in Persist /\ pm[a] \in Persist /\ Entering(a) /\ v_seq \in Nat
  BY DEF RegionTypeOK, Entering
<1>2. /\ c \in Persist /\ c.main = cache[a].main /\ c.back = cache[a].back
      /\ c.seq = v_seq /\ c.count = cache[a].count
  BY <1>1, SeqStored
<1>3. /\ DOMAIN cache' = Line /\ cache'[a] = c
      /\ \A k \in Line \ {a} : cache'[k] = cache[k]
  BY <1>1, LineStored
<1>. HIDE DEF c
<1>4. a \notin v_log /\ cache[a].back = cache[a].main /\ cache[a].count[Mine] = 0
  BY <1>1 DEF InvStore
<1>5. pm[a].seq = cache[a].seq /\ pm[a].main = cache[a].main /\ cache[a].seq # v_seq
      /\ cache[a].seq <= v_seq
  BY <1>1, <1>4 DEF InvOutside, InvSeq
<1>6. RegionTypeOK'
  BY <1>1, <1>2, <1>3 DEF RegionTypeOK
<1>7. InvControl' /\ InvLast' /\ InvRevert'
  BY LastKept DEF InvControl, InvRevert, Highest, LastCounted, Last, Before, Storing
<1>8. InvSeq'
  BY <1>1, <1>2, <1>3 DEF InvSeq
<1>9. InvCount' /\ InvStore'
  BY <1>1, <1>2, <1>3, <1>4 DEF InvCount, InvStore, Entering, Mine, RegionTypeOK
<1>10. InvOutside'
  BY <1>1, <1>2, <1>3, <1>4 DEF InvOutside, Entering, Before
<1>11. InvLogged'
  BY <1>1, <1>2, <1>3, <1>4, <1>5 DEF InvLogged, Mine, RegionTypeOK
<1>. QED BY <1>6, <1>7, <1>8, <1>9, <1>10, <1>11

(* The store to main, the last of a first pstore() and the only one of a   *)
(* later one.                                                              *)
LEMMA MainInv ==
  ASSUME QuadraAssumption, QuadraInv, NEW a \in v_log, NEW v \in Val, pc \in {"tx", "pstoreMain"}, pc' = "tx",
         Store(a, [cache[a] EXCEPT !.main = v]), cur' \in Nat \ {0},
         UNCHANGED <<file, v_seq, v_log, todo>>
  PROVE  QuadraInv'
<1>. USE LineFacts DEF QuadraInv, Store, Running, Quiet, Body, Ending
<1>. DEFINE c == [cache[a] EXCEPT !.main = v]
<1>1. a \in Addr /\ cache[a] \in Persist
  BY DEF RegionTypeOK
<1>2. /\ c \in Persist /\ c.main = v /\ c.back = cache[a].back
      /\ c.seq = cache[a].seq /\ c.count = cache[a].count
  BY <1>1, MainStored
<1>3. /\ DOMAIN cache' = Line /\ cache'[a] = c
      /\ \A k \in Line \ {a} : cache'[k] = cache[k]
  BY <1>1, LineStored
<1>. HIDE DEF c
<1>4. RegionTypeOK'
  BY <1>1, <1>2, <1>3 DEF RegionTypeOK
<1>5. InvControl' /\ InvLast' /\ InvRevert'
  BY LastKept DEF InvControl, InvRevert, Highest, LastCounted, Last, Before, Storing
<1>6. InvSeq'
  BY <1>1, <1>2, <1>3 DEF InvSeq
<1>7. InvCount' /\ InvStore'
  BY <1>1, <1>2, <1>3 DEF InvCount, InvStore, Entering, Mine, RegionTypeOK
<1>8. InvOutside'
  <2>1. Before' = Before
    BY DEF Before
  <2>2. ASSUME NEW b \in Addr \ v_log PROVE pm[b] = cache[b] /\ cache'[b] = cache[b]
    BY <1>3, <2>2 DEF InvOutside, Entering
  <2>. QED BY <2>1, <2>2 DEF InvOutside
<1>9. InvLogged'
  BY <1>1, <1>2, <1>3 DEF InvLogged, Mine, RegionTypeOK
<1>. QED BY <1>4, <1>5, <1>6, <1>7, <1>8, <1>9

LEMMA PstoreMainInv ==
  ASSUME QuadraAssumption, QuadraInv, PstoreMain
  PROVE  QuadraInv'
BY MainInv DEF PstoreMain, QuadraInv, InvStore, RegionTypeOK, Body

LEMMA PstoreAgainInv ==
  ASSUME QuadraAssumption, QuadraInv, NEW a \in Addr, NEW v \in Val, PstoreAgain(a, v)
  PROVE  QuadraInv'
BY MainInv DEF PstoreAgain, QuadraInv, InvSeq, RegionTypeOK, Body

(* A store to the header changes none of the persists.                     *)
LEMMA HeaderInv ==
  ASSUME QuadraAssumption, QuadraInv, CreateRoot \/ CreateId
  PROVE  QuadraInv'
<1>. USE LineFacts DEF QuadraInv, CreateRoot, CreateId, Store, StorePWB, Fenced,
                       Running, Quiet, Body, Ending
<1>1. DOMAIN cache' = Line /\ \A a \in Addr : cache'[a] = cache[a]
  BY LineStored DEF RegionTypeOK
<1>2. RegionTypeOK'
  BY <1>1 DEF RegionTypeOK
<1>3. InvControl' /\ InvSeq'
  BY <1>1 DEF InvControl, InvSeq, Highest
<1>4. InvCount' /\ InvStore'
  BY <1>1 DEF InvCount, InvStore, InvControl, Entering, Mine, RegionTypeOK
<1>5. InvOutside'
  BY <1>1 DEF InvOutside, Entering, Before
<1>6. InvLogged'
  BY <1>1 DEF InvLogged, InvControl, Mine, RegionTypeOK
<1>7. InvLast' /\ InvRevert'
  BY LastKept DEF InvRevert, Highest, LastCounted, Last, Before, Storing
<1>. QED BY <1>2, <1>3, <1>4, <1>5, <1>6, <1>7

LEMMA EndTxInv ==
  ASSUME QuadraAssumption, QuadraInv, EndTx
  PROVE  QuadraInv'
<1>. USE LineFacts DEF QuadraInv, EndTx, Running, Quiet, Body, Ending
<1>1. RegionTypeOK' /\ InvControl' /\ InvSeq'
  BY DEF RegionTypeOK, InvControl, InvSeq, Highest
<1>2. InvCount' /\ InvStore'
  BY DEF InvCount, InvStore, Entering, Mine
<1>3. InvOutside'
  BY DEF InvOutside, Entering, Before
<1>4. InvLogged'
  BY DEF InvLogged, Mine
<1>5. InvLast' /\ InvRevert'
  BY LastKept DEF InvRevert, Highest, LastCounted, Last, Before, Storing
<1>. QED BY <1>1, <1>2, <1>3, <1>4, <1>5

LEMMA EndTxCountInv ==
  ASSUME QuadraAssumption, QuadraInv, EndTxCount
  PROVE  QuadraInv'
<1>. USE LineFacts DEF QuadraInv, EndTxCount, Store, Running, Quiet, Body, Ending
<1>1. PICK a \in todo :
        /\ Store(a, [cache[a] EXCEPT !.count[v_seq % 2] = Cardinality(v_log)])
        /\ todo' = todo \ {a}
  OBVIOUS
<1>. DEFINE c == [cache[a] EXCEPT !.count[v_seq % 2] = Cardinality(v_log)]
<1>2. a \in Addr /\ a \in v_log /\ cache[a] \in Persist
  BY DEF RegionTypeOK, InvControl
<1>3. Mine \in 0 .. 1
  BY ParityFacts DEF RegionTypeOK, Mine
<1>4. Cardinality(v_log) \in Nat
  BY LogFacts DEF RegionTypeOK
<1>5. /\ c \in Persist /\ c.main = cache[a].main /\ c.back = cache[a].back
      /\ c.seq = cache[a].seq /\ c.count[Mine] = Cardinality(v_log)
  <2>1. \A n, q : n \in Nat /\ q = [cache[a] EXCEPT !.count[Mine] = n]
          => /\ q \in Persist /\ q.main = cache[a].main /\ q.back = cache[a].back
             /\ q.seq = cache[a].seq /\ q.count[Mine] = n
    BY <1>2, <1>3, CountStored
  <2>2. c = [cache[a] EXCEPT !.count[Mine] = Cardinality(v_log)]
    BY DEF Mine
  <2>. HIDE DEF c
  <2>. QED BY <1>4, <2>1, <2>2
<1>6. /\ DOMAIN cache' = Line /\ cache'[a] = c
      /\ \A k \in Line \ {a} : cache'[k] = cache[k]
  BY <1>1, <1>2, LineStored
<1>. HIDE DEF c
<1>7. RegionTypeOK'
  BY <1>1, <1>2, <1>5, <1>6 DEF RegionTypeOK
<1>8. InvControl' /\ InvLast' /\ InvRevert'
  BY <1>1, LastKept DEF InvControl, InvRevert, Highest, LastCounted, Last, Before, Storing
<1>9. InvSeq'
  BY <1>2, <1>5, <1>6 DEF InvSeq
<1>10. InvCount' /\ InvStore'
  BY <1>1, <1>2, <1>5, <1>6 DEF InvCount, InvStore, Entering, Mine, RegionTypeOK
<1>11. InvOutside'
  <2>1. Before' = Before
    BY DEF Before
  <2>2. ASSUME NEW b \in Addr \ v_log PROVE pm[b] = cache[b] /\ cache'[b] = cache[b]
    BY <1>2, <1>6, <2>2 DEF InvOutside, Entering
  <2>. QED BY <2>1, <2>2 DEF InvOutside
<1>12. InvLogged'
  <2>1. ASSUME pm[a].seq = v_seq PROVE pm[a].count[Mine] = 0
    BY <1>1, <1>2, <2>1 DEF InvLogged, InvCount
  <2>2. Mine' = Mine
    BY DEF Mine
  <2>. QED BY <1>1, <1>2, <1>5, <1>6, <2>1, <2>2 DEF InvLogged, RegionTypeOK
<1>. QED BY <1>7, <1>8, <1>9, <1>10, <1>11, <1>12

LEMMA EndTxFlushInv ==
  ASSUME QuadraAssumption, QuadraInv, EndTxFlush
  PROVE  QuadraInv'
<1>. USE LineFacts DEF QuadraInv, EndTxFlush, Running, Quiet, Body, Ending
<1>1. RegionTypeOK' /\ InvControl' /\ InvSeq'
  BY DEF RegionTypeOK, InvControl, InvSeq, Highest
<1>2. InvCount' /\ InvStore'
  BY DEF InvCount, InvStore, Entering, Mine
<1>3. InvOutside'
  BY DEF InvOutside, Entering, Before
<1>4. InvLogged'
  BY DEF InvLogged, Mine
<1>5. InvLast' /\ InvRevert'
  BY LastKept DEF InvRevert, Highest, LastCounted, Last, Before, Storing
<1>. QED BY <1>1, <1>2, <1>3, <1>4, <1>5

(* The fence of endTx(): the words of the transaction are in the medium,   *)
(* with their number, and become those of the last one.                    *)
LEMMA EndTxSyncInv ==
  ASSUME QuadraAssumption, QuadraInv, EndTxSync
  PROVE  QuadraInv'
<1>. USE LineFacts DEF QuadraInv, EndTxSync, Running, Quiet, Body, Ending
<1>1. v_seq \in Nat \ {0} /\ v_seq' - 1 = v_seq /\ v_seq' \in Nat \ {0} /\ v_log \subseteq Addr
  BY ParityFacts DEF RegionTypeOK
<1>2. ASSUME NEW a \in Addr
      PROVE  /\ pm[a] = cache[a] /\ pm[a].seq \in Nat /\ pm[a].seq <= v_seq
             /\ a \in v_log <=> pm[a].seq = v_seq
  BY DEF InvOutside, InvLogged, Entering, Fenced, InvSeq, RegionTypeOK, Persist
<1>4. \A a \in v_log : pm[a].count[Mine] = Cardinality(v_log)
  BY <1>1, <1>2 DEF InvCount, InvControl
<1>5. ASSUME v_log # {}, NEW n, n = v_seq PROVE Sound(n)'
  <2>1. Words(n)' = v_log
    BY <1>1, <1>2, <1>5 DEF Words
  <2>2. Counted(n)'
    BY <1>4, <1>5, <2>1 DEF Counted, Mine
  <2>. QED BY <1>1, <1>2, <1>5, <2>2 DEF Sound, Highest
<1>6. ASSUME v_log = {} PROVE \E s \in 0 .. v_seq - 1 : Sound(s)'
  <2>1. PICK s \in 0 .. v_seq - 1 : Sound(s)
    BY <1>2, <1>6 DEF InvLast
  <2>2. ~Storing
    BY <1>6 DEF Storing
  <2>3. Sound(s)'
    BY <2>1, <2>2 DEF Sound, Highest, Shares, Counted, Reverted, Words
  <2>. QED BY <2>3
<1>7. RegionTypeOK'
  BY <1>1 DEF RegionTypeOK
<1>8. InvControl'
  <2>1. PICK b \in Addr : Highest(pm[b].seq)
    BY DEF InvControl
  <2>. QED BY <2>1 DEF InvControl, Highest
<1>9. InvSeq'
  <2>1. \A a \in Addr : cache[a].seq \in Nat /\ cache[a].seq <= v_seq
    BY <1>2
  <2>2. v_seq' = v_seq + 1 /\ v_log' = {} /\ cache' = cache
    OBVIOUS
  <2>. QED BY <1>1, <2>1, <2>2 DEF InvSeq
<1>10. InvCount' /\ InvStore' /\ InvLogged'
  BY DEF InvCount, InvStore, InvLogged, Entering
<1>11. InvOutside'
  BY <1>2 DEF InvOutside
<1>12. InvLast' /\ InvRevert'
  <2>1. PICK n \in Nat : n = v_seq
    BY <1>1
  <2>2. n \in (0 .. v_seq - 1)' /\ \A s \in 0 .. v_seq - 1 : s \in (0 .. v_seq - 1)'
    BY <1>1, <2>1
  <2>. QED BY <1>5, <1>6, <2>1, <2>2 DEF InvLast, InvRevert
<1>. QED BY <1>7, <1>8, <1>9, <1>10, <1>11, <1>12

(* A write-back: the word arrives in the medium as loads see it.           *)
LEMMA EvictInv ==
  ASSUME QuadraAssumption, QuadraInv, MediumTypeOK, Evict
  PROVE  QuadraInv'
<1>. PICK l \in Line : WriteBack(l)
  BY DEF Evict
<1>. USE LineFacts DEF QuadraInv, Evict, WriteBack, engineVars, Running, Quiet, Body, Ending
<1>1. /\ cache' = cache /\ DOMAIN pm' = Line /\ pm'[l] = cache[l] /\ pwb' = pwb \ {l}
      /\ \A k \in Line \ {l} : pm'[k] = pm[k]
      /\ UNCHANGED <<file, pc, v_seq, v_log, todo, cur, store>>
  BY DEF RegionTypeOK
<1>2. \A a \in Addr : pm'[a] = pm[a] \/ (a = l /\ pm'[a] = cache[a])
  BY <1>1
<1>3. Mine' = Mine /\ Before' = Before /\ \A a : Entering(a)' <=> Entering(a)
  BY <1>1 DEF Mine, Before, Entering
<1>4. RegionTypeOK'
  BY <1>1, <1>2 DEF RegionTypeOK
<1>5. InvSeq' /\ InvCount' /\ InvStore'
  BY <1>1, <1>3 DEF InvSeq, InvCount, InvStore
<1>6. InvOutside'
  BY <1>1, <1>2, <1>3 DEF InvOutside
<1>7. InvLogged'
  <2>1. ASSUME NEW a \in v_log, pm'[a] = cache[a]
        PROVE  /\ cache[a].seq = v_seq /\ v_seq <= v_seq
               /\ pm'[a].count[Mine] = 0 \/ pc \in Ending
    BY <2>1 DEF InvSeq, InvCount, InvControl, RegionTypeOK
  <2>. QED BY <1>1, <1>2, <1>3, <2>1 DEF InvLogged, RegionTypeOK
<1>8. InvLast'
  <2>. SUFFICES ASSUME pc \in Running, \A a \in Addr : pm'[a].seq # v_seq
                PROVE  \E s \in 0 .. v_seq - 1 : Sound(s)'
    BY <1>1 DEF InvLast
  <2>1. ASSUME NEW a \in Addr
        PROVE  /\ pm'[a].seq = pm[a].seq /\ pm'[a].main = pm[a].main
               /\ pm'[a].count[Before] = pm[a].count[Before]
               /\ pm'[a].back = pm[a].back \/ pm'[a].back = pm'[a].main
               /\ ~Storing => pm'[a] = pm[a]
    BY <1>2 DEF InvOutside, InvSeq, InvStore, Entering, Storing
  <2>2. PICK s \in 0 .. v_seq - 1 : Sound(s)
    BY <2>1 DEF InvLast
  <2>3. Highest(s)' /\ Words(s)' = Words(s) /\ Shares(s)' = Shares(s)
    BY <1>1, <1>3, <2>1, <2>2 DEF Sound, Highest, Words, Shares, Storing
  <2>4. Reverted(s) => Reverted(s)'
    BY <2>1, <2>3 DEF Reverted, Words
  <2>5. Counted(s) => Counted(s)' \/ Shares(s)
    <3>1. s % 2 = Before \/ s % 2 = Mine
      BY DEF RegionTypeOK, Mine, Before
    <3>2. CASE s % 2 = Before
      BY <2>1, <2>3, <3>2 DEF Counted, Words
    <3>3. CASE s % 2 = Mine
      BY <2>1, <2>3, <3>3 DEF Counted, Words, Shares
    <3>. QED BY <3>1, <3>2, <3>3
  <2>. QED BY <2>2, <2>3, <2>4, <2>5 DEF Sound
<1>9. InvRevert'
  <2>. SUFFICES ASSUME pc = "revert" PROVE InvRevert'
    BY <1>1 DEF InvRevert
  <2>1. \A a \in Addr : pm'[a].seq = pm[a].seq /\ pm'[a].back = pm[a].back
                        /\ pm'[a].count = pm[a].count
    BY <1>2 DEF InvRevert
  <2>2. Last' = Last /\ (LastCounted' <=> LastCounted) /\ (Highest(v_seq - 1))'
    BY <1>1, <1>3, <2>1 DEF InvRevert, Last, LastCounted, Highest
  <2>. QED BY <1>1, <1>2, <2>1, <2>2 DEF InvRevert
<1>10. InvControl'
  <2>1. pc = "down" => pm' = pm
    BY <1>1, <1>2 DEF InvControl, MediumTypeOK
  <2>2. \E b \in Addr : (\A a \in Addr : pm'[a].seq <= pm'[b].seq)
    <3>1. PICK b \in Addr : Highest(pm[b].seq)
      BY DEF InvControl
    <3>2. CASE pc = "down"
      BY <2>1, <3>1, <3>2 DEF Highest
    <3>3. CASE pc = "revert"
      BY <1>9, <1>1, <3>3 DEF InvRevert, Highest
    <3>4. CASE pc \in Running /\ \A a \in Addr : pm'[a].seq # v_seq
      BY <1>8, <1>1, <3>4 DEF InvLast, Sound, Highest
    <3>5. CASE pc \in Running /\ \E a \in Addr : pm'[a].seq = v_seq
      <4>1. \A a \in Addr : pm'[a].seq <= v_seq
        BY <1>1, <1>6, <1>7, <1>5, <3>5 DEF InvOutside, InvLogged, InvSeq
      <4>. QED BY <3>5, <4>1
    <3>. QED BY <3>2, <3>3, <3>4, <3>5 DEF RegionTypeOK
  <2>3. \E b \in Addr : (Highest(pm[b].seq))'
    BY <2>2 DEF Highest
  <2>. QED BY <1>1, <2>1, <2>3 DEF InvControl
<1>. QED BY <1>4, <1>5, <1>6, <1>7, <1>8, <1>9, <1>10

LEMMA CrashInv ==
  ASSUME QuadraAssumption, QuadraInv, Crash
  PROVE  QuadraInv'
<1>. USE LineFacts DEF QuadraInv, Crash, PowerFailure, Running, Quiet, Body, Ending
<1>1. RegionTypeOK'
  BY DEF RegionTypeOK
<1>2. InvControl'
  BY DEF InvControl, Highest
<1>. QED BY <1>1, <1>2 DEF InvSeq, InvCount, InvStore, InvOutside, InvLogged, InvLast, InvRevert,
                           Entering

LEMMA CreatePstoreInv ==
  ASSUME QuadraAssumption, QuadraInv, CreatePstore
  PROVE  QuadraInv'
<1>1. CreateStores \in Seq(Addr \X Val) /\ cur \in 1 .. Len(CreateStores)
  BY DEF CreatePstore, QuadraInv, RegionTypeOK, QuadraAssumption
<1>2. CreateStores[cur] \in Addr \X Val
  BY <1>1
<1>3. CreateStores[cur][1] \in Addr /\ CreateStores[cur][2] \in Val
  BY <1>2
<1>. QED BY <1>3, PstoreBackInv, PstoreAgainInv DEF CreatePstore, Pstore

(* Only a write-back changes the medium.                                   *)
LEMMA MediumSteps ==
  ASSUME [Next]_vars, pm' # pm
  PROVE  Evict
<1>. USE DEF Store, StorePWB, PowerFailure
<1>1. CASE Open \/ Recover
  BY <1>1 DEF Open, OpenExisting, OpenNew, Recover, Revert, RevertDone
<1>2. CASE Create \/ UserPstore \/ FirstPstore
  BY <1>2 DEF Create, CreatePstore, CreateRoot, CreateId, CreateDone, UserPstore, Pstore,
              PstoreBack, PstoreAgain, FirstPstore, PstoreCount, PstoreSeq, PstoreMain
<1>3. CASE BeginTx \/ Nesting \/ Commit \/ Crash \/ UNCHANGED vars
  BY <1>3 DEF BeginTx, Nesting, BeginNestedTx, EndNestedTx, Commit, EndTx, EndTxCount,
              EndTxFlush, EndTxSync, Crash, vars
<1>. QED BY <1>1, <1>2, <1>3 DEF Next

LEMMA MediumType ==
  ASSUME QuadraAssumption, MediumTypeOK, [Next]_vars
  PROVE  MediumTypeOK'
<1>1. CASE pm' = pm
  BY <1>1 DEF MediumTypeOK
<1>2. CASE pm' # pm
  <2>1. PICK l \in Line : pm' = [pm EXCEPT ![l] = cache[l]]
    BY <1>2, MediumSteps DEF Evict, WriteBack
  <2>2. DOMAIN pm = Line
    BY DEF MediumTypeOK
  <2>. QED BY <2>1, <2>2 DEF MediumTypeOK
<1>. QED BY <1>1, <1>2

LEMMA NextInv ==
  ASSUME QuadraAssumption, QuadraInv, MediumTypeOK, [Next]_vars
  PROVE  QuadraInv'
<1>1. CASE Open \/ Recover
  BY <1>1, OpenExistingInv, OpenNewInv, RevertInv, RevertDoneInv DEF Open, Recover
<1>2. CASE Create
  BY <1>2, CreatePstoreInv, HeaderInv, ControlInv DEF Create
<1>3. CASE BeginTx \/ Nesting \/ UNCHANGED vars
  BY <1>3, ControlInv DEF Nesting
<1>4. CASE UserPstore
  BY <1>4, PstoreBackInv, PstoreAgainInv DEF UserPstore, Pstore
<1>5. CASE FirstPstore
  BY <1>5, PstoreCountInv, PstoreSeqInv, PstoreMainInv DEF FirstPstore
<1>6. CASE Commit
  BY <1>6, EndTxInv, EndTxCountInv, EndTxFlushInv, EndTxSyncInv DEF Commit
<1>7. CASE Evict \/ Crash
  BY <1>7, EvictInv, CrashInv
<1>. QED BY <1>1, <1>2, <1>3, <1>4, <1>5, <1>6, <1>7 DEF Next

(* Between transactions, in one, and at its end, the medium can be told    *)
(* apart from a torn one by the numbers that its words carry.              *)
THEOREM QuadraInvariant == QuadraAssumption => (Spec => [](QuadraInv /\ MediumTypeOK))
<1>. SUFFICES ASSUME QuadraAssumption PROVE Spec => [](QuadraInv /\ MediumTypeOK)
  OBVIOUS
<1>1. Init => QuadraInv /\ MediumTypeOK
  BY InitInv DEF Init, MediumTypeOK
<1>2. QuadraInv /\ MediumTypeOK /\ [Next]_vars => (QuadraInv /\ MediumTypeOK)'
  BY NextInv, MediumType
<1>. QED BY <1>1, <1>2, PTL DEF Spec
-----------------------------------------------------------------------------
(* What recovery makes of a medium whose highest number is s.              *)
LEMMA RecoveredFacts ==
  ASSUME RegionTypeOK, NEW s \in Nat, Highest(s)
  PROVE  LET T == {a \in Addr : pm[a].seq = s}
         IN  /\ LastTxCommitted(pm) <=> \A a \in T : pm[a].count[s % 2] = Cardinality(T)
             /\ \A a \in Addr : DurableMem[a] = IF a \in T /\ ~LastTxCommitted(pm)
                                                THEN pm[a].back ELSE pm[a].main
BY HighestFacts DEF LastTxCommitted, DurableMem, Recovered

(* The running transaction shares a count, by the highest number.          *)
LEMMA SharesFacts ==
  ASSUME RegionTypeOK, NEW s \in Nat, Highest(s)
  PROVE  SharesCount <=> s # v_seq /\ Shares(s)
BY HighestFacts DEF SharesCount, Shares, Storing, Mine

(* Before a word of the running transaction has reached the medium, a      *)
(* power failure would leave what the last one has.                        *)
LEMMA LastIsDurable ==
  ASSUME QuadraAssumption, QuadraInv, pc \in Running, \A a \in Addr : pm[a].seq # v_seq,
         ~SharesCount
  PROVE  \A a \in Addr : DurableMem[a] = pm[a].main
<1>1. PICK s \in 0 .. v_seq - 1 : Sound(s)
  BY DEF QuadraInv, InvLast
<1>2. s \in Nat /\ s # v_seq /\ Highest(s) /\ RegionTypeOK
  BY <1>1 DEF QuadraInv, RegionTypeOK, Sound
<1>3. Counted(s) \/ Reverted(s)
  BY <1>1, <1>2, SharesFacts DEF Sound
<1>4. LastTxCommitted(pm) <=> Counted(s)
  BY <1>2, RecoveredFacts DEF Counted, Words
<1>. QED BY <1>2, <1>3, <1>4, RecoveredFacts DEF Reverted, Words

(* Once some have, recovery takes it for committed when all of them are    *)
(* there with the count, and for a torn one otherwise.                     *)
LEMMA RunningIsTorn ==
  ASSUME QuadraAssumption, QuadraInv, pc \in Running, NEW x \in Addr, pm[x].seq = v_seq
  PROVE  LET T == {a \in Addr : pm[a].seq = v_seq}
         IN  /\ T \subseteq v_log
             /\ LastTxCommitted(pm) <=> Committed
             /\ \A a \in Addr : DurableMem[a] = IF a \in T /\ ~Committed
                                                THEN pm[a].back ELSE pm[a].main
<1>. DEFINE T == {a \in Addr : pm[a].seq = v_seq}
<1>. USE DEF QuadraInv
<1>1. T \subseteq v_log
  BY DEF InvOutside, InvSeq, Running, Quiet, Body, Ending
<1>2. v_seq \in Nat /\ Highest(v_seq)
  <2>1. \A a \in Addr : pm[a].seq <= v_seq
    BY DEF InvOutside, InvSeq, InvLogged, Running, Quiet, Body, Ending
  <2>. QED BY <2>1 DEF Highest, RegionTypeOK
<1>3. /\ LastTxCommitted(pm) <=> \A a \in T : pm[a].count[Mine] = Cardinality(T)
      /\ \A a \in Addr : DurableMem[a] = IF a \in T /\ ~LastTxCommitted(pm)
                                         THEN pm[a].back ELSE pm[a].main
  BY <1>2, RecoveredFacts DEF Mine
<1>4. ASSUME LastTxCommitted(pm) PROVE Committed
  <2>1. x \in T /\ Cardinality(T) # 0
    BY LogFacts
  <2>2. \A a \in T : /\ pc \in Ending /\ pm[a] = cache[a]
                     /\ cache[a].count[Mine] = Cardinality(T)
    BY <1>1, <1>3, <1>4, <2>1 DEF InvLogged
  <2>3. \A a \in T : a \notin todo /\ Cardinality(v_log) = Cardinality(T)
    BY <1>1, <2>1, <2>2 DEF InvCount
  <2>4. T = v_log
    BY <1>1, <2>1, <2>3, LogFacts DEF RegionTypeOK
  <2>. QED BY <2>1, <2>2, <2>3, <2>4 DEF Committed, InvControl, Ending
<1>5. ASSUME Committed PROVE LastTxCommitted(pm)
  <2>1. \A a \in v_log : pm[a] = cache[a] /\ cache[a].seq = v_seq
    BY <1>5 DEF Committed, InvSeq, RegionTypeOK, Running, Quiet, Body, Ending
  <2>2. T = v_log
    BY <1>1, <2>1 DEF RegionTypeOK
  <2>3. \A a \in v_log : cache[a].count[Mine] = Cardinality(v_log)
    BY <1>5 DEF Committed, InvCount, Ending
  <2>. QED BY <1>3, <2>1, <2>2, <2>3
<1>. QED BY <1>1, <1>3, <1>4, <1>5

(* A power failure in a transaction that is not committed leaves what was  *)
(* there when it began: back of the words of the log, main of the others.  *)
LEMMA UncommittedIsUndone ==
  ASSUME QuadraAssumption, QuadraInv, pc \in Running, ~Committed, ~SharesCount, NEW a \in Addr
  PROVE  DurableMem[a] = IF a \in v_log THEN cache[a].back ELSE cache[a].main
<1>1. CASE \A b \in Addr : pm[b].seq # v_seq
  BY <1>1, LastIsDurable DEF QuadraInv, InvOutside, InvLogged
<1>2. CASE \E b \in Addr : pm[b].seq = v_seq
  <2>. DEFINE T == {b \in Addr : pm[b].seq = v_seq}
  <2>1. T \subseteq v_log /\ DurableMem[a] = IF a \in T THEN pm[a].back ELSE pm[a].main
    BY <1>2, RunningIsTorn
  <2>. QED BY <2>1 DEF QuadraInv, InvOutside, InvLogged
<1>. QED BY <1>1, <1>2

(* And in one that is, what it has stored.                                 *)
LEMMA CommittedIsDurable ==
  ASSUME QuadraAssumption, QuadraInv, Committed
  PROVE  DurableMem = VolatileMem
<1>1. pc \in Ending /\ pc \in Running /\ v_log \subseteq Addr
  BY DEF QuadraInv, Committed, RegionTypeOK, Ending, Running
<1>2. \A b \in Addr : /\ pm[b].main = cache[b].main
                      /\ pm[b].seq = v_seq <=> b \in v_log
  BY <1>1 DEF Committed, QuadraInv, InvSeq, InvOutside, Ending
<1>3. \A a \in Addr : DurableMem[a] = pm[a].main
  <2>1. CASE v_log # {}
    BY <1>1, <1>2, <2>1, RunningIsTorn
  <2>2. CASE v_log = {}
    BY <1>1, <1>2, <2>2, LastIsDurable DEF SharesCount, Ending
  <2>. QED BY <2>1, <2>2
<1>. QED BY <1>2, <1>3 DEF DurableMem, VolatileMem, Recovered

(* In a recovery under way, what it will make of the region.               *)
LEMMA RevertIsDurable ==
  ASSUME QuadraAssumption, QuadraInv, pc = "revert", NEW a \in Addr
  PROVE  DurableMem[a] = IF a \in Last THEN pm[a].back ELSE pm[a].main
<1>1. v_seq - 1 \in Nat /\ Highest(v_seq - 1) /\ ~LastCounted
  BY DEF QuadraInv, InvRevert, RegionTypeOK
<1>2. LastTxCommitted(pm) <=> LastCounted
  BY <1>1, RecoveredFacts DEF QuadraInv, LastCounted, Last, Before
<1>. QED BY <1>1, <1>2, RecoveredFacts DEF QuadraInv, Last

(* What updateTx() and the constructor have returned from is what a power  *)
(* failure would leave (endTx: "Transaction commits (is now durable)"),    *)
(* in a region with any number of words, whatever the order in which the   *)
(* processor writes them back.                                             *)
THEOREM AcknowledgedIsDurable == QuadraAssumption => (Spec => []IdleIsDurable)
<1>. SUFFICES ASSUME QuadraAssumption PROVE Spec => []IdleIsDurable
  OBVIOUS
<1>1. QuadraInv => IdleIsDurable
  <2>. SUFFICES ASSUME QuadraInv, pc = "idle" PROVE DurableMem = VolatileMem
    BY DEF IdleIsDurable
  <2>1. pc \in Running /\ ~Committed /\ v_log = {} /\ ~SharesCount
    BY DEF QuadraInv, InvControl, Committed, SharesCount, Running, Quiet, Body, Ending
  <2>2. \A a \in Addr : DurableMem[a] = cache[a].main
    BY <2>1, UncommittedIsUndone
  <2>. QED BY <2>2 DEF DurableMem, VolatileMem, Recovered
<1>. QED BY <1>1, QuadraInvariant, PTL
-----------------------------------------------------------------------------
(* What a power failure would leave, by what loads see.                    *)
DurableFacts ==
  /\ Committed => DurableMem = VolatileMem
  /\ pc \in Running /\ ~Committed /\ ~SharesCount =>
       DurableMem = [a \in Addr |-> IF a \in v_log THEN cache[a].back ELSE cache[a].main]
  /\ pc = "revert" =>
       DurableMem = [a \in Addr |-> IF a \in Last THEN cache[a].back ELSE cache[a].main]

LEMMA WhatIsDurable ==
  ASSUME QuadraAssumption, QuadraInv
  PROVE  DurableFacts
<1>1. DurableMem = [a \in Addr |-> DurableMem[a]]
  BY DEF DurableMem, Recovered
<1>2. pc \in Running /\ ~Committed /\ ~SharesCount =>
        DurableMem = [a \in Addr |-> IF a \in v_log THEN cache[a].back ELSE cache[a].main]
  BY <1>1, UncommittedIsUndone
<1>3. ASSUME pc = "revert"
      PROVE  \A a \in Addr : DurableMem[a] = IF a \in Last THEN cache[a].back ELSE cache[a].main
  BY <1>3, RevertIsDurable DEF QuadraInv, InvRevert
<1>4. pc = "revert" =>
        DurableMem = [a \in Addr |-> IF a \in Last THEN cache[a].back ELSE cache[a].main]
  BY <1>1, <1>3
<1>. QED BY <1>2, <1>4, CommittedIsDurable DEF DurableFacts

LEMMA SameMedium == ASSUME pm' = pm PROVE DurableMem' = DurableMem
<1>1. HighestSeq(pm)' = HighestSeq(pm)
  BY DEF HighestSeq
<1>2. LastTx(pm)' = LastTx(pm)
  BY <1>1 DEF LastTx
<1>. QED BY <1>1, <1>2 DEF DurableMem, Recovered, LastTxCommitted

(* A write-back makes no transaction share a count.                        *)
LEMMA EvictShares ==
  ASSUME QuadraInv, QuadraInv', Evict, SharesCount'
  PROVE  SharesCount
<1>. USE DEF Evict, WriteBack, engineVars
<1>1. UNCHANGED <<cache, pc, v_log, v_seq, store>>
  OBVIOUS
<1>2. PICK b \in Addr : Highest(pm[b].seq)'
  BY DEF QuadraInv, InvControl
<1>. PICK s \in Nat : s = pm'[b].seq
  BY DEF QuadraInv, RegionTypeOK, Persist
<1>3. RegionTypeOK /\ RegionTypeOK' /\ Highest(s)'
  BY <1>2 DEF QuadraInv, Highest
<1>4. s # v_seq /\ Shares(s)'
  <2>1. HighestSeq(pm') = s
    BY <1>3 DEF HighestSeq, Highest, RegionTypeOK, Persist
  <2>. QED BY <1>1, <2>1 DEF SharesCount, Shares, Storing, Mine
<1>5. pc \in Running /\ v_log \subseteq Addr
  BY <1>1, <1>4 DEF Shares, Storing, QuadraInv, InvControl, RegionTypeOK, Running, Body, Ending
<1>6. \A a \in Addr : pm'[a] = pm[a] \/ pm'[a] = cache[a]
  BY <1>3 DEF RegionTypeOK
<1>7. \A a \in Addr : pm'[a].seq # v_seq
  <2>1. \A a \in Addr : pm'[a].seq <= v_seq
    BY <1>1, <1>5 DEF QuadraInv, InvOutside, InvLogged, InvSeq, Running, Quiet, Body, Ending
  <2>. QED BY <1>1, <1>3, <1>4, <2>1 DEF Highest, RegionTypeOK, Persist
<1>8. \A a \in Addr : pm'[a].seq = pm[a].seq
  BY <1>5, <1>6, <1>7 DEF QuadraInv, InvOutside, InvSeq, Running, Quiet, Body, Ending
<1>9. Highest(s) /\ Shares(s)
  BY <1>1, <1>3, <1>4, <1>8 DEF Highest, Shares, Storing, Mine
<1>. QED BY <1>3, <1>4, <1>9, SharesFacts

(* A write-back changes what is durable only by the commit of the running  *)
(* transaction, and then to what it has stored.                            *)
LEMMA EvictDurable ==
  ASSUME QuadraInv, QuadraInv', MediumTypeOK, DurableFacts, DurableFacts', Evict, ~SharesCount
  PROVE  /\ Committed => Committed'
         /\ DurableMem' = DurableMem \/ (~Committed /\ Committed')
         /\ Committed' => DurableMem' = VolatileMem
<1>. USE DEF Evict, WriteBack, engineVars
<1>1. cache' = cache /\ pc' = pc /\ v_log' = v_log /\ v_seq' = v_seq /\ todo' = todo
  OBVIOUS
<1>2. VolatileMem' = VolatileMem
  BY <1>1 DEF VolatileMem
<1>3. Committed => Committed'
  BY <1>1 DEF Committed, QuadraInv, RegionTypeOK
<1>4. Committed => DurableMem' = DurableMem
  BY <1>2, <1>3 DEF DurableFacts
<1>5. pc \in Running /\ ~Committed /\ ~Committed' => DurableMem' = DurableMem
  BY <1>1, EvictShares DEF DurableFacts
<1>6. ASSUME pc = "revert" PROVE DurableMem' = DurableMem
  <2>1. Last' = Last
    BY <1>1, <1>6 DEF Last, QuadraInv, InvRevert, RegionTypeOK
  <2>. QED BY <1>1, <1>6, <2>1 DEF DurableFacts
<1>7. ASSUME pc = "down" PROVE DurableMem' = DurableMem
  <2>1. pm' = pm
    BY <1>7 DEF QuadraInv, InvControl, MediumTypeOK
  <2>. QED BY <2>1, SameMedium
<1>8. Committed' => DurableMem' = VolatileMem
  BY <1>2 DEF DurableFacts
<1>9. pc = "revert" \/ pc = "down" \/ pc \in Running
  BY DEF QuadraInv, RegionTypeOK
<1>10. DurableMem' = DurableMem \/ (~Committed /\ Committed')
  BY <1>4, <1>5, <1>6, <1>7, <1>9
<1>. QED BY <1>3, <1>8, <1>10

LEMMA DurableAlways == QuadraAssumption => (Spec => []DurableFacts)
<1>. SUFFICES ASSUME QuadraAssumption PROVE Spec => []DurableFacts
  OBVIOUS
<1>1. QuadraInv => DurableFacts
  BY WhatIsDurable
<1>. QED BY <1>1, QuadraInvariant, PTL

(* Transactions are atomic: what a power failure would leave changes only  *)
(* by the commit of a transaction, when the last of its words reaches the  *)
(* medium with its count, and then to all that it has stored.  Opening,    *)
(* reverting and being cut short in it leave it as it was.  The one        *)
(* exception is in CommitStep: a step in a transaction that shares the     *)
(* count of the last one, which transactions without stores bring about.   *)
THEOREM TransactionsAreAtomic == QuadraAssumption => (Spec => [][CommitStep]_vars)
<1>. SUFFICES ASSUME QuadraAssumption PROVE Spec => [][CommitStep]_vars
  OBVIOUS
<1>1. /\ QuadraInv /\ QuadraInv' /\ MediumTypeOK /\ DurableFacts /\ DurableFacts' /\ [Next]_vars
      => [CommitStep]_vars
  <2>. SUFFICES ASSUME QuadraInv, QuadraInv', MediumTypeOK, DurableFacts, DurableFacts', [Next]_vars
                PROVE  CommitStep
    OBVIOUS
  <2>1. CASE pm' = pm
    BY <2>1, SameMedium DEF CommitStep
  <2>2. CASE pm' # pm
    BY <2>2, MediumSteps, EvictDurable DEF CommitStep
  <2>. QED BY <2>1, <2>2
<1>. QED BY <1>1, QuadraInvariant, DurableAlways, PTL DEF Spec
-----------------------------------------------------------------------------
(* The stores of the creating transaction to persist a, before the n-th.   *)
Stored(a, n) == {i \in DOMAIN CreateStores : i < n /\ CreateStores[i][1] = a}

(* How far the creation of the region has got, in the file that it has     *)
(* made itself: a region of a creation cut short is recovered, and never   *)
(* created again.                                                          *)
Header == [root : BOOLEAN, id : BOOLEAN]

InvMagic ==
  /\ file \in BOOLEAN /\ creating \in BOOLEAN /\ cache[pmd] \in Header /\ pm[pmd] \in Header
  /\ creating => pc \in Body \cup Ending \cup {"createRoot", "createId"}
  /\ pc \in {"createRoot", "createId"} => creating
  /\ ~file => /\ pc = "down" /\ cur = 1 /\ cache[pmd].id = FALSE
              /\ \A a \in Addr : cache[a].main = Zero
  /\ creating /\ pc # "createId" => cache[pmd].id = FALSE /\ pm[pmd].id = FALSE
  /\ pc = "createId" => cache[pmd].id = TRUE /\ (pm[pmd] = cache[pmd] \/ pmd \in pwb)
  /\ creating = FALSE => cache[pmd].id = pm[pmd].id

InvCreated ==
  creating =>
    /\ \A a \in Addr : Stored(a, cur) = {} => cache[a].main = Zero
    /\ \A a \in Addr : Stored(a, cur) # {} =>
         \E i \in Stored(a, cur) : /\ \A j \in Stored(a, cur) : j <= i
                                   /\ cache[a].main = CreateStores[i][2]
    /\ pc \in Body \ {"tx"} => /\ cur \in DOMAIN CreateStores
                               /\ store.addr = CreateStores[cur][1]
                               /\ store.val = CreateStores[cur][2]
    /\ pc \notin Body => cur = Len(CreateStores) + 2

LEMMA CreationInit == QuadraAssumption /\ Init => InvMagic /\ InvCreated
<1>. SUFFICES ASSUME QuadraAssumption, Init PROVE InvMagic /\ InvCreated
  OBVIOUS
<1>1. pm = cache /\ cache[pmd] = [root |-> FALSE, id |-> FALSE]
  BY LineFacts DEF Init, NewHeader
<1>2. \A a \in Addr : cache[a].main = Zero
  BY LineFacts DEF Init, NewPersist
<1>3. pc = "down" /\ file = FALSE /\ creating = FALSE /\ cur = 1
  BY DEF Init
<1>4. cache[pmd] \in Header /\ cache[pmd].id = FALSE
  BY <1>1 DEF Header
<1>5. InvMagic
  BY <1>1, <1>2, <1>3, <1>4 DEF InvMagic
<1>. QED BY <1>3, <1>5 DEF InvCreated

(* A store to a persist leaves the header alone. *)
LEMMA PersistStored ==
  ASSUME QuadraAssumption, RegionTypeOK, NEW b \in Addr, NEW c, cache' = [cache EXCEPT ![b] = c]
  PROVE  /\ cache'[pmd] = cache[pmd] /\ cache'[b] = c
         /\ \A a \in Addr \ {b} : cache'[a] = cache[a]
BY LineFacts, LineStored

LEMMA MainUntouched ==
  ASSUME QuadraAssumption, RegionTypeOK, NEW b \in Addr, NEW c, c.main = cache[b].main,
         cache' = [cache EXCEPT ![b] = c]
  PROVE  \A a \in Addr : cache'[a].main = cache[a].main
BY PersistStored

LEMMA CountKeepsMain ==
  ASSUME NEW p \in Persist, NEW i \in 0 .. 1, NEW n \in Nat
  PROVE  [p EXCEPT !.count[i] = n].main = p.main
BY CountStored

LEMMA MagicKept ==
  ASSUME InvMagic, file = TRUE, UNCHANGED <<pm, file, creating>>, cache'[pmd] = cache[pmd],
         pwb \subseteq pwb', pc # "createId", pc' \notin {"createRoot", "createId"},
         creating => pc' \in Body \cup Ending
  PROVE  InvMagic'
BY DEF InvMagic

LEMMA InUseFile == InvMagic /\ pc # "down" => file = TRUE
BY DEF InvMagic

LEMMA MagicNext ==
  ASSUME QuadraAssumption, QuadraInv, InvMagic, [Next]_vars
  PROVE  InvMagic'
<1>. RegionTypeOK
  BY DEF QuadraInv
<1>. USE LineFacts DEF Running, Quiet, Body, Ending
<1>0. pc # "down" => file = TRUE
  BY DEF InvMagic
<1>1. CASE Open
  <2>1. pc = "down" /\ creating = FALSE
    BY <1>1 DEF Open, OpenExisting, OpenNew, InvMagic
  <2>2. CASE OpenExisting
    <3>1. pc' \in {"idle", "revert"}
      BY <2>2 DEF OpenExisting
    <3>. QED BY <2>1, <2>2, <3>1 DEF OpenExisting, InvMagic
  <2>3. CASE OpenNew
    BY <2>1, <2>3 DEF OpenNew, InvMagic
  <2>. QED BY <1>1, <2>2, <2>3 DEF Open
<1>2. CASE Revert
  <2>1. PICK a \in todo : StorePWB(a, [cache[a] EXCEPT !.main = cache[a].back])
    BY <1>2 DEF Revert
  <2>2. a \in Addr
    BY DEF RegionTypeOK
  <2>3. cache'[pmd] = cache[pmd]
    BY <2>1, <2>2, PersistStored DEF StorePWB
  <2>. QED BY <1>0, <1>2, <2>1, <2>3 DEF Revert, StorePWB, InvMagic
<1>3. CASE RevertDone \/ BeginTx \/ Nesting
  BY <1>3 DEF RevertDone, BeginTx, Nesting, BeginNestedTx, EndNestedTx, InvMagic
<1>4. CASE \E a \in Addr, v \in Val : Pstore(a, v)
  <2>1. PICK a \in Addr, v \in Val : Pstore(a, v)
    BY <1>4
  <2>2. cache'[pmd] = cache[pmd]
    BY <2>1, PersistStored DEF Pstore, PstoreBack, PstoreAgain, Store
  <2>. QED BY <1>0, <2>1, <2>2, MagicKept DEF Pstore, PstoreBack, PstoreAgain, Store
<1>5. CASE CreateRoot
  <2>. DEFINE h == [cache[pmd] EXCEPT !.root = TRUE]
  <2>1. h \in Header /\ h.id = cache[pmd].id
    BY DEF InvMagic, Header
  <2>2. cache'[pmd] = h
    BY <1>5, LineStored DEF CreateRoot, Store
  <2>. HIDE DEF h
  <2>. QED BY <1>5, <2>1, <2>2, <1>0 DEF CreateRoot, Store, InvMagic
<1>6. CASE CreateId
  <2>. DEFINE h == [cache[pmd] EXCEPT !.id = TRUE]
  <2>1. h \in Header /\ h.id = TRUE
    BY DEF InvMagic, Header
  <2>2. cache'[pmd] = h
    BY <1>6, LineStored DEF CreateId, StorePWB
  <2>. HIDE DEF h
  <2>. QED BY <1>6, <2>1, <2>2, <1>0 DEF CreateId, StorePWB, InvMagic
<1>7. CASE CreateDone
  BY <1>7 DEF CreateDone, Fenced, InvMagic
<1>8. CASE FirstPstore
  <2>1. store.addr \in Addr
    BY <1>8 DEF FirstPstore, PstoreCount, PstoreSeq, PstoreMain, RegionTypeOK
  <2>2. cache'[pmd] = cache[pmd]
    BY <1>8, <2>1, PersistStored DEF FirstPstore, PstoreCount, PstoreSeq, PstoreMain, Store
  <2>. QED BY <1>0, <1>8, <2>2, MagicKept
           DEF FirstPstore, PstoreCount, PstoreSeq, PstoreMain, Store
<1>9. CASE EndTx \/ EndTxFlush
  BY <1>0, <1>9, MagicKept DEF EndTx, EndTxFlush
<1>10. CASE EndTxCount
  <2>1. PICK a \in todo : Store(a, [cache[a] EXCEPT !.count[v_seq % 2] = Cardinality(v_log)])
    BY <1>10 DEF EndTxCount
  <2>2. a \in Addr
    BY DEF RegionTypeOK
  <2>3. cache'[pmd] = cache[pmd]
    BY <2>1, <2>2, PersistStored DEF Store
  <2>. QED BY <1>0, <1>10, <2>1, <2>3, MagicKept DEF EndTxCount, Store
<1>11. CASE EndTxSync
  BY <1>0, <1>11 DEF EndTxSync, InvMagic
<1>12. CASE Evict
  <2>1. PICK l \in Line : WriteBack(l)
    BY <1>12 DEF Evict
  <2>2. cache' = cache /\ pm'[pmd] = (IF l = pmd THEN cache[pmd] ELSE pm[pmd])
    BY <2>1 DEF WriteBack, RegionTypeOK
  <2>3. pmd \in pwb => pmd \in pwb' \/ pm'[pmd] = cache[pmd]
    BY <2>1, <2>2 DEF WriteBack
  <2>. QED BY <1>12, <2>2, <2>3 DEF Evict, engineVars, InvMagic
<1>13. CASE Crash
  BY <1>13 DEF Crash, PowerFailure, InvMagic, QuadraInv, InvControl
<1>14. CASE UNCHANGED vars
  BY <1>14 DEF vars, InvMagic
<1>15. CASE CreatePstore
  <2>1. CreateStores \in Seq(Addr \X Val) /\ cur \in 1 .. Len(CreateStores)
    BY <1>15 DEF CreatePstore, RegionTypeOK, QuadraAssumption
  <2>2. CreateStores[cur] \in Addr \X Val
    BY <2>1
  <2>. QED BY <1>4, <1>15, <2>2 DEF CreatePstore
<1>. QED BY <1>1, <1>2, <1>3, <1>4, <1>5, <1>6, <1>7, <1>8, <1>9, <1>10, <1>11, <1>12, <1>13,
            <1>14, <1>15 DEF Next, Recover, Create, UserPstore, Commit

(* A step of the creating transaction that stores to no main.              *)
LEMMA CreationKept ==
  ASSUME InvCreated, UNCHANGED <<creating, cur>>, \A a \in Addr : cache'[a].main = cache[a].main,
         \/ pc' \in Body \ {"tx"} /\ pc \in Body \ {"tx"} /\ store' = store
         \/ /\ pc' \in Body \ {"tx"} /\ cur \in DOMAIN CreateStores
            /\ store'.addr = CreateStores[cur][1] /\ store'.val = CreateStores[cur][2]
         \/ pc' = "tx" /\ store' = store
         \/ pc' \notin Body /\ (creating => cur = Len(CreateStores) + 2)
  PROVE  InvCreated'
<1>1. \A a \in Addr : Stored(a, cur)' = Stored(a, cur)
  BY DEF Stored
<1>. QED BY <1>1 DEF InvCreated, Body, Stored

(* A store of the creating transaction to main.                            *)
LEMMA CreationStore ==
  ASSUME QuadraAssumption, RegionTypeOK, InvCreated, creating, cur \in 1 .. Len(CreateStores),
         NEW b \in Addr, NEW v \in Val, b = CreateStores[cur][1], v = CreateStores[cur][2],
         cache' = [cache EXCEPT ![b] = [cache[b] EXCEPT !.main = v]],
         cur' = cur + 1, pc' = "tx"
  PROVE  InvCreated'
<1>0. cur \in Nat /\ DOMAIN CreateStores = 1 .. Len(CreateStores)
  BY DEF RegionTypeOK, QuadraAssumption
<1>1. /\ cache'[b].main = v
      /\ \A a \in Addr \ {b} : cache'[a].main = cache[a].main
  <2>. DEFINE c == [cache[b] EXCEPT !.main = v]
  <2>1. c.main = v
    BY MainStored DEF RegionTypeOK
  <2>2. cache' = [cache EXCEPT ![b] = c]
    OBVIOUS
  <2>. HIDE DEF c
  <2>3. cache'[b] = c /\ \A a \in Addr \ {b} : cache'[a] = cache[a]
    BY <2>2, PersistStored
  <2>. QED BY <2>1, <2>3
<1>2. ASSUME NEW a \in Addr \ {b} PROVE Stored(a, cur + 1) = Stored(a, cur)
  BY <1>0 DEF Stored
<1>3. cur \in Stored(b, cur + 1) /\ \A j \in Stored(b, cur + 1) : j <= cur
  BY <1>0 DEF Stored
<1>4. \A a \in Addr : Stored(a, cur)' = Stored(a, cur + 1)
  BY DEF Stored
<1>5. ASSUME NEW a \in Addr, Stored(a, cur + 1) = {} PROVE cache'[a].main = Zero
  BY <1>1, <1>2, <1>3, <1>5 DEF InvCreated
<1>6. ASSUME NEW a \in Addr, Stored(a, cur + 1) # {}
      PROVE  \E k \in Stored(a, cur + 1) : /\ \A j \in Stored(a, cur + 1) : j <= k
                                           /\ cache'[a].main = CreateStores[k][2]
  <2>1. CASE a = b
    BY <1>1, <1>3, <2>1
  <2>2. CASE a # b
    <3>1. \E k \in Stored(a, cur) : /\ \A j \in Stored(a, cur) : j <= k
                                    /\ cache[a].main = CreateStores[k][2]
      BY <1>2, <1>6, <2>2 DEF InvCreated
    <3>. QED BY <1>1, <1>2, <2>2, <3>1
  <2>. QED BY <2>1, <2>2
<1>. QED BY <1>4, <1>5, <1>6 DEF InvCreated, Stored, Body

(* The store under way of the creating transaction is the cur-th.          *)
LEMMA CreateStoreType ==
  ASSUME QuadraAssumption, RegionTypeOK, cur <= Len(CreateStores)
  PROVE  /\ cur \in 1 .. Len(CreateStores) /\ cur \in DOMAIN CreateStores
         /\ CreateStores[cur][1] \in Addr /\ CreateStores[cur][2] \in Val
<1>1. CreateStores \in Seq(Addr \X Val) /\ cur \in 1 .. Len(CreateStores)
  BY DEF RegionTypeOK, QuadraAssumption
<1>2. CreateStores[cur] \in Addr \X Val
  BY <1>1
<1>. QED BY <1>1, <1>2

LEMMA CreatedNext ==
  ASSUME QuadraAssumption, QuadraInv, InvMagic, InvCreated, [Next]_vars
  PROVE  InvCreated'
<1>. RegionTypeOK
  BY DEF QuadraInv
<1>. USE LineFacts
<1>1. CASE OpenExisting \/ Revert \/ RevertDone \/ BeginTx \/ CreateDone \/ Crash
  BY <1>1 DEF OpenExisting, Revert, RevertDone, BeginTx, CreateDone, Crash, InvMagic, InvCreated,
              Body, Ending
<1>2. CASE OpenNew
  <2>1. cur = 1 /\ \A a \in Addr : cache[a].main = Zero
    BY <1>2 DEF OpenNew, InvMagic
  <2>2. \A a \in Addr : Stored(a, cur)' = {}
    BY <1>2, <2>1 DEF OpenNew, Stored, QuadraAssumption
  <2>. QED BY <1>2, <2>1, <2>2 DEF OpenNew, InvCreated, Body, Stored
<1>3. CASE CreatePstore
  <2>. DEFINE b == CreateStores[cur][1]
              v == CreateStores[cur][2]
  <2>1. cur \in 1 .. Len(CreateStores) /\ cur \in DOMAIN CreateStores /\ b \in Addr /\ v \in Val
    BY <1>3, CreateStoreType DEF CreatePstore
  <2>2. CASE PstoreBack(b, v)
    <3>1. \A a \in Addr : cache'[a].main = cache[a].main
      BY <2>1, <2>2, PersistStored, BackStored DEF PstoreBack, Store, RegionTypeOK
    <3>. QED BY <2>1, <2>2, <3>1, CreationKept DEF PstoreBack, Store, Body
  <2>3. CASE PstoreAgain(b, v)
    BY <1>3, <2>1, <2>3, CreationStore DEF CreatePstore, PstoreAgain, Store
  <2>. QED BY <1>3, <2>2, <2>3 DEF CreatePstore, Pstore
<1>4. CASE UserPstore
  BY <1>4 DEF UserPstore, Pstore, PstoreBack, PstoreAgain, InvCreated, InvMagic
<1>5. CASE PstoreCount \/ PstoreSeq
  <2>1. store.addr \in Addr /\ cache[store.addr] \in Persist /\ v_seq \in Nat /\ v_seq % 2 \in 0 .. 1
    BY <1>5, ParityFacts DEF PstoreCount, PstoreSeq, RegionTypeOK, Body
  <2>2. /\ [cache[store.addr] EXCEPT !.count[v_seq % 2] = 0].main = cache[store.addr].main
        /\ [cache[store.addr] EXCEPT !.seq = v_seq].main = cache[store.addr].main
    BY <2>1, CountKeepsMain, SeqStored
  <2>3. CASE PstoreCount
    <3>1. \A a \in Addr : cache'[a].main = cache[a].main
      BY <2>1, <2>2, <2>3, MainUntouched DEF PstoreCount, Store
    <3>. QED BY <2>3, <3>1, CreationKept DEF PstoreCount, Store, Body
  <2>4. CASE PstoreSeq
    <3>1. \A a \in Addr : cache'[a].main = cache[a].main
      BY <2>1, <2>2, <2>4, MainUntouched DEF PstoreSeq, Store
    <3>. QED BY <2>4, <3>1, CreationKept DEF PstoreSeq, Store, Body
  <2>. QED BY <1>5, <2>3, <2>4
<1>6. CASE PstoreMain
  <2>1. CASE creating
    <3>1. /\ cur \in DOMAIN CreateStores /\ store.addr = CreateStores[cur][1]
          /\ store.val = CreateStores[cur][2] /\ store.addr \in Addr /\ store.val \in Val
      BY <1>6, <2>1 DEF PstoreMain, InvCreated, RegionTypeOK, Body
    <3>2. cur \in 1 .. Len(CreateStores)
      BY <3>1 DEF QuadraAssumption
    <3>. QED BY <1>6, <2>1, <3>1, <3>2, CreationStore DEF PstoreMain, Store
  <2>2. CASE ~creating
    BY <1>6, <2>2 DEF PstoreMain, InvCreated
  <2>. QED BY <2>1, <2>2
<1>7. CASE CreateRoot
  <2>1. \A b \in Addr : cache'[b] = cache[b]
    BY <1>7, LineStored DEF CreateRoot, Store
  <2>2. \A a \in Addr : Stored(a, cur)' = Stored(a, cur)
    BY <1>7 DEF CreateRoot, Stored, QuadraAssumption
  <2>. QED BY <1>7, <2>1, <2>2 DEF CreateRoot, Store, InvCreated, Body, Stored
<1>8. CASE CreateId
  <2>1. \A b \in Addr : cache'[b] = cache[b]
    BY <1>8, LineStored DEF CreateId, StorePWB
  <2>. QED BY <1>8, <2>1, CreationKept DEF CreateId, StorePWB, InvCreated, Body
<1>9. CASE EndTx \/ EndTxFlush \/ EndTxSync
  BY <1>9, CreationKept DEF EndTx, EndTxFlush, EndTxSync, InvCreated, Body
<1>10. CASE EndTxCount
  <2>1. PICK a \in todo : Store(a, [cache[a] EXCEPT !.count[v_seq % 2] = Cardinality(v_log)])
    BY <1>10 DEF EndTxCount
  <2>2. /\ a \in Addr /\ cache[a] \in Persist /\ v_seq % 2 \in 0 .. 1
        /\ Cardinality(v_log) \in Nat
    BY ParityFacts, LogFacts DEF RegionTypeOK
  <2>3. [cache[a] EXCEPT !.count[v_seq % 2] = Cardinality(v_log)].main = cache[a].main
    BY <2>2, CountKeepsMain
  <2>4. \A b \in Addr : cache'[b].main = cache[b].main
    BY <2>1, <2>2, <2>3, MainUntouched DEF Store
  <2>. QED BY <1>10, <2>4, CreationKept DEF EndTxCount, Store, InvCreated, Body
<1>11. CASE Nesting \/ Evict \/ UNCHANGED vars
  <2>1. cache' = cache /\ UNCHANGED <<creating, cur, pc, store>>
    BY <1>11 DEF Nesting, BeginNestedTx, EndNestedTx, Evict, WriteBack, engineVars, vars
  <2>. QED BY <2>1 DEF InvCreated, Stored
<1>. QED BY <1>1, <1>2, <1>3, <1>4, <1>5, <1>6, <1>7, <1>8, <1>9, <1>10, <1>11
         DEF Next, Open, Recover, Create, FirstPstore, Commit

(* All stores of the creating transaction done, the region holds what      *)
(* InitMem says.                                                           *)
LEMMA CreatedMem ==
  ASSUME QuadraAssumption, InvCreated, creating, pc \notin Body
  PROVE  VolatileMem = InitMem
<1>. SUFFICES ASSUME NEW a \in Addr PROVE VolatileMem[a] = InitMem[a]
  BY DEF VolatileMem, InitMem
<1>. DEFINE stores == {i \in DOMAIN CreateStores : CreateStores[i][1] = a}
<1>1. stores = Stored(a, cur)
  BY DEF Stored, InvCreated, QuadraAssumption
<1>2. CASE stores = {}
  BY <1>1, <1>2 DEF VolatileMem, InitMem, InvCreated
<1>3. CASE stores # {}
  <2>1. PICK i \in stores : (\A j \in stores : j <= i) /\ cache[a].main = CreateStores[i][2]
    BY <1>1, <1>3 DEF InvCreated
  <2>2. \A k \in stores : k \in Nat
    BY DEF QuadraAssumption
  <2>3. \A k \in stores : (\A j \in stores : j <= k) => k = i
    BY <2>1, <2>2
  <2>4. (CHOOSE k \in stores : \A j \in stores : j <= k) = i
    BY <2>1, <2>3
  <2>. QED BY <1>3, <2>1, <2>4 DEF VolatileMem, InitMem
<1>. QED BY <1>2, <1>3
-----------------------------------------------------------------------------
Abstract == INSTANCE DurableStore WITH mem <- StoreMem, work <- StoreWork,
                                       phase <- StorePhase

InUse == pm[pmd].id = TRUE /\ creating = FALSE /\ pc \in Running

(* What StorePhase and StoreWork say, case by case. *)
PhaseFacts ==
  /\ ~InUse => StorePhase = "down" /\ StoreWork = StoreMem
  /\ InUse => StoreWork = VolatileMem /\ StoreMem = DurableMem
  /\ InUse /\ pc = "idle" => StorePhase = "idle"
  /\ InUse /\ Committed => StorePhase = "durable"
  /\ InUse /\ pc # "idle" /\ ~Committed => StorePhase = "active"

LEMMA PhaseOf == RegionTypeOK /\ InvMagic => PhaseFacts
<1>. SUFFICES ASSUME RegionTypeOK, InvMagic PROVE PhaseFacts
  OBVIOUS
<1>1. pm[pmd].id \in BOOLEAN /\ creating \in BOOLEAN
  BY DEF InvMagic, Header
<1>2. pc \in Running \/ pc \in {"down", "revert"}
  BY DEF RegionTypeOK
<1>3. pc \in Running => pc \notin {"down", "revert"}
  BY DEF Running, Quiet, Body, Ending
<1>4. CASE ~InUse
  <2>1. ~pm[pmd].id \/ creating \/ pc \in {"down", "revert"}
    BY <1>1, <1>2, <1>4 DEF InUse
  <2>2. StorePhase = "down"
    BY <2>1 DEF StorePhase
  <2>. QED BY <1>4, <2>2 DEF PhaseFacts, StoreWork
<1>5. CASE InUse
  <2>1. pm[pmd].id /\ ~creating /\ pc \notin {"down", "revert"}
    BY <1>1, <1>3, <1>5 DEF InUse
  <2>2. StoreMem = DurableMem
    BY <2>1 DEF StoreMem
  <2>3. CASE pc = "idle"
    <3>1. StorePhase = "idle"
      BY <2>1, <2>3 DEF StorePhase, Committed
    <3>. QED BY <1>5, <2>2, <2>3, <3>1 DEF PhaseFacts, StoreWork, Committed
  <2>4. CASE pc # "idle" /\ Committed
    <3>1. StorePhase = "durable"
      BY <2>1, <2>4 DEF StorePhase
    <3>. QED BY <1>5, <2>2, <2>4, <3>1 DEF PhaseFacts, StoreWork
  <2>5. CASE pc # "idle" /\ ~Committed
    <3>1. StorePhase = "active"
      BY <2>1, <2>5 DEF StorePhase
    <3>. QED BY <1>5, <2>2, <2>5, <3>1 DEF PhaseFacts, StoreWork
  <2>. QED BY <2>3, <2>4, <2>5
<1>. QED BY <1>4, <1>5

LEMMA SameMem == ASSUME pm' = pm PROVE StoreMem' = StoreMem
BY SameMedium DEF StoreMem, InitMem

LEMMA SameWork ==
  ASSUME \A a \in Addr : cache'[a].main = cache[a].main
  PROVE  VolatileMem' = VolatileMem
BY DEF VolatileMem

Abs == Abstract!Next \/ UNCHANGED <<StoreMem, StoreWork, StorePhase>>

(* The step between two states of which all of this is known. *)
Known == /\ QuadraInv /\ MediumTypeOK /\ InvMagic /\ InvCreated
         /\ DurableFacts /\ PhaseFacts

(* A step of the constructor, or of recovery, that goes on. *)
LEMMA DownStep ==
  ASSUME Known, Known', ~InUse, ~InUse', pm' = pm
  PROVE  Abs
BY SameMem DEF Known, PhaseFacts, Abs

(* The region is open. *)
LEMMA OpenStep ==
  ASSUME Known, Known', ~InUse, pc' = "idle", pm' = pm
  PROVE  Abs
<1>1. CASE ~InUse'
  BY <1>1, DownStep
<1>2. CASE InUse'
  <2>1. (v_log = {} /\ ~Committed /\ ~SharesCount /\ pc \in Running)'
    BY DEF Known, QuadraInv, InvControl, Committed, SharesCount, Running, Quiet, Body, Ending
  <2>2. DurableMem' = VolatileMem'
    BY <2>1 DEF Known, DurableFacts, VolatileMem
  <2>3. /\ StorePhase = "down" /\ StorePhase' = "idle"
        /\ StoreWork' = StoreMem /\ StoreMem' = StoreMem
    BY <1>2, <2>2, SameMem DEF Known, PhaseFacts
  <2>. QED BY <2>3 DEF Abs, Abstract!Next, Abstract!Open
<1>. QED BY <1>1, <1>2

(* A step inside of a transaction that stores to no main. *)
LEMMA ActiveStep ==
  ASSUME Known, Known', InUse, InUse', pm' = pm, pc # "idle", pc' # "idle",
         Committed' <=> Committed, \A a \in Addr : cache'[a].main = cache[a].main
  PROVE  Abs
BY SameMem, SameWork DEF Known, PhaseFacts, Abs

(* The abstract store may write one value to any set of words. *)
LEMMA WriteStep ==
  ASSUME QuadraAssumption, Known, Known', InUse, InUse', pm' = pm, pc \in Body, pc' \in Body,
         NEW b \in Addr, NEW v \in Val,
         cache' = [cache EXCEPT ![b] = [cache[b] EXCEPT !.main = v]]
  PROVE  Abs
<1>. RegionTypeOK
  BY DEF Known, QuadraInv
<1>1. StorePhase = "active" /\ StorePhase' = "active" /\ StoreMem' = StoreMem
  BY SameMem DEF Known, PhaseFacts, Committed, Body
<1>2. StoreWork = VolatileMem /\ StoreWork' = VolatileMem'
  BY DEF Known, PhaseFacts
<1>3. \A a \in Addr : cache'[a].main = IF a \in {b} THEN v ELSE cache[a].main
  <2>. DEFINE c == [cache[b] EXCEPT !.main = v]
  <2>1. c.main = v
    BY MainStored DEF RegionTypeOK
  <2>2. cache' = [cache EXCEPT ![b] = c]
    OBVIOUS
  <2>. HIDE DEF c
  <2>3. cache'[b] = c /\ \A a \in Addr \ {b} : cache'[a] = cache[a]
    BY <2>2, PersistStored
  <2>. QED BY <2>1, <2>3
<1>4. VolatileMem' = [a \in Addr |-> IF a \in {b} THEN v ELSE VolatileMem[a]]
  BY <1>3 DEF VolatileMem
<1>5. {b} \in SUBSET Addr
  OBVIOUS
<1>6. StoreWork' = [a \in Addr |-> IF a \in {b} THEN v ELSE StoreWork[a]]
  BY <1>2, <1>4
<1>7. \E S \in SUBSET Addr, w \in Val :
        StoreWork' = [a \in Addr |-> IF a \in S THEN w ELSE StoreWork[a]]
  BY <1>5, <1>6
<1>8. Abstract!Write
  BY <1>1, <1>7 DEF Abstract!Write
<1>. QED BY <1>8 DEF Abs, Abstract!Next

LEMMA EvictImplements ==
  ASSUME QuadraAssumption, Known, Known', Evict, ~SharesCount
  PROVE  Abs
<1>. PICK l \in Line : WriteBack(l)
  BY DEF Evict
<1>. USE LineFacts
<1>1. cache' = cache /\ pc' = pc /\ creating' = creating /\ v_log' = v_log
  BY DEF Evict, WriteBack, engineVars
<1>2. VolatileMem' = VolatileMem /\ InitMem' = InitMem
  BY <1>1 DEF VolatileMem, InitMem
<1>3. pm'[pmd] = pm[pmd] \/ (l = pmd /\ pm'[pmd] = cache[pmd])
  BY DEF WriteBack, Known, QuadraInv, RegionTypeOK
<1>4. pm[pmd].id \in BOOLEAN /\ cache[pmd].id \in BOOLEAN
  BY DEF Known, InvMagic, Header
<1>5. /\ Committed => Committed'
      /\ DurableMem' = DurableMem \/ (~Committed /\ Committed')
      /\ Committed' => DurableMem' = VolatileMem
  BY EvictDurable DEF Known
<1>6. CASE pm'[pmd].id # pm[pmd].id
  <2>1. creating = TRUE /\ pm[pmd].id = FALSE /\ pc = "createId" /\ pm'[pmd].id = TRUE
    BY <1>3, <1>4, <1>6 DEF Known, InvMagic
  <2>2. ~InUse /\ ~InUse'
    BY <1>1, <2>1 DEF InUse
  <2>3. VolatileMem = InitMem
    BY <2>1, CreatedMem DEF Known, Body
  <2>4. v_log = {} /\ pc \in Running /\ ~Committed' /\ ~SharesCount'
    BY <1>1, <2>1 DEF Known, QuadraInv, InvControl, Committed, SharesCount,
                      Running, Quiet, Body, Ending
  <2>5. DurableMem' = VolatileMem'
    BY <1>1, <2>4 DEF Known, DurableFacts, VolatileMem
  <2>6. StoreMem' = StoreMem
    BY <1>2, <2>1, <2>3, <2>5 DEF StoreMem
  <2>. QED BY <2>2, <2>6 DEF Known, PhaseFacts, Abs
<1>7. CASE pm'[pmd].id = pm[pmd].id
  <2>1. InUse' <=> InUse
    BY <1>1, <1>7 DEF InUse
  <2>2. CASE DurableMem' = DurableMem /\ (Committed' <=> Committed)
    <3>1. StoreMem' = StoreMem
      BY <1>2, <1>7, <2>2 DEF StoreMem
    <3>. QED BY <1>1, <1>2, <2>1, <2>2, <3>1 DEF Known, PhaseFacts, Abs
  <2>3. CASE ~Committed /\ Committed'
    <3>1. pc \in Ending
      BY <1>1, <2>3 DEF Committed, Ending
    <3>2. CASE InUse
      <4>1. /\ StorePhase = "active" /\ StorePhase' = "durable"
            /\ StoreMem' = StoreWork /\ StoreWork' = StoreWork
        BY <1>1, <1>2, <1>5, <2>1, <2>3, <3>1, <3>2 DEF Known, PhaseFacts, Ending
      <4>. QED BY <4>1 DEF Abs, Abstract!Next, Abstract!Commit
    <3>3. CASE ~InUse
      <4>1. pm[pmd].id = FALSE
        BY <1>4, <3>1, <3>3 DEF InUse, Known, InvMagic, Running, Ending
      <4>2. StoreMem' = StoreMem
        BY <1>2, <1>7, <4>1 DEF StoreMem
      <4>. QED BY <2>1, <3>3, <4>2 DEF Known, PhaseFacts, Abs
    <3>. QED BY <3>2, <3>3
  <2>. QED BY <1>5, <2>2, <2>3
<1>. QED BY <1>6, <1>7

(* The steps of pstore(). *)
LEMMA StoreSteps ==
  ASSUME QuadraAssumption, Known, Known', CreatePstore \/ UserPstore \/ FirstPstore
  PROVE  Abs
<1>. RegionTypeOK
  BY DEF Known, QuadraInv
<1>. USE LineFacts
<1>1. /\ pm' = pm /\ creating' = creating
      /\ pc \in Body /\ pc' \in Body /\ Body \subseteq Running /\ ~Committed /\ ~Committed'
  BY DEF CreatePstore, UserPstore, Pstore, PstoreBack, PstoreAgain, FirstPstore, PstoreCount,
         PstoreSeq, PstoreMain, Store, Committed, Body, Running
<1>2. InUse' <=> InUse
  BY <1>1 DEF InUse
<1>3. CASE ~InUse
  BY <1>1, <1>2, <1>3, DownStep
<1>4. CASE InUse /\ UserPstore
  <2>1. PICK a \in Addr, v \in Val : PstoreBack(a, v) \/ PstoreAgain(a, v)
    BY <1>4 DEF UserPstore, Pstore
  <2>2. CASE PstoreBack(a, v)
    <3>1. \A b \in Addr : cache'[b].main = cache[b].main
      BY <2>2, MainUntouched, BackStored DEF PstoreBack, Store, RegionTypeOK
    <3>. QED BY <1>1, <1>2, <1>4, <3>1, ActiveStep DEF Body
  <2>3. CASE PstoreAgain(a, v)
    BY <1>1, <1>2, <1>4, <2>3, WriteStep DEF PstoreAgain, Store
  <2>. QED BY <2>1, <2>2, <2>3
<1>5. CASE InUse /\ (PstoreCount \/ PstoreSeq)
  <2>1. store.addr \in Addr /\ cache[store.addr] \in Persist /\ v_seq \in Nat /\ v_seq % 2 \in 0 .. 1
    BY <1>5, ParityFacts DEF PstoreCount, PstoreSeq, RegionTypeOK, Body
  <2>2. /\ [cache[store.addr] EXCEPT !.count[v_seq % 2] = 0].main = cache[store.addr].main
        /\ [cache[store.addr] EXCEPT !.seq = v_seq].main = cache[store.addr].main
    BY <2>1, CountKeepsMain, SeqStored
  <2>3. PstoreCount => \A b \in Addr : cache'[b].main = cache[b].main
    BY <2>1, <2>2, MainUntouched DEF PstoreCount, Store
  <2>4. PstoreSeq => \A b \in Addr : cache'[b].main = cache[b].main
    BY <2>1, <2>2, MainUntouched DEF PstoreSeq, Store
  <2>5. pc # "idle" /\ pc' # "idle"
    BY <1>1 DEF Body
  <2>. QED BY <1>1, <1>2, <1>5, <2>3, <2>4, <2>5, ActiveStep
<1>6. CASE InUse /\ PstoreMain
  <2>1. store.addr \in Addr /\ store.val \in Val
    BY <1>6 DEF PstoreMain, RegionTypeOK, Body
  <2>. QED BY <1>1, <1>2, <1>6, <2>1, WriteStep DEF PstoreMain, Store
<1>7. CASE InUse /\ CreatePstore
  BY <1>7 DEF InUse, CreatePstore
<1>. QED BY <1>3, <1>4, <1>5, <1>6, <1>7 DEF FirstPstore

(* The steps of endTx(): the count that it stores into a word is not yet   *)
(* in the medium, so none of them commits a transaction that has stored    *)
(* something; the last one returns.                                        *)
LEMMA CommitSteps ==
  ASSUME QuadraAssumption, Known, Known', Commit
  PROVE  Abs
<1>. RegionTypeOK
  BY DEF Known, QuadraInv
<1>. USE LineFacts
<1>1. /\ pm' = pm /\ creating' = creating /\ pc # "idle"
      /\ pc \in Running /\ pc' \in Running
  BY DEF Commit, EndTx, EndTxCount, EndTxFlush, EndTxSync, Store, Running, Quiet, Body, Ending
<1>2. InUse' <=> InUse
  BY <1>1 DEF InUse
<1>3. CASE ~InUse
  BY <1>1, <1>2, <1>3, DownStep
<1>4. CASE InUse /\ EndTx
  <2>1. /\ ~Committed /\ pc' # "idle" /\ cache' = cache
        /\ Committed' => v_log = {}
    BY <1>4 DEF EndTx, Committed
  <2>2. CASE ~Committed'
    BY <1>1, <1>2, <1>4, <2>1, <2>2, ActiveStep
  <2>3. CASE Committed'
    <3>1. StorePhase = "active" /\ StorePhase' = "durable"
      BY <1>1, <1>2, <1>4, <2>1, <2>3 DEF Known, PhaseFacts
    <3>2. StoreWork' = StoreWork /\ StoreMem' = StoreWork
      <4>1. DurableMem' = VolatileMem' /\ VolatileMem' = VolatileMem
        BY <2>1, <2>3, SameWork DEF Known, DurableFacts
      <4>. QED BY <1>2, <1>4, <4>1 DEF Known, PhaseFacts
    <3>. QED BY <3>1, <3>2 DEF Abs, Abstract!Next, Abstract!Commit
  <2>. QED BY <2>2, <2>3
<1>5. CASE InUse /\ EndTxCount
  <2>1. PICK a \in todo : /\ Store(a, [cache[a] EXCEPT !.count[v_seq % 2] = Cardinality(v_log)])
                          /\ todo' = todo \ {a}
    BY <1>5 DEF EndTxCount
  <2>. DEFINE c == [cache[a] EXCEPT !.count[v_seq % 2] = Cardinality(v_log)]
  <2>2. /\ a \in Addr /\ a \in v_log /\ cache[a] \in Persist /\ v_seq % 2 \in 0 .. 1
        /\ Cardinality(v_log) \in Nat /\ Cardinality(v_log) # 0
    BY <1>5, ParityFacts, LogFacts DEF EndTxCount, RegionTypeOK, Known, QuadraInv, InvControl, Ending
  <2>3. c.main = cache[a].main
    BY <2>2, CountKeepsMain
  <2>4. \A b \in Addr : cache'[b].main = cache[b].main
    BY <2>1, <2>2, <2>3, MainUntouched DEF Store
  <2>5. ~Committed
    BY <2>1 DEF Committed
  <2>6. ~Committed'
    <3>1. pc' = "count" /\ v_log' = v_log /\ v_seq' = v_seq /\ Mine' = Mine
      BY <1>5 DEF EndTxCount, Mine
    <3>2. cache'[a].seq = v_seq /\ cache'[a].count[Mine] = Cardinality(v_log)
      BY <2>1, <2>2, <3>1 DEF Known, QuadraInv, InvSeq, InvCount, Ending
    <3>3. ASSUME pm[a] = cache'[a] PROVE FALSE
      <4>1. pm[a] = cache[a]
        BY <1>5, <2>2, <3>2, <3>3 DEF EndTxCount, Known, QuadraInv, InvLogged, Ending
      <4>2. cache[a].count[Mine] = 0
        BY <1>5, <2>1, <2>2 DEF EndTxCount, Known, QuadraInv, InvCount, Ending
      <4>. QED BY <2>2, <3>2, <3>3, <4>1, <4>2
    <3>. QED BY <1>1, <2>2, <3>1, <3>3 DEF Committed
  <2>7. pc' # "idle"
    BY <1>5 DEF EndTxCount
  <2>. QED BY <1>1, <1>2, <1>5, <2>4, <2>5, <2>6, <2>7, ActiveStep
<1>6. CASE InUse /\ EndTxFlush
  <2>1. pc' # "idle" /\ (Committed' <=> Committed)
    BY <1>6 DEF EndTxFlush, Committed
  <2>. QED BY <1>1, <1>2, <1>6, <2>1, ActiveStep DEF EndTxFlush
<1>7. CASE InUse /\ EndTxSync
  <2>1. pc = "sync" /\ pc' = "idle" /\ cache' = cache
    BY <1>7 DEF EndTxSync, InUse
  <2>2. Committed
    BY <1>7, <2>1 DEF EndTxSync, Fenced, Committed, Known, QuadraInv, InvLogged, InvControl
  <2>3. /\ StorePhase = "durable" /\ StorePhase' = "idle"
        /\ StoreWork' = StoreWork /\ StoreMem' = StoreMem
    BY <1>1, <1>2, <1>7, <2>1, <2>2, SameMem, SameWork DEF Known, PhaseFacts
  <2>. QED BY <2>3 DEF Abs, Abstract!Next, Abstract!Return
<1>. QED BY <1>3, <1>4, <1>5, <1>6, <1>7 DEF Commit

(* Every step of the engine is a step of the abstract store, or none. *)
LEMMA StepImplements ==
  ASSUME QuadraAssumption, Known, Known', [Next]_vars, ~SharesCount
  PROVE  Abs
<1>1. CASE OpenExisting
  <2>1. ~InUse /\ pm' = pm /\ pc' \in {"idle", "revert"}
    BY <1>1 DEF OpenExisting, InUse, Running, Quiet, Body, Ending
  <2>2. CASE pc' = "idle"
    BY <2>1, <2>2, OpenStep
  <2>3. CASE pc' = "revert"
    BY <2>1, <2>3, DownStep DEF InUse, Running, Quiet, Body, Ending
  <2>. QED BY <2>1, <2>2, <2>3
<1>2. CASE OpenNew \/ Revert \/ CreateRoot \/ CreateId
  <2>1. pm' = pm
    BY <1>2 DEF OpenNew, Revert, CreateRoot, CreateId, Store, StorePWB
  <2>2. (OpenNew => creating' /\ pc = "down") /\ (Revert => pc = "revert" /\ pc' = "revert")
    BY DEF OpenNew, Revert
  <2>3. CreateRoot \/ CreateId => creating /\ creating'
    BY DEF CreateRoot, CreateId, Known, InvMagic
  <2>4. ~InUse /\ ~InUse'
    BY <1>2, <2>2, <2>3 DEF InUse, Running, Quiet, Body, Ending
  <2>. QED BY <2>1, <2>4, DownStep
<1>3. CASE RevertDone \/ CreateDone
  <2>1. ~InUse
    BY <1>3 DEF RevertDone, CreateDone, Known, InvMagic, InUse, Running, Quiet, Body, Ending
  <2>. QED BY <1>3, <2>1, OpenStep DEF RevertDone, CreateDone
<1>4. CASE CreatePstore \/ UserPstore \/ FirstPstore
  BY <1>4, StoreSteps
<1>5. CASE Commit
  BY <1>5, CommitSteps
<1>6. CASE BeginTx
  <2>1. pm' = pm /\ cache' = cache /\ pc = "idle" /\ pc' = "tx" /\ creating' = creating
    BY <1>6 DEF BeginTx
  <2>2. (InUse' <=> InUse) /\ ~Committed'
    BY <2>1 DEF InUse, Running, Quiet, Body, Committed
  <2>3. CASE InUse
    <3>1. /\ StorePhase = "idle" /\ StorePhase' = "active"
          /\ StoreWork' = StoreWork /\ StoreMem' = StoreMem
      BY <2>1, <2>2, <2>3, SameMem, SameWork DEF Known, PhaseFacts
    <3>. QED BY <3>1 DEF Abs, Abstract!Next, Abstract!Begin
  <2>4. CASE ~InUse
    BY <2>1, <2>2, <2>4, DownStep
  <2>. QED BY <2>3, <2>4
<1>7. CASE Nesting
  <2>1. pm' = pm /\ cache' = cache /\ pc = "tx" /\ pc' = "tx" /\ creating' = creating
    BY <1>7 DEF Nesting, BeginNestedTx, EndNestedTx
  <2>2. (InUse' <=> InUse) /\ ~Committed /\ ~Committed'
    BY <2>1 DEF InUse, Committed
  <2>3. CASE InUse
    BY <2>1, <2>2, <2>3, ActiveStep
  <2>4. CASE ~InUse
    BY <2>1, <2>2, <2>4, DownStep
  <2>. QED BY <2>3, <2>4
<1>8. CASE Evict
  BY <1>8, EvictImplements
<1>9. CASE Crash
  <2>1. ~InUse' /\ StoreMem' = StoreMem
    BY <1>9, SameMem DEF Crash, PowerFailure, InUse, Running, Quiet, Body, Ending
  <2>2. StorePhase' = "down" /\ StoreWork' = StoreMem
    BY <2>1 DEF Known, PhaseFacts
  <2>. QED BY <2>1, <2>2 DEF Abs, Abstract!Next, Abstract!Crash
<1>10. CASE UNCHANGED vars
  <2>1. StoreMem' = StoreMem /\ VolatileMem' = VolatileMem
    BY <1>10, SameMem, SameWork DEF vars
  <2>2. (InUse' <=> InUse) /\ (Committed' <=> Committed) /\ pc' = pc
    BY <1>10 DEF vars, InUse, Committed
  <2>. QED BY <2>1, <2>2 DEF Known, PhaseFacts, Abs
<1>. QED BY <1>1, <1>2, <1>3, <1>4, <1>5, <1>6, <1>7, <1>8, <1>9, <1>10
         DEF Next, Open, Recover, Create

LEMMA InitImplements == QuadraAssumption /\ Init => Abstract!Init
<1>. SUFFICES ASSUME QuadraAssumption, Init PROVE Abstract!Init
  OBVIOUS
<1>1. pm[pmd].id = FALSE /\ ~InUse
  BY LineFacts DEF Init, NewHeader, InUse
<1>2. StoreMem = InitMem
  BY <1>1 DEF StoreMem
<1>3. PhaseFacts
  BY InitInv, CreationInit, PhaseOf DEF QuadraInv
<1>. QED BY <1>1, <1>2, <1>3 DEF PhaseFacts, Abstract!Init

(* Quadra implements DurableStore: with one fence for each transaction,    *)
(* creation once complete leaves the initial contents, recovery those of   *)
(* the last commit, and a transaction returns only once it is durable (the *)
(* README's "durable linearizable (ACID) transactions").  It does so in    *)
(* every behaviour in which no transaction shares the count of the last    *)
(* one, whatever else it is that the transactions do.                      *)
THEOREM QuadraImplements == QuadraAssumption => (Spec /\ []~SharesCount => Abstract!Spec)
<1>. SUFFICES ASSUME QuadraAssumption PROVE Spec /\ []~SharesCount => Abstract!Spec
  OBVIOUS
<1>1. Init => InvMagic /\ InvCreated
  BY CreationInit
<1>2. QuadraInv /\ InvMagic /\ InvCreated /\ [Next]_vars => (InvMagic /\ InvCreated)'
  BY MagicNext, CreatedNext
<1>3. QuadraInv /\ InvMagic => PhaseFacts
  BY PhaseOf DEF QuadraInv
<1>4. QuadraInv /\ MediumTypeOK /\ InvMagic /\ InvCreated /\ DurableFacts /\ PhaseFacts => Known
  BY DEF Known
<1>5. Spec => []Known
  BY <1>1, <1>2, <1>3, <1>4, QuadraInvariant, DurableAlways, PTL DEF Spec
<1>6. Known /\ Known' /\ ~SharesCount /\ [Next]_vars => [Abstract!Next]_Abstract!storeVars
  BY StepImplements DEF Abs, Abstract!storeVars
<1>7. Init => Abstract!Init
  BY InitImplements
<1>. QED BY <1>5, <1>6, <1>7, PTL DEF Spec, Abstract!Spec

(* The programs for which that is so without further ado: when every       *)
(* transaction that endTx() commits has stored something, the last one in  *)
(* the medium is the one before the running one.                           *)
InvAllStore ==
  /\ pc \in Ending => v_log # {}
  /\ pc \in Running /\ (\A a \in Addr : pm[a].seq # v_seq) => Highest(v_seq - 1)

LEMMA AllStoreNext ==
  ASSUME QuadraAssumption, QuadraInv, QuadraInv', InvAllStore, [Next]_vars,
         EndTx => v_log # {}
  PROVE  InvAllStore'
<1>. USE DEF QuadraInv, Running, Quiet, Body, Ending
<1>1. CASE Evict
  <2>1. UNCHANGED <<cache, pc, v_log, v_seq>> /\ (pc \in Ending => v_log # {})
    BY <1>1 DEF Evict, WriteBack, engineVars, InvAllStore
  <2>2. ASSUME pc \in Running, \A a \in Addr : pm'[a].seq # v_seq
        PROVE  (Highest(v_seq - 1))'
    <3>1. \A a \in Addr : pm'[a].seq = pm[a].seq
      BY <1>1, <2>1, <2>2 DEF Evict, WriteBack, InvOutside, InvSeq, RegionTypeOK
    <3>. QED BY <2>1, <2>2, <3>1 DEF InvAllStore, Highest
  <2>. QED BY <2>1, <2>2 DEF InvAllStore
<1>2. CASE OpenExisting
  <2>1. PICK b \in Addr : Highest(pm[b].seq)
    BY DEF InvControl
  <2>2. pm[b].seq \in Nat /\ cache = pm
    BY <1>2 DEF RegionTypeOK, Persist, InvControl, OpenExisting
  <2>3. v_seq' = pm[b].seq + 1 /\ pm' = pm
    BY <1>2, <2>1, <2>2, HighestFacts DEF OpenExisting
  <2>4. (v_seq - 1)' = pm[b].seq
    BY <2>2, <2>3
  <2>5. (Highest(v_seq - 1))'
    BY <2>1, <2>3, <2>4 DEF Highest
  <2>. QED BY <1>2, <2>5 DEF OpenExisting, InvAllStore
<1>3. CASE OpenNew
  <2>1. v_seq' = 1 /\ pc' = "tx" /\ \A a \in Addr : pm'[a].seq = 0
    BY <1>3 DEF OpenNew, InvControl
  <2>2. PICK b \in Addr : Highest(pm[b].seq)
    BY DEF InvControl
  <2>3. (v_seq - 1)' = 0 /\ Highest(0)'
    BY <2>1, <2>2 DEF Highest
  <2>. QED BY <2>1, <2>3 DEF InvAllStore, Highest
<1>4. CASE RevertDone
  BY <1>4 DEF RevertDone, InvRevert, InvAllStore, Highest
<1>5. CASE EndTxSync
  <2>1. v_seq \in Nat /\ v_seq' - 1 = v_seq /\ pm' = pm /\ pc' \notin Ending
    BY <1>5 DEF EndTxSync, RegionTypeOK
  <2>2. ASSUME NEW a \in Addr
        PROVE  pm[a].seq <= v_seq /\ (a \in v_log => pm[a].seq = v_seq)
    BY <1>5 DEF EndTxSync, InvOutside, InvLogged, Entering, Fenced, InvSeq
  <2>3. v_log # {} /\ v_log \subseteq Addr
    BY <1>5 DEF EndTxSync, InvAllStore, RegionTypeOK
  <2>. QED BY <2>1, <2>2, <2>3 DEF InvAllStore, Highest
<1>6. CASE Crash
  BY <1>6 DEF Crash, InvAllStore
<1>7. ASSUME pm' = pm, v_seq' = v_seq, pc' \in Running => pc \in Running,
             pc' \in Ending => (pc \in Ending /\ v_log' = v_log) \/ v_log' # {}
      PROVE  InvAllStore'
  BY <1>7 DEF InvAllStore, Highest
<1>8. CASE Revert \/ CreatePstore \/ UserPstore \/ FirstPstore
  BY <1>7, <1>8 DEF Revert, CreatePstore, UserPstore, Pstore, PstoreBack, PstoreAgain, FirstPstore,
                    PstoreCount, PstoreSeq, PstoreMain, Store, StorePWB
<1>9. CASE BeginTx \/ Nesting \/ EndTx \/ EndTxCount \/ EndTxFlush \/ UNCHANGED vars
  BY <1>7, <1>9 DEF BeginTx, Nesting, BeginNestedTx, EndNestedTx, EndTx, EndTxCount, EndTxFlush,
                    Store, vars
<1>10. CASE CreateRoot \/ CreateId \/ CreateDone
  BY <1>7, <1>10 DEF CreateRoot, CreateId, CreateDone, Store, StorePWB
<1>. QED BY <1>1, <1>2, <1>3, <1>4, <1>5, <1>6, <1>8, <1>9, <1>10
         DEF Next, Open, Recover, Create, Commit

LEMMA AllStoreShares ==
  ASSUME QuadraInv, InvAllStore
  PROVE  ~SharesCount
<1>. SUFFICES ASSUME SharesCount PROVE FALSE
  OBVIOUS
<1>1. PICK b \in Addr : Highest(pm[b].seq)
  BY DEF QuadraInv, InvControl
<1>2. pm[b].seq \in Nat /\ RegionTypeOK /\ v_seq \in Nat \ {0}
  BY DEF QuadraInv, RegionTypeOK, Persist
<1>3. pm[b].seq # v_seq /\ Shares(pm[b].seq)
  BY <1>1, <1>2, SharesFacts
<1>4. pc \in Running
  BY <1>2, <1>3 DEF Shares, Storing, QuadraInv, InvControl, RegionTypeOK, Running, Body, Ending
<1>5. \A a \in Addr : pm[a].seq <= v_seq
  BY <1>2, <1>4 DEF QuadraInv, InvOutside, InvLogged, InvSeq, Running, Quiet, Body, Ending
<1>6. \A a \in Addr : pm[a].seq # v_seq
  BY <1>1, <1>2, <1>3, <1>5 DEF Highest, RegionTypeOK, Persist
<1>7. pm[b].seq = v_seq - 1
  BY <1>1, <1>2, <1>4, <1>6 DEF InvAllStore, Highest, RegionTypeOK, Persist
<1>. QED BY <1>2, <1>3, <1>7 DEF Shares, Mine

(* Programs whose outermost update transactions all store something get    *)
(* from Quadra what DurableStore promises: seq moves on in endTx() whether *)
(* the log has entries or not, and it is the only transactions without any *)
(* that make two others share a count.                                     *)
THEOREM StoringImplements ==
  QuadraAssumption => (Spec /\ [][EndTx => v_log # {}]_vars => Abstract!Spec)
<1>. SUFFICES ASSUME QuadraAssumption
              PROVE  Spec /\ [][EndTx => v_log # {}]_vars => Abstract!Spec
  OBVIOUS
<1>1. Init => InvAllStore
  BY DEF Init, InvAllStore, Running, Quiet, Body, Ending
<1>2. /\ QuadraInv /\ QuadraInv' /\ InvAllStore
      /\ [Next]_vars /\ [EndTx => v_log # {}]_vars
      => InvAllStore'
  <2>1. UNCHANGED vars => ~EndTx
    BY DEF vars, EndTx
  <2>. QED BY <2>1, AllStoreNext
<1>3. QuadraInv /\ InvAllStore => ~SharesCount
  BY AllStoreShares
<1>4. Spec /\ [][EndTx => v_log # {}]_vars => []~SharesCount
  BY <1>1, <1>2, <1>3, QuadraInvariant, PTL DEF Spec
<1>. QED BY <1>4, QuadraImplements, PTL
-----------------------------------------------------------------------------
(***************************************************************************)
(* TrinityVR, for every number and size of lines, every set of values,     *)
(* every creating transaction and all ranges, those that share a line or   *)
(* lie across several included: the invariant of recovery with its         *)
(* replica, what follows from it, and that TrinityVR implements            *)
(* DurableStore.  TypeOK, Down, IsDurable and the names that end in VR are *)
(* those of this part.                                                     *)
(***************************************************************************)
(* What each part of the state looks like.  A line is typed by its number: *)
(* main and back hold the words of that line.                              *)
LineType(l) == [main : [V!WordsOf(l) -> Val], back : [V!WordsOf(l) -> Val], seq : Nat]
HeaderVR == [root : BOOLEAN, id : BOOLEAN, p_seq : Nat]

PC == {"down", "recover", "recoverSeq", "idle", "tx", "flush", "flushSeq", "flushMain",
       "sync", "createRoot", "createId"}

LinesAndHeader(mem) ==
  /\ mem = [l \in V!Line |-> mem[l]]
  /\ mem[V!pmd] \in HeaderVR
  /\ \A l \in V!PCL : mem[l] \in LineType(l)

(* The shape of the state. *)
TypeOK ==
  /\ LinesAndHeader(cache) /\ LinesAndHeader(pm)
  /\ pwb \subseteq V!Line
  /\ pc \in PC /\ creating \in BOOLEAN
  /\ nested \in Nat /\ cur \in Nat \ {0}
  /\ vr \in [V!Addr -> Val]
  /\ v_log \in Seq(Range_)
  /\ todo \subseteq (Nat \X V!PCL)

-----------------------------------------------------------------------------
(* The invariant of storeRange(), endTx(), recover() and creation.         *)

Recovering == pc \in {"recover", "recoverSeq"}
Flushing   == pc \in {"flush", "flushSeq", "flushMain"}
Installed  == pc \in {"sync", "createRoot", "createId"}  \* p_seq has moved on

Pending(l) == \E x \in todo : x[2] = l
Logged(l)  == \E i \in DOMAIN v_log : l \in V!LinesOf(v_log[i])

(* The line between two of whose stores the loop under way stands. *)
Busy(l) == /\ pc \in {"recoverSeq", "flushSeq", "flushMain"}
           /\ \E x \in todo : V!IsNext(x) /\ x[2] = l

(* The lines that the creating transaction stores to. *)
CreateLines == UNION {V!LinesOf(CreateStores[i][1]) : i \in DOMAIN CreateStores}

InvControlVR ==
  /\ pc = "down" => cache = pm /\ pwb = {} /\ ~creating /\ cur = 1
  /\ creating => pc = "tx" \/ Flushing \/ Installed
  /\ creating => V!p_seq = IF Installed THEN 2 ELSE 1
  /\ creating => cur <= Len(CreateStores) + 2
  /\ creating /\ pc # "tx" => cur = Len(CreateStores) + 2
  /\ pc \in {"createRoot", "createId"} => creating
  /\ creating => (cache[V!pmd].id <=> pc = "createId")
  /\ cache[V!pmd].id => V!p_seq > 1
  /\ ~cache[V!pmd].id => creating \/ pc = "down"
  /\ ~Recovering /\ ~Flushing => todo = {}
  /\ pc \in {"down", "idle", "createRoot", "createId"} \/ Recovering => v_log = <<>>

(* The header in the medium is the one in the cache, or one commit behind  *)
(* it; while the region is being created it has no MAGIC_ID.               *)
InvHeader ==
  /\ pm[V!pmd].id => \/ pm[V!pmd] = cache[V!pmd]
                     \/ /\ pc = "sync" /\ ~creating /\ V!p_seq > 2
                        /\ pm[V!pmd] = [cache[V!pmd] EXCEPT !.p_seq = V!p_seq - 1]
  /\ ~pm[V!pmd].id => creating \/ pc = "down"
  /\ V!pmd \notin pwb => pm[V!pmd] = cache[V!pmd] \/ (creating /\ ~Installed)

(* No line is of a transaction that has yet to begin. *)
InvSeqVR ==
  LET last == IF pc = "down" /\ ~cache[V!pmd].id THEN 1 ELSE V!p_seq
  IN  \A l \in V!PCL : cache[l].seq <= last /\ pm[l].seq <= last

(* A line behind the cache has its PWB issued, or the loop under way has   *)
(* yet to visit it or is at it; and once the region exists, each line      *)
(* recovers to the same words from the medium as from the cache.           *)
InvLines ==
  \A l \in V!PCL :
    /\ \/ l \in pwb \/ Busy(l) \/ pm[l] = cache[l]
       \/ creating /\ pc = "tx" /\ l \in CreateLines
       \/ creating /\ Flushing /\ Pending(l) /\ cache[l].seq # V!p_seq
    /\ ~Installed /\ ~creating => V!Recovered(pm[l], V!p_seq) = V!Recovered(cache[l], V!p_seq)

(* What each program point knows of the lines. *)
InvPoint ==
  /\ Recovering => /\ \A x \in todo : x[1] = 0
                   /\ \A l \in V!PCL : cache[l].seq = V!p_seq <=> Pending(l)
  /\ pc = "recoverSeq" => \A l \in V!PCL : Busy(l) => cache[l].main = cache[l].back
  /\ pc = "flushSeq"   => \A l \in V!PCL : Busy(l) => /\ cache[l].seq # V!p_seq
                                                      /\ cache[l].back = cache[l].main
  /\ pc = "flushMain"  => \A l \in V!PCL : Busy(l) => cache[l].seq = V!p_seq
  /\ Installed \/ pc \in {"idle", "tx"} => /\ pwb \subseteq {V!pmd}
                                           /\ \A l \in V!PCL : cache[l].seq < V!p_seq
  /\ pc = "idle" => pwb = {}

(* The main of a line is what the replica holds, unless the log or the     *)
(* loop over it has the line still to visit.                               *)
InvReplica ==
  \A l \in V!PCL :
    \/ pc = "down" \/ Recovering
    \/ pc = "tx" /\ Logged(l)
    \/ Flushing /\ Pending(l) /\ (cache[l].seq # V!p_seq \/ Busy(l))
    \/ cache[l].main = V!Contents(l)

(* The stores of the creating transaction to word a, before the n-th. *)
StoredVR(a, n) == {i \in DOMAIN CreateStores : i < n /\ a \in CreateStores[i][1]}

(* How far the creation of the region has got.  An attempt that a power    *)
(* failure cut short leaves its marks on the lines that the next one will  *)
(* flush again, and on no other.                                           *)
InvCreation ==
  /\ creating \/ (pc = "down" /\ ~cache[V!pmd].id)
       => \A l \in V!PCL : l \in CreateLines \/ (cache[l] = V!ZeroLines[l] /\ pm[l] = V!ZeroLines[l])
  /\ creating /\ pc = "tx" =>
       /\ Len(v_log) = IF cur <= Len(CreateStores) THEN cur - 1 ELSE Len(CreateStores)
       /\ \A i \in DOMAIN v_log : v_log[i] = CreateStores[i][1]
  /\ creating /\ Flushing => \A l \in V!PCL : Pending(l) => l \in CreateLines
  /\ creating => \A a \in V!Addr :
       \/ StoredVR(a, cur) = {} /\ vr[a] = Zero
       \/ \E i \in StoredVR(a, cur) : /\ \A j \in StoredVR(a, cur) : j <= i
                                      /\ vr[a] = CreateStores[i][2]

ReplicaInv == /\ InvControlVR /\ InvHeader /\ InvSeqVR /\ InvLines /\ InvPoint
              /\ InvReplica /\ InvCreation
-----------------------------------------------------------------------------
(* A word lies in a line of the region, and a line is not the header. *)
LEMMA LineOfWord ==
  ASSUME V!ReplicaAssumption, NEW a \in V!Addr
  PROVE  V!LineOf(a) \in V!PCL
<1>. DEFINE W == WordsPerLine
            q == (a - 1) \div W
<1>1. W \in Nat \ {0} /\ NumLines \in Nat /\ a \in Int /\ 1 <= a /\ a <= NumLines * W
  BY DEF V!ReplicaAssumption, V!Addr
<1>2. q \in Int /\ W * q <= a - 1 /\ a - 1 < W * (q + 1)
  BY <1>1
<1>3. 0 <= q /\ q < NumLines
  BY <1>1, <1>2
<1>. QED BY <1>3, <1>2, <1>1 DEF V!LineOf, V!PCL

LEMMA LineFactsVR ==
  ASSUME V!ReplicaAssumption
  PROVE  V!pmd \in V!Line /\ V!pmd \notin V!PCL /\ V!PCL \subseteq V!Line /\ V!PCL \subseteq Nat
BY DEF V!ReplicaAssumption, V!Line, V!PCL, V!pmd

(* A range is not empty and lies in lines of the region. *)
LEMMA RangeFacts ==
  ASSUME V!ReplicaAssumption, NEW range \in Range_
  PROVE  range \subseteq V!Addr /\ V!LinesOf(range) \subseteq V!PCL
BY LineOfWord DEF V!ReplicaAssumption, V!LinesOf

LEMMA WordFacts ==
  /\ \A l \in V!PCL : \A a \in V!WordsOf(l) : a \in V!Addr /\ V!LineOf(a) = l
  /\ \A a \in V!Addr : a \in V!WordsOf(V!LineOf(a))
BY DEF V!WordsOf

LEMMA CreateStoreTypeVR ==
  ASSUME V!ReplicaAssumption, NEW i \in DOMAIN CreateStores
  PROVE  i \in Nat /\ CreateStores[i][1] \in Range_ /\ CreateStores[i][2] \in Val
<1>1. CreateStores \in Seq(Range_ \X Val)
  BY DEF V!ReplicaAssumption
<1>2. CreateStores[i] \in Range_ \X Val /\ i \in Nat
  BY <1>1
<1>. QED BY <1>2

LEMMA CreateCount ==
  ASSUME V!ReplicaAssumption
  PROVE  Len(CreateStores) \in Nat /\ DOMAIN CreateStores = 1 .. Len(CreateStores)
BY DEF V!ReplicaAssumption

-----------------------------------------------------------------------------
(* The fields of a line, and what a store to one of them does. *)
LEMMA LineFields ==
  ASSUME NEW l \in V!PCL, NEW c \in LineType(l)
  PROVE  /\ c.main \in [V!WordsOf(l) -> Val] /\ c.back \in [V!WordsOf(l) -> Val] /\ c.seq \in Nat
BY DEF LineType

LEMMA SetMain ==
  ASSUME NEW l \in V!PCL, NEW c \in LineType(l), NEW w \in [V!WordsOf(l) -> Val]
  PROVE  /\ [c EXCEPT !.main = w] \in LineType(l)
         /\ [c EXCEPT !.main = w].main = w
         /\ [c EXCEPT !.main = w].back = c.back
         /\ [c EXCEPT !.main = w].seq = c.seq
BY DEF LineType

LEMMA SetBack ==
  ASSUME NEW l \in V!PCL, NEW c \in LineType(l), NEW w \in [V!WordsOf(l) -> Val]
  PROVE  /\ [c EXCEPT !.back = w] \in LineType(l)
         /\ [c EXCEPT !.back = w].main = c.main
         /\ [c EXCEPT !.back = w].back = w
         /\ [c EXCEPT !.back = w].seq = c.seq
BY DEF LineType

LEMMA SetSeq ==
  ASSUME NEW l \in V!PCL, NEW c \in LineType(l), NEW n \in Nat
  PROVE  /\ [c EXCEPT !.seq = n] \in LineType(l)
         /\ [c EXCEPT !.seq = n].main = c.main
         /\ [c EXCEPT !.seq = n].back = c.back
         /\ [c EXCEPT !.seq = n].seq = n
BY DEF LineType

LEMMA ZeroLine ==
  ASSUME V!ReplicaAssumption, NEW l \in V!PCL
  PROVE  /\ V!ZeroLines[l] \in LineType(l)
         /\ V!ZeroLines[l].main = V!ZeroWords(l) /\ V!ZeroLines[l].seq = 0
BY DEF V!ReplicaAssumption, V!ZeroLines, LineType, V!ZeroWords

(* A store to a line leaves the header and the other lines alone, and one  *)
(* to the header leaves the lines alone.                                   *)
LEMMA LineStore ==
  ASSUME V!ReplicaAssumption, LinesAndHeader(cache), NEW l \in V!PCL, NEW c \in LineType(l),
         cache' = [cache EXCEPT ![l] = c]
  PROVE  /\ LinesAndHeader(cache)' /\ cache'[V!pmd] = cache[V!pmd] /\ cache'[l] = c
         /\ \A k \in V!PCL : k # l => cache'[k] = cache[k]
BY LineFactsVR DEF LinesAndHeader

LEMMA HeaderStore ==
  ASSUME V!ReplicaAssumption, LinesAndHeader(cache), NEW h \in HeaderVR, cache' = [cache EXCEPT ![V!pmd] = h]
  PROVE  /\ LinesAndHeader(cache)' /\ cache'[V!pmd] = h
         /\ \A k \in V!PCL : cache'[k] = cache[k]
BY LineFactsVR DEF LinesAndHeader

LEMMA LineWritten ==
  ASSUME V!ReplicaAssumption, LinesAndHeader(cache), LinesAndHeader(pm), NEW l \in V!Line, V!WriteBack(l)
  PROVE  /\ LinesAndHeader(pm)' /\ pm'[l] = cache[l] /\ cache' = cache /\ pwb' = pwb \ {l}
         /\ \A k \in V!Line : k # l => pm'[k] = pm[k]
<1>1. /\ pm'[l] = cache[l] /\ \A k \in V!Line : k # l => pm'[k] = pm[k]
      /\ pm' = [k \in V!Line |-> pm'[k]]
  BY DEF V!WriteBack, LinesAndHeader
<1>2. cache' = cache /\ pwb' = pwb \ {l}
  BY DEF V!WriteBack
<1>. QED BY <1>1, <1>2, LineFactsVR DEF LinesAndHeader

LEMMA HeaderFields ==
  ASSUME NEW h \in HeaderVR
  PROVE  h.root \in BOOLEAN /\ h.id \in BOOLEAN /\ h.p_seq \in Nat
BY DEF HeaderVR

(* What the replica holds of a line. *)
LEMMA ReplicaOfLine ==
  ASSUME V!ReplicaAssumption, vr \in [V!Addr -> Val], NEW l \in V!PCL
  PROVE  V!Contents(l) \in [V!WordsOf(l) -> Val]
BY WordFacts DEF V!Contents

-----------------------------------------------------------------------------
(* The loops visit one line at a time. *)
LEMMA OneNext ==
  ASSUME V!ReplicaAssumption, todo \subseteq (Nat \X V!PCL), NEW x \in todo, V!IsNext(x)
  PROVE  \A y \in todo : V!IsNext(y) => y = x
<1>. SUFFICES ASSUME NEW y \in todo, V!IsNext(y), y # x PROVE FALSE
  OBVIOUS
<1>1. x[1] \in Nat /\ x[2] \in Nat /\ y[1] \in Nat /\ y[2] \in Nat
  BY LineFactsVR
<1>2. V!Precedes(x, y) /\ V!Precedes(y, x)
  BY DEF V!IsNext
<1>. QED BY <1>1, <1>2 DEF V!Precedes

(* The line that the loop is at, by the next of what it has to visit. *)
LEMMA BusyLine ==
  ASSUME V!ReplicaAssumption, todo \subseteq (Nat \X V!PCL), NEW x \in todo, V!IsNext(x)
  PROVE  \A l \in V!PCL : Busy(l) <=> pc \in {"recoverSeq", "flushSeq", "flushMain"} /\ l = x[2]
BY OneNext DEF Busy

(* The lines that a loop of a single round visits. *)
LEMMA InRound ==
  ASSUME NEW S \in SUBSET V!PCL
  PROVE  /\ ({0} \X S) \subseteq (Nat \X V!PCL)
         /\ \A x \in {0} \X S : x[1] = 0
         /\ \A l \in V!PCL : l \in S <=> \E x \in {0} \X S : x[2] = l
<1>1. \A l \in S : <<0, l>> \in {0} \X S /\ <<0, l>>[2] = l
  OBVIOUS
<1>2. \A x \in {0} \X S : x[1] = 0 /\ x[2] \in S
  OBVIOUS
<1>3. ({0} \X S) \subseteq (Nat \X V!PCL)
  OBVIOUS
<1>4. ASSUME NEW l \in V!PCL PROVE l \in S <=> \E x \in {0} \X S : x[2] = l
  BY <1>1, <1>2
<1>. QED BY <1>2, <1>3, <1>4
-----------------------------------------------------------------------------
(* One lemma per step: it preserves the types and ReplicaInv.              *)

LEMMA OpenExistingInvVR ==
  ASSUME V!ReplicaAssumption, TypeOK, ReplicaInv, V!OpenExisting
  PROVE  TypeOK' /\ ReplicaInv'
<1>. USE LineFactsVR DEF V!OpenExisting, ReplicaInv
<1>0. todo' \subseteq (Nat \X V!PCL) /\ \A x \in todo' : x[1] = 0
  BY InRound
<1>1. TypeOK'
  <2>1. todo' \subseteq (Nat \X V!PCL)
    BY <1>0
  <2>. QED BY <2>1 DEF TypeOK, PC, LinesAndHeader
<1>2. cache' = cache /\ pm' = pm /\ pwb' = pwb /\ V!p_seq' = V!p_seq /\ creating' = creating
      /\ vr' = vr /\ v_log' = v_log /\ pc' = "recover" /\ cur' = cur
  BY DEF V!p_seq
<1>3. cache = pm /\ pwb = {} /\ ~creating /\ v_log = <<>> /\ V!p_seq > 1
  BY DEF InvControlVR
<1>4. \A l \in V!PCL : Pending(l)' <=> cache[l].seq = V!p_seq
  <2>. DEFINE S == {l \in V!PCL : cache[l].seq = V!p_seq}
  <2>1. todo' = {0} \X S /\ S \in SUBSET V!PCL
    OBVIOUS
  <2>. HIDE DEF S
  <2>2. \A l \in V!PCL : Pending(l)' <=> l \in S
    BY <2>1, InRound DEF Pending
  <2>. QED BY <2>2 DEF S
<1>5. InvControlVR'
  BY <1>2, <1>3 DEF InvControlVR, Recovering, Flushing, Installed
<1>6. InvHeader' /\ InvSeqVR'
  BY <1>2, <1>3 DEF InvHeader, InvSeqVR, InvControlVR
<1>7. InvLines'
  BY <1>2, <1>3 DEF InvLines
<1>8. InvPoint'
  BY <1>0, <1>2, <1>4 DEF InvPoint, Installed
<1>9. InvReplica' /\ InvCreation'
  BY <1>2, <1>3 DEF InvReplica, Recovering, InvCreation
<1>. QED BY <1>1, <1>5, <1>6, <1>7, <1>8, <1>9

LEMMA CopyToReplicaInv ==
  ASSUME V!ReplicaAssumption, TypeOK, ReplicaInv, V!CopyToReplica
  PROVE  TypeOK' /\ ReplicaInv'
<1>. USE LineFactsVR DEF V!CopyToReplica, ReplicaInv
<1>1. cache' = cache /\ pm' = pm /\ pwb' = pwb /\ V!p_seq' = V!p_seq /\ creating' = creating
      /\ v_log' = v_log /\ pc' = "idle" /\ cur' = cur /\ todo' = {} /\ todo = {} /\ pwb = {}
  BY DEF V!p_seq, V!Fenced
<1>2. Recovering /\ ~creating /\ v_log = <<>> /\ cache[V!pmd].id /\ ~Installed /\ pc = "recover"
  BY DEF InvControlVR, Recovering, Installed, Flushing
<1>3. ASSUME NEW a \in V!Addr PROVE cache[V!LineOf(a)].main[a] \in Val
  <2>1. V!LineOf(a) \in V!PCL /\ a \in V!WordsOf(V!LineOf(a))
    BY LineOfWord, WordFacts
  <2>2. cache[V!LineOf(a)].main \in [V!WordsOf(V!LineOf(a)) -> Val]
    BY <2>1, LineFields DEF TypeOK, LinesAndHeader
  <2>. QED BY <2>1, <2>2
<1>4. TypeOK'
  BY <1>1, <1>3 DEF TypeOK, PC, LinesAndHeader, V!Mains
<1>5. ASSUME NEW l \in V!PCL PROVE cache[l].main = V!Contents(l)'
  <2>1. cache[l].main \in [V!WordsOf(l) -> Val]
    BY LineFields DEF TypeOK, LinesAndHeader
  <2>2. \A a \in V!WordsOf(l) : vr'[a] = cache[l].main[a]
    BY WordFacts DEF V!Mains
  <2>. QED BY <2>1, <2>2 DEF V!Contents
<1>6. ASSUME NEW l \in V!PCL PROVE cache[l].seq < V!p_seq
  <2>1. cache[l].seq # V!p_seq
    BY <1>1, <1>2 DEF InvPoint, Pending
  <2>2. cache[l].seq <= V!p_seq
    BY <1>2 DEF InvSeqVR
  <2>3. cache[l].seq \in Nat /\ V!p_seq \in Nat
    BY LineFields, HeaderFields DEF TypeOK, LinesAndHeader, V!p_seq
  <2>. QED BY <2>1, <2>2, <2>3
<1>7. InvControlVR'
  BY <1>1, <1>2 DEF InvControlVR, Recovering, Flushing, Installed
<1>8. InvHeader' /\ InvSeqVR'
  BY <1>1, <1>2 DEF InvHeader, InvSeqVR, Installed
<1>9. InvLines'
  BY <1>1, <1>2 DEF InvLines, Installed, Busy, V!Recovered
<1>10. InvPoint'
  BY <1>1, <1>6 DEF InvPoint, Installed, Recovering
<1>11. InvReplica' /\ InvCreation'
  BY <1>1, <1>2, <1>5 DEF InvReplica, InvCreation
<1>. QED BY <1>4, <1>7, <1>8, <1>9, <1>10, <1>11

(* A step that changes nothing but the nesting, if that. *)
LEMMA ReplicaInvKept ==
  ASSUME ReplicaInv, UNCHANGED <<cache, pm, pwb, pc, creating, vr, v_log, todo, cur>>
  PROVE  ReplicaInv'
<1>. USE DEF ReplicaInv, V!p_seq, Recovering, Flushing, Installed
<1>1. \A l \in V!PCL : /\ Pending(l)' <=> Pending(l)
                       /\ Logged(l)' <=> Logged(l)
                       /\ Busy(l)' <=> Busy(l)
                       /\ V!Contents(l)' = V!Contents(l)
  BY DEF Pending, Logged, Busy, V!IsNext, V!Contents
<1>2. InvControlVR' /\ InvHeader' /\ InvSeqVR'
  BY DEF InvControlVR, InvHeader, InvSeqVR
<1>3. InvLines'
  BY <1>1 DEF InvLines, V!Recovered
<1>4. InvPoint' /\ InvReplica'
  BY <1>1 DEF InvPoint, InvReplica
<1>5. InvCreation'
  BY <1>1 DEF InvCreation, StoredVR
<1>. QED BY <1>2, <1>3, <1>4, <1>5

LEMMA TypeKept ==
  ASSUME TypeOK, UNCHANGED <<cache, pm, pwb, pc, creating, vr, v_log, todo, cur>>, nested' \in Nat
  PROVE  TypeOK'
BY DEF TypeOK, LinesAndHeader

LEMMA NestingInv ==
  ASSUME V!ReplicaAssumption, TypeOK, ReplicaInv, V!BeginNestedTx \/ V!EndNestedTx
  PROVE  TypeOK' /\ ReplicaInv'
<1>1. nested' \in Nat
  BY DEF TypeOK, V!BeginNestedTx, V!EndNestedTx
<1>2. UNCHANGED <<cache, pm, pwb, pc, creating, vr, v_log, todo, cur>>
  BY DEF V!BeginNestedTx, V!EndNestedTx
<1>. QED BY <1>1, <1>2, TypeKept, ReplicaInvKept

LEMMA StutterInv ==
  ASSUME V!ReplicaAssumption, TypeOK, ReplicaInv, UNCHANGED V!vars
  PROVE  TypeOK' /\ ReplicaInv'
<1>1. nested' \in Nat /\ UNCHANGED <<cache, pm, pwb, pc, creating, vr, v_log, todo, cur>>
  BY DEF V!vars, TypeOK
<1>. QED BY <1>1, TypeKept, ReplicaInvKept

LEMMA BeginTxInv ==
  ASSUME V!ReplicaAssumption, TypeOK, ReplicaInv, NEW seq, V!BeginTx(seq)
  PROVE  TypeOK' /\ ReplicaInv'
<1>. USE LineFactsVR DEF V!BeginTx, ReplicaInv
<1>1. cache' = cache /\ pm' = pm /\ pwb' = pwb /\ V!p_seq' = V!p_seq /\ creating' = creating
      /\ vr' = vr /\ v_log' = v_log /\ pc' = "tx" /\ cur' = cur /\ todo' = todo
  BY DEF V!p_seq
<1>2. ~creating /\ v_log = <<>> /\ pc = "idle" /\ todo = {} /\ cache[V!pmd].id
  BY DEF InvControlVR, Flushing, Installed, Recovering
<1>3. TypeOK'
  BY DEF TypeOK, PC, LinesAndHeader
<1>4. InvControlVR'
  BY <1>1, <1>2 DEF InvControlVR, Recovering, Flushing, Installed
<1>5. InvHeader' /\ InvSeqVR'
  BY <1>1, <1>2 DEF InvHeader, InvSeqVR, Installed
<1>6. InvLines'
  BY <1>1, <1>2 DEF InvLines, Installed, Busy, V!Recovered
<1>7. InvPoint'
  BY <1>1, <1>2 DEF InvPoint, Installed, Recovering
<1>8. InvReplica' /\ InvCreation'
  BY <1>1, <1>2 DEF InvReplica, InvCreation, Recovering, Flushing, V!Contents
<1>. QED BY <1>3, <1>4, <1>5, <1>6, <1>7, <1>8

LEMMA CreateDoneInv ==
  ASSUME V!ReplicaAssumption, TypeOK, ReplicaInv, V!CreateDone
  PROVE  TypeOK' /\ ReplicaInv'
<1>. USE LineFactsVR DEF V!CreateDone, ReplicaInv
<1>1. cache' = cache /\ pm' = pm /\ pwb' = pwb /\ V!p_seq' = V!p_seq /\ ~creating'
      /\ vr' = vr /\ v_log' = v_log /\ pc' = "idle" /\ cur' = cur /\ todo' = todo /\ pwb = {}
  BY DEF V!p_seq, V!Fenced
<1>2. creating /\ pc = "createId" /\ Installed /\ cache[V!pmd].id /\ V!p_seq = 2 /\ todo = {}
      /\ v_log = <<>> /\ ~Recovering /\ ~Flushing
  BY DEF InvControlVR, Installed, Flushing, Recovering
<1>3. pm[V!pmd] = cache[V!pmd]
  BY <1>1, <1>2 DEF InvHeader
<1>4. \A l \in V!PCL : pm[l] = cache[l]
  BY <1>1, <1>2 DEF InvLines, Busy
<1>5. TypeOK'
  BY DEF TypeOK, PC, LinesAndHeader
<1>6. InvControlVR'
  BY <1>1, <1>2 DEF InvControlVR, Recovering, Flushing, Installed
<1>7. InvHeader' /\ InvSeqVR'
  BY <1>1, <1>2, <1>3 DEF InvHeader, InvSeqVR, Installed
<1>8. InvLines'
  BY <1>1, <1>4 DEF InvLines
<1>9. InvPoint'
  BY <1>1, <1>2 DEF InvPoint, Installed, Recovering
<1>10. InvReplica' /\ InvCreation'
  BY <1>1, <1>2 DEF InvReplica, InvCreation, Recovering, Flushing, V!Contents
<1>. QED BY <1>5, <1>6, <1>7, <1>8, <1>9, <1>10

LEMMA EndTxSyncInvVR ==
  ASSUME V!ReplicaAssumption, TypeOK, ReplicaInv, V!EndTxSync
  PROVE  TypeOK' /\ ReplicaInv'
<1>. USE LineFactsVR DEF V!EndTxSync, V!EndTxDone, ReplicaInv
<1>1. cache' = cache /\ pm' = pm /\ V!p_seq' = V!p_seq /\ creating' = creating
      /\ vr' = vr /\ v_log' = <<>> /\ cur' = cur /\ todo' = todo /\ pwb = {}
      /\ (creating => pwb' = {V!pmd} /\ pc' = "createRoot")
      /\ (~creating => pwb' = {} /\ pc' = "idle")
  BY DEF V!p_seq, V!Fenced
<1>2. pc = "sync" /\ Installed /\ todo = {} /\ ~Recovering /\ ~Flushing
  BY DEF InvControlVR, Installed, Flushing, Recovering
<1>3. pm[V!pmd] = cache[V!pmd]
  BY <1>1, <1>2 DEF InvHeader
<1>4. \A l \in V!PCL : pm[l] = cache[l]
  BY <1>1, <1>2 DEF InvLines, Busy
<1>5. TypeOK'
  <2>1. LinesAndHeader(cache)' /\ LinesAndHeader(pm)'
    BY <1>1 DEF TypeOK, LinesAndHeader
  <2>2. pwb' \subseteq V!Line /\ pc' \in PC
    BY <1>1 DEF PC, TypeOK
  <2>3. v_log' \in Seq(Range_)
    BY <1>1
  <2>. QED BY <1>1, <2>1, <2>2, <2>3 DEF TypeOK
<1>6. InvControlVR'
  BY <1>1, <1>2, <1>3 DEF InvControlVR, Recovering, Flushing, Installed
<1>7. InvHeader' /\ InvSeqVR'
  BY <1>1, <1>2, <1>3 DEF InvHeader, InvSeqVR, Installed, InvControlVR
<1>8. InvLines'
  BY <1>1, <1>4 DEF InvLines
<1>9. InvPoint'
  BY <1>1, <1>2 DEF InvPoint, Installed, Recovering
<1>10. InvReplica' /\ InvCreation'
  BY <1>1, <1>2 DEF InvReplica, InvCreation, Recovering, Flushing, V!Contents, InvControlVR, Installed
<1>. QED BY <1>5, <1>6, <1>7, <1>8, <1>9, <1>10
-----------------------------------------------------------------------------
(* What a step of a loop leaves to visit. *)
LEMMA LoopGoesOn ==
  ASSUME V!ReplicaAssumption, todo \subseteq (Nat \X V!PCL), NEW x \in todo, V!IsNext(x), todo' = todo
  PROVE  \A l \in V!PCL :
           /\ Pending(l)' <=> Pending(l)
           /\ Busy(l)' <=> pc' \in {"recoverSeq", "flushSeq", "flushMain"} /\ l = x[2]
BY OneNext DEF Pending, Busy, V!IsNext

LEMMA LoopMovesOn ==
  ASSUME NEW x \in todo, todo' = todo \ {x}, pc' \in {"recover", "flush"}
  PROVE  \A l \in V!PCL : /\ ~Busy(l)'
                          /\ Pending(l)' => Pending(l)
                          /\ Pending(l) => Pending(l)' \/ l = x[2]
BY DEF Pending, Busy

(* The replica and the log as they were. *)
LEMMA ReplicaKept ==
  ASSUME UNCHANGED <<vr, v_log>>
  PROVE  /\ \A l \in V!PCL : V!Contents(l)' = V!Contents(l)
         /\ \A l \in V!PCL : Logged(l)' <=> Logged(l)
BY DEF V!Contents, Logged

(* The numbers of the lines and of the header. *)
LEMMA Numbers ==
  ASSUME V!ReplicaAssumption, TypeOK
  PROVE  /\ V!p_seq \in Nat /\ pm[V!pmd].p_seq \in Nat /\ V!p_seq = cache[V!pmd].p_seq
         /\ \A l \in V!PCL : cache[l].seq \in Nat /\ pm[l].seq \in Nat
BY LineFields, HeaderFields DEF TypeOK, LinesAndHeader, V!p_seq

LEMMA RecoverMainInv ==
  ASSUME V!ReplicaAssumption, TypeOK, ReplicaInv, V!RecoverMain
  PROVE  TypeOK' /\ ReplicaInv'
<1>. PICK x \in todo : V!IsNext(x) /\ V!Store(x[2], [cache[x[2]] EXCEPT !.main = cache[x[2]].back])
  BY DEF V!RecoverMain
<1>. DEFINE l == x[2]
            c == [cache[l] EXCEPT !.main = cache[l].back]
<1>0. l \in V!PCL /\ cache[l] \in LineType(l)
  BY DEF TypeOK, LinesAndHeader
<1>1. c \in LineType(l) /\ c.main = cache[l].back /\ c.back = cache[l].back /\ c.seq = cache[l].seq
  BY <1>0, LineFields, SetMain
<1>2. cache' = [cache EXCEPT ![l] = c] /\ pm' = pm /\ pwb' = pwb
  BY DEF V!Store
<1>. HIDE DEF c
<1>3. /\ LinesAndHeader(cache)' /\ cache'[V!pmd] = cache[V!pmd] /\ cache'[l] = c
      /\ \A k \in V!PCL : k # l => cache'[k] = cache[k]
  BY <1>0, <1>1, <1>2, LineStore DEF TypeOK
<1>4. pc = "recover" /\ pc' = "recoverSeq" /\ UNCHANGED <<creating, nested, vr, v_log, todo, cur>>
  BY DEF V!RecoverMain
<1>. HIDE DEF l
<1>5. \A k \in V!PCL : (Pending(k)' <=> Pending(k)) /\ (Busy(k)' <=> k = l) /\ ~Busy(k)
  BY <1>4, LoopGoesOn DEF TypeOK, l, Busy
<1>6. V!p_seq' = V!p_seq /\ \A k \in V!PCL : cache'[k].seq = cache[k].seq /\ cache'[k].back = cache[k].back
  BY <1>1, <1>3 DEF V!p_seq
<1>7. TypeOK'
  BY <1>2, <1>3, <1>4 DEF TypeOK, LinesAndHeader, PC
<1>8. ~creating /\ cache[V!pmd].id /\ v_log = <<>> /\ Recovering
  BY <1>4 DEF ReplicaInv, InvControlVR, Recovering, Flushing, Installed
<1>. USE <1>2, <1>3, <1>4, <1>6, <1>8 DEF ReplicaInv
<1>9. InvControlVR' /\ InvHeader' /\ InvSeqVR'
  BY DEF InvControlVR, InvHeader, InvSeqVR, Recovering, Flushing, Installed
<1>10. InvLines'
  <2>1. Pending(l)
    BY DEF Pending, l
  <2>2. cache[l].seq = V!p_seq
    BY <1>0, <2>1 DEF InvPoint
  <2>. QED BY <1>1, <1>5, <2>2 DEF InvLines, V!Recovered, Installed
<1>11. InvPoint'
  BY <1>1, <1>5 DEF InvPoint, Recovering, Installed
<1>12. InvReplica' /\ InvCreation'
  BY DEF InvReplica, InvCreation, Recovering
<1>. QED BY <1>7, <1>9, <1>10, <1>11, <1>12

LEMMA RecoverSeqInv ==
  ASSUME V!ReplicaAssumption, TypeOK, ReplicaInv, V!RecoverSeq
  PROVE  TypeOK' /\ ReplicaInv'
<1>. PICK x \in todo : /\ V!IsNext(x) /\ todo' = todo \ {x}
                       /\ V!StorePWB(x[2], [cache[x[2]] EXCEPT !.seq = 0])
  BY DEF V!RecoverSeq
<1>. DEFINE l == x[2]
            c == [cache[l] EXCEPT !.seq = 0]
<1>0. l \in V!PCL /\ cache[l] \in LineType(l)
  BY DEF TypeOK, LinesAndHeader
<1>1. c \in LineType(l) /\ c.main = cache[l].main /\ c.back = cache[l].back /\ c.seq = 0
  BY <1>0, SetSeq
<1>2. cache' = [cache EXCEPT ![l] = c] /\ pm' = pm /\ pwb' = pwb \cup {l}
  BY DEF V!StorePWB
<1>. HIDE DEF c
<1>3. /\ LinesAndHeader(cache)' /\ cache'[V!pmd] = cache[V!pmd] /\ cache'[l] = c
      /\ \A k \in V!PCL : k # l => cache'[k] = cache[k]
  BY <1>0, <1>1, <1>2, LineStore DEF TypeOK
<1>4. pc = "recoverSeq" /\ pc' = "recover" /\ UNCHANGED <<creating, nested, vr, v_log, cur>>
  BY DEF V!RecoverSeq
<1>5. V!p_seq' = V!p_seq
  BY <1>3 DEF V!p_seq
<1>6. ~creating /\ cache[V!pmd].id /\ v_log = <<>> /\ Recovering /\ V!p_seq > 1 /\ V!p_seq \in Nat
  BY <1>4, Numbers DEF ReplicaInv, InvControlVR, Recovering, Flushing, Installed
<1>7. \A y \in todo : y[2] = l => y = x
  <2>. SUFFICES ASSUME NEW y \in todo, y[2] = l PROVE y = x
    OBVIOUS
  <2>1. y[1] = 0 /\ x[1] = 0
    BY <1>6 DEF ReplicaInv, InvPoint
  <2>2. y \in Nat \X V!PCL /\ x \in Nat \X V!PCL
    BY DEF TypeOK
  <2>. QED BY <2>1, <2>2
<1>8. Pending(l) /\ (Pending(l)' <=> FALSE) /\ \A k \in V!PCL : k # l => (Pending(k)' <=> Pending(k))
  BY <1>7 DEF Pending
<1>9. \A k \in V!PCL : (Busy(k) <=> k = l) /\ ~Busy(k)'
  BY <1>4, BusyLine DEF TypeOK, Busy
<1>. HIDE DEF l
<1>10. TypeOK'
  <2>1. LinesAndHeader(pm)'
    BY <1>2 DEF TypeOK, LinesAndHeader
  <2>2. pwb' \subseteq V!Line /\ pc' \in PC
    BY <1>0, <1>2, <1>4, LineFactsVR DEF TypeOK, PC
  <2>3. todo' \subseteq (Nat \X V!PCL)
    BY DEF TypeOK
  <2>. QED BY <1>3, <1>4, <2>1, <2>2, <2>3 DEF TypeOK
<1>. USE <1>2, <1>3, <1>4, <1>5, <1>6 DEF ReplicaInv
<1>11. InvControlVR' /\ InvHeader'
  BY <1>0, LineFactsVR DEF InvControlVR, InvHeader, Recovering, Flushing, Installed
<1>12. InvSeqVR'
  BY <1>1 DEF InvSeqVR
<1>13. cache[l].seq = V!p_seq /\ cache[l].main = cache[l].back
  BY <1>0, <1>8, <1>9 DEF InvPoint
<1>14. InvLines'
  BY <1>1, <1>9, <1>13 DEF InvLines, V!Recovered, Installed
<1>15. InvPoint'
  BY <1>1, <1>8 DEF InvPoint, Recovering, Installed
<1>16. InvReplica' /\ InvCreation'
  BY DEF InvReplica, InvCreation, Recovering
<1>. QED BY <1>10, <1>11, <1>12, <1>14, <1>15, <1>16

LEMMA StoreRangeSkipInv ==
  ASSUME V!ReplicaAssumption, TypeOK, ReplicaInv, V!StoreRangeSkip(V!p_seq)
  PROVE  TypeOK' /\ ReplicaInv'
<1>. PICK x \in todo : V!IsNext(x) /\ cache[x[2]].seq = V!p_seq /\ todo' = todo \ {x}
  BY DEF V!StoreRangeSkip
<1>. DEFINE l == x[2]
<1>0. l \in V!PCL
  BY DEF TypeOK
<1>1. pc = "flush" /\ UNCHANGED <<cache, pm, pwb, pc, creating, nested, vr, v_log, cur>>
  BY DEF V!StoreRangeSkip
<1>2. \A k \in V!PCL : ~Busy(k) /\ ~Busy(k)' /\ (Pending(k)' => Pending(k))
                       /\ (Pending(k) => Pending(k)' \/ k = l)
  BY <1>1, LoopMovesOn DEF Busy
<1>3. V!p_seq' = V!p_seq /\ cache[l].seq = V!p_seq
  BY <1>1 DEF V!p_seq
<1>. HIDE DEF l
<1>4. TypeOK'
  BY <1>1 DEF TypeOK, LinesAndHeader
<1>. USE <1>1, <1>3 DEF ReplicaInv
<1>5. InvControlVR' /\ InvHeader' /\ InvSeqVR'
  BY DEF InvControlVR, InvHeader, InvSeqVR, Recovering, Flushing, Installed
<1>6. InvLines'
  BY <1>2 DEF InvLines, Installed, Flushing
<1>7. InvPoint'
  BY DEF InvPoint, Recovering, Installed
<1>8. InvReplica'
  BY <1>2, ReplicaKept DEF InvReplica, Recovering, Flushing
<1>9. InvCreation'
  BY <1>2 DEF InvCreation, Flushing, StoredVR
<1>. QED BY <1>4, <1>5, <1>6, <1>7, <1>8, <1>9

LEMMA StoreRangeBackInv ==
  ASSUME V!ReplicaAssumption, TypeOK, ReplicaInv, V!StoreRangeBack(V!p_seq, "flushSeq")
  PROVE  TypeOK' /\ ReplicaInv'
<1>. PICK x \in todo : /\ V!IsNext(x) /\ cache[x[2]].seq # V!p_seq
                       /\ V!Store(x[2], [cache[x[2]] EXCEPT !.back = cache[x[2]].main])
  BY DEF V!StoreRangeBack
<1>. DEFINE l == x[2]
            c == [cache[l] EXCEPT !.back = cache[l].main]
<1>0. l \in V!PCL /\ cache[l] \in LineType(l)
  BY DEF TypeOK, LinesAndHeader
<1>1. c \in LineType(l) /\ c.main = cache[l].main /\ c.back = cache[l].main /\ c.seq = cache[l].seq
  BY <1>0, LineFields, SetBack
<1>2. cache' = [cache EXCEPT ![l] = c] /\ pm' = pm /\ pwb' = pwb
  BY DEF V!Store
<1>. HIDE DEF c
<1>3. /\ LinesAndHeader(cache)' /\ cache'[V!pmd] = cache[V!pmd] /\ cache'[l] = c
      /\ \A k \in V!PCL : k # l => cache'[k] = cache[k]
  BY <1>0, <1>1, <1>2, LineStore DEF TypeOK
<1>4. pc = "flush" /\ pc' = "flushSeq" /\ UNCHANGED <<creating, nested, vr, v_log, todo, cur>>
  BY DEF V!StoreRangeBack
<1>5. cache[l].seq # V!p_seq /\ Pending(l)
  BY DEF Pending
<1>6. \A k \in V!PCL : (Pending(k)' <=> Pending(k)) /\ (Busy(k)' <=> k = l) /\ ~Busy(k)
  BY <1>4, LoopGoesOn DEF TypeOK, Busy
<1>. HIDE DEF l
<1>7. V!p_seq' = V!p_seq /\ \A k \in V!PCL : cache'[k].seq = cache[k].seq /\ cache'[k].main = cache[k].main
  BY <1>1, <1>3 DEF V!p_seq
<1>8. TypeOK'
  BY <1>2, <1>3, <1>4 DEF TypeOK, LinesAndHeader, PC
<1>. USE <1>2, <1>3, <1>4, <1>7 DEF ReplicaInv
<1>9. InvControlVR' /\ InvHeader' /\ InvSeqVR'
  BY DEF InvControlVR, InvHeader, InvSeqVR, Recovering, Flushing, Installed
<1>10. InvLines'
  BY <1>5, <1>6 DEF InvLines, V!Recovered, Installed, Flushing
<1>11. InvPoint'
  BY <1>1, <1>5, <1>6 DEF InvPoint, Recovering, Installed
<1>12. InvReplica'
  BY <1>5, <1>6, ReplicaKept DEF InvReplica, Recovering, Flushing
<1>13. InvCreation'
  BY <1>0, <1>5, <1>6 DEF InvCreation, Flushing, StoredVR
<1>. QED BY <1>8, <1>9, <1>10, <1>11, <1>12, <1>13

LEMMA StoreRangeSeqInv ==
  ASSUME V!ReplicaAssumption, TypeOK, ReplicaInv, V!StoreRangeSeq(V!p_seq)
  PROVE  TypeOK' /\ ReplicaInv'
<1>. PICK x \in todo : V!IsNext(x) /\ V!Store(x[2], [cache[x[2]] EXCEPT !.seq = V!p_seq])
  BY DEF V!StoreRangeSeq
<1>. DEFINE l == x[2]
            c == [cache[l] EXCEPT !.seq = V!p_seq]
<1>0. l \in V!PCL /\ cache[l] \in LineType(l) /\ V!p_seq \in Nat
  BY Numbers DEF TypeOK, LinesAndHeader
<1>1. c \in LineType(l) /\ c.main = cache[l].main /\ c.back = cache[l].back /\ c.seq = V!p_seq
  BY <1>0, SetSeq
<1>2. cache' = [cache EXCEPT ![l] = c] /\ pm' = pm /\ pwb' = pwb
  BY DEF V!Store
<1>. HIDE DEF c
<1>3. /\ LinesAndHeader(cache)' /\ cache'[V!pmd] = cache[V!pmd] /\ cache'[l] = c
      /\ \A k \in V!PCL : k # l => cache'[k] = cache[k]
  BY <1>0, <1>1, <1>2, LineStore DEF TypeOK
<1>4. pc = "flushSeq" /\ pc' = "flushMain" /\ UNCHANGED <<creating, nested, vr, v_log, todo, cur>>
  BY DEF V!StoreRangeSeq
<1>5. \A k \in V!PCL : (Pending(k)' <=> Pending(k)) /\ (Busy(k)' <=> k = l) /\ (Busy(k) <=> k = l)
  BY <1>4, LoopGoesOn, BusyLine DEF TypeOK
<1>6. Pending(l)
  BY DEF Pending
<1>. HIDE DEF l
<1>7. V!p_seq' = V!p_seq
  BY <1>3 DEF V!p_seq
<1>8. TypeOK'
  BY <1>2, <1>3, <1>4 DEF TypeOK, LinesAndHeader, PC
<1>. USE <1>2, <1>3, <1>4, <1>7 DEF ReplicaInv
<1>9. InvControlVR' /\ InvHeader'
  BY DEF InvControlVR, InvHeader, Recovering, Flushing, Installed
<1>10. InvSeqVR'
  BY <1>0, <1>1 DEF InvSeqVR
<1>11. cache[l].seq # V!p_seq /\ cache[l].back = cache[l].main
  BY <1>0, <1>5 DEF InvPoint
<1>12. InvLines'
  BY <1>1, <1>5, <1>11 DEF InvLines, V!Recovered, Installed, Flushing
<1>13. InvPoint'
  BY <1>1, <1>5 DEF InvPoint, Recovering, Installed
<1>14. InvReplica'
  BY <1>5, <1>6, ReplicaKept DEF InvReplica, Recovering, Flushing
<1>15. InvCreation'
  BY <1>0, <1>5, <1>6 DEF InvCreation, Flushing, StoredVR
<1>. QED BY <1>8, <1>9, <1>10, <1>12, <1>13, <1>14, <1>15

LEMMA StoreRangeMainInv ==
  ASSUME V!ReplicaAssumption, TypeOK, ReplicaInv, V!StoreRangeMain
  PROVE  TypeOK' /\ ReplicaInv'
<1>. PICK x \in todo : /\ V!IsNext(x) /\ todo' = todo \ {x}
                       /\ V!StorePWB(x[2], [cache[x[2]] EXCEPT !.main = V!Contents(x[2])])
  BY DEF V!StoreRangeMain
<1>. DEFINE l == x[2]
            c == [cache[l] EXCEPT !.main = V!Contents(l)]
<1>0. l \in V!PCL /\ cache[l] \in LineType(l)
  BY DEF TypeOK, LinesAndHeader
<1>1. c \in LineType(l) /\ c.main = V!Contents(l) /\ c.back = cache[l].back /\ c.seq = cache[l].seq
  BY <1>0, ReplicaOfLine, SetMain DEF TypeOK
<1>2. cache' = [cache EXCEPT ![l] = c] /\ pm' = pm /\ pwb' = pwb \cup {l}
  BY DEF V!StorePWB
<1>. HIDE DEF c
<1>3. /\ LinesAndHeader(cache)' /\ cache'[V!pmd] = cache[V!pmd] /\ cache'[l] = c
      /\ \A k \in V!PCL : k # l => cache'[k] = cache[k]
  BY <1>0, <1>1, <1>2, LineStore DEF TypeOK
<1>4. pc = "flushMain" /\ pc' = "flush" /\ UNCHANGED <<creating, nested, vr, v_log, cur>>
  BY DEF V!StoreRangeMain
<1>5. Pending(l) /\ \A k \in V!PCL :
                     /\ Busy(k) <=> k = l
                     /\ ~Busy(k)' /\ (Pending(k)' => Pending(k))
                     /\ Pending(k) => Pending(k)' \/ k = l
  BY <1>4, BusyLine, LoopMovesOn DEF TypeOK, Pending
<1>. HIDE DEF l
<1>6. V!p_seq' = V!p_seq /\ \A k \in V!PCL : cache'[k].seq = cache[k].seq /\ cache'[k].back = cache[k].back
  BY <1>1, <1>3 DEF V!p_seq
<1>7. TypeOK'
  <2>1. LinesAndHeader(pm)'
    BY <1>2 DEF TypeOK, LinesAndHeader
  <2>2. pwb' \subseteq V!Line /\ pc' \in PC
    BY <1>0, <1>2, <1>4, LineFactsVR DEF TypeOK, PC
  <2>3. todo' \subseteq (Nat \X V!PCL)
    BY DEF TypeOK
  <2>. QED BY <1>3, <1>4, <2>1, <2>2, <2>3 DEF TypeOK
<1>. USE <1>2, <1>3, <1>4, <1>6 DEF ReplicaInv
<1>8. InvControlVR' /\ InvHeader' /\ InvSeqVR'
  BY <1>0, LineFactsVR DEF InvControlVR, InvHeader, InvSeqVR, Recovering, Flushing, Installed
<1>9. cache[l].seq = V!p_seq
  BY <1>0, <1>5 DEF InvPoint
<1>10. InvLines'
  BY <1>5, <1>9 DEF InvLines, V!Recovered, Installed, Flushing
<1>11. InvPoint'
  BY DEF InvPoint, Recovering, Installed
<1>12. InvReplica'
  BY <1>1, <1>5, ReplicaKept DEF InvReplica, Recovering, Flushing
<1>13. InvCreation'
  BY <1>0, <1>5 DEF InvCreation, Flushing, StoredVR
<1>. QED BY <1>7, <1>8, <1>10, <1>11, <1>12, <1>13
-----------------------------------------------------------------------------
LEMMA OpenNewInvVR ==
  ASSUME V!ReplicaAssumption, TypeOK, ReplicaInv, V!OpenNew([root |-> FALSE, id |-> FALSE, p_seq |-> 1], V!ZeroLines)
  PROVE  TypeOK' /\ ReplicaInv'
<1>. DEFINE h == [root |-> FALSE, id |-> FALSE, p_seq |-> 1]
<1>0. h \in HeaderVR /\ h.id = FALSE /\ h.p_seq = 1
  BY DEF HeaderVR
<1>. HIDE DEF h
<1>1. cache' = [l \in V!Line |-> IF l = V!pmd THEN h ELSE V!ZeroLines[l]]
  BY DEF V!OpenNew, h
<1>2. /\ cache' = [l \in V!Line |-> cache'[l]] /\ cache'[V!pmd] = h
      /\ \A l \in V!PCL : cache'[l] = V!ZeroLines[l]
  BY <1>1, LineFactsVR
<1>3. /\ pc = "down" /\ ~cache[V!pmd].id /\ pwb' = {V!pmd} /\ vr' = [a \in V!Addr |-> Zero]
      /\ pc' = "tx" /\ creating' = TRUE /\ nested' = 1
      /\ UNCHANGED <<pm, v_log, todo, cur>>
  BY DEF V!OpenNew
<1>4. cache = pm /\ cur = 1 /\ todo = {} /\ v_log = <<>>
  BY <1>3 DEF ReplicaInv, InvControlVR, Recovering, Flushing
<1>5. \A l \in V!PCL : /\ V!ZeroLines[l] \in LineType(l) /\ V!ZeroLines[l].seq = 0
                       /\ V!ZeroLines[l].main = V!ZeroWords(l)
  BY ZeroLine
<1>6. V!p_seq' = 1
  BY <1>0, <1>2 DEF V!p_seq
<1>7. TypeOK'
  <2>1. LinesAndHeader(cache)' /\ LinesAndHeader(pm)'
    BY <1>0, <1>2, <1>3, <1>5 DEF TypeOK, LinesAndHeader
  <2>2. vr' \in [V!Addr -> Val]
    BY <1>3 DEF V!ReplicaAssumption
  <2>. QED BY <1>3, <2>1, <2>2, LineFactsVR DEF TypeOK, PC
<1>. USE <1>0, <1>2, <1>3, <1>4, <1>6 DEF ReplicaInv
<1>8. InvControlVR' /\ InvHeader'
  BY CreateCount DEF InvControlVR, InvHeader, Recovering, Flushing, Installed
<1>9. InvSeqVR'
  BY <1>5, Numbers DEF InvSeqVR
<1>10. InvLines'
  BY DEF InvLines, InvCreation
<1>11. InvPoint'
  BY <1>5 DEF InvPoint, Recovering, Installed
<1>12. InvReplica'
  <2>1. ASSUME NEW l \in V!PCL PROVE V!Contents(l)' = V!ZeroWords(l)
    BY WordFacts DEF V!Contents, V!ZeroWords
  <2>. QED BY <1>5, <2>1 DEF InvReplica
<1>13. InvCreation'
  <2>1. \A a \in V!Addr : StoredVR(a, cur)' = {}
    BY CreateCount DEF StoredVR
  <2>2. Len(v_log') = IF cur' <= Len(CreateStores) THEN cur' - 1 ELSE Len(CreateStores)
    BY CreateCount
  <2>. QED BY <2>1, <2>2 DEF InvCreation, Flushing
<1>. QED BY <1>7, <1>8, <1>9, <1>10, <1>11, <1>12, <1>13

(* What a pstore() adds to the log. *)
LEMMA LogGrows ==
  ASSUME v_log \in Seq(Range_), NEW range \in Range_, v_log' = Append(v_log, range)
  PROVE  /\ v_log' \in Seq(Range_) /\ Len(v_log) \in Nat /\ Len(v_log') = Len(v_log) + 1
         /\ \A i \in DOMAIN v_log : i \in DOMAIN v_log' /\ v_log'[i] = v_log[i]
         /\ v_log'[Len(v_log) + 1] = range
         /\ \A i \in DOMAIN v_log' : i \in DOMAIN v_log \/ i = Len(v_log) + 1
OBVIOUS

(* A store of the creating transaction to the replica. *)
LEMMA CreationStoreVR ==
  ASSUME V!ReplicaAssumption, TypeOK, ReplicaInv, creating, cur \in DOMAIN CreateStores, cur' = cur + 1,
         vr' = [a \in V!Addr |-> IF a \in CreateStores[cur][1] THEN CreateStores[cur][2] ELSE vr[a]],
         NEW a \in V!Addr
  PROVE  \/ StoredVR(a, cur)' = {} /\ vr'[a] = Zero
         \/ \E i \in StoredVR(a, cur)' : /\ \A j \in StoredVR(a, cur)' : j <= i
                                         /\ vr'[a] = CreateStores[i][2]
<1>0. cur \in Nat /\ DOMAIN CreateStores \subseteq Nat
  BY CreateCount
<1>1. StoredVR(a, cur)' = StoredVR(a, cur + 1)
  BY DEF StoredVR
<1>2. CASE a \in CreateStores[cur][1]
  <2>1. cur \in StoredVR(a, cur + 1) /\ \A j \in StoredVR(a, cur + 1) : j <= cur
    BY <1>0, <1>2 DEF StoredVR
  <2>. QED BY <1>1, <1>2, <2>1
<1>3. CASE a \notin CreateStores[cur][1]
  <2>1. StoredVR(a, cur + 1) = StoredVR(a, cur)
    BY <1>0, <1>3 DEF StoredVR
  <2>2. vr'[a] = vr[a]
    BY <1>3
  <2>. QED BY <1>1, <2>1, <2>2 DEF ReplicaInv, InvCreation
<1>. QED BY <1>2, <1>3

LEMMA PstoreInv ==
  ASSUME V!ReplicaAssumption, TypeOK, ReplicaInv, NEW range \in Range_, NEW v \in Val, V!Pstore(range, v),
         creating => /\ cur \in DOMAIN CreateStores
                     /\ range = CreateStores[cur][1] /\ v = CreateStores[cur][2]
  PROVE  TypeOK' /\ ReplicaInv'
<1>1. /\ pc = "tx" /\ v_log' = Append(v_log, range)
      /\ vr' = [a \in V!Addr |-> IF a \in range THEN v ELSE vr[a]]
      /\ cur' = IF creating THEN cur + 1 ELSE cur
      /\ UNCHANGED <<cache, pm, pwb, pc, creating, nested, todo>>
  BY DEF V!Pstore
<1>2. v_log \in Seq(Range_) /\ cur \in Nat \ {0}
  BY DEF TypeOK
<1>3. V!p_seq' = V!p_seq /\ todo = {}
  BY <1>1 DEF V!p_seq, ReplicaInv, InvControlVR, Recovering, Flushing
<1>4. TypeOK'
  <2>1. vr' \in [V!Addr -> Val]
    BY <1>1 DEF TypeOK
  <2>2. v_log' \in Seq(Range_)
    BY <1>1, <1>2, LogGrows
  <2>3. cur' \in Nat \ {0}
    BY <1>1, <1>2
  <2>. QED BY <1>1, <2>1, <2>2, <2>3 DEF TypeOK, LinesAndHeader
<1>5. ASSUME NEW l \in V!PCL PROVE Logged(l)' <=> Logged(l) \/ l \in V!LinesOf(range)
  <2>1. \A i \in DOMAIN v_log : i \in DOMAIN v_log' /\ v_log'[i] = v_log[i]
    BY <1>1, <1>2, LogGrows
  <2>2. Len(v_log) + 1 \in DOMAIN v_log' /\ v_log'[Len(v_log) + 1] = range
    BY <1>1, <1>2, LogGrows
  <2>3. \A i \in DOMAIN v_log' : i \in DOMAIN v_log \/ i = Len(v_log) + 1
    BY <1>1, <1>2, LogGrows
  <2>. QED BY <2>1, <2>2, <2>3 DEF Logged
<1>6. ASSUME NEW l \in V!PCL, l \notin V!LinesOf(range) PROVE V!Contents(l)' = V!Contents(l)
  <2>1. \A a \in V!WordsOf(l) : a \in V!Addr /\ a \notin range
    BY <1>6, WordFacts DEF V!LinesOf
  <2>2. \A a \in V!WordsOf(l) : vr'[a] = vr[a]
    BY <1>1, <2>1
  <2>. QED BY <2>2 DEF V!Contents
<1>. USE <1>1, <1>3 DEF ReplicaInv
<1>7. InvControlVR'
  BY <1>2, CreateCount DEF InvControlVR, Recovering, Flushing, Installed
<1>8. InvHeader' /\ InvSeqVR'
  BY DEF InvHeader, InvSeqVR, Installed
<1>9. InvLines'
  BY DEF InvLines, Installed, Flushing, Busy, V!Recovered
<1>10. InvPoint'
  BY DEF InvPoint, Recovering, Installed
<1>11. InvReplica'
  BY <1>5, <1>6 DEF InvReplica, Recovering, Flushing
<1>12. InvCreation'
  <2>1. CASE creating
    <3>1. \A a \in V!Addr :
            \/ StoredVR(a, cur)' = {} /\ vr'[a] = Zero
            \/ \E i \in StoredVR(a, cur)' : /\ \A j \in StoredVR(a, cur)' : j <= i
                                            /\ vr'[a] = CreateStores[i][2]
      BY <2>1, CreationStoreVR
    <3>2. /\ Len(v_log) = IF cur <= Len(CreateStores) THEN cur - 1 ELSE Len(CreateStores)
          /\ \A i \in DOMAIN v_log : v_log[i] = CreateStores[i][1]
      BY <2>1 DEF InvCreation
    <3>3. Len(v_log) + 1 = cur
      BY <2>1, <3>2, <1>2, CreateCount
    <3>4. Len(v_log') = IF cur' <= Len(CreateStores) THEN cur' - 1 ELSE Len(CreateStores)
      BY <2>1, <3>3, <1>2, CreateCount, LogGrows
    <3>5. \A i \in DOMAIN v_log' : v_log'[i] = CreateStores[i][1]
      <4>1. \A i \in DOMAIN v_log : v_log'[i] = v_log[i]
        BY <1>2, LogGrows
      <4>2. v_log'[cur] = range /\ \A i \in DOMAIN v_log' : i \in DOMAIN v_log \/ i = cur
        BY <1>2, <3>3, LogGrows
      <4>. QED BY <2>1, <3>2, <4>1, <4>2
    <3>6. ~Flushing' /\ creating'
      BY <2>1 DEF Flushing
    <3>7. \A l \in V!PCL : l \in CreateLines
                             \/ (cache'[l] = V!ZeroLines[l] /\ pm'[l] = V!ZeroLines[l])
      BY <2>1 DEF InvCreation
    <3>. QED BY <3>1, <3>4, <3>5, <3>6, <3>7 DEF InvCreation
  <2>2. CASE ~creating
    BY <2>2 DEF InvCreation
  <2>. QED BY <2>1, <2>2
<1>. QED BY <1>4, <1>7, <1>8, <1>9, <1>10, <1>11, <1>12

LEMMA CreateRootInv ==
  ASSUME V!ReplicaAssumption, TypeOK, ReplicaInv, V!CreateRoot
  PROVE  TypeOK' /\ ReplicaInv'
<1>. DEFINE h == [cache[V!pmd] EXCEPT !.root = TRUE]
<1>0. cache[V!pmd] \in HeaderVR
  BY DEF TypeOK, LinesAndHeader
<1>1. h \in HeaderVR /\ h.p_seq = cache[V!pmd].p_seq /\ h.id = cache[V!pmd].id
  BY <1>0 DEF HeaderVR
<1>2. cache' = [cache EXCEPT ![V!pmd] = h] /\ pm' = pm /\ pwb' = pwb
  BY DEF V!CreateRoot, V!Store
<1>. HIDE DEF h
<1>3. LinesAndHeader(cache)' /\ cache'[V!pmd] = h /\ \A k \in V!PCL : cache'[k] = cache[k]
  BY <1>1, <1>2, HeaderStore DEF TypeOK
<1>4. /\ creating /\ pc = "tx" /\ cur = Len(CreateStores) + 1 /\ cur' = cur + 1
      /\ UNCHANGED <<pc, creating, nested, vr, v_log, todo>>
  BY DEF V!CreateRoot
<1>5. V!p_seq' = V!p_seq
  BY <1>1, <1>3 DEF V!p_seq
<1>6. ~cache[V!pmd].id /\ ~pm[V!pmd].id /\ todo = {}
  BY <1>4 DEF ReplicaInv, InvControlVR, InvHeader, Flushing, Recovering
<1>7. cur \in Nat /\ cur' \in Nat \ {0} /\ cur' = Len(CreateStores) + 2
  BY <1>4, CreateCount
<1>8. TypeOK'
  BY <1>2, <1>3, <1>4, <1>7 DEF TypeOK, LinesAndHeader
<1>. USE <1>1, <1>2, <1>3, <1>4, <1>5, <1>6 DEF ReplicaInv
<1>9. InvControlVR' /\ InvHeader'
  BY <1>7 DEF InvControlVR, InvHeader, Recovering, Flushing, Installed
<1>10. InvSeqVR' /\ InvLines' /\ InvPoint'
  BY DEF InvSeqVR, InvLines, InvPoint, Recovering, Flushing, Installed, Busy, V!Recovered
<1>11. InvReplica'
  BY ReplicaKept DEF InvReplica, Recovering, Flushing
<1>12. InvCreation'
  <2>1. \A a \in V!Addr : StoredVR(a, cur)' = StoredVR(a, cur)
    BY CreateCount DEF StoredVR
  <2>2. Len(v_log') = IF cur' <= Len(CreateStores) THEN cur' - 1 ELSE Len(CreateStores)
    BY <1>7, CreateCount DEF InvCreation
  <2>. QED BY <2>1, <2>2 DEF InvCreation, Flushing
<1>. QED BY <1>8, <1>9, <1>10, <1>11, <1>12

LEMMA CreateIdInv ==
  ASSUME V!ReplicaAssumption, TypeOK, ReplicaInv, V!CreateId
  PROVE  TypeOK' /\ ReplicaInv'
<1>. DEFINE h == [cache[V!pmd] EXCEPT !.id = TRUE]
<1>0. cache[V!pmd] \in HeaderVR
  BY DEF TypeOK, LinesAndHeader
<1>1. h \in HeaderVR /\ h.p_seq = cache[V!pmd].p_seq /\ h.id = TRUE
  BY <1>0 DEF HeaderVR
<1>2. cache' = [cache EXCEPT ![V!pmd] = h] /\ pm' = pm /\ pwb' = pwb \cup {V!pmd} /\ pwb = {}
  BY DEF V!CreateId, V!StorePWB, V!Fenced
<1>. HIDE DEF h
<1>3. LinesAndHeader(cache)' /\ cache'[V!pmd] = h /\ \A k \in V!PCL : cache'[k] = cache[k]
  BY <1>1, <1>2, HeaderStore DEF TypeOK
<1>4. pc = "createRoot" /\ pc' = "createId" /\ UNCHANGED <<creating, nested, vr, v_log, todo, cur>>
  BY DEF V!CreateId
<1>5. V!p_seq' = V!p_seq
  BY <1>1, <1>3 DEF V!p_seq
<1>6. creating /\ ~cache[V!pmd].id /\ ~pm[V!pmd].id /\ todo = {} /\ V!p_seq = 2 /\ Installed /\ v_log = <<>>
  BY <1>4 DEF ReplicaInv, InvControlVR, InvHeader, Flushing, Recovering, Installed
<1>7. \A l \in V!PCL : pm[l] = cache[l]
  BY <1>2, <1>4, <1>6 DEF ReplicaInv, InvLines, Busy, Flushing
<1>8. TypeOK'
  BY <1>2, <1>3, <1>4, LineFactsVR DEF TypeOK, LinesAndHeader, PC
<1>. USE <1>1, <1>2, <1>3, <1>4, <1>5, <1>6 DEF ReplicaInv
<1>9. InvControlVR' /\ InvHeader'
  BY DEF InvControlVR, InvHeader, Recovering, Flushing, Installed
<1>10. InvSeqVR' /\ InvLines' /\ InvPoint'
  BY <1>7 DEF InvSeqVR, InvLines, InvPoint, Recovering, Flushing, Installed, Busy, V!Recovered
<1>11. InvReplica'
  BY ReplicaKept DEF InvReplica, Recovering, Flushing
<1>12. InvCreation'
  BY DEF InvCreation, Flushing, StoredVR
<1>. QED BY <1>8, <1>9, <1>10, <1>11, <1>12

(* persistAndFlush() visits the lines that the transaction has logged. *)
LEMMA VisitsOfLog ==
  ASSUME V!ReplicaAssumption, v_log \in Seq(Range_)
  PROVE  /\ V!LinesLogged \subseteq (Nat \X V!PCL)
         /\ \A l \in V!PCL : (\E x \in V!LinesLogged : x[2] = l) <=> Logged(l)
<1>1. \A i \in DOMAIN v_log : v_log[i] \in Range_ /\ Len(v_log) - i \in Nat
  OBVIOUS
<1>2. \A i \in DOMAIN v_log : V!LinesOf(v_log[i]) \subseteq V!PCL
  BY <1>1, RangeFacts
<1>3. ASSUME NEW x \in V!LinesLogged
      PROVE  \E i \in DOMAIN v_log : x \in {Len(v_log) - i} \X V!LinesOf(v_log[i])
  BY DEF V!LinesLogged
<1>4. ASSUME NEW x \in V!LinesLogged
      PROVE  x \in Nat \X V!PCL /\ \E i \in DOMAIN v_log : x[2] \in V!LinesOf(v_log[i])
  BY <1>1, <1>2, <1>3
<1>5. ASSUME NEW i \in DOMAIN v_log, NEW l \in V!LinesOf(v_log[i])
      PROVE  <<Len(v_log) - i, l>> \in V!LinesLogged
  <2>1. <<Len(v_log) - i, l>> \in {Len(v_log) - i} \X V!LinesOf(v_log[i])
    OBVIOUS
  <2>. QED BY <2>1 DEF V!LinesLogged
<1>6. ASSUME NEW l \in V!PCL PROVE (\E x \in V!LinesLogged : x[2] = l) <=> Logged(l)
  BY <1>4, <1>5 DEF Logged
<1>. QED BY <1>4, <1>6

LEMMA EndTxInvVR ==
  ASSUME V!ReplicaAssumption, TypeOK, ReplicaInv, V!EndTx
  PROVE  TypeOK' /\ ReplicaInv'
<1>1. /\ pc = "tx" /\ pc' = "flush" /\ nested' = 0 /\ todo' = V!LinesLogged
      /\ creating => cur = Len(CreateStores) + 2
      /\ UNCHANGED <<cache, pm, pwb, creating, vr, v_log, cur>>
  BY DEF V!EndTx
<1>2. V!p_seq' = V!p_seq /\ v_log \in Seq(Range_) /\ V!p_seq \in Nat
  BY <1>1, Numbers DEF V!p_seq, TypeOK
<1>3. \A l \in V!PCL : (Pending(l)' <=> Logged(l)) /\ (Logged(l)' <=> Logged(l)) /\ ~Busy(l)'
                       /\ ~Busy(l) /\ V!Contents(l)' = V!Contents(l)
  BY <1>1, <1>2, VisitsOfLog, ReplicaKept DEF Pending, Busy
<1>4. TypeOK'
  BY <1>1, <1>2, VisitsOfLog DEF TypeOK, LinesAndHeader, PC
<1>5. \A l \in V!PCL : cache[l].seq < V!p_seq /\ cache[l].seq \in Nat
  BY <1>1, Numbers DEF ReplicaInv, InvPoint
<1>6. creating => \A l \in V!PCL : l \in CreateLines <=> Logged(l)
  <2>. SUFFICES ASSUME creating PROVE \A l \in V!PCL : l \in CreateLines <=> Logged(l)
    OBVIOUS
  <2>0. cur = Len(CreateStores) + 2
    BY <1>1
  <2>1. /\ Len(v_log) = IF cur <= Len(CreateStores) THEN cur - 1 ELSE Len(CreateStores)
        /\ \A i \in DOMAIN v_log : v_log[i] = CreateStores[i][1]
    BY <1>1 DEF ReplicaInv, InvCreation
  <2>2. Len(v_log) = Len(CreateStores)
    <3>1. ~(cur <= Len(CreateStores))
      BY <2>0, CreateCount
    <3>. QED BY <2>1, <3>1
  <2>3. DOMAIN v_log = DOMAIN CreateStores
    BY <1>2, <2>2, CreateCount
  <2>. QED BY <2>1, <2>3 DEF CreateLines, Logged
<1>. USE <1>1, <1>2 DEF ReplicaInv
<1>7. InvControlVR' /\ InvHeader' /\ InvSeqVR'
  BY DEF InvControlVR, InvHeader, InvSeqVR, Recovering, Flushing, Installed
<1>8. InvLines'
  BY <1>3, <1>5, <1>6 DEF InvLines, Installed, Flushing
<1>9. InvPoint'
  BY DEF InvPoint, Recovering, Installed
<1>10. InvReplica'
  BY <1>3, <1>5 DEF InvReplica, Recovering, Flushing
<1>11. InvCreation'
  BY <1>3, <1>6 DEF InvCreation, Flushing, StoredVR
<1>. QED BY <1>4, <1>7, <1>8, <1>9, <1>10, <1>11

LEMMA SetPSeq ==
  ASSUME NEW h \in HeaderVR, NEW n \in Nat
  PROVE  /\ [h EXCEPT !.p_seq = n] \in HeaderVR
         /\ [h EXCEPT !.p_seq = n].p_seq = n /\ [h EXCEPT !.p_seq = n].id = h.id
         /\ [[h EXCEPT !.p_seq = n] EXCEPT !.p_seq = h.p_seq] = h
BY DEF HeaderVR

LEMMA EndTxIncrementInv ==
  ASSUME V!ReplicaAssumption, TypeOK, ReplicaInv, V!EndTxIncrement
  PROVE  TypeOK' /\ ReplicaInv'
<1>. DEFINE h == [cache[V!pmd] EXCEPT !.p_seq = V!p_seq + 1]
<1>0. cache[V!pmd] \in HeaderVR /\ V!p_seq \in Nat
  BY Numbers DEF TypeOK, LinesAndHeader
<1>1. /\ h \in HeaderVR /\ h.p_seq = V!p_seq + 1 /\ h.id = cache[V!pmd].id
      /\ [h EXCEPT !.p_seq = V!p_seq] = cache[V!pmd]
  <2>. DEFINE g == cache[V!pmd]
              n == V!p_seq + 1
  <2>1. g \in HeaderVR /\ n \in Nat /\ h = [g EXCEPT !.p_seq = n] /\ V!p_seq = g.p_seq
    BY <1>0 DEF V!p_seq
  <2>. HIDE DEF g, n, h
  <2>2. h \in HeaderVR /\ h.p_seq = n /\ h.id = g.id /\ [h EXCEPT !.p_seq = V!p_seq] = g
    BY <2>1, SetPSeq
  <2>. QED BY <2>2 DEF g, n
<1>2. cache' = [cache EXCEPT ![V!pmd] = h] /\ pm' = pm /\ pwb' = {V!pmd} /\ pwb = {}
  BY DEF V!EndTxIncrement, V!StorePWB, V!Fenced
<1>. HIDE DEF h
<1>3. LinesAndHeader(cache)' /\ cache'[V!pmd] = h /\ \A k \in V!PCL : cache'[k] = cache[k]
  BY <1>1, <1>2, HeaderStore DEF TypeOK
<1>4. /\ pc = "flush" /\ todo = {} /\ pc' = "sync"
      /\ UNCHANGED <<creating, nested, vr, v_log, todo, cur>>
  BY DEF V!EndTxIncrement
<1>5. V!p_seq' = V!p_seq + 1
  BY <1>1, <1>3 DEF V!p_seq
<1>6. \A l \in V!PCL : /\ pm[l] = cache[l] /\ cache[l].seq <= V!p_seq /\ cache[l].seq \in Nat
                       /\ cache[l].main = V!Contents(l)
  <2>1. ASSUME NEW l \in V!PCL PROVE pm[l] = cache[l]
    BY <1>2, <1>4 DEF ReplicaInv, InvLines, Busy, Pending
  <2>2. ASSUME NEW l \in V!PCL PROVE cache[l].seq <= V!p_seq /\ cache[l].seq \in Nat
    BY <1>4, Numbers DEF ReplicaInv, InvSeqVR
  <2>3. ASSUME NEW l \in V!PCL PROVE cache[l].main = V!Contents(l)
    BY <1>4 DEF ReplicaInv, InvReplica, Pending, Recovering
  <2>. QED BY <2>1, <2>2, <2>3
<1>7. TypeOK'
  BY <1>2, <1>3, <1>4, LineFactsVR DEF TypeOK, LinesAndHeader, PC
<1>8. InvControlVR'
  BY <1>0, <1>1, <1>2, <1>3, <1>4, <1>5
     DEF ReplicaInv, InvControlVR, Recovering, Flushing, Installed
<1>9. InvHeader'
  <2>1. pm[V!pmd].id => ~creating /\ V!p_seq > 1 /\ pm[V!pmd] = cache[V!pmd]
    BY <1>4 DEF ReplicaInv, InvHeader, InvControlVR, Installed
  <2>2. V!p_seq' - 1 = V!p_seq
    BY <1>0, <1>5
  <2>3. [cache'[V!pmd] EXCEPT !.p_seq = V!p_seq' - 1] = cache[V!pmd]
    BY <1>1, <1>3, <2>2
  <2>4. ~pm[V!pmd].id => creating
    BY <1>4 DEF ReplicaInv, InvHeader
  <2>5. V!p_seq > 1 => V!p_seq' > 2
    BY <1>0, <1>5
  <2>. QED BY <1>2, <1>4, <2>1, <2>3, <2>4, <2>5 DEF InvHeader
<1>10. InvSeqVR'
  BY <1>0, <1>2, <1>3, <1>4, <1>5, <1>6 DEF InvSeqVR
<1>11. InvLines'
  BY <1>2, <1>3, <1>4, <1>6 DEF InvLines, Installed
<1>12. InvPoint'
  BY <1>0, <1>2, <1>3, <1>4, <1>5, <1>6 DEF InvPoint, Recovering, Installed
<1>13. InvReplica'
  BY <1>3, <1>4, <1>6, ReplicaKept DEF InvReplica
<1>14. InvCreation'
  BY <1>2, <1>3, <1>4 DEF ReplicaInv, InvCreation, Flushing, StoredVR
<1>. QED BY <1>7, <1>8, <1>9, <1>10, <1>11, <1>12, <1>13, <1>14 DEF ReplicaInv
-----------------------------------------------------------------------------
LEMMA EvictInvVR ==
  ASSUME V!ReplicaAssumption, TypeOK, ReplicaInv, V!Evict
  PROVE  TypeOK' /\ ReplicaInv'
<1>. PICK l \in V!Line : V!WriteBack(l)
  BY DEF V!Evict
<1>1. UNCHANGED <<pc, creating, nested, vr, v_log, todo, cur>>
  BY DEF V!Evict, V!engineVars
<1>2. /\ LinesAndHeader(pm)' /\ pm'[l] = cache[l] /\ cache' = cache /\ pwb' = pwb \ {l}
      /\ \A k \in V!Line : k # l => pm'[k] = pm[k]
  BY LineWritten DEF TypeOK
<1>3. \A k \in V!Line : pm'[k] = pm[k] \/ (k = l /\ pm'[k] = cache[k])
  BY <1>2
<1>4. pc = "down" => pm' = pm
  <2>. SUFFICES ASSUME pc = "down" PROVE pm' = pm
    OBVIOUS
  <2>1. cache = pm
    BY DEF ReplicaInv, InvControlVR
  <2>. QED BY <2>1, <1>2, <1>3 DEF TypeOK, LinesAndHeader
<1>5. V!p_seq' = V!p_seq
  BY <1>2 DEF V!p_seq
<1>6. TypeOK'
  BY <1>1, <1>2 DEF TypeOK, LinesAndHeader
<1>7. \A k \in V!PCL : /\ Pending(k)' <=> Pending(k)
                       /\ Logged(k)' <=> Logged(k)
                       /\ Busy(k)' <=> Busy(k)
                       /\ V!Contents(k)' = V!Contents(k)
  BY <1>1 DEF Pending, Logged, Busy, V!IsNext, V!Contents
<1>. USE <1>1, <1>2, <1>5, LineFactsVR DEF ReplicaInv
<1>8. InvControlVR'
  BY <1>4 DEF InvControlVR, Recovering, Flushing, Installed
<1>9. InvHeader'
  <2>1. CASE l = V!pmd
    BY <2>1 DEF InvHeader, InvControlVR, Installed
  <2>2. CASE l # V!pmd
    BY <2>2 DEF InvHeader, Installed
  <2>. QED BY <2>1, <2>2
<1>10. InvSeqVR'
  BY <1>3 DEF InvSeqVR
<1>11. InvLines'
  BY <1>3, <1>7 DEF InvLines, V!Recovered, Installed, Flushing
<1>12. InvPoint' /\ InvReplica'
  BY <1>7 DEF InvPoint, InvReplica, Recovering, Flushing, Installed
<1>13. InvCreation'
  BY <1>3, <1>7 DEF InvCreation, Flushing, StoredVR
<1>. QED BY <1>6, <1>8, <1>9, <1>10, <1>11, <1>12, <1>13

LEMMA CrashInvVR ==
  ASSUME V!ReplicaAssumption, TypeOK, ReplicaInv, V!Crash
  PROVE  TypeOK' /\ ReplicaInv'
<1>1. /\ cache' = pm /\ pm' = pm /\ pwb' = {} /\ pc' = "down" /\ creating' = FALSE
      /\ nested' = 0 /\ vr' = [a \in V!Addr |-> Zero] /\ v_log' = <<>> /\ todo' = {} /\ cur' = 1
  BY DEF V!Crash, V!PowerFailure
<1>2. TypeOK'
  <2>1. vr' \in [V!Addr -> Val]
    BY <1>1 DEF V!ReplicaAssumption
  <2>2. v_log' \in Seq(Range_)
    BY <1>1
  <2>3. pwb' \subseteq V!Line /\ pc' \in PC /\ creating' \in BOOLEAN
    BY <1>1 DEF PC
  <2>5. nested' \in Nat /\ cur' \in Nat \ {0}
    BY <1>1
  <2>6. todo' \subseteq (Nat \X V!PCL)
    BY <1>1
  <2>4. LinesAndHeader(cache)' /\ LinesAndHeader(pm)'
    BY <1>1 DEF TypeOK, LinesAndHeader
  <2>. QED BY <2>1, <2>2, <2>3, <2>4, <2>5, <2>6 DEF TypeOK
<1>3. /\ V!p_seq' = pm[V!pmd].p_seq /\ V!p_seq \in Nat /\ pm[V!pmd].p_seq \in Nat
      /\ \A l \in V!PCL : cache[l].seq \in Nat /\ pm[l].seq \in Nat
  BY <1>1, Numbers DEF V!p_seq
<1>4. /\ cache[V!pmd].id => V!p_seq > 1
      /\ pm[V!pmd].id => \/ pm[V!pmd] = cache[V!pmd]
                         \/ /\ pc = "sync" /\ ~creating /\ V!p_seq > 2
                            /\ pm[V!pmd] = [cache[V!pmd] EXCEPT !.p_seq = V!p_seq - 1]
  BY DEF ReplicaInv, InvControlVR, InvHeader
<1>5. pm[V!pmd].id => pm[V!pmd].p_seq > 1
  <2>1. CASE pm[V!pmd] = cache[V!pmd]
    BY <1>4, <2>1 DEF V!p_seq
  <2>2. CASE pm[V!pmd] = [cache[V!pmd] EXCEPT !.p_seq = V!p_seq - 1] /\ V!p_seq > 2
    BY <1>3, <2>2 DEF TypeOK, LinesAndHeader, HeaderVR
  <2>. QED BY <1>4, <2>1, <2>2
<1>6. InvControlVR' /\ InvHeader'
  BY <1>1, <1>3, <1>5 DEF InvControlVR, InvHeader, Recovering, Flushing, Installed
<1>7. ASSUME NEW l \in V!PCL, pm[V!pmd].id PROVE pm[l].seq <= pm[V!pmd].p_seq
  <2>1. CASE pm[V!pmd] = cache[V!pmd]
    BY <1>7, <2>1 DEF ReplicaInv, InvSeqVR, V!p_seq
  <2>2. CASE pc = "sync" /\ ~creating /\ pm[V!pmd] = [cache[V!pmd] EXCEPT !.p_seq = V!p_seq - 1]
    <3>1. cache[l].seq < V!p_seq /\ pwb \subseteq {V!pmd}
      BY <2>2 DEF ReplicaInv, InvPoint, Installed
    <3>2. pm[l] = cache[l]
      BY <2>2, <3>1, LineFactsVR DEF ReplicaInv, InvLines, Busy
    <3>3. pm[V!pmd].p_seq = V!p_seq - 1
      BY <1>3, <2>2 DEF TypeOK, LinesAndHeader, HeaderVR
    <3>. QED BY <1>3, <3>1, <3>2, <3>3
  <2>. QED BY <1>4, <1>7, <2>1, <2>2
<1>8. ASSUME NEW l \in V!PCL, ~pm[V!pmd].id PROVE pm[l].seq <= 1
  <2>1. creating \/ pc = "down"
    BY <1>8 DEF ReplicaInv, InvHeader
  <2>2. CASE pc = "down"
    BY <1>8, <2>2 DEF ReplicaInv, InvSeqVR, InvControlVR
  <2>3. CASE creating /\ ~Installed
    BY <2>3 DEF ReplicaInv, InvSeqVR, InvControlVR
  <2>4. CASE creating /\ Installed
    <3>1. cache[l].seq < V!p_seq /\ pwb \subseteq {V!pmd} /\ V!p_seq = 2
      BY <2>4 DEF ReplicaInv, InvPoint, InvControlVR
    <3>2. pm[l] = cache[l]
      BY <2>4, <3>1, LineFactsVR DEF ReplicaInv, InvLines, Busy, Installed, Flushing
    <3>. QED BY <1>3, <3>1, <3>2
  <2>. QED BY <2>1, <2>2, <2>3, <2>4
<1>9. InvSeqVR'
  BY <1>1, <1>3, <1>7, <1>8 DEF InvSeqVR
<1>10. InvLines' /\ InvPoint' /\ InvReplica'
  BY <1>1 DEF InvLines, InvPoint, InvReplica, Recovering, Installed, V!Recovered
<1>11. InvCreation'
  BY <1>1 DEF ReplicaInv, InvHeader, InvCreation, InvControlVR
<1>. QED BY <1>2, <1>6, <1>9, <1>10, <1>11 DEF ReplicaInv

LEMMA InitInvVR ==
  ASSUME V!ReplicaAssumption, V!Init
  PROVE  TypeOK /\ ReplicaInv
<1>. DEFINE h == [root |-> FALSE, id |-> FALSE, p_seq |-> 0]
<1>0. h \in HeaderVR /\ h.id = FALSE /\ h.p_seq = 0
  BY DEF HeaderVR
<1>. HIDE DEF h
<1>1. /\ cache = [l \in V!Line |-> cache[l]] /\ cache[V!pmd] = h /\ pm = cache
      /\ \A l \in V!PCL : cache[l] = V!ZeroLines[l]
  BY LineFactsVR DEF V!Init, V!InitReplica, h
<1>2. /\ pwb = {} /\ pc = "down" /\ creating = FALSE /\ nested = 0
      /\ vr = [a \in V!Addr |-> Zero] /\ v_log = <<>> /\ todo = {} /\ cur = 1
  BY DEF V!Init, V!InitReplica
<1>3. \A l \in V!PCL : V!ZeroLines[l] \in LineType(l) /\ V!ZeroLines[l].seq = 0
  BY ZeroLine
<1>4. TypeOK
  <2>1. vr \in [V!Addr -> Val]
    BY <1>2 DEF V!ReplicaAssumption
  <2>2. v_log \in Seq(Range_)
    BY <1>2
  <2>3. LinesAndHeader(cache) /\ LinesAndHeader(pm)
    BY <1>0, <1>1, <1>3 DEF LinesAndHeader
  <2>4. pwb \subseteq V!Line /\ pc \in PC /\ creating \in BOOLEAN
    BY <1>2 DEF PC
  <2>5. nested \in Nat /\ cur \in Nat \ {0}
    BY <1>2
  <2>6. todo \subseteq (Nat \X V!PCL)
    BY <1>2
  <2>. QED BY <2>1, <2>2, <2>3, <2>4, <2>5, <2>6 DEF TypeOK
<1>5. InvControlVR /\ InvHeader
  BY <1>0, <1>1, <1>2 DEF InvControlVR, InvHeader, Recovering, Flushing, Installed
<1>6. InvSeqVR
  <2>1. \A l \in V!PCL : cache[l].seq = 0 /\ pm[l].seq = 0
    BY <1>1, <1>3
  <2>2. pc = "down" /\ ~cache[V!pmd].id
    BY <1>0, <1>1, <1>2
  <2>. QED BY <2>1, <2>2 DEF InvSeqVR
<1>7. InvLines /\ InvPoint /\ InvReplica /\ InvCreation
  BY <1>0, <1>1, <1>2 DEF InvLines, InvPoint, InvReplica, InvCreation, Recovering, Installed
<1>. QED BY <1>4, <1>5, <1>6, <1>7 DEF ReplicaInv

LEMMA NextInvVR ==
  ASSUME V!ReplicaAssumption, TypeOK, ReplicaInv, [V!Next]_(V!vars)
  PROVE  TypeOK' /\ ReplicaInv'
<1>1. CASE V!Open
  BY <1>1, OpenNewInvVR, OpenExistingInvVR DEF V!Open
<1>2. CASE V!Recover
  BY <1>2, RecoverMainInv, RecoverSeqInv, CopyToReplicaInv DEF V!Recover
<1>3. CASE V!UserPstore
  BY <1>3, PstoreInv DEF V!UserPstore
<1>4. CASE V!CreatePstore
  <2>1. creating /\ cur \in DOMAIN CreateStores
    BY <1>4, CreateCount DEF V!CreatePstore, TypeOK
  <2>. QED BY <1>4, <2>1, CreateStoreTypeVR, PstoreInv DEF V!CreatePstore
<1>5. CASE V!BeginTx(V!p_seq) \/ V!BeginNestedTx \/ V!EndNestedTx \/ V!CreateRoot \/ V!EndTx \/ V!CreateId \/ V!CreateDone
  BY <1>5, BeginTxInv, NestingInv, CreateRootInv, EndTxInvVR, CreateIdInv, CreateDoneInv
<1>6. CASE V!Commit
  BY <1>6, StoreRangeSkipInv, StoreRangeBackInv, StoreRangeSeqInv, StoreRangeMainInv,
     EndTxIncrementInv, EndTxSyncInvVR DEF V!Commit
<1>7. CASE V!Evict \/ V!Crash \/ UNCHANGED V!vars
  BY <1>7, EvictInvVR, CrashInvVR, StutterInv
<1>. QED BY <1>1, <1>2, <1>3, <1>4, <1>5, <1>6, <1>7 DEF V!Next, V!Transaction

(* The types and the invariant of storeRange(), endTx(), recover() and     *)
(* creation: with evictions and power failures anywhere, the region        *)
(* recovers to what the last commit left, and where the replica differs    *)
(* from it a line is still to be flushed.                                  *)
THEOREM TrinityVRInvariant == V!ReplicaAssumption => (V!Spec => [](TypeOK /\ ReplicaInv))
<1>. SUFFICES ASSUME V!ReplicaAssumption PROVE V!Spec => [](TypeOK /\ ReplicaInv)
  OBVIOUS
<1>0. V!Init => TypeOK /\ ReplicaInv
  BY InitInvVR
<1>1. TypeOK /\ ReplicaInv /\ [V!Next]_(V!vars) => TypeOK' /\ ReplicaInv'
  BY NextInvVR
<1>. QED BY <1>0, <1>1, PTL DEF V!Spec

-----------------------------------------------------------------------------
(* Once all lines are written back and none is of a transaction that       *)
(* p_seq has yet to pass, the region stands for the replica.               *)
LEMMA RegionIsReplica ==
  ASSUME V!ReplicaAssumption, TypeOK, NEW mem, NEW seq \in Nat,
         \A l \in V!PCL : mem[l] = cache[l] /\ cache[l].seq < seq /\ cache[l].main = V!Contents(l),
         NEW a \in V!Addr
  PROVE  V!Recovered(mem[V!LineOf(a)], seq)[a] = vr[a]
<1>. DEFINE l == V!LineOf(a)
<1>1. l \in V!PCL /\ a \in V!WordsOf(l)
  BY LineOfWord, WordFacts
<1>2. cache[l].seq \in Nat /\ cache[l].seq < seq /\ mem[l] = cache[l] /\ cache[l].main = V!Contents(l)
  BY <1>1, Numbers
<1>3. V!Recovered(mem[l], seq) = V!Contents(l)
  BY <1>2 DEF V!Recovered
<1>4. V!Contents(l)[a] = vr[a]
  BY <1>1 DEF V!Contents
<1>. QED BY <1>3, <1>4

LEMMA IdleReplica ==
  ASSUME V!ReplicaAssumption, TypeOK, ReplicaInv
  PROVE  V!ReplicaExpendable
<1>. SUFFICES ASSUME pc = "idle" PROVE V!DurableMem = vr
  BY DEF V!ReplicaExpendable
<1>1. pwb = {} /\ \A l \in V!PCL : cache[l].seq < V!p_seq
  BY DEF ReplicaInv, InvPoint
<1>2. pm[V!pmd] = cache[V!pmd]
  BY <1>1 DEF ReplicaInv, InvHeader, InvControlVR, Flushing, Installed
<1>3. \A l \in V!PCL : pm[l] = cache[l] /\ cache[l].main = V!Contents(l)
  BY <1>1 DEF ReplicaInv, InvLines, InvReplica, InvControlVR, Busy, Flushing, Recovering, Installed
<1>4. \A a \in V!Addr : V!Recovered(pm[V!LineOf(a)], pm[V!pmd].p_seq)[a] = vr[a]
  BY <1>1, <1>2, <1>3, RegionIsReplica, Numbers
<1>. QED BY <1>4 DEF V!DurableMem, TypeOK

(* Between transactions the region by itself stands for the replica        *)
(* (mapVolatileRegion, "Copy all contents of PM's 'main's to VR").         *)
THEOREM ReplicaIsExpendable == V!ReplicaAssumption => (V!Spec => []V!ReplicaExpendable)
<1>. SUFFICES ASSUME V!ReplicaAssumption PROVE V!Spec => []V!ReplicaExpendable
  OBVIOUS
<1>1. TypeOK /\ ReplicaInv => V!ReplicaExpendable
  BY IdleReplica
<1>2. V!Spec => [](TypeOK /\ ReplicaInv)
  BY TrinityVRInvariant
<1>. QED BY <1>1, <1>2, PTL
-----------------------------------------------------------------------------
(* A write-back of a line changes nothing that recovery would find. *)
LEMMA EvictLine ==
  ASSUME V!ReplicaAssumption, TypeOK, ReplicaInv, pm[V!pmd].id, NEW l \in V!PCL, V!WriteBack(l)
  PROVE  V!DurableMem' = V!DurableMem
<1>1. /\ pm'[V!pmd] = pm[V!pmd] /\ pm'[l] = cache[l]
      /\ \A k \in V!PCL : k # l => pm'[k] = pm[k]
  BY LineWritten, LineFactsVR DEF TypeOK
<1>2. V!Recovered(cache[l], pm[V!pmd].p_seq) = V!Recovered(pm[l], pm[V!pmd].p_seq)
  <2>1. CASE Installed
    <3>1. pwb \subseteq {V!pmd}
      BY <2>1 DEF ReplicaInv, InvPoint
    <3>2. pm[l] = cache[l]
      BY <2>1, <3>1, LineFactsVR DEF ReplicaInv, InvLines, Busy, Installed, Flushing
    <3>. QED BY <3>2
  <2>2. CASE ~Installed
    <3>1. pm[V!pmd] = cache[V!pmd] /\ ~creating
      BY <2>2 DEF ReplicaInv, InvHeader, InvControlVR, Installed
    <3>. QED BY <2>2, <3>1 DEF ReplicaInv, InvLines, V!p_seq
  <2>. QED BY <2>1, <2>2
<1>3. ASSUME NEW a \in V!Addr
      PROVE  V!Recovered(pm'[V!LineOf(a)], pm'[V!pmd].p_seq) = V!Recovered(pm[V!LineOf(a)], pm[V!pmd].p_seq)
  BY <1>1, <1>2, LineOfWord
<1>. QED BY <1>3 DEF V!DurableMem, V!Recovered

(* When the last PFENCE of endTx() has returned, the medium holds every    *)
(* line as the replica has it.                                             *)
LEMMA InstalledLines ==
  ASSUME V!ReplicaAssumption, TypeOK, ReplicaInv, Installed
  PROVE  \A l \in V!PCL : pm[l] = cache[l] /\ cache[l].seq < V!p_seq /\ cache[l].main = V!Contents(l)
<1>1. pwb \subseteq {V!pmd} /\ \A l \in V!PCL : cache[l].seq < V!p_seq
  BY DEF ReplicaInv, InvPoint
<1>2. \A l \in V!PCL : pm[l] = cache[l]
  BY <1>1, LineFactsVR DEF ReplicaInv, InvLines, Busy, Installed, Flushing
<1>3. \A l \in V!PCL : cache[l].main = V!Contents(l)
  BY DEF ReplicaInv, InvReplica, Installed, Recovering, Flushing
<1>. QED BY <1>1, <1>2, <1>3

LEMMA HeaderReachesMedium ==
  ASSUME V!ReplicaAssumption, TypeOK, ReplicaInv, Installed, V!WriteBack(V!pmd)
  PROVE  pm'[V!pmd] = cache[V!pmd] /\ V!DurableMem' = vr
<1>1. pm'[V!pmd] = cache[V!pmd] /\ \A l \in V!PCL : pm'[l] = pm[l]
  BY LineWritten, LineFactsVR DEF TypeOK
<1>2. pm'[V!pmd].p_seq = V!p_seq /\ V!p_seq \in Nat
  BY <1>1, Numbers DEF V!p_seq
<1>3. \A a \in V!Addr : V!Recovered(pm'[V!LineOf(a)], pm'[V!pmd].p_seq)[a] = vr[a]
  BY <1>1, <1>2, InstalledLines, RegionIsReplica
<1>4. V!DurableMem' = [a \in V!Addr |-> V!Recovered(pm'[V!LineOf(a)], pm'[V!pmd].p_seq)[a]]
  BY DEF V!DurableMem, V!Recovered
<1>. QED BY <1>1, <1>3, <1>4 DEF TypeOK

(* All stores of the creating transaction done, the replica holds what     *)
(* InitMem says, whatever an earlier attempt left in the region.           *)
LEMMA CreatedMemVR ==
  ASSUME V!ReplicaAssumption, TypeOK, ReplicaInv, creating, cur = Len(CreateStores) + 2
  PROVE  vr = V!InitMem
<1>. SUFFICES ASSUME NEW a \in V!Addr PROVE vr[a] = V!InitMem[a]
  BY DEF V!InitMem, TypeOK
<1>. DEFINE stores == {i \in DOMAIN CreateStores : a \in CreateStores[i][1]}
<1>1. stores = StoredVR(a, cur)
  BY CreateCount DEF StoredVR
<1>2. \/ StoredVR(a, cur) = {} /\ vr[a] = Zero
      \/ \E i \in StoredVR(a, cur) : /\ \A j \in StoredVR(a, cur) : j <= i
                                     /\ vr[a] = CreateStores[i][2]
  BY DEF ReplicaInv, InvCreation
<1>3. V!InitMem[a] = IF stores = {} THEN Zero
                     ELSE CreateStores[CHOOSE i \in stores : \A j \in stores : j <= i][2]
  BY DEF V!InitMem
<1>4. CASE stores = {}
  BY <1>1, <1>2, <1>3, <1>4
<1>5. CASE stores # {}
  <2>1. PICK i \in stores : (\A j \in stores : j <= i) /\ vr[a] = CreateStores[i][2]
    BY <1>1, <1>2, <1>5
  <2>2. \A k \in stores : k \in Nat
    BY CreateCount
  <2>3. \A k \in stores : (\A j \in stores : j <= k) => k = i
    BY <2>1, <2>2
  <2>4. (CHOOSE k \in stores : \A j \in stores : j <= k) = i
    BY <2>1, <2>3
  <2>. QED BY <1>3, <1>5, <2>1, <2>4
<1>. QED BY <1>4, <1>5

-----------------------------------------------------------------------------
(* The mapping to the abstract store, case by case. *)
AbstractVR == INSTANCE DurableStore WITH Addr <- V!Addr, InitMem <- V!InitMem,
                                         mem <- V!StoreMem, work <- V!StoreWork,
                                         phase <- V!StorePhase

Down == pc \in {"down", "recover", "recoverSeq"} \/ creating
IsDurable == pc = "sync" /\ pm[V!pmd].p_seq = V!p_seq

PhaseFactsVR ==
  /\ Down => V!StorePhase = "down" /\ V!StoreWork = V!StoreMem
  /\ ~Down => V!StoreWork = vr
  /\ ~Down /\ pc = "idle" => V!StorePhase = "idle"
  /\ ~Down /\ IsDurable => V!StorePhase = "durable"
  /\ ~Down /\ pc # "idle" /\ ~IsDurable => V!StorePhase = "active"

LEMMA PhaseOfVR == TypeOK => PhaseFactsVR
<1>. SUFFICES ASSUME TypeOK PROVE PhaseFactsVR
  OBVIOUS
<1>. pc \in PC /\ creating \in BOOLEAN
  BY DEF TypeOK
<1>1. CASE Down
  <2>1. V!StorePhase = "down"
    BY <1>1 DEF V!StorePhase, Down
  <2>. QED BY <1>1, <2>1 DEF PhaseFactsVR, V!StoreWork
<1>2. CASE ~Down /\ pc = "idle"
  <2>1. V!StorePhase = "idle"
    BY <1>2 DEF V!StorePhase, Down
  <2>. QED BY <1>2, <2>1 DEF PhaseFactsVR, V!StoreWork, IsDurable
<1>3. CASE ~Down /\ IsDurable
  <2>1. V!StorePhase = "durable"
    BY <1>3 DEF V!StorePhase, Down, IsDurable
  <2>. QED BY <1>3, <2>1 DEF PhaseFactsVR, V!StoreWork, IsDurable
<1>4. CASE ~Down /\ pc # "idle" /\ ~IsDurable
  <2>1. V!StorePhase = "active"
    BY <1>4 DEF V!StorePhase, Down, IsDurable
  <2>. QED BY <1>4, <2>1 DEF PhaseFactsVR, V!StoreWork, IsDurable
<1>. QED BY <1>1, <1>2, <1>3, <1>4

LEMMA PhasesOf == TypeOK /\ TypeOK' => PhaseFactsVR /\ PhaseFactsVR'
BY PhaseOfVR, PTL

LEMMA SameMemVR == ASSUME pm' = pm PROVE V!StoreMem' = V!StoreMem
BY DEF V!StoreMem, V!DurableMem, V!Recovered, V!InitMem

(* A region in use has a durable MAGIC_ID. *)
LEMMA InUseVR ==
  ASSUME V!ReplicaAssumption, TypeOK, ReplicaInv, ~Down
  PROVE  /\ pm[V!pmd].id /\ V!StoreMem = V!DurableMem
         /\ pc # "sync" => pm[V!pmd] = cache[V!pmd]
BY DEF ReplicaInv, InvHeader, Down, V!StoreMem

IdleFacts == pc = "idle" => ~Down /\ V!StoreMem = vr

LEMMA IdleMem ==
  ASSUME V!ReplicaAssumption, TypeOK, ReplicaInv
  PROVE  IdleFacts
<1>. SUFFICES ASSUME pc = "idle" PROVE ~Down /\ V!StoreMem = vr
  BY DEF IdleFacts
<1>1. ~Down
  BY DEF Down, ReplicaInv, InvControlVR, Flushing, Installed
<1>. QED BY <1>1, InUseVR, IdleReplica DEF V!ReplicaExpendable

AbsVR == AbstractVR!Next \/ UNCHANGED <<V!StoreMem, V!StoreWork, V!StorePhase>>

(* A step of the constructor, or of recovery, that goes on. *)
LEMMA DownStepVR ==
  ASSUME TypeOK, TypeOK', Down, Down', pm' = pm
  PROVE  AbsVR
BY PhasesOf, SameMemVR DEF PhaseFactsVR, AbsVR

LEMMA OpenStepVR ==
  ASSUME TypeOK, TypeOK', IdleFacts', Down, pc' = "idle", pm' = pm
  PROVE  AbsVR
<1>1. /\ V!StorePhase = "down" /\ V!StorePhase' = "idle"
      /\ V!StoreWork' = V!StoreMem /\ V!StoreMem' = V!StoreMem
  BY PhasesOf, SameMemVR DEF PhaseFactsVR, IdleFacts
<1>. QED BY <1>1 DEF AbsVR, AbstractVR!Next, AbstractVR!Open

(* A step inside of a transaction that leaves the replica alone. *)
LEMMA ActiveStepVR ==
  ASSUME TypeOK, TypeOK', ~Down, ~Down', pm' = pm, pc # "idle", pc' # "idle",
         ~IsDurable, ~IsDurable', vr' = vr
  PROVE  AbsVR
BY PhasesOf, SameMemVR DEF PhaseFactsVR, AbsVR

(* A pstore() of the user: the abstract store writes the same words. *)
LEMMA WriteStepVR ==
  ASSUME V!ReplicaAssumption, TypeOK, TypeOK', ~creating, V!UserPstore
  PROVE  AbsVR
<1>1. PICK range \in Range_, v \in Val : V!Pstore(range, v)
  BY DEF V!UserPstore
<1>2. /\ pc = "tx" /\ pc' = "tx" /\ ~creating' /\ pm' = pm
      /\ vr' = [a \in V!Addr |-> IF a \in range THEN v ELSE vr[a]]
  BY <1>1 DEF V!Pstore
<1>3. V!StorePhase = "active" /\ V!StorePhase' = "active" /\ V!StoreMem' = V!StoreMem
  BY <1>2, PhasesOf, SameMemVR DEF PhaseFactsVR, Down, IsDurable
<1>4. V!StoreWork = vr /\ V!StoreWork' = vr'
  BY <1>2, PhasesOf DEF PhaseFactsVR, Down
<1>5. range \in SUBSET V!Addr
  BY RangeFacts
<1>6. \E S \in SUBSET V!Addr, w \in Val :
        V!StoreWork' = [a \in V!Addr |-> IF a \in S THEN w ELSE V!StoreWork[a]]
  BY <1>2, <1>4, <1>5
<1>7. AbstractVR!Write
  BY <1>3, <1>6 DEF AbstractVR!Write
<1>. QED BY <1>7 DEF AbsVR, AbstractVR!Next

(* A write-back that leaves what the medium stands for as it was. *)
LEMMA EvictStutters ==
  ASSUME V!ReplicaAssumption, TypeOK, TypeOK', NEW l \in V!Line, V!WriteBack(l), UNCHANGED V!engineVars,
         V!StoreMem' = V!StoreMem, l = V!pmd => pm[V!pmd] = cache[V!pmd] \/ Down
  PROVE  UNCHANGED <<V!StoreMem, V!StoreWork, V!StorePhase>>
<1>1. cache' = cache /\ pc' = pc /\ creating' = creating /\ vr' = vr
  BY DEF V!WriteBack, V!engineVars
<1>2. Down' <=> Down
  BY <1>1 DEF Down
<1>3. CASE Down
  BY <1>2, <1>3, PhasesOf DEF PhaseFactsVR
<1>4. CASE ~Down
  <2>1. pm'[V!pmd] = pm[V!pmd]
    BY <1>4, LineWritten, LineFactsVR DEF TypeOK
  <2>2. IsDurable' <=> IsDurable
    BY <1>1, <2>1 DEF IsDurable, V!p_seq
  <2>. QED BY <1>1, <1>2, <1>4, <2>2, PhasesOf DEF PhaseFactsVR
<1>. QED BY <1>3, <1>4

(* The commit of the running transaction, for the medium. *)
DurableNow ==
  /\ V!StorePhase = "active" /\ V!StorePhase' = "durable"
  /\ V!StoreWork = vr /\ V!StoreWork' = vr /\ V!StoreMem' = vr

LEMMA EvictStep ==
  ASSUME V!ReplicaAssumption, TypeOK, TypeOK', ReplicaInv, V!Evict
  PROVE  DurableNow \/ UNCHANGED <<V!StoreMem, V!StoreWork, V!StorePhase>>
<1>1. PICK l \in V!Line : V!WriteBack(l)
  BY DEF V!Evict
<1>2. UNCHANGED V!engineVars
  BY DEF V!Evict
<1>3. V!InitMem' = V!InitMem
  BY DEF V!InitMem
<1>4. CASE l \in V!PCL
  <2>1. pm'[V!pmd] = pm[V!pmd] /\ l # V!pmd
    BY <1>1, <1>4, LineWritten, LineFactsVR DEF TypeOK
  <2>2. V!StoreMem' = V!StoreMem
    BY <1>1, <1>3, <1>4, <2>1, EvictLine DEF V!StoreMem
  <2>. QED BY <1>1, <1>2, <2>1, <2>2, EvictStutters
<1>5. CASE l = V!pmd /\ pm[V!pmd] = cache[V!pmd]
  <2>1. pm' = pm
    BY <1>1, <1>5, LineFactsVR DEF V!WriteBack, TypeOK, LinesAndHeader
  <2>2. V!StoreMem' = V!StoreMem
    BY <2>1, SameMemVR
  <2>. QED BY <1>1, <1>2, <1>5, <2>2, EvictStutters
<1>6. CASE l = V!pmd /\ ~pm[V!pmd].id /\ cache[V!pmd].id /\ pm[V!pmd] # cache[V!pmd]
  <2>1. creating /\ pc = "createId" /\ Installed /\ cur = Len(CreateStores) + 2
    BY <1>6 DEF ReplicaInv, InvHeader, InvControlVR, Installed
  <2>2. pm'[V!pmd] = cache[V!pmd] /\ V!DurableMem' = vr /\ vr = V!InitMem
    BY <1>1, <1>6, <2>1, HeaderReachesMedium, CreatedMemVR
  <2>3. V!StoreMem' = V!StoreMem
    BY <1>6, <2>2 DEF V!StoreMem
  <2>4. Down
    BY <2>1 DEF Down
  <2>. QED BY <1>1, <1>2, <2>3, <2>4, EvictStutters
<1>7. CASE l = V!pmd /\ ~pm[V!pmd].id /\ ~cache[V!pmd].id /\ pm[V!pmd] # cache[V!pmd]
  <2>1. ~pm'[V!pmd].id
    BY <1>1, <1>7, LineWritten DEF TypeOK
  <2>2. V!StoreMem' = V!StoreMem
    BY <1>3, <1>7, <2>1 DEF V!StoreMem
  <2>3. Down
    BY <1>7 DEF ReplicaInv, InvHeader, Down
  <2>. QED BY <1>1, <1>2, <2>2, <2>3, EvictStutters
<1>8. CASE l = V!pmd /\ pm[V!pmd].id /\ pm[V!pmd] # cache[V!pmd]
  <2>1. /\ pc = "sync" /\ ~creating /\ V!p_seq > 2
        /\ pm[V!pmd] = [cache[V!pmd] EXCEPT !.p_seq = V!p_seq - 1]
    BY <1>8 DEF ReplicaInv, InvHeader
  <2>2. pm'[V!pmd] = cache[V!pmd] /\ V!DurableMem' = vr
    BY <1>1, <1>8, <2>1, HeaderReachesMedium DEF Installed
  <2>3. pm[V!pmd].p_seq = V!p_seq - 1 /\ V!p_seq \in Nat /\ pm[V!pmd].id = cache[V!pmd].id
    BY <2>1, Numbers DEF TypeOK, LinesAndHeader, HeaderVR
  <2>4. cache' = cache /\ pc' = pc /\ creating' = creating /\ vr' = vr
    BY <1>1, <1>2 DEF V!WriteBack, V!engineVars
  <2>5. ~Down /\ ~Down' /\ ~IsDurable /\ IsDurable'
    BY <2>1, <2>2, <2>3, <2>4 DEF Down, IsDurable, V!p_seq
  <2>6. V!StoreMem' = vr
    BY <1>8, <2>2, <2>3 DEF V!StoreMem
  <2>7. /\ V!StorePhase = "active" /\ V!StorePhase' = "durable"
        /\ V!StoreWork = vr /\ V!StoreWork' = vr'
    BY <2>1, <2>5, PhasesOf DEF PhaseFactsVR
  <2>. QED BY <2>4, <2>6, <2>7 DEF DurableNow
<1>. QED BY <1>1, <1>4, <1>5, <1>6, <1>7, <1>8 DEF V!Line

(* The steps of endTx(). *)
LEMMA CommitStepsVR ==
  ASSUME V!ReplicaAssumption, TypeOK, TypeOK', ReplicaInv, V!Commit
  PROVE  AbsVR
<1>. pm' = pm /\ creating' = creating /\ vr' = vr
  BY DEF V!Commit, V!StoreRangeSkip, V!StoreRangeBack, V!StoreRangeSeq, V!StoreRangeMain,
         V!EndTxIncrement, V!EndTxSync, V!EndTxDone, V!Store, V!StorePWB
<1>1. CASE creating
  BY <1>1, DownStepVR DEF Down
<1>2. CASE ~creating /\ (V!StoreRangeSkip(V!p_seq) \/ V!StoreRangeBack(V!p_seq, "flushSeq")
                           \/ V!StoreRangeSeq(V!p_seq) \/ V!StoreRangeMain)
  BY <1>2, ActiveStepVR DEF V!StoreRangeSkip, V!StoreRangeBack, V!StoreRangeSeq, V!StoreRangeMain,
                            V!Store, V!StorePWB, Down, IsDurable
<1>3. CASE ~creating /\ V!EndTxIncrement
  <2>1. ~Down /\ ~Down' /\ pc' = "sync" /\ pc = "flush"
    BY <1>3 DEF V!EndTxIncrement, Down
  <2>2. pm[V!pmd] = cache[V!pmd] /\ V!p_seq \in Nat
    BY <2>1, InUseVR, Numbers
  <2>3. V!p_seq' = V!p_seq + 1
    <3>1. [cache[V!pmd] EXCEPT !.p_seq = V!p_seq + 1] \in HeaderVR
          /\ [cache[V!pmd] EXCEPT !.p_seq = V!p_seq + 1].p_seq = V!p_seq + 1
      <4>. DEFINE g == cache[V!pmd]
                  n == V!p_seq + 1
      <4>1. g \in HeaderVR /\ n \in Nat
        BY <2>2 DEF TypeOK, LinesAndHeader
      <4>. HIDE DEF g, n
      <4>2. [g EXCEPT !.p_seq = n] \in HeaderVR /\ [g EXCEPT !.p_seq = n].p_seq = n
        BY <4>1, SetPSeq
      <4>. QED BY <4>2 DEF g, n
    <3>. QED BY <1>3, <3>1, HeaderStore DEF V!EndTxIncrement, V!StorePWB, V!p_seq, TypeOK
  <2>4. ~IsDurable'
    BY <2>2, <2>3 DEF IsDurable, V!p_seq
  <2>. QED BY <2>1, <2>4, ActiveStepVR DEF IsDurable
<1>4. CASE ~creating /\ V!EndTxSync
  <2>1. ~Down /\ ~Down' /\ pc = "sync" /\ pc' = "idle" /\ pwb = {}
    BY <1>4 DEF V!EndTxSync, V!EndTxDone, Down, V!Fenced
  <2>2. pm[V!pmd] = cache[V!pmd]
    BY <1>4, <2>1 DEF ReplicaInv, InvHeader
  <2>3. IsDurable
    BY <2>1, <2>2 DEF IsDurable, V!p_seq
  <2>4. /\ V!StorePhase = "durable" /\ V!StorePhase' = "idle"
        /\ V!StoreWork' = V!StoreWork /\ V!StoreMem' = V!StoreMem
    BY <2>1, <2>3, PhasesOf, SameMemVR DEF PhaseFactsVR
  <2>. QED BY <2>4 DEF AbsVR, AbstractVR!Next, AbstractVR!Return
<1>. QED BY <1>1, <1>2, <1>3, <1>4 DEF V!Commit, TypeOK

(* Every step of the engine is a step of the abstract store, or none. *)
LEMMA StepImplementsVR ==
  ASSUME V!ReplicaAssumption, TypeOK, TypeOK', ReplicaInv, IdleFacts', [V!Next]_(V!vars)
  PROVE  AbsVR
<1>1. CASE V!Open
  BY <1>1, DownStepVR DEF V!Open, V!OpenExisting, V!OpenNew, Down
<1>2. CASE V!RecoverMain \/ V!RecoverSeq
  BY <1>2, DownStepVR DEF V!RecoverMain, V!RecoverSeq, V!Store, V!StorePWB, Down
<1>3. CASE V!CopyToReplica \/ V!CreateDone
  <2>1. Down
    BY <1>3 DEF V!CopyToReplica, V!CreateDone, Down, ReplicaInv, InvControlVR
  <2>. QED BY <1>3, <2>1, OpenStepVR DEF V!CopyToReplica, V!CreateDone
<1>4. CASE V!CreatePstore \/ V!CreateRoot \/ V!CreateId
  <2>1. creating
    BY <1>4 DEF V!CreatePstore, V!CreateRoot, V!CreateId, ReplicaInv, InvControlVR
  <2>. QED BY <1>4, <2>1, DownStepVR
           DEF V!CreatePstore, V!Pstore, V!CreateRoot, V!CreateId, V!Store, V!StorePWB, Down
<1>5. CASE V!UserPstore
  BY <1>5, WriteStepVR DEF V!UserPstore
<1>6. CASE V!Commit
  BY <1>6, CommitStepsVR
<1>7. CASE V!BeginTx(V!p_seq)
  <2>1. IdleFacts
    BY IdleMem
  <2>2. ~Down /\ ~Down' /\ pc = "idle" /\ pc' = "tx" /\ pm' = pm /\ vr' = vr
    BY <1>7, <2>1 DEF V!BeginTx, IdleFacts, Down
  <2>3. /\ V!StorePhase = "idle" /\ V!StorePhase' = "active"
        /\ V!StoreWork' = V!StoreWork /\ V!StoreMem' = V!StoreMem
    BY <2>2, PhasesOf, SameMemVR DEF PhaseFactsVR, IsDurable
  <2>. QED BY <2>3 DEF AbsVR, AbstractVR!Next, AbstractVR!Begin
<1>8. CASE V!BeginNestedTx \/ V!EndNestedTx \/ V!EndTx
  <2>1. CASE creating
    BY <1>8, <2>1, DownStepVR DEF V!BeginNestedTx, V!EndNestedTx, V!EndTx, Down
  <2>2. CASE ~creating
    BY <1>8, <2>2, ActiveStepVR DEF V!BeginNestedTx, V!EndNestedTx, V!EndTx, Down, IsDurable
  <2>. QED BY <2>1, <2>2
<1>9. CASE V!Evict
  <2>1. CASE DurableNow
    BY <2>1 DEF DurableNow, AbsVR, AbstractVR!Next, AbstractVR!Commit
  <2>. QED BY <1>9, <2>1, EvictStep DEF AbsVR
<1>10. CASE V!Crash
  <2>1. Down' /\ V!StoreMem' = V!StoreMem
    BY <1>10, SameMemVR DEF V!Crash, V!PowerFailure, Down
  <2>2. V!StorePhase' = "down" /\ V!StoreWork' = V!StoreMem
    BY <2>1, PhasesOf DEF PhaseFactsVR
  <2>. QED BY <2>1, <2>2 DEF AbsVR, AbstractVR!Next, AbstractVR!Crash
<1>11. CASE UNCHANGED V!vars
  <2>1. V!StoreMem' = V!StoreMem /\ vr' = vr
    BY <1>11, SameMemVR DEF V!vars
  <2>2. (Down' <=> Down) /\ (IsDurable' <=> IsDurable) /\ pc' = pc
    BY <1>11 DEF V!vars, Down, IsDurable, V!p_seq
  <2>. QED BY <2>1, <2>2, PhasesOf DEF PhaseFactsVR, AbsVR
<1>. QED BY <1>1, <1>2, <1>3, <1>4, <1>5, <1>6, <1>7, <1>8, <1>9, <1>10, <1>11
         DEF V!Next, V!Recover, V!Transaction

LEMMA InitImplementsVR ==
  ASSUME V!ReplicaAssumption, V!Init
  PROVE  AbstractVR!Init
<1>1. ~pm[V!pmd].id /\ Down
  BY LineFactsVR DEF V!Init, V!InitReplica, Down
<1>2. V!StoreMem = V!InitMem
  BY <1>1 DEF V!StoreMem
<1>3. PhaseFactsVR
  BY InitInvVR, PhaseOfVR
<1>. QED BY <1>1, <1>2, <1>3 DEF PhaseFactsVR, AbstractVR!Init

(* With its replica the engine is an atomic durable store: creation, cut   *)
(* short anywhere and tried again, ends with the initial contents,         *)
(* recovery with those of the last commit, and endTx() returns only once   *)
(* all the lines of the transaction are durable.                           *)
THEOREM TrinityVRImplements == V!ReplicaAssumption => (V!Spec => AbstractVR!Spec)
<1>. SUFFICES ASSUME V!ReplicaAssumption PROVE V!Spec => AbstractVR!Spec
  OBVIOUS
<1>1. V!Init => AbstractVR!Init
  BY InitImplementsVR
<1>2. TypeOK /\ ReplicaInv => IdleFacts
  BY IdleMem
<1>3. TypeOK /\ TypeOK' /\ ReplicaInv /\ IdleFacts' /\ [V!Next]_(V!vars)
        => [AbstractVR!Next]_(AbstractVR!storeVars)
  BY StepImplementsVR DEF AbsVR, AbstractVR!storeVars
<1>4. V!Spec => [](TypeOK /\ ReplicaInv)
  BY TrinityVRInvariant
<1>. QED BY <1>1, <1>2, <1>3, <1>4, PTL DEF V!Spec, AbstractVR!Spec
=============================================================================
