--------------------------- MODULE TrinityProofs ----------------------------
(***************************************************************************)
(* Theorems about module Trinity, for every number of persists, every set  *)
(* of values and every creating transaction: the invariant of recovery,    *)
(* what follows from it, and that Trinity implements DurableStore: each    *)
(* step of the engine, of the processor or of a power failure is a step of *)
(* the abstract store or leaves it alone.                                  *)
(***************************************************************************)
EXTENDS Trinity, TLAPS

(* The stores of the creating transaction go to persists of the region.    *)
LEMMA CreateStoreType ==
  ASSUME NEW i \in Nat, i \in 1 .. Len(CreateStores)
  PROVE  CreateStores[i][1] \in Addr /\ CreateStores[i][2] \in Val
<1>1. CreateStores[i] \in Addr \X Val
  BY TrinityAssumption
<1>. QED BY <1>1

LEMMA LineFacts ==
  /\ pmd \in Line /\ pmd \notin Addr /\ Addr \subseteq Line
  /\ NoStore \in [addr : Line, val : Val]
BY TrinityAssumption DEF Line, Addr, pmd, NoStore

(* A store to the header leaves the persists alone, and the other way. *)
LEMMA HeaderStore ==
  ASSUME TypeOK, NEW h \in PMetadata, cache' = [cache EXCEPT ![pmd] = h]
  PROVE  /\ cache' \in [Line -> Persist \cup PMetadata]
         /\ cache'[pmd] = h
         /\ \A a \in Addr : cache'[a] = cache[a]
BY LineFacts DEF TypeOK

LEMMA PersistStore ==
  ASSUME TypeOK, NEW b \in Addr, NEW c \in Persist, cache' = [cache EXCEPT ![b] = c]
  PROVE  /\ cache' \in [Line -> Persist \cup PMetadata]
         /\ cache'[pmd] = cache[pmd]
         /\ cache'[b] = c
         /\ \A a \in Addr \ {b} : cache'[a] = cache[a]
BY LineFacts DEF TypeOK

(* A pstore() of any transaction stays within the types. *)
LEMMA PstoreType ==
  ASSUME TypeOK, NEW a \in Addr, NEW v \in Val, Pstore(a, v)
  PROVE  TypeOK'
<1>. USE LineFacts DEF TypeOK, Persist, PMetadata
<1>1. CASE PstoreBack(a, v)
  BY <1>1 DEF PstoreBack, Store, PC
<1>2. CASE PstoreAgain(a, v)
  BY <1>2 DEF PstoreAgain, StorePWB, PC
<1>. QED BY <1>1, <1>2 DEF Pstore

LEMMA InitType == Init => TypeOK
<1>. SUFFICES ASSUME Init PROVE TypeOK
  OBVIOUS
<1>. USE LineFacts
<1>1. /\ cache[pmd] = [root |-> FALSE, id |-> FALSE, p_seq |-> 0]
      /\ cache[pmd] \in PMetadata
  BY DEF Init, PMetadata
<1>2. \A a \in Addr : /\ cache[a] = [main |-> Zero, back |-> Zero, seq |-> 0]
                       /\ cache[a] \in Persist
  BY TrinityAssumption DEF Init, Persist
<1>3. cache \in [Line -> Persist \cup PMetadata]
  BY <1>1, <1>2 DEF Init, Line
<1>4. nested \in Nat /\ cur \in Nat \ {0} /\ store \in [addr : Line, val : Val]
  BY DEF Init
<1>. QED BY <1>1, <1>2, <1>3, <1>4 DEF Init, TypeOK, PC

LEMMA NextType ==
  ASSUME TypeOK, InvControl, [Next]_vars
  PROVE  TypeOK'
<1>. USE LineFacts DEF TypeOK, Persist, PMetadata, PC
<1>1. CASE Open
  <2>1. CASE OpenExisting
    BY <2>1 DEF OpenExisting
  <2>2. CASE OpenNew
    <3>. DEFINE h == [root |-> FALSE, id |-> FALSE, p_seq |-> 1]
    <3>1. h \in PMetadata
      OBVIOUS
    <3>. QED BY <2>2, <3>1, HeaderStore DEF OpenNew, StorePWB
  <2>. QED BY <1>1, <2>1, <2>2 DEF Open
<1>2. CASE Recover
  <2>1. CASE RecoverSkip \/ RecoverDone
    BY <2>1 DEF RecoverSkip, RecoverDone
  <2>2. CASE RecoverMain
    BY <2>2 DEF RecoverMain, Store
  <2>3. CASE RecoverSeq
    <3>1. cur \in Addr
      BY <2>3 DEF RecoverSeq, InvControl
    <3>. QED BY <2>3, <3>1 DEF RecoverSeq, StorePWB
  <2>. QED BY <1>2, <2>1, <2>2, <2>3 DEF Recover
<1>3. CASE CreatePstore
  <2>1. cur \in 1 .. Len(CreateStores)
    BY <1>3, TrinityAssumption DEF CreatePstore, Pstore, PstoreBack, PstoreAgain
  <2>. QED BY <1>3, <2>1, CreateStoreType, PstoreType DEF CreatePstore
<1>4. CASE CreateRoot
  <2>1. [cache[pmd] EXCEPT !.root = TRUE] \in PMetadata
    OBVIOUS
  <2>. QED BY <1>4, <2>1, HeaderStore DEF CreateRoot, Store
<1>5. CASE CreateFlushRoot \/ CreateId \/ CreateDone
  <2>1. [cache[pmd] EXCEPT !.id = TRUE] \in PMetadata
    OBVIOUS
  <2>. QED BY <1>5, <2>1, HeaderStore DEF CreateFlushRoot, CreateId, CreateDone, StorePWB
<1>6. CASE BeginTx \/ Nesting
  BY <1>6 DEF BeginTx, Nesting, BeginNestedTx, EndNestedTx
<1>7. CASE UserPstore
  BY <1>7, PstoreType DEF UserPstore
<1>8. CASE PstoreSeq
  BY <1>8 DEF PstoreSeq, Store, InvControl, InStore, p_seq
<1>9. CASE PstoreMain
  BY <1>9 DEF PstoreMain, StorePWB, InvControl, InStore
<1>10. CASE Commit
  <2>1. [cache[pmd] EXCEPT !.p_seq = p_seq + 1] \in PMetadata
    BY DEF p_seq
  <2>. QED BY <1>10, <2>1, HeaderStore
           DEF Commit, EndTx, EndTxIncrement, EndTxSync, StorePWB
<1>11. CASE Evict
  BY <1>11 DEF Evict, WriteBack, engineVars
<1>12. CASE Crash
  <2>1. cache' = pm /\ pm' = pm /\ pwb' = {} /\ pc' = "down" /\ creating' = FALSE
    BY <1>12 DEF Crash, PowerFailure
  <2>2. nested' \in Nat /\ cur' \in Nat \ {0} /\ store' \in [addr : Line, val : Val]
    BY <1>12 DEF Crash
  <2>. QED BY <2>1, <2>2
<1>13. CASE UNCHANGED vars
  BY <1>13 DEF vars
<1>. QED BY <1>1, <1>2, <1>3, <1>4, <1>5, <1>6, <1>7, <1>8, <1>9, <1>10, <1>11,
            <1>12, <1>13 DEF Next, Create
-----------------------------------------------------------------------------
(* One lemma per step: it preserves RecoveryInv.                           *)

LEMMA OpenExistingInv ==
  ASSUME TypeOK, RecoveryInv, OpenExisting
  PROVE  RecoveryInv'
BY LineFacts DEF OpenExisting, TypeOK, RecoveryInv, InvControl, InvHeader, InvSeq, InvLines,
  InvPoint, InStore, Installed, Ahead, Recovered, p_seq, Persist, PMetadata, Addr

LEMMA RecoverSkipInv ==
  ASSUME TypeOK, RecoveryInv, RecoverSkip
  PROVE  RecoveryInv'
<1>. USE LineFacts DEF RecoverSkip, TypeOK, RecoveryInv, InStore, Installed, p_seq
<1>1. InvControl' /\ InvHeader' /\ InvSeq'
  BY DEF InvControl, InvHeader, InvSeq
<1>2. InvLines'
  BY DEF InvLines, Ahead, Recovered
<1>3. \A a \in Addr : a < cur' => cache'[a].seq # p_seq'
  <2>. SUFFICES ASSUME NEW a \in Addr, a < cur + 1 PROVE cache[a].seq # p_seq
    OBVIOUS
  <2>1. a < cur \/ a = cur
    BY DEF Addr
  <2>. QED BY <2>1 DEF InvPoint, Scanned
<1>4. InvPoint'
  BY <1>3 DEF InvPoint
<1>. QED BY <1>1, <1>2, <1>4

LEMMA RecoverDoneInv ==
  ASSUME TypeOK, RecoveryInv, RecoverDone
  PROVE  RecoveryInv'
<1>. USE LineFacts DEF RecoverDone, TypeOK, RecoveryInv, InStore, Installed, p_seq
<1>1. InvControl' /\ InvHeader' /\ InvSeq'
  BY DEF InvControl, InvHeader, InvSeq
<1>2. InvLines'
  BY DEF InvLines, Ahead, Recovered
<1>3. ASSUME NEW a \in Addr PROVE cache[a].seq < p_seq
  <2>1. a < cur
    BY TrinityAssumption DEF Addr
  <2>2. cache[a].seq # p_seq /\ cache[a].seq <= p_seq
    BY <2>1 DEF InvPoint, InvSeq
  <2>3. cache[a].seq \in Nat /\ p_seq \in Nat
    BY DEF Persist, PMetadata
  <2>. QED BY <2>2, <2>3
<1>4. InvPoint'
  BY <1>3 DEF InvPoint, Fenced
<1>. QED BY <1>1, <1>2, <1>4

LEMMA BeginTxInv ==
  ASSUME TypeOK, RecoveryInv, BeginTx
  PROVE  RecoveryInv'
BY LineFacts DEF BeginTx, TypeOK, RecoveryInv, InvControl, InvHeader, InvSeq, InvLines,
  InvPoint, InStore, Installed, Ahead, Recovered, p_seq, Persist, PMetadata, Addr

LEMMA EndTxInv ==
  ASSUME TypeOK, RecoveryInv, EndTx
  PROVE  RecoveryInv'
BY LineFacts DEF EndTx, TypeOK, RecoveryInv, InvControl, InvHeader, InvSeq, InvLines,
  InvPoint, InStore, Installed, Ahead, Recovered, p_seq, Persist, PMetadata, Addr

LEMMA EndTxSyncInv ==
  ASSUME TypeOK, RecoveryInv, EndTxSync
  PROVE  RecoveryInv'
BY LineFacts DEF EndTxSync, Fenced, TypeOK, RecoveryInv, InvControl, InvHeader, InvSeq, InvLines,
  InvPoint, InStore, Installed, Ahead, Recovered, p_seq, Persist, PMetadata, Addr

LEMMA NestingInv ==
  ASSUME TypeOK, RecoveryInv, Nesting
  PROVE  RecoveryInv'
BY LineFacts DEF Nesting, BeginNestedTx, EndNestedTx, TypeOK, RecoveryInv, InvControl, InvHeader, InvSeq, InvLines,
  InvPoint, InStore, Installed, Ahead, Recovered, p_seq, Persist, PMetadata, Addr

LEMMA CreateFlushRootInv ==
  ASSUME TypeOK, RecoveryInv, CreateFlushRoot
  PROVE  RecoveryInv'
<1>. USE LineFacts DEF CreateFlushRoot, TypeOK, RecoveryInv, InStore, Installed, p_seq
<1>1. InvControl' /\ InvHeader' /\ InvSeq'
  BY DEF InvControl, InvHeader, InvSeq, Fenced
<1>2. InvLines'
  BY DEF InvLines, Ahead, Fenced
<1>3. InvPoint'
  BY DEF InvPoint
<1>. QED BY <1>1, <1>2, <1>3

LEMMA CreateDoneInv ==
  ASSUME TypeOK, RecoveryInv, CreateDone
  PROVE  RecoveryInv'
<1>. USE LineFacts DEF CreateDone, TypeOK, RecoveryInv, InStore, Installed, p_seq
<1>1. pm[pmd] = cache[pmd] /\ cache[pmd].id
  BY DEF InvHeader, InvControl, Fenced
<1>2. InvControl' /\ InvHeader' /\ InvSeq'
  BY <1>1 DEF InvControl, InvHeader, InvSeq
<1>3. InvLines'
  BY DEF InvLines, Ahead, Fenced
<1>4. InvPoint'
  BY DEF InvPoint, Fenced
<1>. QED BY <1>2, <1>3, <1>4

LEMMA OpenNewInv ==
  ASSUME TypeOK, TypeOK', RecoveryInv, OpenNew
  PROVE  RecoveryInv'
<1>. DEFINE h == [root |-> FALSE, id |-> FALSE, p_seq |-> 1]
<1>. USE LineFacts DEF OpenNew, StorePWB, TypeOK, RecoveryInv, InStore, Installed, p_seq
<1>1. h \in PMetadata
  BY DEF PMetadata
<1>2. cache'[pmd] = h /\ \A a \in Addr : cache'[a] = cache[a]
  BY <1>1, HeaderStore
<1>3. cache = pm
  BY DEF InvControl
<1>4. InvControl' /\ InvHeader' /\ InvSeq'
  BY <1>2, <1>3 DEF InvControl, InvHeader, InvSeq
<1>5. InvLines'
  BY <1>2, <1>3 DEF InvLines
<1>6. InvPoint'
  BY DEF InvPoint
<1>. QED BY <1>4, <1>5, <1>6

LEMMA RecoverMainInv ==
  ASSUME TypeOK, TypeOK', RecoveryInv, RecoverMain
  PROVE  RecoveryInv'
<1>. DEFINE c == [cache[cur] EXCEPT !.main = cache[cur].back]
<1>. USE LineFacts DEF RecoverMain, Store, TypeOK, RecoveryInv, InStore, Installed, p_seq
<1>1. c \in Persist
  BY DEF Persist
<1>2. /\ cache'[cur] = c /\ cache'[pmd] = cache[pmd]
      /\ \A a \in Addr \ {cur} : cache'[a] = cache[a]
  BY <1>1, PersistStore
<1>3. c.main = cache[cur].back /\ c.back = cache[cur].back /\ c.seq = cache[cur].seq
  BY DEF Persist
<1>. HIDE DEF c
<1>4. \A a \in Addr : cache'[a].seq = cache[a].seq
  BY <1>2, <1>3
<1>5. InvControl' /\ InvHeader' /\ InvSeq'
  BY <1>2, <1>4 DEF InvControl, InvHeader, InvSeq
<1>6. InvLines'
  BY <1>2, <1>3 DEF InvLines, Ahead, Recovered, Scanned
<1>7. InvPoint'
  BY <1>2, <1>3, <1>4 DEF InvPoint
<1>. QED BY <1>5, <1>6, <1>7

LEMMA RecoverSeqInv ==
  ASSUME TypeOK, TypeOK', RecoveryInv, RecoverSeq
  PROVE  RecoveryInv'
<1>. DEFINE c == [cache[cur] EXCEPT !.seq = 0]
<1>. USE LineFacts DEF RecoverSeq, StorePWB, TypeOK, RecoveryInv, InStore, Installed, p_seq
<1>0. cur \in Addr /\ cache[pmd].id /\ cache[pmd].p_seq > 1
  BY DEF InvControl
<1>1. c \in Persist
  BY <1>0 DEF Persist
<1>2. /\ cache'[cur] = c /\ cache'[pmd] = cache[pmd]
      /\ \A a \in Addr \ {cur} : cache'[a] = cache[a]
  BY <1>0, <1>1, PersistStore
<1>3. c.main = cache[cur].main /\ c.back = cache[cur].back /\ c.seq = 0
  BY <1>0 DEF Persist
<1>. HIDE DEF c
<1>4. cache[cur].main = cache[cur].back
  BY DEF InvPoint
<1>5. InvControl' /\ InvHeader'
  BY <1>2 DEF InvControl, InvHeader
<1>6. InvSeq'
  BY <1>2, <1>3, <1>0 DEF InvSeq, PMetadata
<1>7. InvLines'
  BY <1>0, <1>2, <1>3, <1>4 DEF InvLines, Ahead, Recovered, PMetadata
<1>8. \A a \in Addr : a < cur' => cache'[a].seq # p_seq'
  <2>. SUFFICES ASSUME NEW a \in Addr, a < cur + 1 PROVE cache'[a].seq # cache[pmd].p_seq
    BY <1>2
  <2>1. a < cur \/ a = cur
    BY DEF Addr
  <2>2. CASE a = cur
    BY <2>2, <1>0, <1>2, <1>3 DEF PMetadata
  <2>3. CASE a < cur
    BY <2>3, <1>2 DEF InvPoint, Addr
  <2>. QED BY <2>1, <2>2, <2>3
<1>9. InvPoint'
  BY <1>8 DEF InvPoint
<1>. QED BY <1>5, <1>6, <1>7, <1>9

LEMMA PstoreBackInv ==
  ASSUME TypeOK, TypeOK', RecoveryInv, NEW a \in Addr, NEW v \in Val, PstoreBack(a, v)
  PROVE  RecoveryInv'
<1>. DEFINE c == [cache[a] EXCEPT !.back = cache[a].main]
<1>. USE LineFacts DEF PstoreBack, Store, TypeOK, RecoveryInv, InStore, Installed, p_seq
<1>1. c \in Persist
  BY DEF Persist
<1>2. /\ cache'[a] = c /\ cache'[pmd] = cache[pmd]
      /\ \A b \in Addr \ {a} : cache'[b] = cache[b]
  BY <1>1, PersistStore
<1>3. c.main = cache[a].main /\ c.back = cache[a].main /\ c.seq = cache[a].seq
  BY DEF Persist
<1>. HIDE DEF c
<1>4. InvControl' /\ InvHeader' /\ InvSeq'
  BY <1>2, <1>3 DEF InvControl, InvHeader, InvSeq
<1>5. InvLines'
  BY <1>2, <1>3 DEF InvLines, Ahead, Recovered
<1>6. InvPoint'
  BY <1>2, <1>3 DEF InvPoint
<1>. QED BY <1>4, <1>5, <1>6

LEMMA PstoreSeqInv ==
  ASSUME TypeOK, TypeOK', RecoveryInv, PstoreSeq
  PROVE  RecoveryInv'
<1>. DEFINE a == store.addr
            c == [cache[a] EXCEPT !.seq = p_seq]
<1>. USE LineFacts DEF PstoreSeq, Store, TypeOK, RecoveryInv, InStore, Installed, p_seq
<1>0. a \in Addr
  BY DEF InvControl
<1>1. c \in Persist
  BY <1>0 DEF Persist, PMetadata
<1>2. /\ cache'[a] = c /\ cache'[pmd] = cache[pmd]
      /\ \A b \in Addr \ {a} : cache'[b] = cache[b]
  BY <1>0, <1>1, PersistStore
<1>3. c.main = cache[a].main /\ c.back = cache[a].main /\ c.seq = p_seq
  BY <1>0 DEF Persist, InvPoint
<1>. HIDE DEF c
<1>4. InvControl' /\ InvHeader'
  BY <1>2 DEF InvControl, InvHeader
<1>5. InvSeq'
  BY <1>2, <1>3 DEF InvSeq, PMetadata
<1>6. InvLines'
  BY <1>0, <1>2, <1>3 DEF InvLines, Ahead, Recovered, InvPoint
<1>7. InvPoint'
  BY <1>0, <1>2, <1>3 DEF InvPoint
<1>. QED BY <1>4, <1>5, <1>6, <1>7

LEMMA PstoreMainInv ==
  ASSUME TypeOK, TypeOK', RecoveryInv, PstoreMain
  PROVE  RecoveryInv'
<1>. DEFINE a == store.addr
            c == [cache[a] EXCEPT !.main = store.val]
<1>. USE LineFacts DEF PstoreMain, StorePWB, TypeOK, RecoveryInv, InStore, Installed, p_seq
<1>0. a \in Addr
  BY DEF InvControl
<1>1. c \in Persist
  BY <1>0 DEF Persist
<1>2. /\ cache'[a] = c /\ cache'[pmd] = cache[pmd]
      /\ \A b \in Addr \ {a} : cache'[b] = cache[b]
  BY <1>0, <1>1, PersistStore
<1>3. c.back = cache[a].back /\ c.seq = p_seq
  BY <1>0 DEF Persist, InvPoint
<1>. HIDE DEF c
<1>4. InvControl' /\ InvHeader'
  BY <1>2 DEF InvControl, InvHeader
<1>5. InvSeq'
  BY <1>2, <1>3 DEF InvSeq, PMetadata
<1>6. InvLines'
  BY <1>0, <1>2, <1>3 DEF InvLines, Ahead, Recovered, InvPoint
<1>7. InvPoint'
  BY DEF InvPoint
<1>. QED BY <1>4, <1>5, <1>6, <1>7

LEMMA PstoreAgainInv ==
  ASSUME TypeOK, TypeOK', RecoveryInv, NEW a \in Addr, NEW v \in Val, PstoreAgain(a, v)
  PROVE  RecoveryInv'
<1>. DEFINE c == [cache[a] EXCEPT !.main = v]
<1>. USE LineFacts DEF PstoreAgain, StorePWB, TypeOK, RecoveryInv, InStore, Installed, p_seq
<1>1. c \in Persist
  BY DEF Persist
<1>2. /\ cache'[a] = c /\ cache'[pmd] = cache[pmd]
      /\ \A b \in Addr \ {a} : cache'[b] = cache[b]
  BY <1>1, PersistStore
<1>3. c.back = cache[a].back /\ c.seq = p_seq
  BY DEF Persist
<1>. HIDE DEF c
<1>4. InvControl' /\ InvHeader'
  BY <1>2 DEF InvControl, InvHeader
<1>5. InvSeq'
  BY <1>2, <1>3 DEF InvSeq, PMetadata
<1>6. InvLines'
  BY <1>2, <1>3 DEF InvLines, Ahead, Recovered
<1>7. InvPoint'
  BY DEF InvPoint
<1>. QED BY <1>4, <1>5, <1>6, <1>7

LEMMA CreateRootInv ==
  ASSUME TypeOK, TypeOK', RecoveryInv, CreateRoot
  PROVE  RecoveryInv'
<1>. DEFINE h == [cache[pmd] EXCEPT !.root = TRUE]
<1>. USE LineFacts DEF CreateRoot, Store, TypeOK, RecoveryInv, InStore, Installed, p_seq
<1>1. h \in PMetadata /\ h.p_seq = cache[pmd].p_seq /\ h.id = cache[pmd].id
  BY DEF PMetadata
<1>2. cache'[pmd] = h /\ \A a \in Addr : cache'[a] = cache[a]
  BY <1>1, HeaderStore
<1>. HIDE DEF h
<1>3. ~cache[pmd].id /\ ~pm[pmd].id
  BY DEF InvControl, InvHeader
<1>4. InvControl' /\ InvHeader' /\ InvSeq'
  BY <1>1, <1>2, <1>3 DEF InvControl, InvHeader, InvSeq
<1>5. InvLines'
  BY <1>1, <1>2 DEF InvLines, Ahead, Recovered
<1>6. InvPoint'
  BY DEF InvPoint
<1>. QED BY <1>4, <1>5, <1>6

LEMMA CreateIdInv ==
  ASSUME TypeOK, TypeOK', RecoveryInv, CreateId
  PROVE  RecoveryInv'
<1>. DEFINE h == [cache[pmd] EXCEPT !.id = TRUE]
<1>. USE LineFacts DEF CreateId, StorePWB, TypeOK, RecoveryInv, InStore, Installed, p_seq
<1>1. h \in PMetadata /\ h.p_seq = cache[pmd].p_seq /\ h.id
  BY DEF PMetadata
<1>2. cache'[pmd] = h /\ \A a \in Addr : cache'[a] = cache[a]
  BY <1>1, HeaderStore
<1>. HIDE DEF h
<1>3. creating /\ ~cache[pmd].id /\ ~pm[pmd].id /\ cache[pmd].p_seq = 2
  BY DEF InvControl, InvHeader
<1>4. InvControl' /\ InvHeader' /\ InvSeq'
  BY <1>1, <1>2, <1>3 DEF InvControl, InvHeader, InvSeq
<1>5. InvLines'
  BY <1>1, <1>2 DEF InvLines, Ahead, Fenced
<1>6. InvPoint'
  BY <1>1, <1>2 DEF InvPoint, Fenced
<1>. QED BY <1>4, <1>5, <1>6

LEMMA EndTxIncrementInv ==
  ASSUME TypeOK, TypeOK', RecoveryInv, EndTxIncrement
  PROVE  RecoveryInv'
<1>. DEFINE h == [cache[pmd] EXCEPT !.p_seq = p_seq + 1]
<1>. USE LineFacts DEF EndTxIncrement, StorePWB, TypeOK, RecoveryInv, InStore, Installed
<1>0. p_seq \in Nat
  BY DEF p_seq, PMetadata
<1>1. h \in PMetadata /\ h.p_seq = p_seq + 1 /\ h.id = cache[pmd].id
      /\ [h EXCEPT !.p_seq = p_seq] = cache[pmd]
  BY <1>0 DEF PMetadata, p_seq
<1>2. cache'[pmd] = h /\ \A a \in Addr : cache'[a] = cache[a]
  BY <1>1, HeaderStore
<1>. HIDE DEF h
<1>3. p_seq' = p_seq + 1
  BY <1>1, <1>2 DEF p_seq
<1>4. \A a \in Addr : pm[a] = cache[a] /\ cache[a].seq <= p_seq /\ cache[a].seq \in Nat
  BY DEF InvLines, InvSeq, Ahead, Fenced, Persist
<1>5. InvControl'
  BY <1>0, <1>1, <1>2, <1>3 DEF InvControl
<1>6. InvHeader'
  <2>1. pm[pmd].id => ~creating /\ p_seq > 1 /\ pm[pmd] = cache[pmd]
    BY DEF InvHeader, InvControl
  <2>2. p_seq' - 1 = p_seq
    BY <1>0, <1>3
  <2>3. [cache'[pmd] EXCEPT !.p_seq = p_seq' - 1] = cache[pmd]
    BY <1>1, <1>2, <2>2
  <2>4. ~pm[pmd].id => creating
    BY DEF InvHeader
  <2>5. pm' = pm /\ creating' = creating /\ pmd \in pwb' /\ pc' = "sync"
    OBVIOUS
  <2>6. p_seq > 1 => p_seq' > 2
    BY <1>0, <1>3
  <2>. QED BY <2>1, <2>3, <2>4, <2>5, <2>6 DEF InvHeader
<1>7. InvSeq'
  BY <1>0, <1>2, <1>3, <1>4 DEF InvSeq
<1>8. InvLines'
  BY <1>2, <1>4 DEF InvLines
<1>9. InvPoint'
  BY <1>0, <1>2, <1>3, <1>4 DEF InvPoint, Fenced
<1>. QED BY <1>5, <1>6, <1>7, <1>8, <1>9

LEMMA EvictInv ==
  ASSUME TypeOK, TypeOK', RecoveryInv, Evict
  PROVE  RecoveryInv'
<1>. PICK l \in Line : WriteBack(l)
  BY DEF Evict
<1>. USE LineFacts DEF WriteBack, TypeOK, RecoveryInv, InStore, Installed, p_seq
<1>1. cache' = cache /\ pc' = pc /\ creating' = creating /\ cur' = cur /\ store' = store
  BY DEF Evict, engineVars
<1>2. pm'[l] = cache[l] /\ \A k \in Line \ {l} : pm'[k] = pm[k]
  OBVIOUS
<1>3. InvControl'
  BY <1>1, <1>2 DEF InvControl
<1>4. InvHeader'
  <2>1. CASE l = pmd
    BY <1>1, <1>2, <2>1 DEF InvHeader, InvControl
  <2>2. CASE l # pmd
    BY <1>1, <1>2, <2>2 DEF InvHeader
  <2>. QED BY <2>1, <2>2
<1>5. InvSeq'
  BY <1>1, <1>2 DEF InvSeq
<1>6. InvLines'
  BY <1>1, <1>2 DEF InvLines, Ahead, Recovered
<1>7. InvPoint'
  BY <1>1 DEF InvPoint
<1>. QED BY <1>3, <1>4, <1>5, <1>6, <1>7

LEMMA CrashInv ==
  ASSUME TypeOK, TypeOK', RecoveryInv, Crash
  PROVE  RecoveryInv'
<1>. USE LineFacts DEF Crash, PowerFailure, TypeOK, RecoveryInv, InStore, Installed, p_seq
<1>1. pm[pmd].p_seq \in Nat /\ cache[pmd].p_seq \in Nat
  BY DEF PMetadata
<1>2. CASE pm[pmd].id
  <2>1. pm[pmd].p_seq > 1
    BY <1>1, <1>2 DEF InvHeader, InvControl, PMetadata
  <2>2. InvControl' /\ InvHeader'
    BY <1>2, <2>1 DEF InvControl, InvHeader
  <2>3. ASSUME NEW a \in Addr PROVE pm[a].seq <= pm[pmd].p_seq
    <3>1. pm[a].seq \in Nat /\ cache[a].seq \in Nat
      BY DEF Persist
    <3>2. CASE pm[pmd] = cache[pmd]
      BY <1>2, <3>2 DEF InvSeq, InvControl
    <3>3. CASE pc = "sync" /\ ~creating /\ pm[pmd] = [cache[pmd] EXCEPT !.p_seq = p_seq - 1]
      <4>1. pm[a] = cache[a] /\ cache[a].seq < cache[pmd].p_seq
        BY <3>3 DEF InvLines, Ahead, InvPoint
      <4>2. pm[pmd].p_seq = cache[pmd].p_seq - 1
        BY <3>3 DEF PMetadata
      <4>. QED BY <1>1, <3>1, <4>1, <4>2
    <3>. QED BY <1>2, <3>2, <3>3 DEF InvHeader
  <2>4. InvSeq'
    BY <1>2, <2>3 DEF InvSeq
  <2>5. InvLines' /\ InvPoint'
    BY DEF InvLines, InvPoint, Recovered
  <2>. QED BY <2>2, <2>4, <2>5
<1>3. CASE ~pm[pmd].id
  <2>1. InvControl' /\ InvHeader'
    BY <1>3 DEF InvControl, InvHeader
  <2>2. ASSUME NEW a \in Addr PROVE pm[a].seq <= 1
    <3>1. pm[a].seq \in Nat /\ cache[a].seq \in Nat
      BY DEF Persist
    <3>2. CASE pc = "down"
      BY <1>3, <3>2 DEF InvSeq, InvControl
    <3>3. CASE creating /\ ~Installed
      BY <3>1, <3>3 DEF InvSeq, InvControl
    <3>4. CASE creating /\ Installed
      <4>1. pm[a] = cache[a] /\ cache[a].seq < cache[pmd].p_seq /\ cache[pmd].p_seq = 2
        BY <3>4 DEF InvLines, Ahead, InvPoint, InvControl
      <4>. QED BY <3>1, <4>1
    <3>. QED BY <1>3, <3>2, <3>3, <3>4 DEF InvHeader
  <2>3. InvSeq'
    BY <1>3, <2>2 DEF InvSeq
  <2>4. InvLines' /\ InvPoint'
    BY DEF InvLines, InvPoint, Recovered
  <2>. QED BY <2>1, <2>3, <2>4
<1>. QED BY <1>2, <1>3

LEMMA StutterInv ==
  ASSUME TypeOK, RecoveryInv, UNCHANGED vars
  PROVE  RecoveryInv'
BY DEF vars, RecoveryInv, InvControl, InvHeader, InvSeq, InvLines, InvPoint,
       InStore, Installed, Ahead, Recovered, p_seq

LEMMA InitInv == Init => RecoveryInv
<1>. SUFFICES ASSUME Init PROVE RecoveryInv
  OBVIOUS
<1>. USE LineFacts
<1>1. cache[pmd] = [root |-> FALSE, id |-> FALSE, p_seq |-> 0]
  BY DEF Init
<1>2. \A a \in Addr : cache[a] = [main |-> Zero, back |-> Zero, seq |-> 0]
  BY DEF Init
<1>3. InvControl /\ InvHeader /\ InvPoint
  BY <1>1 DEF Init, InvControl, InvHeader, InvPoint, InStore, Installed
<1>4. InvSeq /\ InvLines
  BY <1>1, <1>2 DEF Init, InvSeq, InvLines
<1>. QED BY <1>3, <1>4 DEF RecoveryInv
-----------------------------------------------------------------------------
LEMMA NextInv ==
  ASSUME TypeOK, TypeOK', RecoveryInv, [Next]_vars
  PROVE  RecoveryInv'
<1>1. CASE Open
  BY <1>1, OpenExistingInv, OpenNewInv DEF Open
<1>2. CASE Recover
  BY <1>2, RecoverSkipInv, RecoverMainInv, RecoverSeqInv, RecoverDoneInv DEF Recover
<1>3. CASE CreatePstore
  <2>1. cur \in 1 .. Len(CreateStores)
    BY <1>3, TrinityAssumption DEF CreatePstore, TypeOK
  <2>. QED BY <1>3, <2>1, CreateStoreType, PstoreBackInv, PstoreAgainInv
           DEF CreatePstore, Pstore
<1>4. CASE CreateRoot \/ CreateFlushRoot \/ CreateId \/ CreateDone
  BY <1>4, CreateRootInv, CreateFlushRootInv, CreateIdInv, CreateDoneInv
<1>5. CASE BeginTx \/ Nesting
  BY <1>5, BeginTxInv, NestingInv
<1>6. CASE UserPstore
  BY <1>6, PstoreBackInv, PstoreAgainInv DEF UserPstore, Pstore
<1>7. CASE PstoreSeq \/ PstoreMain
  BY <1>7, PstoreSeqInv, PstoreMainInv
<1>8. CASE Commit
  BY <1>8, EndTxInv, EndTxIncrementInv, EndTxSyncInv DEF Commit
<1>9. CASE Evict \/ Crash
  BY <1>9, EvictInv, CrashInv
<1>10. CASE UNCHANGED vars
  BY <1>10, StutterInv
<1>. QED BY <1>1, <1>2, <1>3, <1>4, <1>5, <1>6, <1>7, <1>8, <1>9, <1>10
         DEF Next, Create

(* Type correctness and the invariant of recovery: every reachable state   *)
(* of creation, transactions and recovery, with evictions and power        *)
(* failures anywhere, can be recovered to the last committed contents.     *)
THEOREM RecoveryInvariant == Spec => [](TypeOK /\ RecoveryInv)
<1>1. Init => TypeOK /\ RecoveryInv
  BY InitType, InitInv
<1>2. TypeOK /\ RecoveryInv /\ [Next]_vars => (TypeOK /\ RecoveryInv)'
  <2>. SUFFICES ASSUME TypeOK, RecoveryInv, [Next]_vars PROVE TypeOK' /\ RecoveryInv'
    OBVIOUS
  <2>1. TypeOK'
    BY NextType DEF RecoveryInv
  <2>. QED BY <2>1, NextInv
<1>. QED BY <1>1, <1>2, PTL DEF Spec

(* The lines of the region and of the medium keep their shape, and the     *)
(* engine its program points, across stores, evictions and power failures. *)
THEOREM TypesAreKept == Spec => []TypeOK
BY RecoveryInvariant, PTL

(* Between transactions the medium recovers to what loads see. *)
LEMMA IdleMemIsDurable == TypeOK /\ RecoveryInv => IdleIsDurable
<1>. SUFFICES ASSUME TypeOK, RecoveryInv, pc = "idle", NEW a \in Addr
              PROVE  Recovered(pm[a], pm[pmd].p_seq) = cache[a].main
  BY DEF IdleIsDurable, DurableMem, VolatileMem
<1>. USE LineFacts DEF RecoveryInv, Installed, InStore
<1>1. pwb = {} /\ cache[a].seq < p_seq
  BY DEF InvPoint
<1>2. pm[pmd] = cache[pmd]
  BY <1>1 DEF InvHeader, InvControl
<1>3. pm[a] = cache[a]
  BY <1>1 DEF InvLines, Ahead
<1>4. cache[a].seq \in Nat /\ p_seq \in Nat
  BY DEF TypeOK, Persist, PMetadata, p_seq
<1>. QED BY <1>1, <1>2, <1>3, <1>4 DEF Recovered, p_seq

(* What updateTx() has acknowledged and what recover() has exposed is what *)
(* a power failure would leave (endTx: "Durable commit").                  *)
THEOREM AcknowledgedIsDurable == Spec => []IdleIsDurable
BY IdleMemIsDurable, RecoveryInvariant, PTL
-----------------------------------------------------------------------------
(* Only a write-back changes the medium.                                   *)
LEMMA MediumSteps ==
  ASSUME [Next]_vars, pm' # pm
  PROVE  Evict
BY DEF Next, vars, Open, OpenExisting, OpenNew, Recover, RecoverSkip, RecoverMain, RecoverSeq,
       RecoverDone, Create, CreatePstore, CreateRoot, CreateFlushRoot, CreateId, CreateDone,
       BeginTx, UserPstore, Pstore, PstoreBack, PstoreAgain, PstoreSeq, PstoreMain,
       Nesting, BeginNestedTx, EndNestedTx, Commit, EndTx, EndTxIncrement, EndTxSync,
       Crash, Store, StorePWB, PowerFailure

(* A write-back of a persist changes nothing that recovery would find.     *)
LEMMA EvictPersist ==
  ASSUME TypeOK, RecoveryInv, pm[pmd].id, NEW l \in Addr, WriteBack(l)
  PROVE  DurableMem' = DurableMem
<1>. USE LineFacts DEF TypeOK, WriteBack, RecoveryInv
<1>1. pm'[pmd] = pm[pmd] /\ pm'[l] = cache[l] /\ \A a \in Addr \ {l} : pm'[a] = pm[a]
  OBVIOUS
<1>2. Recovered(cache[l], pm[pmd].p_seq) = Recovered(pm[l], pm[pmd].p_seq)
  <2>1. CASE Installed
    <3>1. ~Ahead(l) /\ l \notin pwb
      BY <2>1 DEF Installed, Ahead, InStore, InvPoint
    <3>. QED BY <3>1 DEF InvLines
  <2>2. CASE ~Installed
    <3>1. pm[pmd] = cache[pmd]
      BY <2>2 DEF InvHeader, Installed
    <3>. QED BY <2>2, <3>1 DEF InvLines, p_seq
  <2>. QED BY <2>1, <2>2
<1>3. ASSUME NEW a \in Addr
      PROVE  Recovered(pm'[a], pm'[pmd].p_seq) = Recovered(pm[a], pm[pmd].p_seq)
  BY <1>1, <1>2
<1>. QED BY <1>3 DEF DurableMem, Recovered

(* A write-back of a header that is behind commits the transaction that    *)
(* endTx() has ended.                                                      *)
LEMMA EvictHeader ==
  ASSUME TypeOK, RecoveryInv, pm[pmd].id, WriteBack(pmd), pm[pmd] # cache[pmd]
  PROVE  /\ pc = "sync" /\ ~creating /\ pm'[pmd].p_seq = pm[pmd].p_seq + 1
         /\ DurableMem' = VolatileMem
<1>. USE LineFacts DEF TypeOK, WriteBack, RecoveryInv
<1>1. pm'[pmd] = cache[pmd] /\ \A a \in Addr : pm'[a] = pm[a]
  OBVIOUS
<1>2. pc = "sync" /\ ~creating /\ pm[pmd] = [cache[pmd] EXCEPT !.p_seq = p_seq - 1]
  BY DEF InvHeader
<1>3. p_seq \in Nat /\ cache[pmd].p_seq = p_seq /\ pm[pmd].p_seq = p_seq - 1
  BY <1>2 DEF PMetadata, p_seq
<1>4. ASSUME NEW a \in Addr PROVE Recovered(pm'[a], pm'[pmd].p_seq) = cache[a].main
  <2>1. pm[a] = cache[a] /\ cache[a].seq < p_seq
    BY <1>2 DEF InvLines, Ahead, InStore, InvPoint, Installed
  <2>2. cache[a].seq \in Nat
    BY DEF Persist
  <2>. QED BY <1>1, <1>3, <2>1, <2>2 DEF Recovered
<1>5. DurableMem' = VolatileMem
  BY <1>4 DEF DurableMem, VolatileMem, Recovered
<1>. QED BY <1>1, <1>2, <1>3, <1>5

(* And one of a header that is not changes nothing. *)
LEMMA EvictSameHeader ==
  ASSUME TypeOK, WriteBack(pmd), pm[pmd] = cache[pmd]
  PROVE  DurableMem' = DurableMem
BY LineFacts DEF TypeOK, WriteBack, DurableMem, Recovered

(* Atomicity: only a commit changes what a power failure would leave, and  *)
(* it changes it to the whole outcome of the transaction.                  *)
THEOREM TransactionsAreAtomic == Spec => AllOrNothing
<1>1. ASSUME TypeOK, RecoveryInv, [Next]_vars, pm[pmd].id, DurableMem' # DurableMem
      PROVE  /\ pc = "sync" /\ pm'[pmd].p_seq = pm[pmd].p_seq + 1
             /\ DurableMem' = VolatileMem
  <2>1. pm' # pm
    BY <1>1 DEF DurableMem, Recovered
  <2>2. PICK l \in Line : WriteBack(l)
    BY <1>1, <2>1, MediumSteps DEF Evict
  <2>3. l = pmd
    BY <1>1, <2>2, EvictPersist DEF Line
  <2>4. pm[pmd] # cache[pmd]
    BY <1>1, <2>2, <2>3, EvictSameHeader
  <2>. QED BY <1>1, <2>2, <2>3, <2>4, EvictHeader
<1>2. TypeOK /\ RecoveryInv /\ [Next]_vars
        => [pm[pmd].id /\ DurableMem' # DurableMem
              => /\ pc = "sync" /\ pm[pmd].p_seq' = pm[pmd].p_seq + 1
                 /\ DurableMem' = VolatileMem]_vars
  BY <1>1
<1>. QED BY <1>2, RecoveryInvariant, PTL DEF Spec, AllOrNothing
-----------------------------------------------------------------------------
(* The stores of the creating transaction to persist a, before the n-th.   *)
Stored(a, n) == {i \in DOMAIN CreateStores : i < n /\ CreateStores[i][1] = a}

(* How far the creation of the region has got.  An attempt that a power    *)
(* failure cut short leaves persists behind that hold some of its stores,  *)
(* but the next one stores to each of them again, and to no other one.     *)
InvCreation ==
  /\ ~pm[pmd].id => \A a \in Addr : Stored(a, Len(CreateStores) + 1) = {}
                      => cache[a].main = Zero /\ pm[a].main = Zero
  /\ creating => \A a \in Addr : Stored(a, cur) # {}
       => \E i \in Stored(a, cur) : /\ \A j \in Stored(a, cur) : j <= i
                                    /\ cache[a].main = CreateStores[i][2]
  /\ creating /\ InStore => /\ cur \in DOMAIN CreateStores
                            /\ store.addr = CreateStores[cur][1]
                            /\ store.val = CreateStores[cur][2]
  /\ creating /\ pc \notin {"tx", "pstoreSeq", "pstoreMain"} => cur = Len(CreateStores) + 2

LEMMA CreationInit == Init => InvCreation
<1>. SUFFICES ASSUME Init PROVE InvCreation
  OBVIOUS
<1>1. \A a \in Addr : cache[a].main = Zero /\ pm[a].main = Zero
  BY LineFacts DEF Init
<1>. QED BY <1>1 DEF Init, InvCreation

(* A step that stores to no main, and leaves the creation where it is. *)
LEMMA CreationKept ==
  ASSUME InvCreation, UNCHANGED <<pm, creating, cur>>,
         \A a \in Addr : cache'[a].main = cache[a].main,
         creating /\ InStore' => /\ cur \in DOMAIN CreateStores
                                 /\ store'.addr = CreateStores[cur][1]
                                 /\ store'.val = CreateStores[cur][2],
         creating /\ pc' \notin {"tx", "pstoreSeq", "pstoreMain"} => cur = Len(CreateStores) + 2
  PROVE  InvCreation'
BY DEF InvCreation, Stored

(* A store of the creating transaction to main. *)
LEMMA CreationStore ==
  ASSUME TypeOK, InvCreation, creating, cur \in DOMAIN CreateStores,
         cache' = [cache EXCEPT ![CreateStores[cur][1]].main = CreateStores[cur][2]],
         UNCHANGED <<pm, creating>>, cur' = cur + 1, pc' = "tx"
  PROVE  InvCreation'
<1>. DEFINE b == CreateStores[cur][1]
<1>1. cur \in 1 .. Len(CreateStores) /\ b \in Addr /\ CreateStores \in Seq(Addr \X Val)
  BY TrinityAssumption, CreateStoreType DEF TypeOK
<1>2. /\ cache'[b].main = CreateStores[cur][2]
      /\ \A a \in Addr \ {b} : cache'[a].main = cache[a].main
  BY <1>1, LineFacts DEF TypeOK, Persist
<1>3. Stored(b, Len(CreateStores) + 1) # {}
  BY <1>1 DEF Stored
<1>4. ASSUME NEW a \in Addr \ {b} PROVE Stored(a, cur + 1) = Stored(a, cur)
  BY <1>1 DEF Stored
<1>5. cur \in Stored(b, cur + 1) /\ \A j \in Stored(b, cur + 1) : j <= cur
  BY <1>1 DEF Stored
<1>6. \A a \in Addr : Stored(a, cur)' = Stored(a, cur + 1)
  BY DEF Stored
<1>7. ASSUME NEW a \in Addr, Stored(a, cur + 1) # {}
      PROVE  \E k \in Stored(a, cur + 1) : /\ \A j \in Stored(a, cur + 1) : j <= k
                                           /\ cache'[a].main = CreateStores[k][2]
  <2>1. CASE a = b
    BY <1>2, <1>5, <2>1
  <2>2. CASE a # b
    <3>1. \E k \in Stored(a, cur) : /\ \A j \in Stored(a, cur) : j <= k
                                    /\ cache[a].main = CreateStores[k][2]
      BY <1>4, <1>7, <2>2 DEF InvCreation
    <3>. QED BY <1>2, <1>4, <2>2, <3>1
  <2>. QED BY <2>1, <2>2
<1>8. ~pm'[pmd].id => \A a \in Addr : Stored(a, Len(CreateStores) + 1) = {}
                       => cache'[a].main = Zero /\ pm'[a].main = Zero
  BY <1>1, <1>2, <1>3 DEF InvCreation
<1>. QED BY <1>6, <1>7, <1>8 DEF InvCreation, InStore, Stored

LEMMA CreationNext ==
  ASSUME TypeOK, RecoveryInv, InvCreation, [Next]_vars
  PROVE  InvCreation'
<1>. /\ creating => cur \in Nat
     /\ ~pm[pmd].id => creating \/ pc = "down"
     /\ pc = "down" => cache = pm
     /\ pc \in {"createRoot", "createId"} => creating
  BY DEF TypeOK, RecoveryInv, InvHeader, InvControl
<1>. USE LineFacts
<1>1. CASE OpenExisting
  <2>1. pm[pmd].id /\ pm' = pm /\ ~creating /\ ~creating'
    BY <1>1 DEF OpenExisting, RecoveryInv, InvControl, InStore, Installed
  <2>. QED BY <2>1 DEF InvCreation
<1>2. CASE OpenNew
  <2>1. \A a \in Addr : cache'[a] = cache[a]
    BY <1>2, HeaderStore DEF OpenNew, StorePWB, PMetadata
  <2>2. \A a \in Addr : Stored(a, cur)' = {}
    BY <1>2, TrinityAssumption DEF OpenNew, Stored
  <2>. QED BY <1>2, <2>1, <2>2 DEF OpenNew, StorePWB, InvCreation, InStore, Stored
<1>3. CASE Recover
  <2>1. ~creating /\ ~creating' /\ pm[pmd].id /\ pm' = pm
    BY <1>3 DEF Recover, RecoverSkip, RecoverMain, RecoverSeq, RecoverDone, Store, StorePWB,
                RecoveryInv, InvControl, InStore, Installed
  <2>. QED BY <2>1 DEF InvCreation
<1>4. CASE CreatePstore
  <2>. DEFINE a == CreateStores[cur][1]
              v == CreateStores[cur][2]
  <2>0. cur \in 1 .. Len(CreateStores) /\ creating
    BY <1>4, TrinityAssumption DEF CreatePstore, TypeOK
  <2>1. cur \in DOMAIN CreateStores /\ a \in Addr /\ creating
    BY <2>0, CreateStoreType, TrinityAssumption
  <2>2. CASE PstoreBack(a, v)
    <3>1. \A b \in Addr : cache'[b].main = cache[b].main
      BY <2>1, <2>2 DEF PstoreBack, Store, TypeOK, Persist
    <3>. QED BY <2>1, <2>2, <3>1, CreationKept DEF PstoreBack, Store, InStore
  <2>3. CASE PstoreAgain(a, v)
    <3>1. cache' = [cache EXCEPT ![a].main = v]
      BY <2>3 DEF PstoreAgain, StorePWB
    <3>. QED BY <2>1, <2>3, <3>1, CreationStore DEF PstoreAgain, StorePWB
  <2>. QED BY <1>4, <2>2, <2>3 DEF CreatePstore, Pstore
<1>5. CASE CreateRoot
  <2>1. \A b \in Addr : cache'[b] = cache[b]
    BY <1>5 DEF CreateRoot, Store, TypeOK
  <2>2. \A a \in Addr : Stored(a, cur)' = Stored(a, cur)
    BY <1>5, TrinityAssumption DEF CreateRoot, Stored
  <2>. QED BY <1>5, <2>1, <2>2 DEF CreateRoot, Store, InvCreation, InStore, Stored
<1>6. CASE CreateFlushRoot \/ CreateId
  <2>1. \A b \in Addr : cache'[b] = cache[b]
    BY <1>6 DEF CreateFlushRoot, CreateId, StorePWB, TypeOK
  <2>. QED BY <1>6, <2>1, CreationKept
           DEF CreateFlushRoot, CreateId, StorePWB, InvCreation, InStore
<1>7. CASE CreateDone
  BY <1>7 DEF CreateDone, InvCreation, Stored
<1>8. CASE BeginTx \/ Nesting
  BY <1>8, CreationKept DEF BeginTx, Nesting, BeginNestedTx, EndNestedTx, InvCreation, InStore
<1>9. CASE UserPstore
  <2>1. ~creating /\ ~creating' /\ pm[pmd].id /\ pm' = pm
    BY <1>9 DEF UserPstore, Pstore, PstoreBack, PstoreAgain, Store, StorePWB
  <2>. QED BY <2>1 DEF InvCreation
<1>10. CASE PstoreSeq
  <2>1. \A b \in Addr : cache'[b].main = cache[b].main
    BY <1>10 DEF PstoreSeq, Store, TypeOK, Persist
  <2>. QED BY <1>10, <2>1, CreationKept DEF PstoreSeq, Store, InvCreation, InStore
<1>11. CASE PstoreMain
  <2>1. CASE creating
    <3>1. cur \in DOMAIN CreateStores /\ cache' = [cache EXCEPT ![CreateStores[cur][1]].main = CreateStores[cur][2]]
      BY <1>11, <2>1 DEF PstoreMain, StorePWB, InvCreation, InStore
    <3>. QED BY <1>11, <2>1, <3>1, CreationStore DEF PstoreMain, StorePWB
  <2>2. CASE ~creating
    BY <1>11, <2>2 DEF PstoreMain, StorePWB, InvCreation
  <2>. QED BY <2>1, <2>2
<1>12. CASE Commit
  <2>1. \A b \in Addr : cache'[b] = cache[b]
    BY <1>12 DEF Commit, EndTx, EndTxIncrement, EndTxSync, StorePWB, TypeOK
  <2>. QED BY <1>12, <2>1, CreationKept
           DEF Commit, EndTx, EndTxIncrement, EndTxSync, StorePWB, InvCreation, InStore
<1>13. CASE Evict
  <2>1. PICK l \in Line : WriteBack(l)
    BY <1>13 DEF Evict
  <2>2. ~pm'[pmd].id => ~pm[pmd].id
    BY <2>1 DEF WriteBack, TypeOK, RecoveryInv, InvHeader, PMetadata
  <2>3. \A a \in Addr : pm'[a] \in {pm[a], cache[a]}
    BY <2>1 DEF WriteBack, TypeOK
  <2>. QED BY <1>13, <2>1, <2>2, <2>3
           DEF Evict, engineVars, WriteBack, InvCreation, InStore, Stored
<1>14. CASE Crash
  BY <1>14 DEF Crash, PowerFailure, InvCreation
<1>15. CASE UNCHANGED vars
  BY <1>15, CreationKept DEF vars, InvCreation, InStore
<1>. QED BY <1>1, <1>2, <1>3, <1>4, <1>5, <1>6, <1>7, <1>8, <1>9, <1>10, <1>11,
            <1>12, <1>13, <1>14, <1>15 DEF Next, Open, Create
-----------------------------------------------------------------------------
(* All stores of the creating transaction done, the region holds what      *)
(* InitMem says, whatever an earlier attempt left in it.                   *)
LEMMA CreatedMem ==
  ASSUME TypeOK, InvCreation, creating, ~pm[pmd].id, cur = Len(CreateStores) + 2
  PROVE  VolatileMem = InitMem
<1>. SUFFICES ASSUME NEW a \in Addr PROVE VolatileMem[a] = InitMem[a]
  BY DEF VolatileMem, InitMem
<1>. DEFINE stores == {i \in DOMAIN CreateStores : CreateStores[i][1] = a}
<1>1. stores = Stored(a, cur) /\ stores = Stored(a, Len(CreateStores) + 1)
  BY TrinityAssumption DEF Stored
<1>2. CASE stores = {}
  BY <1>1, <1>2 DEF VolatileMem, InitMem, InvCreation
<1>3. CASE stores # {}
  <2>1. PICK i \in stores : (\A j \in stores : j <= i) /\ cache[a].main = CreateStores[i][2]
    BY <1>1, <1>3 DEF InvCreation
  <2>2. \A k \in stores : k \in Nat
    BY TrinityAssumption
  <2>3. \A k \in stores : (\A j \in stores : j <= k) => k = i
    BY <2>1, <2>2
  <2>4. (CHOOSE k \in stores : \A j \in stores : j <= k) = i
    BY <2>1, <2>3
  <2>. QED BY <1>3, <2>1, <2>4 DEF VolatileMem, InitMem
<1>. QED BY <1>2, <1>3

(* The abstract contents change in a write-back only. *)
LEMMA SameMem == ASSUME pm' = pm PROVE StoreMem' = StoreMem
BY DEF StoreMem, DurableMem, Recovered, InitMem

LEMMA SameWork ==
  ASSUME \A a \in Addr : cache'[a].main = cache[a].main
  PROVE  VolatileMem' = VolatileMem
BY DEF VolatileMem

Down == pc \in {"down", "recover", "recoverSeq"} \/ creating
IsDurable == pc = "sync" /\ pm[pmd].p_seq = p_seq

(* What StorePhase and StoreWork say, case by case. *)
PhaseFacts ==
  /\ Down => StorePhase = "down" /\ StoreWork = StoreMem
  /\ ~Down => StoreWork = VolatileMem
  /\ ~Down /\ pc = "idle" => StorePhase = "idle"
  /\ ~Down /\ IsDurable => StorePhase = "durable"
  /\ ~Down /\ pc # "idle" /\ ~IsDurable => StorePhase = "active"

LEMMA PhaseOf == TypeOK => PhaseFacts
<1>. SUFFICES ASSUME TypeOK PROVE PhaseFacts
  OBVIOUS
<1>. pc \in PC /\ creating \in BOOLEAN
  BY DEF TypeOK
<1>1. CASE Down
  <2>1. StorePhase = "down"
    BY <1>1 DEF StorePhase, Down
  <2>. QED BY <1>1, <2>1 DEF PhaseFacts, StoreWork
<1>2. CASE ~Down /\ pc = "idle"
  <2>1. StorePhase = "idle"
    BY <1>2 DEF StorePhase, Down
  <2>. QED BY <1>2, <2>1 DEF PhaseFacts, StoreWork, IsDurable
<1>3. CASE ~Down /\ IsDurable
  <2>1. StorePhase = "durable"
    BY <1>3 DEF StorePhase, Down, IsDurable
  <2>. QED BY <1>3, <2>1 DEF PhaseFacts, StoreWork, IsDurable
<1>4. CASE ~Down /\ pc # "idle" /\ ~IsDurable
  <2>1. StorePhase = "active"
    BY <1>4 DEF StorePhase, Down, IsDurable
  <2>. QED BY <1>4, <2>1 DEF PhaseFacts, StoreWork, IsDurable
<1>. QED BY <1>1, <1>2, <1>3, <1>4

(* A region in use has a durable MAGIC_ID. *)
LEMMA InUse ==
  ASSUME TypeOK, RecoveryInv, ~Down
  PROVE  /\ pm[pmd].id /\ StoreMem = DurableMem
         /\ pc # "sync" => pm[pmd] = cache[pmd]
BY DEF RecoveryInv, InvHeader, InvControl, Down, StoreMem

IdleFacts == pc = "idle" => ~Down /\ StoreMem = VolatileMem

LEMMA IdleMem == TypeOK /\ RecoveryInv => IdleFacts
<1>. SUFFICES ASSUME TypeOK, RecoveryInv, pc = "idle" PROVE ~Down /\ StoreMem = VolatileMem
  BY DEF IdleFacts
<1>1. ~Down
  BY DEF Down, RecoveryInv, InvControl, InStore, Installed
<1>. QED BY <1>1, InUse, IdleMemIsDurable DEF IdleIsDurable

Abs == Abstract!Next \/ UNCHANGED <<StoreMem, StoreWork, StorePhase>>

(* The phases before and after a step. *)
LEMMA PhasesOf == TypeOK /\ TypeOK' => PhaseFacts /\ PhaseFacts'
BY PhaseOf, PTL

(* A step of the constructor, or of recovery, that goes on. *)
LEMMA DownStep ==
  ASSUME TypeOK, TypeOK', Down, Down', pm' = pm
  PROVE  Abs
BY PhasesOf, SameMem DEF PhaseFacts, Abs

LEMMA OpenStep ==
  ASSUME TypeOK, TypeOK', RecoveryInv', Down, pc' = "idle", pm' = pm
  PROVE  Abs
<1>1. IdleFacts'
  BY IdleMem, PTL
<1>2. /\ StorePhase = "down" /\ StorePhase' = "idle"
      /\ StoreWork' = StoreMem /\ StoreMem' = StoreMem
  BY <1>1, PhasesOf, SameMem DEF PhaseFacts, IdleFacts
<1>. QED BY <1>2 DEF Abs, Abstract!Next, Abstract!Open

(* A step inside of a transaction that stores to no main. *)
LEMMA ActiveStep ==
  ASSUME TypeOK, TypeOK', ~Down, ~Down', pm' = pm, pc # "idle", pc' # "idle",
         ~IsDurable, ~IsDurable', \A a \in Addr : cache'[a].main = cache[a].main
  PROVE  Abs
BY PhasesOf, SameMem, SameWork DEF PhaseFacts, Abs

(* The abstract store may write one value to any set of words. *)
LEMMA WriteStep ==
  ASSUME TypeOK, TypeOK', ~Down, ~Down', pm' = pm, pc \notin {"idle", "sync"},
         pc' \notin {"idle", "sync"}, NEW b \in Addr, NEW v \in Val,
         cache' = [cache EXCEPT ![b].main = v]
  PROVE  Abs
<1>1. StorePhase = "active" /\ StorePhase' = "active" /\ StoreMem' = StoreMem
  BY PhasesOf, SameMem DEF PhaseFacts, IsDurable
<1>2. StoreWork = VolatileMem /\ StoreWork' = VolatileMem'
  BY PhasesOf DEF PhaseFacts
<1>3. \A a \in Addr : cache'[a].main = IF a \in {b} THEN v ELSE cache[a].main
  BY LineFacts DEF TypeOK, Persist
<1>4. VolatileMem' = [a \in Addr |-> IF a \in {b} THEN v ELSE VolatileMem[a]]
  BY <1>3 DEF VolatileMem
<1>5. {b} \in SUBSET Addr
  OBVIOUS
<1>6. StoreWork' = [a \in Addr |-> IF a \in {b} THEN v ELSE StoreWork[a]]
  BY <1>2, <1>4
<1>7. \E S \in SUBSET Addr, w \in Val :
        StoreWork' = [a \in Addr |-> IF a \in S THEN w ELSE StoreWork[a]]
  BY <1>5, <1>6
<1>8. Abstract!Write
  BY <1>1, <1>7 DEF Abstract!Write
<1>. QED BY <1>8 DEF Abs, Abstract!Next
-----------------------------------------------------------------------------
(* A write-back that leaves what the medium stands for as it was. *)
LEMMA EvictStutters ==
  ASSUME TypeOK, TypeOK', NEW l \in Line, WriteBack(l), UNCHANGED engineVars,
         StoreMem' = StoreMem, l = pmd => pm[pmd] = cache[pmd] \/ Down
  PROVE  UNCHANGED <<StoreMem, StoreWork, StorePhase>>
<1>1. cache' = cache /\ pc' = pc /\ creating' = creating
  BY DEF WriteBack, engineVars
<1>2. (Down' <=> Down) /\ VolatileMem' = VolatileMem
  BY <1>1, SameWork DEF Down
<1>3. CASE Down
  BY <1>2, <1>3, PhasesOf DEF PhaseFacts
<1>4. CASE ~Down
  <2>1. pm'[pmd] = pm[pmd]
    BY <1>4, LineFacts DEF WriteBack, TypeOK
  <2>2. IsDurable' <=> IsDurable
    BY <1>1, <2>1 DEF IsDurable, p_seq
  <2>. QED BY <1>1, <1>2, <1>4, <2>2, PhasesOf DEF PhaseFacts
<1>. QED BY <1>3, <1>4

(* The MAGIC_ID reaches the medium when all that the creating transaction  *)
(* stored has.                                                             *)
LEMMA CreationBecomesDurable ==
  ASSUME TypeOK, RecoveryInv, InvCreation, WriteBack(pmd), ~pm[pmd].id, cache[pmd].id
  PROVE  Down /\ StoreMem' = StoreMem
<1>. USE LineFacts DEF TypeOK, WriteBack, RecoveryInv
<1>1. creating /\ pc = "createId"
  BY DEF InvHeader, InvControl
<1>2. VolatileMem = InitMem
  BY <1>1, CreatedMem DEF InvCreation
<1>3. pm'[pmd] = cache[pmd] /\ \A a \in Addr : pm'[a] = pm[a]
  OBVIOUS
<1>4. ASSUME NEW a \in Addr PROVE Recovered(pm'[a], pm'[pmd].p_seq) = cache[a].main
  <2>1. pm[a] = cache[a] /\ cache[a].seq < p_seq
    BY <1>1 DEF InvLines, Ahead, InStore, InvPoint, Installed
  <2>2. cache[a].seq \in Nat /\ p_seq \in Nat
    BY DEF Persist, PMetadata, p_seq
  <2>. QED BY <1>3, <2>1, <2>2 DEF Recovered, p_seq
<1>5. DurableMem' = VolatileMem
  BY <1>4 DEF DurableMem, VolatileMem, Recovered
<1>6. InitMem' = InitMem
  BY DEF InitMem
<1>. QED BY <1>1, <1>2, <1>3, <1>5, <1>6 DEF Down, StoreMem

(* The commit of the running transaction, for the medium. *)
DurableNow ==
  /\ StorePhase = "active" /\ StorePhase' = "durable"
  /\ StoreWork = VolatileMem /\ StoreWork' = VolatileMem /\ StoreMem' = VolatileMem

LEMMA EvictStep ==
  ASSUME TypeOK, TypeOK', RecoveryInv, InvCreation, Evict
  PROVE  DurableNow \/ UNCHANGED <<StoreMem, StoreWork, StorePhase>>
<1>. USE LineFacts
<1>1. PICK l \in Line : WriteBack(l)
  BY DEF Evict
<1>2. UNCHANGED engineVars
  BY DEF Evict
<1>3. InitMem' = InitMem
  BY DEF InitMem
<1>4. CASE l \in Addr
  <2>1. pm'[pmd] = pm[pmd]
    BY <1>1, <1>4 DEF WriteBack, TypeOK
  <2>2. StoreMem' = StoreMem
    BY <1>1, <1>3, <1>4, <2>1, EvictPersist DEF StoreMem
  <2>. QED BY <1>1, <1>2, <1>4, <2>2, EvictStutters
<1>5. CASE l = pmd /\ pm[pmd] = cache[pmd]
  <2>1. pm'[pmd] = pm[pmd]
    BY <1>1, <1>5 DEF WriteBack, TypeOK
  <2>2. StoreMem' = StoreMem
    BY <1>1, <1>3, <1>5, <2>1, EvictSameHeader DEF StoreMem
  <2>. QED BY <1>1, <1>2, <1>5, <2>2, EvictStutters
<1>6. CASE l = pmd /\ ~pm[pmd].id /\ cache[pmd].id
  BY <1>1, <1>2, <1>6, CreationBecomesDurable, EvictStutters
<1>7. CASE l = pmd /\ ~pm[pmd].id /\ ~cache[pmd].id
  <2>1. ~pm'[pmd].id
    BY <1>1, <1>7 DEF WriteBack, TypeOK
  <2>2. StoreMem' = StoreMem
    BY <1>3, <1>7, <2>1 DEF StoreMem
  <2>3. Down
    BY <1>7 DEF RecoveryInv, InvHeader, Down
  <2>. QED BY <1>1, <1>2, <2>2, <2>3, EvictStutters
<1>8. CASE l = pmd /\ pm[pmd].id /\ pm[pmd] # cache[pmd]
  <2>1. /\ pc = "sync" /\ ~creating /\ pm'[pmd].p_seq = pm[pmd].p_seq + 1
        /\ DurableMem' = VolatileMem /\ pm'[pmd] = cache[pmd]
    BY <1>1, <1>8, EvictHeader DEF WriteBack, TypeOK
  <2>2. cache' = cache /\ pc' = pc /\ creating' = creating
    BY <1>1, <1>2 DEF WriteBack, engineVars
  <2>3. ~Down /\ ~Down' /\ pm[pmd].p_seq \in Nat
    BY <2>1, <2>2 DEF Down, TypeOK, PMetadata
  <2>4. ~IsDurable /\ IsDurable'
    BY <2>1, <2>2, <2>3 DEF IsDurable, p_seq
  <2>5. pm'[pmd].id
    BY <1>8, <2>1 DEF RecoveryInv, InvHeader, TypeOK, PMetadata
  <2>6. StoreMem' = VolatileMem /\ VolatileMem' = VolatileMem
    BY <2>1, <2>2, <2>5, SameWork DEF StoreMem
  <2>7. /\ StorePhase = "active" /\ StorePhase' = "durable"
        /\ StoreWork = VolatileMem /\ StoreWork' = VolatileMem'
    BY <2>1, <2>3, <2>4, PhasesOf DEF PhaseFacts
  <2>. QED BY <2>6, <2>7 DEF DurableNow
<1>. QED BY <1>1, <1>4, <1>5, <1>6, <1>7, <1>8 DEF Line

(* The stores of pstore(), of the creating transaction and of the user's.  *)
LEMMA StoreSteps ==
  ASSUME TypeOK, TypeOK', RecoveryInv, InvCreation,
         CreatePstore \/ UserPstore \/ PstoreSeq \/ PstoreMain
  PROVE  Abs
<1>. USE LineFacts
<1>1. CASE creating
  BY <1>1, DownStep DEF CreatePstore, UserPstore, Pstore, PstoreBack, PstoreAgain, PstoreSeq,
                        PstoreMain, Store, StorePWB, Down
<1>2. CASE ~creating /\ UserPstore
  <2>1. PICK a \in Addr, v \in Val : PstoreBack(a, v) \/ PstoreAgain(a, v)
    BY <1>2 DEF UserPstore, Pstore
  <2>2. CASE PstoreBack(a, v)
    <3>1. \A b \in Addr : cache'[b].main = cache[b].main
      BY <2>2 DEF PstoreBack, Store, TypeOK, Persist
    <3>. QED BY <1>2, <2>2, <3>1, ActiveStep DEF PstoreBack, Store, Down, IsDurable
  <2>3. CASE PstoreAgain(a, v)
    <3>1. cache' = [cache EXCEPT ![a].main = v]
      BY <2>3 DEF PstoreAgain, StorePWB
    <3>. QED BY <1>2, <2>3, <3>1, WriteStep DEF PstoreAgain, StorePWB, Down
  <2>. QED BY <2>1, <2>2, <2>3
<1>3. CASE ~creating /\ PstoreSeq
  <2>1. \A b \in Addr : cache'[b].main = cache[b].main
    BY <1>3 DEF PstoreSeq, Store, TypeOK, Persist
  <2>. QED BY <1>3, <2>1, ActiveStep DEF PstoreSeq, Store, Down, IsDurable
<1>4. CASE ~creating /\ PstoreMain
  <2>1. store.addr \in Addr /\ store.val \in Val
    BY <1>4 DEF PstoreMain, TypeOK, RecoveryInv, InvControl, InStore
  <2>2. cache' = [cache EXCEPT ![store.addr].main = store.val]
    BY <1>4 DEF PstoreMain, StorePWB
  <2>. QED BY <1>4, <2>1, <2>2, WriteStep DEF PstoreMain, StorePWB, Down
<1>. QED BY <1>1, <1>2, <1>3, <1>4 DEF CreatePstore, TypeOK

(* The steps of endTx(). *)
LEMMA CommitSteps ==
  ASSUME TypeOK, TypeOK', RecoveryInv, Commit
  PROVE  Abs
<1>. USE LineFacts
<1>. pm' = pm /\ creating' = creating /\ \A b \in Addr : cache'[b] = cache[b]
  BY DEF Commit, EndTx, EndTxIncrement, EndTxSync, StorePWB, TypeOK
<1>1. CASE creating
  BY <1>1, DownStep DEF Down
<1>2. CASE ~creating /\ EndTx
  BY <1>2, ActiveStep DEF EndTx, Down, IsDurable
<1>3. CASE ~creating /\ EndTxIncrement
  <2>1. ~Down /\ ~Down' /\ pc' = "sync" /\ pc = "fence"
    BY <1>3 DEF EndTxIncrement, Down
  <2>2. pm[pmd] = cache[pmd] /\ p_seq \in Nat
    BY <2>1, InUse DEF TypeOK, PMetadata, p_seq
  <2>3. p_seq' = p_seq + 1
    BY <1>3 DEF EndTxIncrement, StorePWB, p_seq, TypeOK, PMetadata
  <2>4. ~IsDurable'
    BY <2>2, <2>3 DEF IsDurable, p_seq
  <2>. QED BY <2>1, <2>4, ActiveStep DEF IsDurable
<1>4. CASE ~creating /\ EndTxSync
  <2>1. ~Down /\ ~Down' /\ pc = "sync" /\ pc' = "idle"
    BY <1>4 DEF EndTxSync, Down
  <2>2. pm[pmd] = cache[pmd]
    BY <1>4, <2>1 DEF EndTxSync, Fenced, RecoveryInv, InvHeader
  <2>3. IsDurable
    BY <2>1, <2>2 DEF IsDurable, p_seq
  <2>4. /\ StorePhase = "durable" /\ StorePhase' = "idle"
        /\ StoreWork' = StoreWork /\ StoreMem' = StoreMem
    BY <2>1, <2>3, PhasesOf, SameMem, SameWork DEF PhaseFacts
  <2>. QED BY <2>4 DEF Abs, Abstract!Next, Abstract!Return
<1>. QED BY <1>1, <1>2, <1>3, <1>4 DEF Commit, TypeOK

(* Every step of the engine is a step of the abstract store, or none. *)
LEMMA StepImplements ==
  ASSUME TypeOK, TypeOK', RecoveryInv, RecoveryInv', InvCreation, [Next]_vars
  PROVE  Abs
<1>1. CASE Open
  BY <1>1, DownStep DEF Open, OpenExisting, OpenNew, StorePWB, Down
<1>2. CASE RecoverSkip \/ RecoverMain \/ RecoverSeq
  BY <1>2, DownStep DEF RecoverSkip, RecoverMain, RecoverSeq, Store, StorePWB, Down
<1>3. CASE RecoverDone \/ CreateDone
  <2>1. Down
    BY <1>3 DEF RecoverDone, CreateDone, Down, RecoveryInv, InvControl
  <2>. QED BY <1>3, <2>1, OpenStep DEF RecoverDone, CreateDone
<1>4. CASE CreateRoot \/ CreateFlushRoot \/ CreateId
  <2>1. creating
    BY <1>4 DEF CreateRoot, CreateFlushRoot, CreateId, RecoveryInv, InvControl
  <2>. QED BY <1>4, <2>1, DownStep
           DEF CreateRoot, CreateFlushRoot, CreateId, Store, StorePWB, Down
<1>5. CASE CreatePstore \/ UserPstore \/ PstoreSeq \/ PstoreMain
  BY <1>5, StoreSteps
<1>6. CASE Commit
  BY <1>6, CommitSteps
<1>7. CASE BeginTx
  <2>1. IdleFacts
    BY IdleMem
  <2>2. ~Down /\ ~Down' /\ pc = "idle" /\ pc' = "tx"
    BY <1>7, <2>1 DEF BeginTx, IdleFacts, Down
  <2>3. /\ StorePhase = "idle" /\ StorePhase' = "active"
        /\ StoreWork' = StoreWork /\ StoreMem' = StoreMem
    BY <1>7, <2>2, PhasesOf, SameMem, SameWork DEF PhaseFacts, BeginTx, IsDurable
  <2>. QED BY <2>3 DEF Abs, Abstract!Next, Abstract!Begin
<1>8. CASE Nesting
  <2>1. CASE creating
    BY <1>8, <2>1, DownStep DEF Nesting, BeginNestedTx, EndNestedTx, Down
  <2>2. CASE ~creating
    BY <1>8, <2>2, ActiveStep DEF Nesting, BeginNestedTx, EndNestedTx, Down, IsDurable
  <2>. QED BY <2>1, <2>2
<1>9. CASE Evict
  <2>1. CASE DurableNow
    BY <2>1 DEF DurableNow, Abs, Abstract!Next, Abstract!Commit
  <2>. QED BY <1>9, <2>1, EvictStep DEF Abs
<1>10. CASE Crash
  <2>1. Down' /\ StoreMem' = StoreMem
    BY <1>10, SameMem DEF Crash, PowerFailure, Down
  <2>2. StorePhase' = "down" /\ StoreWork' = StoreMem
    BY <2>1, PhasesOf DEF PhaseFacts
  <2>. QED BY <2>1, <2>2 DEF Abs, Abstract!Next, Abstract!Crash
<1>11. CASE UNCHANGED vars
  <2>1. StoreMem' = StoreMem /\ VolatileMem' = VolatileMem
    BY <1>11, SameMem, SameWork DEF vars
  <2>2. (Down' <=> Down) /\ (IsDurable' <=> IsDurable) /\ pc' = pc
    BY <1>11 DEF vars, Down, IsDurable, p_seq
  <2>. QED BY <2>1, <2>2, PhasesOf DEF PhaseFacts, Abs
<1>. QED BY <1>1, <1>2, <1>3, <1>4, <1>5, <1>6, <1>7, <1>8, <1>9, <1>10, <1>11
         DEF Next, Recover, Create

LEMMA InitImplements == Init => Abstract!Init
<1>. SUFFICES ASSUME Init PROVE Abstract!Init
  OBVIOUS
<1>1. ~pm[pmd].id /\ Down
  BY LineFacts DEF Init, Down
<1>2. StoreMem = InitMem
  BY <1>1 DEF StoreMem
<1>3. PhaseFacts
  BY InitType, PhaseOf
<1>. QED BY <1>1, <1>2, <1>3 DEF PhaseFacts, Abstract!Init

LEMMA CreationInvariant == Spec => []InvCreation
<1>1. TypeOK /\ RecoveryInv /\ InvCreation /\ [Next]_vars => InvCreation'
  BY CreationNext
<1>. QED BY <1>1, CreationInit, RecoveryInvariant, PTL DEF Spec

(* The engine is an atomic durable store: creation, cut short anywhere and *)
(* tried again, ends with the initial contents, recovery with those of the *)
(* last commit, and endTx() returns only once the commit is durable.       *)
THEOREM EngineImplementsStore == Spec => ImplementsStore
<1>1. TypeOK /\ TypeOK' /\ RecoveryInv /\ RecoveryInv' /\ InvCreation /\ [Next]_vars
        => [Abstract!Next]_(Abstract!storeVars)
  BY StepImplements DEF Abs, Abstract!storeVars
<1>. QED BY <1>1, InitImplements, RecoveryInvariant, CreationInvariant, PTL
         DEF Spec, ImplementsStore, Abstract!Spec
=============================================================================
