---------------------------- MODULE EsLocoProofs ----------------------------
(***************************************************************************)
(* Theorems about module EsLoco: whatever is allocated and freed in        *)
(* whatever order, the free lists are lists, every block is held or free,  *)
(* and no two objects overlap, in a pool of any size.                      *)
(***************************************************************************)
EXTENDS EsLoco, FiniteSetTheorems, WellFoundedInduction, TLAPS

(* What the theorems assume of the sizes that the program asks for: there  *)
(* is a free list for their blocks, and 1<<bsize is not negative.          *)
RequestsFit ==
  \A request \in Request :
    /\ \E i \in 0 .. kMaxBlockSize : 2^i <= request + 1 /\ request + 1 < 2^(i + 1)
    /\ highestBit(request + 1) < kMaxBlockSize
    /\ highestBit(request + 1) < IntBits - 1

(* The n[e] blocks of each free list, from its head on, and nullptr.       *)
Lists(n, nth) ==
  /\ n \in [Exponent -> Nat] /\ nth \in [Exponent -> [Nat -> Int]]
  /\ \A e \in Exponent :
       /\ nth[e][0] = freelists[e]
       /\ \A i \in Nat : i >= n[e] => nth[e][i] = nullptr
       /\ \A i \in Nat : i < n[e] =>
            /\ nth[e][i] \in Block /\ size[nth[e][i]] = e
            /\ next[nth[e][i]] = nth[e][i + 1]
       /\ \A i, j \in Nat : i < n[e] /\ j < n[e] /\ nth[e][i] = nth[e][j] => i = j

InList(n, nth, b) == \E i \in Nat : i < n[size[b]] /\ nth[size[b]][i] = b
Held(b) == \E x \in live : x.block = b

(* A block is in its free list, or held, and not both.                     *)
InvLists ==
  \E n, nth : /\ Lists(n, nth)
              /\ \A b \in Block : Held(b) <=> ~InList(n, nth, b)

InvPool ==
  /\ freelists \in [Exponent -> Int]
  /\ Block \subseteq Nat /\ IsFiniteSet(Block) /\ DOMAIN next = Block
  /\ \A b \in Block : size[b] \in Exponent /\ next[b] \in Int
  /\ poolTop \in Nat /\ First <= poolTop /\ live \subseteq [block : Block, request : Request]
  /\ \A x, y \in live : x.block = y.block => x = y

(* Blocks lie one after the other, each as long as its exponent says.      *)
End(b) == b + 2^size[b]
InvBlocks ==
  /\ \A b \in Block : First <= b /\ b < End(b) /\ End(b) <= poolTop /\ poolTop <= PoolEnd
  /\ \A b, c \in Block : b < c => End(b) <= c
  /\ \A x \in live : x.request < 2^size[x.block]

EsLocoInv == InvPool /\ InvBlocks /\ InvLists
-----------------------------------------------------------------------------
(* malloc() asks for a block that its free list holds, large enough.       *)
LEMMA HighestBit ==
  ASSUME RequestsFit, NEW request \in Request
  PROVE  LET e == highestBit(request + 1)
         IN  /\ e \in Exponent /\ e \in Nat /\ request < 2^e
             /\ BlockBytes(e) = 2^e /\ 2^e \in Nat \ {0}
<1>. DEFINE e == highestBit(request + 1)
            Fits(i) == 2^i <= request + 1 /\ request + 1 < 2^(i + 1)
            b == CHOOSE i \in 0 .. kMaxBlockSize : Fits(i)
<1>1. b \in 0 .. kMaxBlockSize /\ Fits(b)
  <2>1. \E i \in 0 .. kMaxBlockSize : Fits(i)
    BY DEF RequestsFit
  <2>. QED BY <2>1
<1>2. request \in Nat \ {0} /\ kMaxBlockSize \in Nat \ {0} /\ IntBits \in Nat \ {0}
  BY EsLocoAssumption
<1>3. e = IF request + 1 > 2^b THEN b + 1 ELSE b
  BY DEF highestBit
<1>4. e \in Nat /\ e < kMaxBlockSize /\ e < IntBits - 1
  <2>1. e \in Nat
    BY <1>1, <1>2, <1>3
  <2>. QED BY <2>1 DEF RequestsFit
<1>5. request < 2^e
  <2>1. b \in Nat /\ 2^b <= request + 1 /\ request + 1 < 2^(b + 1) /\ request \in Nat
    BY <1>1, <1>2
  <2>. HIDE DEF b, e
  <2>2. 2^b \in Int /\ 2^(b + 1) \in Int
    BY <2>1
  <2>3. CASE request + 1 > 2^b
    BY <2>1, <2>2, <2>3, <1>3
  <2>4. CASE ~(request + 1 > 2^b)
    BY <2>1, <2>2, <2>4, <1>3
  <2>. QED BY <2>3, <2>4
<1>6. e % IntBits = e
  BY <1>2, <1>4
<1>7. BlockBytes(e) = 2^e
  BY <1>2, <1>4, <1>6 DEF BlockBytes
<1>8. 2^e \in Nat \ {0}
  BY <1>2, <1>4, <1>5
<1>. HIDE DEF e
<1>9. e \in Exponent
  BY <1>2, <1>4 DEF Exponent
<1>. QED BY <1>4, <1>5, <1>7, <1>8, <1>9 DEF e

LEMMA BlockFacts ==
  ASSUME InvPool
  PROVE  \A b \in Block : b \in Nat /\ size[b] \in Nat /\ End(b) \in Int
<1>. SUFFICES ASSUME NEW b \in Block
              PROVE  b \in Nat /\ size[b] \in Nat /\ b + 2^size[b] \in Int
  BY DEF End
<1>1. b \in Nat /\ size[b] \in Nat
  BY DEF InvPool, Exponent
<1>2. PICK s \in Nat : s = size[b]
  BY <1>1
<1>3. 2^s \in Int
  OBVIOUS
<1>. QED BY <1>1, <1>2, <1>3

LEMMA InitInv == InitEsLoco => EsLocoInv
<1>. SUFFICES ASSUME InitEsLoco PROVE EsLocoInv
  OBVIOUS
<1>1. Block = {} /\ DOMAIN next = {} /\ live = {}
  BY DEF InitEsLoco, Block
<1>2. InvPool
  BY <1>1, FS_EmptySet, EsLocoAssumption DEF InitEsLoco, InvPool, nullptr
<1>3. InvBlocks
  BY <1>1 DEF InvBlocks
<1>4. InvLists
  <2>. DEFINE n == [e \in Exponent |-> 0]
              nth == [e \in Exponent |-> [i \in Nat |-> nullptr]]
  <2>1. Lists(n, nth)
    BY DEF Lists, InitEsLoco, nullptr
  <2>. QED BY <1>1, <2>1 DEF InvLists
<1>. QED BY <1>2, <1>3, <1>4 DEF EsLocoInv

(* The head of a free list is nullptr if and only if the list is empty.    *)
LEMMA HeadFacts ==
  ASSUME InvPool, NEW n, NEW nth, Lists(n, nth), NEW e \in Exponent
  PROVE  /\ freelists[e] = nullptr <=> n[e] = 0
         /\ freelists[e] # nullptr => /\ freelists[e] \in Block /\ size[freelists[e]] = e
                                      /\ n[e] > 0 /\ nth[e][0] = freelists[e]
BY DEF Lists, InvPool, nullptr

(* malloc() takes the head of the list.                                    *)
LEMMA ReuseInv ==
  ASSUME RequestsFit, EsLocoInv, NEW request \in Request, MallocReuse(request)
  PROVE  EsLocoInv'
<1>. DEFINE e == highestBit(request + 1)
            b == freelists[e]
<1>1. e \in Exponent /\ request < 2^e
  BY HighestBit
<1>. HIDE DEF e
<1>2. /\ b # nullptr /\ freelists' = [freelists EXCEPT ![e] = next[b]]
      /\ live' = live \cup {[block |-> b, request |-> request]}
      /\ poolTop' = poolTop /\ next' = next /\ size' = size /\ Block' = Block
  BY DEF MallocReuse, Holds, e, Block
<1>3. PICK n, nth : Lists(n, nth) /\ \A c \in Block : Held(c) <=> ~InList(n, nth, c)
  BY DEF EsLocoInv, InvLists
<1>4. b \in Block /\ size[b] = e /\ n[e] > 0 /\ n[e] \in Nat /\ nth[e][0] = b
  BY <1>1, <1>2, <1>3, HeadFacts DEF EsLocoInv, Lists
<1>5. ~Held(b)
  BY <1>3, <1>4 DEF InList
<1>6. InvPool'
  BY <1>1, <1>2, <1>4, <1>5 DEF EsLocoInv, InvPool, Held
<1>7. InvBlocks'
  BY <1>1, <1>2, <1>4 DEF EsLocoInv, InvBlocks, End
<1>8. InvLists'
  <2>. DEFINE m == [n EXCEPT ![e] = n[e] - 1]
              mth == [nth EXCEPT ![e] = [i \in Nat |-> nth[e][i + 1]]]
  <2>1. Lists(m, mth)'
    <3>1. m \in [Exponent -> Nat] /\ mth \in [Exponent -> [Nat -> Int]]
      BY <1>1, <1>3, <1>4 DEF Lists
    <3>2. ASSUME NEW x \in Exponent, x # e
          PROVE  m[x] = n[x] /\ mth[x] = nth[x] /\ freelists'[x] = freelists[x]
      BY <1>1, <1>2, <1>3, <3>2 DEF Lists, EsLocoInv, InvPool
    <3>3. /\ m[e] = n[e] - 1 /\ \A i \in Nat : mth[e][i] = nth[e][i + 1]
          /\ freelists'[e] = next[b]
      BY <1>1, <1>2, <1>3 DEF Lists, EsLocoInv, InvPool
    <3>. HIDE DEF m, mth
    <3>4. ASSUME NEW x \in Exponent
          PROVE  /\ mth[x][0] = freelists'[x]
                 /\ \A i \in Nat : i >= m[x] => mth[x][i] = nullptr
                 /\ \A i \in Nat : i < m[x] =>
                      /\ mth[x][i] \in Block /\ size[mth[x][i]] = x
                      /\ next[mth[x][i]] = mth[x][i + 1]
                 /\ \A i, j \in Nat : i < m[x] /\ j < m[x] /\ mth[x][i] = mth[x][j] => i = j
      <4>1. CASE x # e
        BY <4>1, <3>2, <1>3 DEF Lists
      <4>2. CASE x = e
        <5>. DEFINE s == nth[e]
                    k == n[e]
        <5>1. /\ k \in Nat /\ k > 0 /\ s \in [Nat -> Int] /\ s[0] = b
              /\ \A i \in Nat : i >= k => s[i] = nullptr
              /\ \A i \in Nat : i < k => s[i] \in Block /\ size[s[i]] = e /\ next[s[i]] = s[i + 1]
              /\ \A i, j \in Nat : i < k /\ j < k /\ s[i] = s[j] => i = j
          BY <1>1, <1>3, <1>4 DEF Lists
        <5>2. /\ m[e] = k - 1 /\ \A i \in Nat : mth[e][i] = s[i + 1]
              /\ freelists'[e] = next[b]
          BY <3>3
        <5>. HIDE DEF s, k
        <5>3. next[b] = s[1]
          BY <5>1
        <5>. QED BY <4>2, <5>1, <5>2, <5>3
      <4>. QED BY <4>1, <4>2
    <3>. QED BY <3>1, <3>4, <1>2 DEF Lists
  <2>2. ASSUME NEW c \in Block PROVE Held(c)' <=> ~InList(m, mth, c)'
    <3>1. Held(c)' <=> Held(c) \/ c = b
      <4>1. [block |-> b, request |-> request].block = b
        OBVIOUS
      <4>. HIDE DEF b
      <4>. QED BY <1>2, <4>1 DEF Held
    <3>2. size[c] \in Exponent
      BY DEF EsLocoInv, InvPool
    <3>3. CASE size[c] # e
      <4>1. InList(m, mth, c)' <=> InList(n, nth, c)
        BY <3>2, <3>3, <1>1, <1>2, <1>3 DEF InList, Lists
      <4>. QED BY <3>1, <3>3, <4>1, <1>3, <1>4
    <3>4. CASE size[c] = e
      <4>1. m[e] = n[e] - 1 /\ \A i \in Nat : mth[e][i] = nth[e][i + 1]
        BY <1>1, <1>3 DEF Lists
      <4>. HIDE DEF m, mth
      <4>2. InList(m, mth, c)' <=> \E i \in Nat : i < n[e] - 1 /\ nth[e][i + 1] = c
        BY <3>4, <4>1, <1>2 DEF InList
      <4>3. InList(n, nth, c) <=> c = b \/ \E i \in Nat : i < n[e] - 1 /\ nth[e][i + 1] = c
        <5>1. ASSUME NEW i \in Nat, i < n[e], nth[e][i] = c, c # b
              PROVE  \E j \in Nat : j < n[e] - 1 /\ nth[e][j + 1] = c
          <6>1. i - 1 \in Nat /\ i - 1 < n[e] - 1 /\ (i - 1) + 1 = i
            BY <5>1, <1>4
          <6>. QED BY <6>1, <5>1
        <5>2. ASSUME NEW j \in Nat, j < n[e] - 1, nth[e][j + 1] = c
              PROVE  \E i \in Nat : i < n[e] /\ nth[e][i] = c
          BY <5>2, <1>4
        <5>. QED BY <5>1, <5>2, <3>4, <1>4 DEF InList
      <4>4. c = b => ~\E i \in Nat : i < n[e] - 1 /\ nth[e][i + 1] = c
        BY <1>1, <1>3, <1>4 DEF Lists
      <4>. QED BY <3>1, <4>2, <4>3, <4>4, <1>3
    <3>. QED BY <3>3, <3>4
  <2>. QED BY <2>1, <2>2, <1>2 DEF InvLists
<1>. QED BY <1>6, <1>7, <1>8 DEF EsLocoInv

(* malloc() carves a block that begins where all others end.               *)
LEMMA NewInv ==
  ASSUME RequestsFit, EsLocoInv, NEW request \in Request, MallocNew(request)
  PROVE  EsLocoInv'
<1>. DEFINE e == highestBit(request + 1)
<1>0. PICK b : b = poolTop
  OBVIOUS
<1>1. e \in Exponent /\ request < 2^e /\ BlockBytes(e) = 2^e /\ 2^e \in Nat \ {0}
  BY HighestBit
<1>. HIDE DEF e
<1>2. /\ freelists[e] = nullptr /\ freelists' = freelists
      /\ b + 2^e <= PoolEnd /\ poolTop' = b + 2^e
      /\ size' = Put(size, b, e)
      /\ next' = Put(next, b, IF b \in DOMAIN next THEN next[b] ELSE nullptr)
      /\ live' = live \cup {[block |-> b, request |-> request]}
  BY <1>0, <1>1 DEF MallocNew, Holds, e
<1>3. /\ b \in Nat /\ b \notin Block /\ request \in Request /\ request \in Nat
      /\ \A c \in Block : End(c) <= b /\ c < b
  BY <1>0, BlockFacts, EsLocoAssumption DEF EsLocoInv, InvPool, InvBlocks
<1>4. /\ Block' = Block \cup {b}
      /\ size'[b] = e /\ \A c \in Block : size'[c] = size[c]
      /\ DOMAIN next' = Block \cup {b} /\ next'[b] = nullptr
      /\ \A c \in Block : next'[c] = next[c]
  BY <1>2, <1>3 DEF Put, Block, EsLocoInv, InvPool
<1>5. ~Held(b)
  BY <1>3 DEF Held, EsLocoInv, InvPool
<1>6. InvPool'
  <2>1. IsFiniteSet(Block')
    BY <1>4, FS_AddElement DEF EsLocoInv, InvPool
  <2>2. [block |-> b, request |-> request] \in [block : Block', request : Request]
    BY <1>4
  <2>3. live' \subseteq [block : Block', request : Request]
    BY <2>2, <1>2, <1>4 DEF EsLocoInv, InvPool
  <2>4. \A x, y \in live' : x.block = y.block => x = y
    BY <1>2, <1>5 DEF EsLocoInv, InvPool, Held
  <2>5. poolTop' \in Nat /\ First <= poolTop'
    BY <1>0, <1>1, <1>2, <1>3, EsLocoAssumption DEF EsLocoInv, InvPool
  <2>6. \A c \in Block' : c \in Nat /\ size'[c] \in Exponent /\ next'[c] \in Int
    BY <1>1, <1>3, <1>4 DEF EsLocoInv, InvPool, nullptr
  <2>. QED BY <1>2, <1>4, <2>1, <2>3, <2>4, <2>5, <2>6 DEF EsLocoInv, InvPool
<1>7. InvBlocks'
  <2>1. /\ End(b)' = b + 2^e /\ \A c \in Block : End(c)' = End(c) /\ End(c) \in Int
    <3>1. End(b)' = b + 2^e
      BY <1>2, <1>4 DEF End
    <3>2. \A c \in Block : End(c)' = End(c)
      BY <1>4 DEF End
    <3>. QED BY <3>1, <3>2, BlockFacts DEF EsLocoInv
  <2>2. First <= b /\ First \in Nat /\ PoolEnd \in Nat
    BY <1>0, EsLocoAssumption DEF EsLocoInv, InvPool
  <2>3. \A c \in Block' : First <= c /\ c < End(c)' /\ End(c)' <= poolTop' /\ poolTop' <= PoolEnd
    <3>1. ASSUME NEW c \in Block'
          PROVE  First <= c /\ c < End(c)' /\ End(c)' <= poolTop'
      <4>1. CASE c = b
        BY <4>1, <2>1, <2>2, <1>1, <1>2, <1>3
      <4>2. CASE c \in Block
        BY <4>2, <2>1, <2>2, <1>1, <1>2, <1>3 DEF EsLocoInv, InvBlocks, InvPool
      <4>. QED BY <4>1, <4>2, <1>4
    <3>2. poolTop' <= PoolEnd
      BY <1>2
    <3>. QED BY <3>1, <3>2
  <2>4. \A c, d \in Block' : c < d => End(c)' <= d
    BY <2>1, <1>3, <1>4 DEF EsLocoInv, InvBlocks, InvPool
  <2>5. \A x \in live' : x.request < 2^(size'[x.block])
    <3>1. [block |-> b, request |-> request].block = b /\ [block |-> b, request |-> request].request = request
      OBVIOUS
    <3>2. \A x \in live : x.block \in Block /\ x.request < 2^size[x.block]
      BY DEF EsLocoInv, InvBlocks, InvPool
    <3>. QED BY <3>1, <3>2, <1>1, <1>2, <1>4
  <2>. QED BY <2>3, <2>4, <2>5 DEF InvBlocks
<1>8. InvLists'
  <2>1. PICK n, nth : Lists(n, nth) /\ \A c \in Block : Held(c) <=> ~InList(n, nth, c)
    BY DEF EsLocoInv, InvLists
  <2>2. Lists(n, nth)'
    BY <2>1, <1>2, <1>4 DEF Lists
  <2>3. ASSUME NEW c \in Block' PROVE Held(c)' <=> ~InList(n, nth, c)'
    <3>1. Held(c)' <=> Held(c) \/ c = b
      <4>1. [block |-> b, request |-> request].block = b
        OBVIOUS
      <4>. QED BY <1>2, <4>1 DEF Held
    <3>2. CASE c = b
      <4>1. ~InList(n, nth, c)'
        BY <3>2, <2>1, <1>1, <1>3, <1>4 DEF InList, Lists
      <4>. QED BY <3>1, <3>2, <4>1
    <3>3. CASE c # b
      BY <3>1, <3>3, <2>1, <1>4 DEF InList
    <3>. QED BY <3>2, <3>3
  <2>. QED BY <2>2, <2>3 DEF InvLists
<1>. QED BY <1>6, <1>7, <1>8 DEF EsLocoInv

(* free() puts a block that was held in front of its list.                 *)
LEMMA FreeInv ==
  ASSUME EsLocoInv, NEW x \in live, free(x)
  PROVE  EsLocoInv'
<1>. DEFINE b == x.block
<1>0. PICK e : e = size[b]
  OBVIOUS
<1>1. b \in Block /\ b \in Nat /\ e \in Exponent /\ x.request \in Request
  BY <1>0 DEF EsLocoInv, InvPool
<1>2. /\ next' = [next EXCEPT ![b] = freelists[e]]
      /\ freelists' = [freelists EXCEPT ![e] = b]
      /\ live' = live \ {x} /\ poolTop' = poolTop /\ size' = size /\ Block' = Block
  BY <1>0 DEF free, Block
<1>3. /\ next'[b] = freelists[e] /\ freelists'[e] = b /\ DOMAIN next' = Block
      /\ \A c \in Block : c # b => next'[c] = next[c]
      /\ \A y \in Exponent : y # e => freelists'[y] = freelists[y]
  BY <1>1, <1>2 DEF EsLocoInv, InvPool
<1>. HIDE DEF b
<1>4. PICK n, nth : Lists(n, nth) /\ \A c \in Block : Held(c) <=> ~InList(n, nth, c)
  BY DEF EsLocoInv, InvLists
<1>5. /\ Held(b) /\ ~Held(b)'
      /\ \A c \in Block : c # b => (Held(c)' <=> Held(c))
  BY <1>1, <1>2 DEF EsLocoInv, InvPool, Held, b
<1>6. InvPool'
  <2>1. \A c \in Block : next'[c] \in Int
    BY <1>1, <1>3 DEF EsLocoInv, InvPool
  <2>. QED BY <2>1, <1>1, <1>2, <1>3 DEF EsLocoInv, InvPool
<1>7. InvBlocks'
  BY <1>2 DEF EsLocoInv, InvBlocks, End
<1>8. InvLists'
  <2>. DEFINE m == [n EXCEPT ![e] = n[e] + 1]
              mth == [nth EXCEPT ![e] = [i \in Nat |-> IF i = 0 THEN b ELSE nth[e][i - 1]]]
              s == nth[e]
              k == n[e]
  <2>1. /\ k \in Nat /\ s \in [Nat -> Int] /\ s[0] = freelists[e]
        /\ \A i \in Nat : i >= k => s[i] = nullptr
        /\ \A i \in Nat : i < k => s[i] \in Block /\ size[s[i]] = e /\ next[s[i]] = s[i + 1]
        /\ \A i, j \in Nat : i < k /\ j < k /\ s[i] = s[j] => i = j
    BY <1>1, <1>4 DEF Lists
  <2>2. \A i \in Nat : i < k => s[i] # b
    BY <1>0, <1>1, <1>4, <1>5 DEF InList
  <2>3. m \in [Exponent -> Nat] /\ mth \in [Exponent -> [Nat -> Int]]
    <3>1. [i \in Nat |-> IF i = 0 THEN b ELSE nth[e][i - 1]] \in [Nat -> Int]
      BY <1>1, <2>1
    <3>. QED BY <3>1, <1>1, <1>4, <2>1 DEF Lists
  <2>4. /\ m[e] = k + 1 /\ mth[e][0] = b /\ \A i \in Nat : i # 0 => mth[e][i] = s[i - 1]
        /\ \A y \in Exponent : y # e => m[y] = n[y] /\ mth[y] = nth[y]
    BY <1>1, <1>4 DEF Lists
  <2>. HIDE DEF m, mth, s, k
  <2>5. Lists(m, mth)'
    <3>1. ASSUME NEW y \in Exponent
          PROVE  /\ mth[y][0] = freelists'[y]
                 /\ \A i \in Nat : i >= m[y] => mth[y][i] = nullptr
                 /\ \A i \in Nat : i < m[y] =>
                      /\ mth[y][i] \in Block /\ size[mth[y][i]] = y
                      /\ next'[mth[y][i]] = mth[y][i + 1]
                 /\ \A i, j \in Nat : i < m[y] /\ j < m[y] /\ mth[y][i] = mth[y][j] => i = j
      <4>1. CASE y # e
        <5>1. \A i \in Nat : i < n[y] => nth[y][i] # b
          BY <4>1, <1>0, <1>4 DEF Lists
        <5>2. \A i \in Nat : i < n[y] => next'[nth[y][i]] = next[nth[y][i]]
          BY <4>1, <5>1, <1>3, <1>4 DEF Lists
        <5>. QED BY <4>1, <5>2, <2>4, <1>3, <1>4 DEF Lists
      <4>2. CASE y = e
        <5>1. mth[e][0] = freelists'[e]
          BY <2>4, <1>3
        <5>2. ASSUME NEW i \in Nat, i >= k + 1 PROVE mth[e][i] = nullptr
          BY <5>2, <2>1, <2>4
        <5>3. ASSUME NEW i \in Nat, i < k + 1
              PROVE  mth[e][i] \in Block /\ size[mth[e][i]] = e /\ next'[mth[e][i]] = mth[e][i + 1]
          <6>1. CASE i = 0
            BY <6>1, <2>1, <2>4, <1>0, <1>1, <1>3
          <6>2. CASE i # 0
            <7>1. i - 1 \in Nat /\ i - 1 < k /\ (i - 1) + 1 = i /\ (i + 1) - 1 = i /\ i + 1 # 0
              BY <5>3, <6>2, <2>1
            <7>. QED BY <7>1, <6>2, <2>1, <2>2, <2>4, <1>3
          <6>. QED BY <6>1, <6>2
        <5>4. ASSUME NEW i \in Nat, NEW j \in Nat, i < k + 1, j < k + 1, mth[e][i] = mth[e][j]
              PROVE  i = j
          BY <5>4, <2>1, <2>2, <2>4
        <5>. QED BY <4>2, <5>1, <5>2, <5>3, <5>4, <2>4
      <4>. QED BY <4>1, <4>2
    <3>. QED BY <3>1, <2>3, <1>2 DEF Lists
  <2>6. ASSUME NEW c \in Block PROVE Held(c)' <=> ~InList(m, mth, c)'
    <3>1. CASE c = b
      <4>1. 0 < m[e] /\ mth[e][0] = b
        BY <2>1, <2>4
      <4>2. InList(m, mth, c)'
        BY <3>1, <4>1, <1>0, <1>2 DEF InList
      <4>. QED BY <3>1, <4>2, <1>5
    <3>2. CASE c # b
      <4>1. InList(m, mth, c)' <=> InList(n, nth, c)
        <5>1. CASE size[c] # e
          BY <5>1, <2>4, <1>2 DEF InList, EsLocoInv, InvPool
        <5>2. CASE size[c] = e
          <6>1. ASSUME NEW i \in Nat, i < m[e], mth[e][i] = c
                PROVE  \E j \in Nat : j < k /\ s[j] = c
            <7>1. i # 0
              BY <6>1, <3>2, <2>4
            <7>2. i - 1 \in Nat /\ i - 1 < k
              BY <6>1, <7>1, <2>1, <2>4
            <7>. QED BY <6>1, <7>1, <7>2, <2>4
          <6>2. ASSUME NEW j \in Nat, j < k, s[j] = c
                PROVE  \E i \in Nat : i < m[e] /\ mth[e][i] = c
            <7>1. j + 1 \in Nat /\ j + 1 # 0 /\ (j + 1) - 1 = j /\ j + 1 < m[e]
              BY <6>2, <2>1, <2>4
            <7>. QED BY <6>2, <7>1, <2>4
          <6>. QED BY <5>2, <6>1, <6>2, <1>2 DEF InList, s, k
        <5>. QED BY <5>1, <5>2
      <4>. QED BY <3>2, <4>1, <1>4, <1>5
    <3>. QED BY <3>1, <3>2
  <2>. QED BY <2>5, <2>6, <1>2 DEF InvLists
<1>. QED BY <1>6, <1>7, <1>8 DEF EsLocoInv

THEOREM EsLocoInvariant == RequestsFit => (SpecEsLoco => []EsLocoInv)
<1>. SUFFICES ASSUME RequestsFit PROVE SpecEsLoco => []EsLocoInv
  OBVIOUS
<1>1. InitEsLoco => EsLocoInv
  BY InitInv
<1>2. EsLocoInv /\ [NextEsLoco]_poolVars => EsLocoInv'
  <2>. SUFFICES ASSUME EsLocoInv, [NextEsLoco]_poolVars PROVE EsLocoInv'
    OBVIOUS
  <2>1. ASSUME NEW request \in Request, MallocReuse(request) PROVE EsLocoInv'
    BY <2>1, ReuseInv
  <2>2. ASSUME NEW request \in Request, MallocNew(request) PROVE EsLocoInv'
    BY <2>2, NewInv
  <2>3. ASSUME NEW x \in live, free(x) PROVE EsLocoInv'
    BY <2>3, FreeInv
  <2>4. ASSUME UNCHANGED poolVars PROVE EsLocoInv'
    <3>1. InvPool' /\ InvBlocks'
      BY <2>4 DEF poolVars, EsLocoInv, InvPool, InvBlocks, Block, End
    <3>2. ASSUME NEW n, NEW nth, Lists(n, nth) PROVE Lists(n, nth)'
      BY <2>4, <3>2 DEF poolVars, Lists, Block
    <3>3. ASSUME NEW n, NEW nth, NEW b PROVE InList(n, nth, b)' <=> InList(n, nth, b)
      BY <2>4 DEF poolVars, InList
    <3>4. ASSUME NEW b PROVE Held(b)' <=> Held(b)
      BY <2>4 DEF poolVars, Held
    <3>5. PICK n, nth : Lists(n, nth) /\ \A b \in Block : Held(b) <=> ~InList(n, nth, b)
      BY DEF EsLocoInv, InvLists
    <3>6. Block' = Block
      BY <2>4 DEF poolVars, Block
    <3>7. InvLists'
      BY <3>2, <3>3, <3>4, <3>5, <3>6 DEF InvLists
    <3>. QED BY <3>1, <3>7 DEF EsLocoInv
  <2>5. ASSUME NEW request \in Request, MallocFails(request) PROVE EsLocoInv'
    BY <2>4, <2>5 DEF MallocFails
  <2>6. ASSUME NEW request \in Request, malloc(request) PROVE EsLocoInv'
    BY <2>1, <2>2, <2>5, <2>6 DEF malloc
  <2>7. CASE NextEsLoco
    BY <2>3, <2>6, <2>7 DEF NextEsLoco
  <2>. QED BY <2>4, <2>7
<1>. QED BY <1>1, <1>2, PTL DEF SpecEsLoco
-----------------------------------------------------------------------------
(* Induction over the natural numbers, for predicates given as sets.       *)
LEMMA Smallest ==
  ASSUME NEW T, T \subseteq Nat, T # {}
  PROVE  \E x \in T : \A y \in T : x <= y
<1>. DEFINE R == OpToRel(<, Nat)
<1>1. IsWellFoundedOn(R, Nat)
  BY NatLessThanWellFounded
<1>2. \A x, y \in Nat : y < x => <<y, x>> \in R
  BY DEF OpToRel
<1>. HIDE DEF R
<1>3. PICK x \in T : \A y \in T : <<y, x>> \notin R
  BY <1>1, WFMin
<1>4. ASSUME NEW y \in T PROVE x <= y
  <2>1. x \in Nat /\ y \in Nat /\ ~(y < x)
    BY <1>2, <1>3
  <2>. QED BY <2>1
<1>. QED BY <1>4

(* A list is no longer than there are blocks.                              *)
LEMMA ListsFit ==
  ASSUME InvPool, NEW n, NEW nth, Lists(n, nth), NEW e \in Exponent
  PROVE  NumBlocks \in Nat /\ n[e] \in Nat /\ n[e] <= NumBlocks
<1>. DEFINE f == [i \in 1 .. n[e] |-> nth[e][i - 1]]
<1>1. n[e] \in Nat /\ IsFiniteSet(Block)
  BY DEF Lists, InvPool
<1>2. \A i \in 1 .. n[e] : i - 1 \in Nat /\ i - 1 < n[e]
  BY <1>1
<1>3. f \in Injection(1 .. n[e], Block)
  <2>1. f \in [1 .. n[e] -> Block]
    BY <1>2 DEF Lists
  <2>2. ASSUME NEW i \in 1 .. n[e], NEW j \in 1 .. n[e], f[i] = f[j] PROVE i = j
    <3>1. i - 1 = j - 1
      BY <1>2, <2>2 DEF Lists
    <3>. QED BY <3>1, <1>1
  <2>. HIDE DEF f
  <2>. QED BY <2>1, <2>2 DEF Injection, IsInjective
<1>4. Cardinality(1 .. n[e]) = n[e]
  BY <1>1, FS_Interval
<1>. HIDE DEF f
<1>5. Cardinality(1 .. n[e]) <= Cardinality(Block)
  BY <1>1, <1>3, FS_Injection
<1>. QED BY <1>1, <1>4, <1>5, FS_CardinalityType DEF NumBlocks

(* Following block::next from the head gives the list and then nullptr.    *)
LEMMA ChainIsList ==
  ASSUME InvPool, NEW n, NEW nth, Lists(n, nth), NEW e \in Exponent
  PROVE  Chain(e) = [i \in 0 .. NumBlocks |-> nth[e][i]]
<1>. DEFINE Follow(f) == [i \in 0 .. NumBlocks |->
                IF i = 0 THEN freelists[e]
                ELSE IF f[i - 1] \in Block THEN next[f[i - 1]] ELSE nullptr]
            g == [i \in 0 .. NumBlocks |-> nth[e][i]]
<1>1. Chain(e) = CHOOSE f : f = Follow(f)
  BY DEF Chain
<1>2. NumBlocks \in Nat
  BY ListsFit
<1>3. g = Follow(g)
  <2>1. ASSUME NEW i \in 0 .. NumBlocks PROVE g[i] = Follow(g)[i]
    <3>1. CASE i = 0
      BY <3>1 DEF Lists
    <3>2. CASE i # 0
      <4>1. i - 1 \in Nat /\ i - 1 \in 0 .. NumBlocks /\ (i - 1) + 1 = i /\ i \in Nat
        BY <1>2, <3>2
      <4>2. n[e] \in Nat
        BY DEF Lists
      <4>3. CASE i - 1 < n[e]
        <5>1. nth[e][i - 1] \in Block /\ next[nth[e][i - 1]] = nth[e][i]
          BY <4>1, <4>3 DEF Lists
        <5>. QED BY <5>1, <4>1, <3>2
      <4>4. CASE i - 1 >= n[e]
        <5>1. nth[e][i - 1] = nullptr /\ nth[e][i] = nullptr
          BY <4>1, <4>2, <4>4 DEF Lists
        <5>2. nullptr \notin Block
          BY DEF InvPool, nullptr
        <5>. QED BY <5>1, <5>2, <4>1, <3>2
      <4>. QED BY <4>1, <4>2, <4>3, <4>4
    <3>. QED BY <3>1, <3>2
  <2>. QED BY <2>1
<1>4. ASSUME NEW f, f = Follow(f) PROVE f = g
  <2>. DEFINE T == {i \in 0 .. NumBlocks : f[i] # g[i]}
  <2>1. T = {}
    <3>1. ASSUME T # {} PROVE FALSE
      <4>1. T \subseteq Nat
        BY <1>2
      <4>2. PICK x \in T : \A y \in T : x <= y
        <5>. HIDE DEF T
        <5>. QED BY <3>1, <4>1, Smallest
      <4>3. x \in 0 .. NumBlocks /\ f[x] = Follow(f)[x] /\ g[x] = Follow(g)[x]
        BY <1>3, <1>4, <4>2
      <4>4. x # 0
        BY <4>2, <4>3
      <4>5. x - 1 \in 0 .. NumBlocks /\ ~(x <= x - 1)
        BY <4>3, <4>4, <1>2
      <4>6. f[x - 1] = g[x - 1]
        BY <4>2, <4>5
      <4>. QED BY <4>2, <4>3, <4>4, <4>6
    <3>. QED BY <3>1
  <2>2. DOMAIN f = 0 .. NumBlocks /\ f = [i \in 0 .. NumBlocks |-> f[i]]
    BY <1>4
  <2>. QED BY <2>1, <2>2
<1>. HIDE DEF g, Follow
<1>. QED BY <1>1, <1>3, <1>4 DEF g

(* So the blocks that are found in a free list are those it holds.         *)
LEMMA FreeBlocksFacts ==
  ASSUME InvPool, NEW n, NEW nth, Lists(n, nth), NEW e \in Exponent
  PROVE  /\ Chain(e)[NumBlocks] = nullptr
         /\ FreeBlocks(e) = {b \in Block : size[b] = e /\ InList(n, nth, b)}
<1>1. /\ NumBlocks \in Nat /\ n[e] \in Nat /\ n[e] <= NumBlocks
      /\ Chain(e) = [i \in 0 .. NumBlocks |-> nth[e][i]]
  BY ListsFit, ChainIsList
<1>2. Chain(e)[NumBlocks] = nullptr
  BY <1>1 DEF Lists
<1>3. FreeBlocks(e) = {nth[e][i] : i \in 0 .. NumBlocks} \ {nullptr}
  BY <1>1 DEF FreeBlocks
<1>4. ASSUME NEW i \in 0 .. NumBlocks, nth[e][i] # nullptr
      PROVE  nth[e][i] \in Block /\ size[nth[e][i]] = e /\ i < n[e] /\ i \in Nat
  BY <1>1, <1>4 DEF Lists
<1>5. ASSUME NEW b \in Block, size[b] = e, InList(n, nth, b)
      PROVE  b # nullptr /\ \E i \in 0 .. NumBlocks : nth[e][i] = b
  <2>1. PICK i \in Nat : i < n[e] /\ nth[e][i] = b
    BY <1>5 DEF InList
  <2>2. i \in 0 .. NumBlocks
    BY <2>1, <1>1
  <2>. QED BY <2>1, <2>2 DEF InvPool, nullptr
<1>6. \A b \in FreeBlocks(e) : b \in Block /\ size[b] = e /\ InList(n, nth, b)
  BY <1>3, <1>4 DEF InList
<1>7. \A b \in Block : size[b] = e /\ InList(n, nth, b) => b \in FreeBlocks(e)
  BY <1>3, <1>5
<1>. QED BY <1>2, <1>6, <1>7

(* The free lists end, hold blocks of their exponent, and share none       *)
(* (free(): it pushes a block; block::next of held blocks is left over).   *)
THEOREM FreeListsAreSound == RequestsFit => (SpecEsLoco => []FreeListsSound)
<1>1. EsLocoInv => FreeListsSound
  <2>. SUFFICES ASSUME EsLocoInv, NEW e \in Exponent
                PROVE  /\ Chain(e)[NumBlocks] = nullptr
                       /\ \A b \in FreeBlocks(e) : b \in Block /\ size[b] = e
    BY DEF FreeListsSound
  <2>1. PICK n, nth : Lists(n, nth)
    BY DEF EsLocoInv, InvLists
  <2>. QED BY <2>1, FreeBlocksFacts DEF EsLocoInv
<1>. QED BY <1>1, EsLocoInvariant, PTL

(* No block is lost and none is handed out twice, by any sequence of       *)
(* malloc() and free().                                                    *)
THEOREM BlocksAreAccounted == RequestsFit => (SpecEsLoco => []Accounted)
<1>1. EsLocoInv => Accounted
  <2>. SUFFICES ASSUME EsLocoInv PROVE Accounted
    OBVIOUS
  <2>1. PICK n, nth : Lists(n, nth) /\ \A b \in Block : Held(b) <=> ~InList(n, nth, b)
    BY DEF EsLocoInv, InvLists
  <2>2. \A e \in Exponent : FreeBlocks(e) = {b \in Block : size[b] = e /\ InList(n, nth, b)}
    BY <2>1, FreeBlocksFacts DEF EsLocoInv
  <2>3. \A b \in Block : size[b] \in Exponent
    BY DEF EsLocoInv, InvPool
  <2>4. \A x \in live : x.block \in Block
    BY DEF EsLocoInv, InvPool
  <2>5. {x.block : x \in live} \cup UNION {FreeBlocks(e) : e \in Exponent} = Block
    BY <2>1, <2>2, <2>3, <2>4 DEF Held
  <2>6. \A x \in live, e \in Exponent : x.block \notin FreeBlocks(e)
    BY <2>1, <2>2, <2>4 DEF Held
  <2>. QED BY <2>5, <2>6 DEF Accounted, EsLocoInv, InvPool
<1>. QED BY <1>1, EsLocoInvariant, PTL

(* "Returns pointer to memory in pool": what malloc() has returned lies in *)
(* the pool, each object apart from the others.                            *)
THEOREM ObjectsAreInPool == RequestsFit => (SpecEsLoco => []ObjectsInPool)
<1>1. EsLocoInv => ObjectsInPool
  <2>. SUFFICES ASSUME EsLocoInv PROVE ObjectsInPool
    OBVIOUS
  <2>1. ASSUME NEW x \in live
        PROVE  /\ x.block \in Block /\ x.block \in Nat /\ x.request \in Nat
               /\ End(x.block) \in Int /\ x.block + x.request < End(x.block)
    <3>1. x.block \in Block /\ x.request \in Nat /\ size[x.block] \in Nat /\ x.block \in Nat
      BY BlockFacts, EsLocoAssumption DEF EsLocoInv, InvPool
    <3>2. PICK s \in Nat : s = size[x.block]
      BY <3>1
    <3>3. x.request < 2^s /\ 2^s \in Int
      BY <3>2 DEF EsLocoInv, InvBlocks
    <3>. QED BY <3>1, <3>2, <3>3 DEF End
  <2>2. First \in Nat /\ PoolEnd \in Nat /\ poolTop \in Nat
    BY EsLocoAssumption DEF EsLocoInv, InvPool
  <2>3. ASSUME NEW x \in live PROVE Span(x) \subseteq First .. PoolEnd - 1
    <3>1. First <= x.block /\ End(x.block) <= poolTop /\ poolTop <= PoolEnd
      BY <2>1 DEF EsLocoInv, InvBlocks
    <3>. QED BY <2>1, <2>2, <3>1 DEF Span
  <2>4. ASSUME NEW x \in live, NEW y \in live, x # y PROVE Span(x) \cap Span(y) = {}
    <3>1. x.block # y.block
      BY <2>4 DEF EsLocoInv, InvPool
    <3>2. End(x.block) <= y.block \/ End(y.block) <= x.block
      BY <2>1, <3>1 DEF EsLocoInv, InvBlocks
    <3>. QED BY <2>1, <3>2 DEF Span
  <2>. QED BY <2>3, <2>4 DEF ObjectsInPool
<1>. QED BY <1>1, EsLocoInvariant, PTL
=============================================================================
