------------------------------- MODULE OneFile -------------------------------
(***************************************************************************)
(* ptms/onefile/OneFilePTMLF.hpp: lock-free transactions.  Stores go to a  *)
(* volatile redo log; a compare-and-swap of curTx commits the log, and     *)
(* before any thread begins another transaction it helps to apply it, one  *)
(* double compare-and-swap of value and sequence per word.                 *)
(*                                                                         *)
(* The persistent copy of the logs (PWriteSet::plog) is left out: only     *)
(* recover() reads it, and the only call of recover() is commented out.    *)
(* So are its consequences, see the README: power does not fail here, but  *)
(* pm says what a failure would leave.                                     *)
(***************************************************************************)
EXTENDS TransactionHistory

CONSTANT NumStores     \* bound: entries of a write-set

ASSUME OneFileAssumption ==
  /\ Thread # {} /\ NumWords > 0 /\ NumStores \in Nat
  /\ \A prog \in Program :
       /\ prog \in Seq([op : {"load", "store"}, range : (SUBSET Addr) \ {{}}])
       /\ Cardinality({i \in DOMAIN prog : prog[i].op = "store"}) <= NumStores

VARIABLES mem,         \* [val, seq] of each word
          pm, pwb,     \* its line in the medium; <<t, a>>: a fence of t waits for it
          curTx,       \* [seq, idx] of the last transaction committed
          request,     \* pmd->plog[t].request
          writeSet,    \* [num, log]: entries <<addr, val>>; old ones stay in log
          pc, k,       \* where each thread stands, and how far in a loop
          myTx,        \* OpData::curTx
          helping,     \* lcurTx of helpApply()
          loaded       \* the value and sequence loaded for a pload() or a DCAS

memVars == <<mem, pm, pwb>>
txVars == <<curTx, request, writeSet>>
localVars == <<myTx, helping, loaded>>
vars == <<memVars, txVars, pc, k, localVars, call, histVars>>

Nothing == [val |-> InitVal, seq |-> 0]
Trans(seq, idx) == [seq |-> seq, idx |-> idx]
EmptySet == [num |-> 0, log |-> [i \in 1 .. NumStores |-> <<1, InitVal>>]]

Init ==
  /\ InitHistory
  /\ mem = [a \in Addr |-> Nothing]
  /\ pm = mem /\ pwb = {}
  /\ curTx = Trans(1, Min(Thread))
  /\ request = [t \in Thread |-> Trans(0, Min(Thread))]
  /\ writeSet = [t \in Thread |-> EmptySet]
  /\ pc = [t \in Thread |-> "idle"] /\ k = [t \in Thread |-> 0]
  /\ myTx = [t \in Thread |-> Trans(0, t)] /\ helping = myTx
  /\ loaded = [t \in Thread |-> Nothing]

Goto(t, where) == pc' = [pc EXCEPT ![t] = where] /\ k' = [k EXCEPT ![t] = 0]
Advance(t) == k' = [k EXCEPT ![t] = @ + 1] /\ UNCHANGED pc

(* Every compare-and-swap is a fence for the PWBs of its thread. *)
Fenced(t) == ~\E a \in Addr : <<t, a>> \in pwb
-----------------------------------------------------------------------------
Call(t) ==
  /\ pc[t] = "idle"
  /\ NewCall(t, Program)
  /\ Goto(t, "begin")
  /\ UNCHANGED <<memVars, txVars, localVars>>

BeginTxStale(t) ==  \* mutant: curTx is loaded before the loop, not in it
  /\ pc[t] = "begin"
  /\ myTx' = [myTx EXCEPT ![t] = IF @.seq = 0 THEN curTx ELSE @]
  /\ helping' = [helping EXCEPT ![t] = myTx'[t]]
  /\ Goto(t, "help")
  /\ UNCHANGED <<memVars, txVars, loaded, call, histVars>>

(* beginTx(): what is committed is applied first, ... *)
BeginTx(t) ==
  /\ pc[t] = "begin"
  /\ myTx' = [myTx EXCEPT ![t] = curTx]
  /\ helping' = [helping EXCEPT ![t] = curTx]
  /\ Goto(t, "help")
  /\ UNCHANGED <<memVars, txVars, loaded, call, histVars>>

(* ... and if something else is committed meanwhile, all over again.       *)
BeginTxDone(t) ==
  /\ pc[t] = "helped" /\ helping[t] = myTx[t]
  /\ writeSet' = [writeSet EXCEPT ![t].num = 0]
  /\ call' = [call EXCEPT ![t].pos = 1, ![t].reads = {}]
  /\ Goto(t, IF myTx[t] = curTx THEN "run" ELSE "begin")
  /\ UNCHANGED <<memVars, curTx, request, localVars, histVars>>

(* helpApply().  Nothing to do if the request is not, or no longer, open.  *)
Owner(t) == helping[t].idx
Open(t) == request[Owner(t)] = helping[t]

HelpStart(t) ==
  /\ pc[t] = "help"
  /\ Goto(t, IF ~Open(t) THEN "helped" ELSE IF Owner(t) = t THEN "apply" ELSE "copy")
  /\ UNCHANGED <<memVars, txVars, localVars, call, histVars>>

(* The log of another thread is copied while its owner may be changing it, *)
HelpCopy(t) ==
  LET theirs == writeSet[Owner(t)]
  IN  /\ pc[t] = "copy"
      /\ k[t] = 0 \/ k[t] <= writeSet[t].num
      /\ writeSet' = IF k[t] = 0 THEN [writeSet EXCEPT ![t].num = theirs.num]
                     ELSE [writeSet EXCEPT ![t].log[k[t]] = theirs.log[k[t]]]
      /\ Advance(t)
      /\ UNCHANGED <<memVars, curTx, request, localVars, call, histVars>>

HelpUnchecked(t) ==  \* mutant: the copy is not checked
  /\ pc[t] = "copy" /\ k[t] > writeSet[t].num
  /\ Goto(t, "apply")
  /\ UNCHANGED <<memVars, txVars, localVars, call, histVars>>

(* and is good only if the same transaction is still open afterwards.      *)
HelpCheck(t) ==
  /\ \/ /\ pc[t] = "copy" /\ k[t] > writeSet[t].num
        /\ Goto(t, IF curTx = helping[t] THEN "recheck" ELSE "helped")
     \/ /\ pc[t] = "recheck"
        /\ Goto(t, IF Open(t) THEN "apply" ELSE "helped")
  /\ UNCHANGED <<memVars, txVars, localVars, call, histVars>>

(* WriteSet::apply(): each thread starts at another entry. *)
Entry(t) ==
  LET set == writeSet[t] IN set.log[((t * 8 + k[t] \div 3) % set.num) + 1]

ApplyLoad(t) ==
  /\ pc[t] = "apply" /\ k[t] < 3 * writeSet[t].num /\ k[t] % 3 < 2
  /\ LET word == mem[Entry(t)[1]]
     IN  loaded' = IF k[t] % 3 = 0 THEN [loaded EXCEPT ![t].val = word.val]
                                   ELSE [loaded EXCEPT ![t].seq = word.seq]
  /\ Advance(t)
  /\ UNCHANGED <<memVars, txVars, myTx, helping, call, histVars>>

ApplyDCAS(t) ==
  /\ pc[t] = "apply" /\ k[t] < 3 * writeSet[t].num /\ k[t] % 3 = 2
  /\ LET a == Entry(t)[1]
     IN  IF loaded[t].seq < helping[t].seq
         THEN /\ Fenced(t)
              /\ mem' = IF mem[a] = loaded[t]
                        THEN [mem EXCEPT ![a] = [val |-> Entry(t)[2], seq |-> helping[t].seq]]
                        ELSE mem
         ELSE UNCHANGED mem
  /\ loaded' = [loaded EXCEPT ![t] = Nothing]
  /\ Advance(t)
  /\ UNCHANGED <<pm, pwb, txVars, myTx, helping, call, histVars>>

(* flushModifications() *)
HelpFlush(t) ==
  /\ pc[t] = "apply" /\ k[t] >= 3 * writeSet[t].num
  /\ pwb' = pwb \cup {<<t, writeSet[t].log[i][1]>> : i \in 1 .. writeSet[t].num}
  /\ Goto(t, "close")
  /\ UNCHANGED <<mem, pm, txVars, localVars, call, histVars>>

HelpCloseUnfenced(t) ==  \* mutant: the request is closed by a plain store
  /\ pc[t] = "close"
  /\ request' = IF Open(t) THEN [request EXCEPT ![Owner(t)].seq = @ + 1] ELSE request
  /\ Goto(t, "helped")
  /\ UNCHANGED <<memVars, curTx, writeSet, localVars, call, histVars>>

HelpClose(t) ==
  /\ pc[t] = "close" /\ (Open(t) => Fenced(t))
  /\ request' = IF Open(t) THEN [request EXCEPT ![Owner(t)].seq = @ + 1] ELSE request
  /\ Goto(t, "helped")
  /\ UNCHANGED <<memVars, curTx, writeSet, localVars, call, histVars>>
-----------------------------------------------------------------------------
AtOp(t, op) == pc[t] = "run" /\ ~AtEnd(t) /\ Op(t).op = op
Word(t) == Min(Op(t).range)

(* pload(): the value, then the sequence, which aborts the transaction if  *)
(* it is newer than myTx; an own store goes before what has been loaded.   *)
PloadValue(t) ==
  /\ AtOp(t, "load") /\ k[t] = 0
  /\ loaded' = [loaded EXCEPT ![t].val = mem[Word(t)].val]
  /\ Advance(t)
  /\ UNCHANGED <<memVars, txVars, myTx, helping, call, histVars>>

Stored(t) == {writeSet[t].log[i][1] : i \in 1 .. writeSet[t].num}

PloadSeq(t) ==
  /\ AtOp(t, "load") /\ k[t] = 1
  /\ IF mem[Word(t)].seq > myTx[t].seq
     THEN Goto(t, "begin") /\ UNCHANGED call
     ELSE /\ Goto(t, "run")
          /\ call' = [call EXCEPT ![t].pos = @ + 1,
                        ![t].reads = IF Word(t) \in Stored(t) THEN @
                                     ELSE Reading(t, Word(t), loaded[t].val)]
  /\ loaded' = [loaded EXCEPT ![t] = Nothing]
  /\ UNCHANGED <<memVars, txVars, myTx, helping, histVars>>

(* pstore(): addOrReplace() *)
Pstore(t) ==
  /\ AtOp(t, "store")
  /\ LET n == writeSet[t].num + 1
     IN  writeSet' = IF Word(t) \in Stored(t) THEN writeSet
                     ELSE [writeSet EXCEPT ![t].num = n, ![t].log[n] = <<Word(t), call[t].id>>]
  /\ call' = [call EXCEPT ![t].pos = @ + 1]
  /\ UNCHANGED <<memVars, curTx, request, pc, k, localVars, histVars>>
-----------------------------------------------------------------------------
(* transaction() returns; its OpData is not used again. *)
Returns(t) ==
  /\ returned' = returned \cup {call[t].id}
  /\ Goto(t, "idle")
  /\ call' = [call EXCEPT ![t] = NoCall]
  /\ myTx' = [myTx EXCEPT ![t] = Trans(0, t)] /\ helping' = [helping EXCEPT ![t] = Trans(0, t)]
  /\ UNCHANGED <<memVars, txVars, loaded, calls>>

(* commitTx() *)
CommitReadOnly(t) ==
  /\ pc[t] = "run" /\ AtEnd(t) /\ writeSet[t].num = 0
  /\ log' = Append(log, Effect(t, {})) /\ Returns(t)

CommitStale(t) ==
  /\ pc[t] = "run" /\ AtEnd(t) /\ writeSet[t].num > 0
  /\ myTx[t] # curTx
  /\ Goto(t, "begin")
  /\ UNCHANGED <<memVars, txVars, localVars, call, histVars>>

NewTx(t) == Trans(myTx[t].seq + 1, t)

CommitOpen(t) ==
  /\ pc[t] = "run" /\ AtEnd(t) /\ writeSet[t].num > 0
  /\ myTx[t] = curTx
  /\ Goto(t, "open")
  /\ UNCHANGED <<memVars, txVars, localVars, call, histVars>>

CommitRequest(t) ==
  /\ pc[t] = "open"
  /\ request' = [request EXCEPT ![t] = NewTx(t)]
  /\ Goto(t, "cas")
  /\ UNCHANGED <<memVars, curTx, writeSet, localVars, call, histVars>>

CommitWon(t) ==
  /\ pc[t] = "cas" /\ curTx = myTx[t]
  /\ curTx' = NewTx(t) /\ helping' = [helping EXCEPT ![t] = NewTx(t)]
  /\ log' = Append(log, Effect(t, Stored(t)))
  /\ Goto(t, "help")
  /\ UNCHANGED <<memVars, request, writeSet, myTx, loaded, call, calls, returned>>

CommitLost(t) ==
  /\ pc[t] = "cas" /\ curTx # myTx[t]
  /\ Goto(t, "begin")
  /\ UNCHANGED <<memVars, txVars, localVars, call, histVars>>

CommitDone(t) ==
  /\ pc[t] = "helped" /\ helping[t] # myTx[t]
  /\ Returns(t) /\ UNCHANGED log

(* A line is written back because of a PWB.  (Evictions are left out: they *)
(* only make the medium newer, and only committed stores reach a word.)    *)
WriteBack(a) ==
  /\ \E t \in Thread : <<t, a>> \in pwb
  /\ pm' = [pm EXCEPT ![a] = mem[a]]
  /\ pwb' = {w \in pwb : w[2] # a}
  /\ UNCHANGED <<mem, txVars, pc, k, localVars, call, histVars>>

Help(t) == \/ HelpStart(t) \/ HelpCopy(t) \/ HelpCheck(t)
           \/ ApplyLoad(t) \/ ApplyDCAS(t) \/ HelpFlush(t) \/ HelpClose(t)
Commit(t) == \/ CommitReadOnly(t) \/ CommitStale(t) \/ CommitOpen(t) \/ CommitRequest(t)
             \/ CommitWon(t) \/ CommitLost(t) \/ CommitDone(t)
Step(t) == \/ BeginTx(t) \/ BeginTxDone(t) \/ Help(t)
           \/ PloadValue(t) \/ PloadSeq(t) \/ Pstore(t) \/ Commit(t)

Next == \/ \E t \in Thread : Call(t) \/ Step(t)
        \/ \E a \in Addr : WriteBack(a)

(* One thread keeps running, and the memory completes PWBs; every other    *)
(* thread may stop for ever anywhere.                                      *)
Runner == Max(Thread)

Fairness == /\ WF_vars(Step(Runner))
            /\ \A a \in Addr : WF_vars(WriteBack(a))

Spec == Init /\ [][Next]_vars /\ Fairness
-----------------------------------------------------------------------------
(* What loads see once all that is committed is applied. *)
Pending == IF request[curTx.idx] # curTx THEN {} ELSE 1 .. writeSet[curTx.idx].num

Committed ==
  [a \in Addr |->
     LET mine == {i \in Pending : writeSet[curTx.idx].log[i][1] = a}
     IN  IF mine = {} THEN mem[a].val ELSE writeSet[curTx.idx].log[Max(mine)][2]]

(* Transactions are strictly serializable in the order in which curTx took *)
(* them, whoever applied them, and however late a helper with an old copy  *)
(* of a log comes.                                                         *)
StrictlySerializable == SerializableTo(Committed)

(* "provide durable linearizability, but the CAS of the state in           *)
(* helpApply() acts as a PSYNC()": when a transaction has returned, what   *)
(* it stored, and what it loaded, is in the medium, or something newer.    *)
NotOlder(a, id) ==
  \/ pm[a].val = id \/ id = InitVal
  \/ \E i, j \in DOMAIN log : i < j /\ log[i].id = id /\ log[j].id = pm[a].val

DurableAtReturn ==
  \A i \in DOMAIN log : log[i].id \in returned =>
    /\ \A a \in log[i].writes : NotOlder(a, log[i].id)
    /\ \A r \in log[i].reads : NotOlder(r[1], r[2])

(* "Lock-Free": a transaction returns although every other thread may have *)
(* stopped in the middle of anything; it is restarted only by another one  *)
(* that commits, and MaxTx bounds those.                                   *)
LockFree == pc[Runner] # "idle" ~> pc[Runner] = "idle"
=============================================================================
