------------------------------- MODULE RedoOpt -------------------------------
(***************************************************************************)
(* ptmdb/otherdb/redodb/ptms/redoopt/RedoOpt.hpp: wait-free transactions,  *)
(* the PTM under RedoDB.  The region holds several replicas (combs) of the *)
(* data, and curComb in its header names the current one.  An update is    *)
(* announced; its thread takes a replica for itself, brings it up to date  *)
(* with the redo logs of the transactions it has missed or by copying the  *)
(* current one, applies everything announced, and offers the replica in a  *)
(* compare-and-swap of curComb.  Who fails twice finds that somebody else  *)
(* has applied its update.                                                 *)
(*                                                                         *)
(* A load is one step with the comparison of curComb that follows it.      *)
(* Left out: the hazard pointers, the flushing of a whole replica when     *)
(* most of its lines have been modified (flushcopy), and how long          *)
(* getNewComb() waits before it looks at more replicas.                    *)
(***************************************************************************)
EXTENDS TransactionHistory

CONSTANTS RingSize, StatesSize,
          LogLimit,     \* a tenth of the pool: a longer redo log is not applied
          MaxReadTries, \* MAX_READ_TRIES
          ProgramOf,    \* bound: the programs that each thread calls
          NumEntries,   \* bound: entries of a redo log
          Restarted     \* the replicas that a region may name when it is opened again

Comb == 0 .. Cardinality(Thread)     \* MAX_COMBINEDS
NoComb == Cardinality(Thread) + 1

Ticket(seq, tid, idx) == [seq |-> seq, tid |-> tid, idx |-> idx]
Zero == Ticket(0, 0, 0)
Invalid == Ticket(0, 1, 0)           \* of a replica that nothing is known of

ASSUME RedoOptAssumption ==
  /\ {0, 1} \subseteq Thread /\ Thread = 0 .. Cardinality(Thread) - 1
  /\ {RingSize, LogLimit, MaxReadTries, NumEntries} \subseteq Nat \ {0}
  /\ StatesSize \in Nat /\ StatesSize >= 2
  /\ ProgramOf \in [Thread -> SUBSET Program] /\ Restarted \subseteq Comb

VARIABLES curComb,   \* [seq, tid, idx]; idx is the current replica
          ring,      \* the ticket of seq in slot seq % RingSize
          sauron,    \* the States of each thread
          lastIdx,   \* the one each thread uses next
          enqueuers, announce,
          comb,      \* the replicas: head, words, lock, readers, clsets, and
                     \* dirty, the words not written back since they were stored
          pc, my,    \* where each thread stands, and its local variables
          reopened,  \* history: threads that have announced a request over an
                     \* open one of their own
          durSeq,    \* the medium holds a curComb of this seq, or a later one
          published  \* history: what each curComb named, and the ticket of its transaction

shared == <<curComb, ring, sauron, lastIdx, enqueuers, announce, comb>>
ghosts == <<reopened, durSeq, published>>
vars == <<shared, pc, my, ghosts, call, histVars>>

NoAnswer == [id |-> 0, reads |-> {}]
NoRequest == [id |-> 0, prog |-> <<>>, after |-> {}]

EmptyState ==
  [ticket |-> Zero, applied |-> [t \in Thread |-> FALSE],
   results |-> [t \in Thread |-> NoAnswer], logSize |-> 0,
   log |-> [i \in 1 .. NumEntries |-> [addr |-> 1, old |-> InitVal, val |-> InitVal]]]

NoLocals ==
  [init |-> 0, iter |-> 0, cComb |-> Zero, ltail |-> Zero, new |-> NoComb,
   i |-> 0, j |-> 0, n |-> 0, slot |-> Zero, from |-> Zero, start |-> 0, pwb |-> 0,
   lSize |-> 0, lines |-> {}, applied |-> <<>>, helped |-> FALSE,
   announced |-> FALSE, answer |-> NoAnswer]

Unknown == -1
Words(val) == [a \in Addr |-> val]
Replica(head, words, lock) ==
  [head |-> head, words |-> words, lock |-> lock, readers |-> {}, clsets |-> {}, dirty |-> {}]

(* createFile(), or the constructor on a file that exists: then only the   *)
(* replica that curComb names can be used as it is.                        *)
Init ==
  /\ InitHistory
  /\ \/ /\ curComb = Zero
        /\ comb = [c \in Comb |-> Replica(Zero, Words(InitVal), IF c = 0 THEN "R" ELSE "none")]
     \/ \E current \in Restarted :
          /\ curComb = Ticket(0, 0, current)
          /\ comb = [c \in Comb |-> IF c = current THEN Replica(Zero, Words(InitVal), "R")
                                    ELSE Replica(Invalid, Words(Unknown), "none")]
  /\ ring = [i \in 0 .. RingSize - 1 |-> Zero]
  /\ sauron = [t \in Thread |-> [i \in 0 .. StatesSize - 1 |-> EmptyState]]
  /\ lastIdx = [t \in Thread |-> 1 % StatesSize]
  /\ enqueuers = [t \in Thread |-> NoRequest] /\ announce = [t \in Thread |-> FALSE]
  /\ pc = [t \in Thread |-> "idle"] /\ my = [t \in Thread |-> NoLocals]
  /\ reopened = {} /\ durSeq = 0
  /\ published = [q \in {0} |-> [idx |-> curComb.idx, ticket |-> Zero, words |-> Words(InitVal),
                               ids |-> {}]]
-----------------------------------------------------------------------------
(* sharedTryLock(), exclusiveTryLock(), downgrade() and the unlocks of     *)
(* StrongTryRIRWLock, each as one step.                                    *)
CanShare(c) == comb[c].lock # "W"
CanLock(c) == comb[c].lock = "none" /\ comb[c].readers = {}

Goto(t, where) == pc' = [pc EXCEPT ![t] = where]
Become(t, locals) == my' = [my EXCEPT ![t] = locals]

StateOf(ticket) == sauron[ticket.tid][ticket.idx]
newState(t) == sauron[t][lastIdx[t]]
SetState(t, state) == sauron' = [sauron EXCEPT ![t][lastIdx[t]] = state]
NewTicket(t) == Ticket(my[t].cComb.seq + 1, t, lastIdx[t])

Moved(t) == curComb # my[t].cComb
TwoLater(t) == curComb.seq >= my[t].init + 2

(* continue, and break, in the loop of ns_write_transaction(). *)
Continue(t, locals) ==
  /\ Become(t, [NoLocals EXCEPT !.init = locals.init, !.iter = locals.iter + 1,
                                !.new = locals.new])
  /\ Goto(t, IF locals.iter = 1 THEN "giveUp" ELSE "iter")

Break(t) == Become(t, [NoLocals EXCEPT !.new = my[t].new]) /\ Goto(t, "giveUp")

(* A PWB of curComb, and the fence of a later compare-and-swap or PSYNC.   *)
WithPWB(locals) == [locals EXCEPT !.pwb = curComb.seq]
Fence(t) == durSeq' = Max({durSeq, my[t].pwb})

(* What undoes the stores of newState, last first. *)
Undone(t) ==
  LET entries == newState(t).log
  IN  [comb[my[t].new] EXCEPT
         !.words = [a \in Addr |->
            LET mine == {i \in 1 .. my[t].lSize : entries[i].addr = a}
            IN  IF mine = {} THEN @[a] ELSE entries[Min(mine)].old],
         !.dirty = @ \cup {entries[i].addr : i \in 1 .. my[t].lSize}]
-----------------------------------------------------------------------------
(* ns_write_transaction(): the request, ...  The thread may have left one  *)
(* open, a read that it announced and then answered by itself: to announce *)
(* once more closes that one, and opens none.                              *)
Closed(t) == StateOf(comb[curComb.idx].head).applied[t] = announce[t]

Enqueue(t, c) ==
  /\ enqueuers' = [enqueuers EXCEPT ![t] = [id |-> c.id, prog |-> c.prog, after |-> c.after]]
  /\ reopened' = IF Closed(t) THEN reopened ELSE reopened \cup {t}

UpdateTx(t) ==
  /\ pc[t] = "idle"
  /\ NewCall(t, {prog \in ProgramOf[t] : IsUpdate(prog)})
  /\ Enqueue(t, call'[t])
  /\ Goto(t, "announce")
  /\ UNCHANGED <<curComb, ring, sauron, lastIdx, announce, comb, my, durSeq, published>>

Announce(t) ==
  /\ pc[t] = "announce"
  /\ announce' = [announce EXCEPT ![t] = ~@]
  /\ Goto(t, "init")
  /\ UNCHANGED <<curComb, ring, sauron, lastIdx, enqueuers, comb, my, ghosts, call, histVars>>

InitCombSeq(t) ==
  /\ pc[t] = "init"
  /\ Become(t, [NoLocals EXCEPT !.init = curComb.seq])
  /\ Goto(t, "iter")
  /\ UNCHANGED <<shared, ghosts, call, histVars>>

(* ... at most two attempts, on what is current now, ... *)
LoadCurComb(t) ==
  /\ pc[t] = "iter"
  /\ Become(t, [my[t] EXCEPT !.cComb = curComb])
  /\ Goto(t, "tail")
  /\ UNCHANGED <<shared, ghosts, call, histVars>>

LoadTail(t) ==
  /\ pc[t] = "tail"
  /\ \/ /\ my[t].cComb.seq >= my[t].init + 2
        /\ Break(t)
     \/ /\ my[t].cComb.seq < my[t].init + 2 /\ Moved(t)
        /\ Continue(t, my[t])
     \/ /\ my[t].cComb.seq < my[t].init + 2 /\ ~Moved(t)
        /\ Become(t, [my[t] EXCEPT !.ltail = comb[curComb.idx].head])
        /\ Goto(t, "applied")
  /\ UNCHANGED <<shared, ghosts, call, histVars>>

(* ... unless the request has been applied. *)
AlreadyApplied(t) ==
  /\ pc[t] = "applied"
  /\ StateOf(my[t].ltail).applied[t] = announce[t]
  /\ IF Moved(t) THEN Continue(t, my[t]) ELSE Break(t)
  /\ UNCHANGED <<shared, ghosts, call, histVars>>

StoreTicket(t) ==
  /\ pc[t] = "applied"
  /\ StateOf(my[t].ltail).applied[t] # announce[t]
  /\ SetState(t, [newState(t) EXCEPT !.ticket = NewTicket(t)])
  /\ Goto(t, "copyState")
  /\ UNCHANGED <<curComb, ring, lastIdx, enqueuers, announce, comb, my, ghosts, call, histVars>>

CopyStateNoResults(t) ==  \* mutant: the results of earlier transactions are not copied
  /\ pc[t] = "copyState"
  /\ SetState(t, [newState(t) EXCEPT !.applied = StateOf(my[t].ltail).applied,
                                     !.logSize = 0])
  /\ IF Moved(t) THEN Continue(t, my[t]) ELSE Goto(t, "ring") /\ UNCHANGED my
  /\ UNCHANGED <<curComb, ring, lastIdx, enqueuers, announce, comb, ghosts, call, histVars>>

(* State::copyFrom() *)
CopyState(t) ==
  /\ pc[t] = "copyState"
  /\ SetState(t, [newState(t) EXCEPT !.applied = StateOf(my[t].ltail).applied,
                                     !.results = StateOf(my[t].ltail).results,
                                     !.logSize = 0])
  /\ IF Moved(t) THEN Continue(t, my[t]) ELSE Goto(t, "ring") /\ UNCHANGED my
  /\ UNCHANGED <<curComb, ring, lastIdx, enqueuers, announce, comb, ghosts, call, histVars>>

(* The ring gets the ticket of the current replica, once curComb is in the *)
(* medium.                                                                 *)
Slot(seq) == seq % RingSize

LoadRing(t) ==
  LET slot == ring[Slot(my[t].cComb.seq)]
  IN  /\ pc[t] = "ring"
      /\ \/ slot = my[t].ltail /\ Goto(t, "getComb") /\ UNCHANGED my
         \/ slot # my[t].ltail /\ slot.seq > my[t].cComb.seq /\ Continue(t, my[t])
         \/ /\ slot # my[t].ltail /\ slot.seq <= my[t].cComb.seq
            /\ Become(t, WithPWB([my[t] EXCEPT !.slot = slot]))
            /\ Goto(t, "ringCAS")
      /\ UNCHANGED <<shared, ghosts, call, histVars>>

CASRing(t, seq, ticket) ==
  /\ Fence(t)
  /\ ring' = IF ring[Slot(seq)] = my[t].slot THEN [ring EXCEPT ![Slot(seq)] = ticket] ELSE ring

AdvanceRing(t) ==
  /\ pc[t] = "ringCAS"
  /\ CASRing(t, my[t].cComb.seq, my[t].ltail)
  /\ Goto(t, "getComb")
  /\ UNCHANGED <<curComb, sauron, lastIdx, enqueuers, announce, comb, my,
                 reopened, published, call, histVars>>

(* getNewComb(), unless a replica has been taken in the first attempt, ... *)
GetNewComb(t) ==
  /\ pc[t] = "getComb" /\ my[t].new = NoComb
  /\ IF Moved(t) THEN Continue(t, my[t]) ELSE Goto(t, "lock") /\ UNCHANGED my
  /\ UNCHANGED <<shared, ghosts, call, histVars>>

(* ... and what it has missed. *)
BringUpToDate(t, c) ==
  LET last == comb[c].head
  IN  /\ Become(t, [my[t] EXCEPT !.new = c, !.i = last.seq + 1, !.slot = Zero])
      /\ Goto(t, IF last = Invalid THEN "copy" ELSE "redo")

ExclusiveTryLock(t) ==
  LET free == {c \in Comb : CanLock(c)}
  IN  /\ pc[t] = "lock"
      /\ IF free = {} THEN Goto(t, "getComb") /\ UNCHANGED <<comb, my>>
         ELSE comb' = [comb EXCEPT ![Min(free)].lock = "W"] /\ BringUpToDate(t, Min(free))
      /\ UNCHANGED <<curComb, ring, sauron, lastIdx, enqueuers, announce, ghosts, call, histVars>>

KeepComb(t) ==
  /\ pc[t] = "getComb" /\ my[t].new # NoComb
  /\ BringUpToDate(t, my[t].new)
  /\ UNCHANGED <<shared, ghosts, call, histVars>>
-----------------------------------------------------------------------------
(* apply_redologs() *)
RedoLoadRing(t) ==
  LET slot == ring[Slot(my[t].i)]
  IN  /\ pc[t] = "redo" /\ my[t].i <= my[t].ltail.seq
      /\ Become(t, [my[t] EXCEPT !.slot = slot])
      /\ Goto(t, IF slot.seq = my[t].i THEN "redoSize" ELSE "copy")
      /\ UNCHANGED <<shared, ghosts, call, histVars>>

RedoSize(t) ==
  LET state == StateOf(my[t].slot)
  IN  /\ pc[t] = "redoSize"
      /\ Become(t, [my[t] EXCEPT !.j = 1, !.n = state.logSize])
      /\ Goto(t, IF state.ticket # my[t].slot \/ state.logSize > LogLimit THEN "copy"
                 ELSE "redoLog")
      /\ UNCHANGED <<shared, ghosts, call, histVars>>

(* copy_redolog(): plain stores. *)
RedoLog(t) ==
  LET e == StateOf(my[t].slot).log[my[t].j]
  IN  /\ pc[t] = "redoLog" /\ my[t].j <= my[t].n
      /\ comb' = [comb EXCEPT ![my[t].new].words[e.addr] = e.val,
                              ![my[t].new].dirty = @ \cup {e.addr}]
      /\ Become(t, [my[t] EXCEPT !.j = @ + 1])
      /\ UNCHANGED <<curComb, ring, sauron, lastIdx, enqueuers, announce,
                     pc, ghosts, call, histVars>>

RedoTrusted(t) == my[t].n > 0 => StateOf(my[t].slot).ticket = my[t].slot

RedoCheck(t) ==
  /\ pc[t] = "redoLog" /\ my[t].j > my[t].n
  /\ \/ ~RedoTrusted(t) /\ Goto(t, "copy") /\ UNCHANGED <<my, comb>>
     \/ /\ RedoTrusted(t) /\ TwoLater(t)
        /\ comb' = [comb EXCEPT ![my[t].new].head = my[t].slot]
        /\ Break(t)
     \/ /\ RedoTrusted(t) /\ ~TwoLater(t)
        /\ Become(t, [my[t] EXCEPT !.i = @ + 1])
        /\ Goto(t, "redo")
        /\ UNCHANGED comb
  /\ UNCHANGED <<curComb, ring, sauron, lastIdx, enqueuers, announce, ghosts, call, histVars>>

(* ringTicket is not initialised if no log had to be applied: head gets    *)
(* what an earlier transaction may have left in its place.                 *)
RingTickets(t) ==
  IF my[t].slot # Zero THEN {my[t].slot}
  ELSE {Zero} \cup {s \in {ring[i] : i \in DOMAIN ring} : s.seq <= my[t].ltail.seq}

RedoDone(t) ==
  /\ pc[t] = "redo" /\ my[t].i > my[t].ltail.seq
  /\ IF my[t].i = my[t].ltail.seq + 1
     THEN /\ \E ticket \in RingTickets(t) : comb' = [comb EXCEPT ![my[t].new].head = ticket]
          /\ Goto(t, "brought")
     ELSE Goto(t, "copy") /\ UNCHANGED comb
  /\ UNCHANGED <<curComb, ring, sauron, lastIdx, enqueuers, announce,
                 my, ghosts, call, histVars>>
-----------------------------------------------------------------------------
(* makeCopy(), from the current replica, which it does not lock. *)
MakeCopy(t) ==
  /\ pc[t] = "copy"
  /\ comb' = [comb EXCEPT ![my[t].new].clsets = {}, ![my[t].new].head = Invalid]
  /\ Become(t, [my[t] EXCEPT !.from = curComb, !.start = curComb.seq, !.n = 0])
  /\ Goto(t, "copyHead")
  /\ UNCHANGED <<curComb, ring, sauron, lastIdx, enqueuers, announce, ghosts, call, histVars>>

CopyAgain(t) ==
  \/ curComb.seq >= my[t].start + 2 /\ Break(t)
  \/ /\ curComb.seq < my[t].start + 2
     /\ Become(t, [my[t] EXCEPT !.from = curComb, !.n = @ + 1])
     /\ Goto(t, IF my[t].n = 1 THEN "assert(false)" ELSE "copyHead")

CopyHead(t) ==
  /\ pc[t] = "copyHead"
  /\ IF curComb # my[t].from THEN CopyAgain(t)
     ELSE /\ Become(t, [my[t] EXCEPT !.slot = comb[curComb.idx].head])
          /\ Goto(t, "copyApplied")
  /\ UNCHANGED <<shared, ghosts, call, histVars>>

CopyApplied(t) ==
  /\ pc[t] = "copyApplied"
  /\ IF StateOf(my[t].slot).applied[t] = announce[t]
     THEN IF curComb = my[t].from THEN Break(t) ELSE CopyAgain(t)
     ELSE Become(t, [my[t] EXCEPT !.j = 1]) /\ Goto(t, "copyWords")
  /\ UNCHANGED <<shared, ghosts, call, histVars>>

(* copyFromTo(): words that differ go to the medium (ntstore). *)
CopyWord(t) ==
  LET a == my[t].j
      word == comb[my[t].from.idx].words[a]
  IN  /\ pc[t] = "copyWords" /\ a <= NumWords
      /\ comb' = IF comb[my[t].new].words[a] = word THEN comb
                 ELSE [comb EXCEPT ![my[t].new].words[a] = word, ![my[t].new].dirty = @ \ {a}]
      /\ Become(t, [my[t] EXCEPT !.j = @ + 1])
      /\ UNCHANGED <<curComb, ring, sauron, lastIdx, enqueuers, announce,
                     pc, ghosts, call, histVars>>

CopyDone(t) ==
  /\ pc[t] = "copyWords" /\ my[t].j > NumWords
  /\ IF curComb # my[t].from THEN CopyAgain(t) /\ UNCHANGED comb
     ELSE /\ comb' = [comb EXCEPT ![my[t].new].head = my[t].slot]
          /\ Goto(t, "brought") /\ UNCHANGED my
  /\ UNCHANGED <<curComb, ring, sauron, lastIdx, enqueuers, announce, ghosts, call, histVars>>
-----------------------------------------------------------------------------
(* The replica is as up to date as curComb: requests are helped, from      *)
(* thread 0 on.                                                            *)
Brought(t) ==
  /\ pc[t] = "brought"
  /\ IF Moved(t) THEN Continue(t, my[t])
     ELSE Become(t, [my[t] EXCEPT !.i = 0]) /\ Goto(t, "help")
  /\ UNCHANGED <<shared, ghosts, call, histVars>>

HelpLook(t) ==
  /\ pc[t] = "help" /\ my[t].i \in Thread
  /\ IF announce[my[t].i] = newState(t).applied[my[t].i]
     THEN Become(t, [my[t] EXCEPT !.i = @ + 1]) /\ UNCHANGED pc
     ELSE Goto(t, "mutation") /\ UNCHANGED my
  /\ UNCHANGED <<shared, ghosts, call, histVars>>

(* What a program loads from words before it stores there itself, and the  *)
(* words that it stores to.                                                *)
StoredTo(prog, n) == {Min(prog[i].range) : i \in {k \in 1 .. n : prog[k].op = "store"}}
ReadsOf(prog, words) ==
  {<<Min(prog[i].range), words[Min(prog[i].range)]>> :
     i \in {k \in DOMAIN prog : /\ prog[k].op = "load"
                                /\ Min(prog[k].range) \notin StoredTo(prog, k - 1)}}

(* The mutation is called; pstore() logs what it stores. *)
Mutation(t) ==
  LET request == enqueuers[my[t].i]
      words == comb[my[t].new].words
      answer == [id |-> request.id, reads |-> ReadsOf(request.prog, words)]
      written == SetToSortSeq(StoredTo(request.prog, Len(request.prog)), <)
      entry(k) == [addr |-> written[k], old |-> words[written[k]], val |-> request.id]
      size == my[t].lSize
  IN  /\ pc[t] = "mutation" /\ ~Moved(t)
      /\ SetState(t, [newState(t) EXCEPT
            !.results[my[t].i] = answer,
            !.applied[my[t].i] = ~@,
            !.log = [k \in DOMAIN @ |-> IF k \in size + 1 .. size + Len(written)
                                        THEN entry(k - size) ELSE @[k]]])
      /\ comb' = [comb EXCEPT
            ![my[t].new].words = [a \in Addr |-> IF a \in ToSet(written) THEN request.id ELSE @[a]],
            ![my[t].new].dirty = @ \cup ToSet(written)]
      /\ Become(t, [my[t] EXCEPT
            !.i = @ + 1, !.helped = TRUE, !.lSize = size + Len(written),
            !.lines = @ \cup ToSet(written),
            !.applied = IF IsUpdate(request.prog)
                        THEN Append(@, [id |-> request.id, reads |-> answer.reads,
                                        writes |-> ToSet(written), after |-> request.after])
                        ELSE @])
      /\ Goto(t, "help")
      /\ UNCHANGED <<curComb, ring, lastIdx, enqueuers, announce, ghosts, call, histVars>>

MutationMoved(t) ==
  /\ pc[t] = "mutation" /\ Moved(t)
  /\ Become(t, [my[t] EXCEPT !.i = Cardinality(Thread)]) /\ Goto(t, "help")
  /\ UNCHANGED <<shared, ghosts, call, histVars>>

HelpedNone(t) ==
  /\ pc[t] = "help" /\ my[t].i \notin Thread /\ ~my[t].helped
  /\ Continue(t, my[t])
  /\ UNCHANGED <<shared, ghosts, call, histVars>>

WithLines(t) == [comb EXCEPT ![my[t].new].clsets = @ \cup my[t].lines]

HelpedMoved(t) ==
  /\ pc[t] = "help" /\ my[t].i \notin Thread /\ my[t].helped /\ Moved(t)
  /\ comb' = [WithLines(t) EXCEPT ![my[t].new].words = Undone(t).words,
                                  ![my[t].new].dirty = Undone(t).dirty]
  /\ Continue(t, my[t])
  /\ UNCHANGED <<curComb, ring, sauron, lastIdx, enqueuers, announce, ghosts, call, histVars>>

(* flushDeferredPWBs() and reset(). *)
Flushed(replica) == [replica EXCEPT !.dirty = @ \ replica.clsets, !.clsets = {}]

(* The replica can be offered once its lock is downgraded. *)
Flush(t) ==
  /\ pc[t] = "help" /\ my[t].i \notin Thread /\ my[t].helped /\ ~Moved(t)
  /\ SetState(t, [newState(t) EXCEPT !.logSize = my[t].lSize])
  /\ comb' = [comb EXCEPT ![my[t].new] =
                [Flushed(WithLines(t)[my[t].new]) EXCEPT !.head = NewTicket(t), !.lock = "R"]]
  /\ Goto(t, "cas")
  /\ UNCHANGED <<curComb, ring, lastIdx, enqueuers, announce, my, ghosts, call, histVars>>

(* The compare-and-swap of curComb commits what has been applied, ... *)
CommitWon(t) ==
  /\ pc[t] = "cas" /\ ~Moved(t)
  /\ curComb' = Ticket(curComb.seq + 1, t, my[t].new)
  /\ Fence(t)
  /\ log' = log \o my[t].applied
  /\ published' = [q \in 0 .. curComb'.seq |->
       IF q < curComb'.seq THEN published[q]
       ELSE [idx |-> my[t].new, ticket |-> NewTicket(t), words |-> comb[my[t].new].words,
             ids |-> {my[t].applied[i].id : i \in DOMAIN my[t].applied}]]
  /\ Goto(t, "unlock")
  /\ UNCHANGED <<ring, sauron, lastIdx, enqueuers, announce, comb, my, reopened,
                 call, calls, returned>>

CommitLostNoUndo(t) ==  \* mutant: apply_undolog() is missing
  /\ pc[t] = "cas" /\ Moved(t)
  /\ Fence(t)
  /\ comb' = [comb EXCEPT ![my[t].new].head = my[t].ltail, ![my[t].new].lock = "none"]
  /\ Continue(t, [my[t] EXCEPT !.new = NoComb])
  /\ UNCHANGED <<curComb, ring, sauron, lastIdx, enqueuers, announce,
                 reopened, published, call, histVars>>

(* ... or somebody else was faster. *)
CommitLost(t) ==
  /\ pc[t] = "cas" /\ Moved(t)
  /\ Fence(t)
  /\ comb' = [comb EXCEPT ![my[t].new] =
                [Undone(t) EXCEPT !.head = my[t].ltail, !.lock = "none"]]
  /\ Continue(t, [my[t] EXCEPT !.new = NoComb])
  /\ UNCHANGED <<curComb, ring, sauron, lastIdx, enqueuers, announce,
                 reopened, published, call, histVars>>

(* The previous replica is free, and the ring gets the ticket. *)
UpdateDone(t) ==
  /\ Become(t, [NoLocals EXCEPT !.answer = newState(t).results[t]])
  /\ lastIdx' = [lastIdx EXCEPT ![t] = (@ + 1) % StatesSize]
  /\ Goto(t, "return")

SetReadUnlockNot(t) ==  \* mutant: the previous replica is not unlocked
  LET slot == ring[Slot(my[t].cComb.seq + 1)]
  IN  /\ pc[t] = "unlock"
      /\ IF slot.seq < my[t].cComb.seq + 1
         THEN /\ Become(t, WithPWB([my[t] EXCEPT !.slot = slot])) /\ Goto(t, "ringMine")
              /\ UNCHANGED lastIdx
         ELSE UpdateDone(t)
      /\ UNCHANGED <<curComb, ring, sauron, enqueuers, announce, comb, ghosts, call, histVars>>

SetReadUnlock(t) ==
  LET slot == ring[Slot(my[t].cComb.seq + 1)]
  IN  /\ pc[t] = "unlock"
      /\ comb' = [comb EXCEPT ![my[t].cComb.idx].lock = "none"]
      /\ IF slot.seq < my[t].cComb.seq + 1
         THEN /\ Become(t, WithPWB([my[t] EXCEPT !.slot = slot])) /\ Goto(t, "ringMine")
              /\ UNCHANGED lastIdx
         ELSE UpdateDone(t)
      /\ UNCHANGED <<curComb, ring, sauron, enqueuers, announce, ghosts, call, histVars>>

RingMine(t) ==
  /\ pc[t] = "ringMine"
  /\ CASRing(t, my[t].cComb.seq + 1, NewTicket(t))
  /\ UpdateDone(t)
  /\ UNCHANGED <<curComb, sauron, enqueuers, announce, comb, reopened, published,
                 call, histVars>>

(* Somebody else has applied the request: the replica that was taken, if   *)
(* any, is unlocked, and the answer is in the current State.               *)
GiveUp(t) ==
  /\ pc[t] = "giveUp"
  /\ comb' = IF my[t].new = NoComb THEN comb ELSE [comb EXCEPT ![my[t].new].lock = "none"]
  /\ Become(t, [NoLocals EXCEPT !.cComb = curComb])
  /\ Goto(t, "giveUpRing")
  /\ UNCHANGED <<curComb, ring, sauron, lastIdx, enqueuers, announce, ghosts, call, histVars>>

TicketOf(cComb) ==
  IF comb[cComb.idx].head.seq = cComb.seq THEN comb[cComb.idx].head ELSE ring[Slot(cComb.seq)]

GiveUpRing(t) ==
  LET slot == ring[Slot(my[t].cComb.seq)]
      current == comb[my[t].cComb.idx].head.seq = my[t].cComb.seq
      locals == [my[t] EXCEPT !.ltail = TicketOf(my[t].cComb)]
  IN  /\ pc[t] = "giveUpRing"
      /\ IF current /\ slot.seq < my[t].cComb.seq
         THEN Become(t, WithPWB([locals EXCEPT !.slot = slot])) /\ Goto(t, "giveUpCAS")
         ELSE Become(t, locals) /\ Goto(t, "answer")
      /\ UNCHANGED <<shared, ghosts, call, histVars>>

GiveUpCAS(t) ==
  /\ pc[t] = "giveUpCAS"
  /\ CASRing(t, my[t].cComb.seq, my[t].ltail)
  /\ Goto(t, "answer")
  /\ UNCHANGED <<curComb, sauron, lastIdx, enqueuers, announce, comb, my,
                 reopened, published, call, histVars>>

Answer(t) ==
  /\ pc[t] = "answer"
  /\ Become(t, [NoLocals EXCEPT !.answer = StateOf(my[t].ltail).results[t]])
  /\ Goto(t, "return")
  /\ UNCHANGED <<shared, ghosts, call, histVars>>
-----------------------------------------------------------------------------
(* ns_read_transaction(): attempts to share the current replica (the first *)
(* i of them have failed because of more updates than MaxTx), ...          *)
ReadTx(t) ==
  /\ pc[t] = "idle"
  /\ NewCall(t, {prog \in ProgramOf[t] : ~IsUpdate(prog)})
  /\ \E i \in 0 .. MaxReadTries : Become(t, [NoLocals EXCEPT !.i = i])
  /\ Goto(t, "read")
  /\ UNCHANGED <<shared, ghosts>>

ReadAgain(t) ==
  /\ Become(t, [NoLocals EXCEPT !.i = my[t].i + 1, !.announced = my[t].announced])
  /\ Goto(t, IF my[t].i + 1 = MaxReadTries + 2 THEN "readGiveUp" ELSE "read")

(* ... the last two of them after the read has been announced, as if it    *)
(* were an update.                                                         *)
ReadEnqueue(t) ==
  /\ pc[t] = "read" /\ my[t].i = MaxReadTries /\ ~my[t].announced
  /\ Enqueue(t, call[t])
  /\ Become(t, [my[t] EXCEPT !.announced = TRUE])
  /\ Goto(t, "readAnnounce")
  /\ UNCHANGED <<curComb, ring, sauron, lastIdx, announce, comb, durSeq, published,
                 call, histVars>>

ReadAnnounce(t) ==
  /\ pc[t] = "readAnnounce"
  /\ announce' = [announce EXCEPT ![t] = ~@]
  /\ Goto(t, "read")
  /\ UNCHANGED <<curComb, ring, sauron, lastIdx, enqueuers, comb, my, ghosts, call, histVars>>

ReadCurComb(t) ==
  /\ pc[t] = "read" /\ (my[t].i = MaxReadTries => my[t].announced)
  /\ Become(t, [my[t] EXCEPT !.cComb = curComb])
  /\ Goto(t, "readLock")
  /\ UNCHANGED <<shared, ghosts, call, histVars>>

SharedTryLock(t) ==
  LET c == my[t].cComb.idx
  IN  /\ pc[t] = "readLock"
      /\ IF CanShare(c) THEN /\ comb' = [comb EXCEPT ![c].readers = @ \cup {t}]
                             /\ Goto(t, "readCheck") /\ UNCHANGED my
                        ELSE ReadAgain(t) /\ UNCHANGED comb
      /\ UNCHANGED <<curComb, ring, sauron, lastIdx, enqueuers, announce, ghosts, call, histVars>>

ReadCheck(t) ==
  LET c == my[t].cComb.idx
  IN  /\ pc[t] = "readCheck"
      /\ IF ~Moved(t) /\ comb[c].head.seq = my[t].cComb.seq
         THEN /\ Become(t, [my[t] EXCEPT !.j = 1, !.answer.id = call[t].id])
              /\ Goto(t, "readWords") /\ UNCHANGED comb
         ELSE /\ comb' = [comb EXCEPT ![c].readers = @ \ {t}]
              /\ ReadAgain(t)
      /\ UNCHANGED <<curComb, ring, sauron, lastIdx, enqueuers, announce, ghosts, call, histVars>>

ReadWord(t) ==
  LET a == Min(call[t].prog[my[t].j].range)
  IN  /\ pc[t] = "readWords" /\ my[t].j <= Len(call[t].prog)
      /\ Become(t, [my[t] EXCEPT !.j = @ + 1,
                       !.answer.reads = @ \cup {<<a, comb[my[t].cComb.idx].words[a]>>}])
      /\ UNCHANGED <<shared, pc, ghosts, call, histVars>>

SharedUnlockNoSync(t) ==  \* mutant: what has been read is returned at once
  /\ pc[t] = "readWords" /\ my[t].j > Len(call[t].prog)
  /\ comb' = [comb EXCEPT ![my[t].cComb.idx].readers = @ \ {t}]
  /\ Become(t, [NoLocals EXCEPT !.answer = my[t].answer, !.announced = my[t].announced])
  /\ Goto(t, "return")
  /\ UNCHANGED <<curComb, ring, sauron, lastIdx, enqueuers, announce, ghosts, call, histVars>>

(* Before what has been read is returned it has to be in the medium. *)
SharedUnlock(t) ==
  /\ pc[t] = "readWords" /\ my[t].j > Len(call[t].prog)
  /\ comb' = [comb EXCEPT ![my[t].cComb.idx].readers = @ \ {t}]
  /\ Become(t, WithPWB([NoLocals EXCEPT !.answer = my[t].answer, !.announced = my[t].announced]))
  /\ Goto(t, IF ring[Slot(my[t].cComb.seq)].seq < my[t].cComb.seq THEN "readSync" ELSE "return")
  /\ UNCHANGED <<curComb, ring, sauron, lastIdx, enqueuers, announce, ghosts, call, histVars>>

ReadSync(t) ==
  /\ pc[t] = "readSync"
  /\ Fence(t)
  /\ Goto(t, "return")
  /\ UNCHANGED <<shared, my, reopened, published, call, histVars>>

(* Every attempt has failed: the read has been helped like an update. *)
ReadGiveUp(t) ==
  /\ pc[t] = "readGiveUp"
  /\ Become(t, WithPWB([NoLocals EXCEPT !.cComb = curComb]))
  /\ Goto(t, "readResult")
  /\ UNCHANGED <<shared, ghosts, call, histVars>>

ReadResult(t) ==
  /\ pc[t] = "readResult"
  /\ Fence(t)
  /\ Become(t, [my[t] EXCEPT !.ltail = TicketOf(my[t].cComb)])
  /\ Goto(t, "answer")
  /\ UNCHANGED <<shared, reopened, published, call, histVars>>

Return(t) ==
  /\ pc[t] = "return"
  /\ returned' = returned \cup {call[t].id}
  /\ log' = IF IsUpdate(call[t].prog) THEN log
            ELSE Append(log, [id |-> call[t].id, reads |-> my[t].answer.reads, writes |-> {},
                              after |-> call[t].after])
  /\ call' = [call EXCEPT ![t] = NoCall]
  /\ Become(t, NoLocals)
  /\ Goto(t, "idle")
  /\ UNCHANGED <<shared, ghosts, calls>>
-----------------------------------------------------------------------------
Attempt(t) == \/ Announce(t) \/ InitCombSeq(t) \/ LoadCurComb(t) \/ LoadTail(t)
              \/ AlreadyApplied(t) \/ StoreTicket(t) \/ CopyState(t)
              \/ LoadRing(t) \/ AdvanceRing(t) \/ GetNewComb(t)
              \/ ExclusiveTryLock(t) \/ KeepComb(t)
Bring(t) == \/ RedoLoadRing(t) \/ RedoSize(t) \/ RedoLog(t) \/ RedoCheck(t) \/ RedoDone(t)
            \/ MakeCopy(t) \/ CopyHead(t) \/ CopyApplied(t) \/ CopyWord(t) \/ CopyDone(t)
Help(t) == \/ Brought(t) \/ HelpLook(t) \/ Mutation(t) \/ MutationMoved(t)
           \/ HelpedNone(t) \/ HelpedMoved(t)
Commit(t) == \/ Flush(t) \/ CommitWon(t) \/ CommitLost(t)
             \/ SetReadUnlock(t) \/ RingMine(t)
Abandon(t) == GiveUp(t) \/ GiveUpRing(t) \/ GiveUpCAS(t) \/ Answer(t)
Read(t) == \/ ReadEnqueue(t) \/ ReadAnnounce(t) \/ ReadCurComb(t) \/ SharedTryLock(t)
           \/ ReadCheck(t) \/ ReadWord(t) \/ SharedUnlock(t) \/ ReadSync(t)
           \/ ReadGiveUp(t) \/ ReadResult(t)

Step(t) == Attempt(t) \/ Bring(t) \/ Help(t) \/ Commit(t) \/ Abandon(t) \/ Read(t) \/ Return(t)

Next == \E t \in Thread : UpdateTx(t) \/ ReadTx(t) \/ Step(t)

(* One thread keeps running; every other may stop for ever anywhere. *)
Runner == Max(Thread)
Spec == Init /\ [][Next]_vars /\ WF_vars(Step(Runner))
-----------------------------------------------------------------------------
(* As long as no thread has announced a request over an open one of its    *)
(* own, transactions are strictly serializable in the order of curComb, on *)
(* whatever replica, by whatever thread, and however often they were       *)
(* executed; what the current replica holds is what they leave.            *)
StrictlySerializable == reopened = {} => SerializableTo(comb[curComb.idx].words)

(* updateTx() and readTx() return what this call of the thread has         *)
(* computed, on its own or as helped by another one, and an update has     *)
(* been applied exactly once then.  The property is about threads that     *)
(* have never announced a request over an open one of their own: of the    *)
(* others it does not hold (EveryUpdateApplied).                           *)
PublishedIn(id) == {q \in DOMAIN published : id \in published[q].ids}
AppliedOnce(t) == IsUpdate(call[t].prog) => Cardinality(PublishedIn(call[t].id)) = 1

EveryCallAnswered ==
  \A t \in Thread \ reopened : pc[t] = "return" =>
    my[t].answer.id = call[t].id /\ AppliedOnce(t)

(* The same of updates, of whatever thread: who calls updateTx() after a   *)
(* read that it announced and then answered by itself returns without its  *)
(* update, or with it applied twice.                                       *)
EveryUpdateApplied == \A t \in Thread : pc[t] = "return" => AppliedOnce(t)

(* The curComb in the medium may be an old one.  The replica that it names *)
(* still is what was published under it: none is taken for a new           *)
(* transaction as long as a power failure could make it current again.     *)
(* With three threads it may be: SetReadUnlock comes before the PWB of the *)
(* new curComb.                                                            *)
RecoveryPointKept ==
  \A q \in DOMAIN published : q >= durSeq => comb[published[q].idx].words = published[q].words

(* Before a transaction returns, the curComb that published what it stored *)
(* and what it loaded, or a later one, is in the medium (of threads that   *)
(* have announced nothing over an open request).                           *)
Learnt(t) ==
  (IF IsUpdate(call[t].prog) THEN {call[t].id} ELSE {}) \cup {r[2] : r \in my[t].answer.reads}

PublishedAtReturn ==
  \A t \in Thread \ reopened : pc[t] = "return" =>
    \A id \in Learnt(t) : \A q \in PublishedIn(id) : q <= durSeq

(* "Wait-free": a call returns although every other thread may have        *)
(* stopped, holding whatever replica it has locked.                        *)
WaitFree == pc[Runner] # "idle" ~> pc[Runner] = "idle"

(* "Now newComb is as up to date as curComb", in the medium too: the       *)
(* replica that any curComb in the medium names has no word that is only   *)
(* in the cache ("orders previous PWB and the store on curComb").          *)
RecoveredIsCurrent ==
  \A q \in DOMAIN published : q >= durSeq => comb[published[q].idx].dirty = {}
=============================================================================
