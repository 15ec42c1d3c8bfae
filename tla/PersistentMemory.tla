-------------------------- MODULE PersistentMemory --------------------------
(***************************************************************************)
(* The persistent region as the code of ptms/ uses it.  The region is      *)
(* mapped, so loads and stores go through the processor's cache, and what  *)
(* a power failure leaves behind is what had been written back.            *)
(*                                                                         *)
(*   cache[l]  the content of line l that loads and stores of the program  *)
(*             see                                                         *)
(*   pm[l]     the content of line l in the persistent medium              *)
(*   pwb       the lines with a PWB (CLWB, CLFLUSHOPT) that a fence has    *)
(*             still to wait for                                           *)
(*                                                                         *)
(* The processor may write a line back at any moment, asked or not, and    *)
(* writes it back whole: stores to one line reach the medium in program    *)
(* order ("ordered store" in the sources), stores to two lines in any      *)
(* order.  A fence returns when every PWB issued before it is done.        *)
(***************************************************************************)
VARIABLES cache, pm, pwb

pmVars == <<cache, pm, pwb>>

(* A plain store to line l, no write-back asked. *)
Store(l, content) ==
  /\ cache' = [cache EXCEPT ![l] = content]
  /\ UNCHANGED <<pm, pwb>>

(* A store to line l and the PWB of that line that follows it. *)
StorePWB(l, content) ==
  /\ cache' = [cache EXCEPT ![l] = content]
  /\ pwb' = pwb \cup {l}
  /\ UNCHANGED pm

(* PFENCE and PSYNC return in a state where this holds. *)
Fenced == pwb = {}

(* The processor writes line l back. *)
WriteBack(l) ==
  /\ pm' = [pm EXCEPT ![l] = cache[l]]
  /\ pwb' = pwb \ {l}
  /\ UNCHANGED cache

(* Power fails: the caches are lost, and the next process that maps the    *)
(* region finds what the medium holds.                                     *)
PowerFailure ==
  /\ cache' = pm
  /\ pwb' = {}
  /\ UNCHANGED pm
=============================================================================
