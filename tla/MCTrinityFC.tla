----------------------------- MODULE MCTrinityFC -----------------------------
(* TrinityFC with few threads, two words and transactions that increment   *)
(* one word or both.                                                       *)
EXTENDS TrinityFC, TLC

MCCreateStores == <<<<1, 1>>>>
MCFunction == {<<1, 2>>, <<2>>}

ThreadSymmetry == Permutations(Thread)
=============================================================================
