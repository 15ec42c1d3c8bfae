------------------------------ MODULE MCOneFile ------------------------------
(* OneFile with two threads and two words.                                 *)
EXTENDS OneFile

MCProgram == { <<Load({1}), Store({1}), Store({2})>>, <<Store({1})>>,
               <<Load({1}), Load({2})>> }
=============================================================================
