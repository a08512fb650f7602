------------------------------ MODULE OneOneMC ------------------------------
(***************************************************************************)
(* OneOne for TLC where only safety is checked: the threads that           *)
(* thread_create makes are interchangeable, as long as either all of them  *)
(* or none of them join.                                                   *)
(***************************************************************************)
EXTENDS OneOne, TLC

KidSymmetry == Permutations(Kids)
=============================================================================
