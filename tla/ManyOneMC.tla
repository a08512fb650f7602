----------------------------- MODULE ManyOneMC -----------------------------
(***************************************************************************)
(* ManyOne for TLC where only safety is checked: the threads that          *)
(* thread_create makes are interchangeable.                                *)
(***************************************************************************)
EXTENDS ManyOne, TLC

KidSymmetry == Permutations(Kids)
=============================================================================
