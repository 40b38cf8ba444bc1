----------------------------- MODULE MCThreadPool -----------------------------
(***************************************************************************)
(* TLC instances of ThreadPool.  The threads, callers and jobs are         *)
(* interchangeable model values; symmetry is used in the runs that check   *)
(* no liveness property.                                                   *)
(***************************************************************************)
EXTENDS ThreadPool

Symmetry ==
  Permutations(Threads) \cup Permutations(Callers) \cup Permutations(Jobs)
===============================================================================
