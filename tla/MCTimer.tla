------------------------------- MODULE MCTimer -------------------------------
(***************************************************************************)
(* TLC instances of Timer.  StartTimes is 0, which disarms a timer, and a  *)
(* time of the clock that is over, or not yet over, when the timer is set. *)
(***************************************************************************)
EXTENDS Timer

Symmetry == Permutations(Callers) \cup Permutations(Callbacks)
===============================================================================
