--------------------------- MODULE MCMsgRouteClient ---------------------------
(***************************************************************************)
(* TLC instance of MsgRouteClient.                                         *)
(***************************************************************************)
EXTENDS MsgRouteClient

CONSTANTS p1, p2, t1, t2

\* For the safety properties only: nothing tells the threads or the types apart.
Symmetry == Permutations({p1, p2}) \cup Permutations({t1, t2})
===============================================================================
