--------------------------- MODULE MCMsgRouteServer ---------------------------
(***************************************************************************)
(* TLC instances of MsgRouteServer: one or two clients, and the appId each *)
(* of them uses.                                                           *)
(***************************************************************************)
EXTENDS MsgRouteServer

CONSTANTS c1, c2

\* Two clients with an appId each: V2X_APP_ID and GNSS_APP_ID.
TwoApps == (c1 :> 1) @@ (c2 :> 2)

\* The one client c1, which then sends to itself.
OneApp == c1 :> 1

Symmetry == Permutations(Workers) \cup Permutations(Messages)
===============================================================================
