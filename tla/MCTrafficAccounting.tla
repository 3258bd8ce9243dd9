------------------------- MODULE MCTrafficAccounting -------------------------
(* TLC instances of TrafficAccounting. *)
EXTENDS TrafficAccounting
==============================================================================
