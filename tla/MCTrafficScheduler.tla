-------------------------- MODULE MCTrafficScheduler --------------------------
(* Instances of TrafficScheduler for TLC: a tick is 5 s. *)
EXTENDS TrafficScheduler
================================================================================
