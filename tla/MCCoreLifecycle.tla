---------------------------- MODULE MCCoreLifecycle ----------------------------
(***************************************************************************)
(* Instances of CoreLifecycle for TLC: the pids are distinct.              *)
(***************************************************************************)
EXTENDS CoreLifecycle

CONSTANTS c1, c2

FreshPids == [p \in 1 .. MaxSidecars |-> p]
================================================================================
