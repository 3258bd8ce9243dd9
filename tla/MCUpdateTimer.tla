---------------------------- MODULE MCUpdateTimer ----------------------------
(* An instance of UpdateTimer for TLC: a tick is 30 s. *)
EXTENDS UpdateTimer
================================================================================
