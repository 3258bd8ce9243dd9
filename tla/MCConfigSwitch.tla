----------------------------- MODULE MCConfigSwitch -----------------------------
(* Instances of ConfigSwitch for TLC. *)
EXTENDS ConfigSwitch

CONSTANTS s1, s2, r1
================================================================================
