--------------------------------- MODULE MCDraft -------------------------------
(* Instances of Draft for TLC. *)
EXTENDS Draft

CONSTANTS t1, t2, t3, e1, e2
================================================================================
