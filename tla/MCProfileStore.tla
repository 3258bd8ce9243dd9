---------------------------- MODULE MCProfileStore ----------------------------
(* Instances of ProfileStore for TLC. *)
EXTENDS ProfileStore, TLC

Symmetry == Permutations(Uids) \cup Permutations(Contents)
================================================================================
