----------------------------- MODULE MCSystemProxy -----------------------------
(* SystemProxy with two callers of patch_verge that patch the settings three times. *)
EXTENDS SystemProxy, TLC

CONSTANTS p1, p2

TwoPatchers == {p1, p2}
OnePatcher == {p1}
Symmetry == Permutations(TwoPatchers)

Everything == {"before", "os", "after", "save", "reset"}
Before == {"before"}
================================================================================
