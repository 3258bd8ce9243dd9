------------------------- MODULE MCManagedSubscription -------------------------
(* Constants and constraint of the runs of ManagedSubscription. *)
EXTENDS ManagedSubscription

\* a behaviour is followed up to its first overlap
NoOverlap == "overlap" \notin lapses
================================================================================
