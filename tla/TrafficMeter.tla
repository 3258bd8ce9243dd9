----------------------------- MODULE TrafficMeter -----------------------------
(***************************************************************************)
(* What traffic accounting promises, seen from outside: bytes are proxied, *)
(* bytes are billed, a bill is never taken back and never runs ahead of    *)
(* what was proxied.                                                       *)
(***************************************************************************)
EXTENDS Naturals

VARIABLES
    proxied,    \* bytes the cores forwarded
    billed      \* bytes the server has accepted

vars == <<proxied, billed>>

Init == proxied = 0 /\ billed = 0

Proxy == proxied' = proxied + 1 /\ UNCHANGED billed

Bill == billed' \in (billed + 1) .. proxied /\ UNCHANGED proxied

Next == Proxy \/ Bill

Spec == Init /\ [][Next]_vars
==============================================================================
