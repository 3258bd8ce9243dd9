------------------------------ MODULE AtomicDraft ------------------------------
(***************************************************************************)
(* What a draft store promises: the committed data changes in one step,    *)
(* by a modification that keeps all that was committed, or by publishing   *)
(* the draft; edits and discards touch the draft alone.                    *)
(***************************************************************************)
CONSTANTS Tasks, Edits

VARIABLES
    data,       \* what is committed
    drafted,    \* is there a draft?
    draft       \* the draft, {} when there is none

Init == data = {} /\ drafted = FALSE /\ draft = {}

Modify(t) == data' = data \cup {t} /\ UNCHANGED <<drafted, draft>>

Edit(e) ==
    /\ drafted' = TRUE
    /\ draft' = (IF drafted THEN draft ELSE data) \cup {e}
    /\ UNCHANGED data

Publish == drafted /\ data' = draft /\ drafted' = FALSE /\ draft' = {}

Discard == drafted' = FALSE /\ draft' = {} /\ UNCHANGED data

Next ==
    \/ \E t \in Tasks : Modify(t)
    \/ \E e \in Edits : Edit(e)
    \/ Publish \/ Discard

Spec == Init /\ [][Next]_<<data, drafted, draft>>
================================================================================
