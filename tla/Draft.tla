--------------------------------- MODULE Draft ---------------------------------
(***************************************************************************)
(* Draft<T> of crates/clash-verge-draft, the store of every configuration: *)
(* committed data, an optional draft, and asynchronous modifications of    *)
(* the committed data.  Modifications queue on data_modifying and Notify,  *)
(* copy the committed data, work on the copy across awaits, and commit it  *)
(* unless somebody published a draft meanwhile.  Edits, applies and        *)
(* discards do not queue.  A modification may fail or be cancelled.        *)
(*                                                                         *)
(* Data is the set of changes it contains: a task adds its own name.       *)
(***************************************************************************)
EXTENDS Naturals

CONSTANTS
    Tasks,          \* modifications, each made once
    Edits           \* changes of the draft, each made once

VARIABLES
    committed,      \* the Arc of the committed data: its identity and the data
    drafted,        \* is there a draft?
    draft,          \* the draft, {} when there is none
    edited,         \* edits made so far
    modifying,      \* data_modifying
    permit,         \* does data_modify_notify hold a permit?
    pc,             \* where each task stands in with_data_modify
    original,       \* the Arc a task copied
    ok              \* tasks that returned Ok

store == <<committed, drafted, draft, edited>>
gate == <<modifying, permit>>
vars == <<store, gate, pc, original, ok>>

Data == SUBSET (Tasks \cup Edits)
Goto(t, l) == pc' = [pc EXCEPT ![t] = l]

Init ==
    /\ committed = [arc |-> 0, data |-> {}] /\ drafted = FALSE /\ draft = {} /\ edited = {}
    /\ modifying = FALSE /\ permit = FALSE
    /\ pc = [t \in Tasks |-> "idle"] /\ original = [t \in Tasks |-> [arc |-> 0, data |-> {}]]
    /\ ok = {}

\* every store of new committed data allocates a new Arc
NewArc(d) == [arc |-> committed.arc + 1, data |-> d]

------------------------------------------------------------------------------
(* The draft. *)

Latest == IF drafted THEN draft ELSE committed.data

EditDraft(e) ==
    /\ e \notin edited
    /\ drafted' = TRUE
    /\ draft' = Latest \cup {e}
    /\ edited' = edited \cup {e}
    /\ UNCHANGED <<committed, gate, pc, original, ok>>

Apply ==
    /\ drafted
    /\ committed' = NewArc(draft)
    /\ drafted' = FALSE /\ draft' = {}
    /\ UNCHANGED <<edited, gate, pc, original, ok>>

Discard ==
    /\ drafted' = FALSE /\ draft' = {}
    /\ UNCHANGED <<committed, edited, gate, pc, original, ok>>

------------------------------------------------------------------------------
(* with_data_modify. *)

Begin(t) ==
    /\ pc[t] = "idle"
    /\ Goto(t, "fast")
    /\ UNCHANGED <<store, gate, original, ok>>

TryAcquireUnchecked(t) ==                                       \* a woken task does not compare
    /\ pc[t] \in {"fast", "yield", "try"}
    /\ IF modifying /\ pc[t] # "try"
       THEN Goto(t, IF pc[t] = "fast" THEN "yield" ELSE "await") /\ UNCHANGED modifying
       ELSE Goto(t, "copy") /\ modifying' = TRUE
    /\ UNCHANGED <<store, permit, original, ok>>

\* compare_exchange(false, true): at once, again after a yield, then after each wake-up
TryAcquire(t) ==
    /\ pc[t] \in {"fast", "yield", "try"}
    /\ IF modifying THEN Goto(t, IF pc[t] = "fast" THEN "yield" ELSE "await") /\ UNCHANGED modifying
                    ELSE Goto(t, "copy") /\ modifying' = TRUE
    /\ UNCHANGED <<store, permit, original, ok>>

\* notified.await: a stored permit is taken at once, otherwise the task parks
Await(t) ==
    /\ pc[t] = "await"
    /\ Goto(t, IF permit THEN "try" ELSE "parked")
    /\ permit' = FALSE
    /\ UNCHANGED <<store, modifying, original, ok>>

\* a parked task that was woken runs again
Wake(t) ==
    /\ pc[t] = "woken"
    /\ Goto(t, "try")
    /\ UNCHANGED <<store, gate, original, ok>>

\* the committed data is cloned, then f works on the clone
Copy(t) ==
    /\ pc[t] = "copy"
    /\ original' = [original EXCEPT ![t] = committed]
    /\ Goto(t, "work")
    /\ UNCHANGED <<store, gate, ok>>

UnchangedAlways(t) == TRUE                                      \* no optimistic lock
Unchanged(t) == committed.arc = original[t].arc                 \* Arc::ptr_eq

Commit(t) ==
    /\ pc[t] = "work"
    /\ IF Unchanged(t) THEN committed' = NewArc(original[t].data \cup {t}) /\ ok' = ok \cup {t}
                       ELSE UNCHANGED <<committed, ok>>
    /\ Goto(t, "release")
    /\ UNCHANGED <<drafted, draft, edited, gate, original>>

\* f returns an error
Fail(t) ==
    /\ pc[t] = "work"
    /\ Goto(t, "release")
    /\ UNCHANGED <<store, gate, original, ok>>

\* the permit is dropped: data_modifying is stored, then notify_one
Release(t) ==
    /\ pc[t] = "release"
    /\ modifying' = FALSE
    /\ Goto(t, "notify")
    /\ UNCHANGED <<store, permit, original, ok>>

NotifyForgotten(t) == Goto(t, "done") /\ UNCHANGED permit        \* only the flag is stored

\* notify_one wakes one parked task or leaves a permit for the next
NotifyOne(t) ==
    \/ /\ \E u \in Tasks : pc[u] = "parked" /\ pc' = [pc EXCEPT ![t] = "done", ![u] = "woken"]
       /\ UNCHANGED permit
    \/ /\ \A u \in Tasks : pc[u] # "parked"
       /\ permit' = TRUE
       /\ Goto(t, "done")

Notify(t) ==
    /\ pc[t] = "notify"
    /\ NotifyOne(t)
    /\ UNCHANGED <<store, modifying, original, ok>>

CancelLeaks(t) ==                                               \* a permit without Drop
    /\ pc[t] = "work" \/ pc[t] \in {"yield", "parked"}
    /\ Goto(t, "done")
    /\ UNCHANGED <<store, gate, original, ok>>

\* The caller drops the future at an await.  What it holds is released, a wake-up it
\* was sent is passed on.
Cancel(t) ==
    \/ /\ pc[t] = "work"
       /\ Goto(t, "release")
       /\ UNCHANGED <<store, gate, original, ok>>
    \/ /\ pc[t] \in {"yield", "parked"}
       /\ Goto(t, "done")
       /\ UNCHANGED <<store, gate, original, ok>>
    \/ /\ pc[t] = "woken"
       /\ NotifyOne(t)
       /\ UNCHANGED <<store, modifying, original, ok>>

Modification(t) ==
    \/ TryAcquire(t) \/ Await(t) \/ Wake(t) \/ Copy(t) \/ Commit(t) \/ Fail(t) \/ Release(t) \/ Notify(t)

Next ==
    \/ \E e \in Edits : EditDraft(e)
    \/ Apply \/ Discard
    \/ \E t \in Tasks : Begin(t) \/ Modification(t) \/ Cancel(t)

Spec == Init /\ [][Next]_vars

\* woken and running tasks are scheduled, and f ends
FairSpec == Spec /\ \A t \in Tasks : WF_vars(Modification(t))

------------------------------------------------------------------------------
(* Properties. *)

Inside == {"copy", "work", "release"}

\* Every variable has its type, and data_modifying says that a task is inside.
TypeOK ==
    /\ modifying = (\E t \in Tasks : pc[t] \in Inside)
    /\ committed \in [arc : Nat, data : Data] /\ drafted \in BOOLEAN /\ draft \in Data
    /\ edited \subseteq Edits /\ ok \subseteq Tasks
    /\ modifying \in BOOLEAN /\ permit \in BOOLEAN
    /\ pc \in [Tasks -> {"idle", "fast", "yield", "try", "await", "parked", "woken", "copy", "work",
                         "release", "notify", "done"}]
    /\ original \in [Tasks -> [arc : Nat, data : Data]]

\* One task at a time works on a copy.
OneModifier == \A t, u \in Tasks : pc[t] \in Inside /\ pc[u] \in Inside => t = u

\* Every modification that began ends: a wake-up is never lost while a task is parked,
\* and a failed or dropped modification lets the next one in.
ModificationEnds == \A t \in Tasks : (pc[t] = "fast") ~> (pc[t] = "done")

\* The store implements the abstract one: a modification that spans many steps
\* appears to change the committed data in one, on top of all that is there.
Atomic == INSTANCE AtomicDraft WITH data <- committed.data
ImplementsAtomicDraft == Atomic!Spec
================================================================================
