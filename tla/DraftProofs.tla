------------------------------ MODULE DraftProofs ------------------------------
(***************************************************************************)
(* Draft implements AtomicDraft, for any number of tasks and edits.  An    *)
(* Arc identifies its data (Identity): when a task finds the Arc it copied *)
(* still committed, its copy is the committed data, so what it commits is  *)
(* that data with its own change.                                          *)
(***************************************************************************)
EXTENDS Draft, TLAPS

Identity ==
    \A t \in Tasks :
        pc[t] = "work" => /\ original[t].arc <= committed.arc
                          /\ original[t].arc = committed.arc => original[t].data = committed.data

IInv == TypeOK /\ OneModifier /\ Identity

LEMMA InitInv == Init => IInv
<1> SUFFICES ASSUME Init PROVE IInv
  OBVIOUS
<1>1. \A t \in Tasks : pc[t] = "idle"
  BY DEF Init
<1>2. committed \in [arc : Nat, data : Data] /\ original \in [Tasks -> [arc : Nat, data : Data]]
  BY DEF Init, Data
<1>3. TypeOK
  BY <1>1, <1>2 DEF Init, TypeOK, Inside, Data
<1> QED
  BY <1>1, <1>3 DEF IInv, OneModifier, Identity, Inside

LEMMA LatestType == TypeOK => Latest \in Data
  BY DEF TypeOK, Latest

\* what a notification does to the tasks
LEMMA NotifyTypes ==
    ASSUME TypeOK, NEW t \in Tasks, pc[t] \in {"notify", "woken"}, NotifyOne(t)
    PROVE  /\ pc' \in [Tasks -> {"idle", "fast", "yield", "try", "await", "parked", "woken", "copy",
                                 "work", "release", "notify", "done"}]
           /\ permit' \in BOOLEAN
           /\ \A u \in Tasks : (pc'[u] \in Inside) = (pc[u] \in Inside)
           /\ \A u \in Tasks : pc'[u] = "work" => pc[u] = "work"
<1>1. CASE permit' = TRUE /\ pc' = [pc EXCEPT ![t] = "done"]
  BY <1>1 DEF TypeOK, Inside
<1>2. ASSUME NEW u \in Tasks, pc[u] = "parked", pc' = [pc EXCEPT ![t] = "done", ![u] = "woken"],
             permit' = permit
      PROVE  /\ pc' \in [Tasks -> {"idle", "fast", "yield", "try", "await", "parked", "woken", "copy",
                                   "work", "release", "notify", "done"}]
             /\ permit' \in BOOLEAN
             /\ \A v \in Tasks : (pc'[v] \in Inside) = (pc[v] \in Inside)
             /\ \A v \in Tasks : pc'[v] = "work" => pc[v] = "work"
  BY <1>2 DEF TypeOK, Inside
<1> QED BY <1>1, <1>2 DEF NotifyOne, Goto

LEMMA StepInv == IInv /\ [Next]_vars => IInv'
<1> SUFFICES ASSUME IInv, [Next]_vars PROVE IInv'
  OBVIOUS
<1> USE DEF IInv, TypeOK, OneModifier, Identity, store, gate, Inside, Goto
<1>1. ASSUME NEW e \in Edits, EditDraft(e) PROVE IInv'
  BY <1>1, LatestType DEF EditDraft, Data
<1>2. CASE Apply
  <2>1. committed' \in [arc : Nat, data : Data] /\ committed'.arc = committed.arc + 1
    BY <1>2 DEF Apply, NewArc
  <2>2. drafted' = FALSE /\ draft' = {} /\ UNCHANGED <<edited, gate, pc, original, ok>>
    BY <1>2 DEF Apply
  <2>3. TypeOK'
    BY <2>1, <2>2 DEF Data
  <2>4. Identity'
    BY <2>1, <2>2
  <2> QED BY <2>2, <2>3, <2>4
<1>3. CASE Discard
  BY <1>3 DEF Discard, Data
<1>4. ASSUME NEW t \in Tasks, Begin(t) PROVE IInv'
  BY <1>4 DEF Begin
<1>5. ASSUME NEW t \in Tasks, Modification(t) PROVE IInv'
  <2>1. CASE TryAcquire(t)
    <3>1. CASE modifying
      BY <2>1, <3>1 DEF TryAcquire
    <3>2. CASE ~modifying
      BY <2>1, <3>2 DEF TryAcquire
    <3> QED BY <3>1, <3>2
  <2>2. CASE Await(t)
    BY <2>2 DEF Await
  <2>3. CASE Wake(t)
    BY <2>3 DEF Wake
  <2>4. CASE Copy(t)
    BY <2>4 DEF Copy
  <2>5. CASE Commit(t)
    BY <2>5 DEF Commit, NewArc, Data
  <2>6. CASE Fail(t)
    BY <2>6 DEF Fail
  <2>7. CASE Release(t)
    BY <2>7 DEF Release
  <2>8. CASE Notify(t)
    BY <2>8, NotifyTypes DEF Notify
  <2> QED BY <1>5, <2>1, <2>2, <2>3, <2>4, <2>5, <2>6, <2>7, <2>8 DEF Modification
<1>6. ASSUME NEW t \in Tasks, Cancel(t) PROVE IInv'
  <2>1. CASE pc[t] = "woken" /\ NotifyOne(t) /\ UNCHANGED <<store, modifying, original, ok>>
    BY <2>1, NotifyTypes
  <2>2. CASE pc[t] # "woken"
    BY <1>6, <2>2 DEF Cancel
  <2> QED BY <1>6, <2>1, <2>2 DEF Cancel
<1>7. CASE UNCHANGED vars
  BY <1>7 DEF vars
<1> QED
  BY <1>1, <1>2, <1>3, <1>4, <1>5, <1>6, <1>7 DEF Next

LEMMA Invariance == Spec => []IInv
  BY InitInv, StepInv, PTL DEF Spec

\* Type correctness, and the flag is set exactly while a task is inside.
THEOREM TypeCorrect == Spec => []TypeOK
<1>1. IInv => TypeOK
  BY DEF IInv
<1> QED BY <1>1, Invariance, PTL

\* Modifications exclude each other.
THEOREM Exclusion == Spec => []OneModifier
<1>1. IInv => OneModifier
  BY DEF IInv
<1> QED BY <1>1, Invariance, PTL

LEMMA StepRefines == IInv /\ [Next]_vars => [Atomic!Next]_<<committed.data, drafted, draft>>
<1> SUFFICES ASSUME IInv, [Next]_vars PROVE Atomic!Next \/ UNCHANGED <<committed.data, drafted, draft>>
  OBVIOUS
<1> USE DEF store, gate
<1>1. ASSUME NEW e \in Edits, EditDraft(e) PROVE Atomic!Edit(e)
  BY <1>1 DEF EditDraft, Latest, Atomic!Edit
<1>2. ASSUME Apply PROVE Atomic!Publish
  BY <1>2 DEF Apply, NewArc, Atomic!Publish
<1>3. ASSUME Discard PROVE Atomic!Discard
  BY <1>3 DEF Discard, Atomic!Discard
<1>4. ASSUME NEW t \in Tasks, Commit(t) PROVE Atomic!Modify(t) \/ UNCHANGED <<committed.data, drafted, draft>>
  <2>1. CASE Unchanged(t)
    <3>1. original[t].data = committed.data
      BY <1>4, <2>1 DEF IInv, Identity, Commit, Unchanged
    <3>2. committed'.data = original[t].data \cup {t}
      BY <1>4, <2>1 DEF Commit, NewArc
    <3> QED BY <1>4, <3>1, <3>2 DEF Commit, Atomic!Modify
  <2>2. CASE ~Unchanged(t)
    BY <1>4, <2>2 DEF Commit
  <2> QED BY <2>1, <2>2
<1>5. ASSUME NEW t \in Tasks, Begin(t) \/ Cancel(t) \/ Modification(t), ~Commit(t)
      PROVE  UNCHANGED <<committed.data, drafted, draft>>
  BY <1>5 DEF Begin, Cancel, Modification, TryAcquire, Await, Wake, Copy, Fail, Release, Notify
<1>6. CASE UNCHANGED vars
  BY <1>6 DEF vars
<1> QED
  BY <1>1, <1>2, <1>3, <1>4, <1>5, <1>6 DEF Next, Atomic!Next

\* A modification that spans many steps, with edits, applies and discards between
\* them, appears to change the committed data in one step on top of all that is there.
THEOREM Refinement == Spec => ImplementsAtomicDraft
<1>1. Init => Atomic!Init
  BY DEF Init, Atomic!Init
<1> QED BY <1>1, Invariance, StepRefines, PTL DEF Spec, ImplementsAtomicDraft, Atomic!Spec
================================================================================
