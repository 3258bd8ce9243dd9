-------------------------- MODULE CoreLifecycleProofs --------------------------
(***************************************************************************)
(* Proofs about CoreLifecycle.  One sidecar runs at most because a caller  *)
(* reaches the steps of a start only when none runs (NoneRuns), and that   *)
(* is so because a sidecar that runs stays tracked (Tracked) and a reported*)
(* exit is the exit of a dead process (Reported).  The last needs pids that*)
(* the system does not reuse, the hypothesis of the theorems.              *)
(***************************************************************************)
EXTENDS CoreLifecycle, TLAPS

FreshPid == \A p, q \in Sidecars : PidOf[p] = PidOf[q] => p = q

At(c, S) == c \in lock /\ pc[c] \in S

\* lifecycle_lock has one holder
OneHolder == \A c, d \in lock : c = d

\* only the newest sidecar can run or be the child
Newest == alive \subseteq {newest} /\ child \in {0, newest}

\* a child is tracked only between a start and the next stop
ChildInv ==
    child # 0 =>
        /\ \A c \in lock : pc[c] \in {"enter", "stop", "take", "started"}
        /\ mode = "Sidecar" \/ \E c \in Callers : At(c, {"started"})

\* while a stop is unconfirmed no child is tracked and the mode stays Sidecar
StoppingInv ==
    stopping # 0 =>
        /\ child = 0 /\ mode = "Sidecar"
        /\ \A c \in lock : /\ pc[c] \in {"enter", "stop", "take", "kill", "wait", "forget"}
                           /\ pc[c] \in {"kill", "wait"} => taken[c] = stopping

\* between taking the child and marking it, no exit task clears the state
MarkInv == \A c \in Callers : At(c, {"mark"}) => mode = "Sidecar" /\ stateLock = 0

\* a running sidecar is the child, is being stopped, or is in the hands of a caller
Tracked ==
    \A p \in alive :
        \/ child = p
        \/ stopping = PidOf[p]
        \/ \E c \in Callers : At(c, {"mark"}) /\ taken[c] = PidOf[p]
        \/ \E c \in Callers : At(c, {"track"})

\* no sidecar runs when a stop has succeeded and until a start spawns one
NoneRuns ==
    \A c \in Callers :
        At(c, {"forget", "settle", "prepare", "choose", "service", "fallback", "spawn"}) => alive = {}

\* an exit task clears the state only of a dead sidecar
Clearing ==
    /\ stateLock # 0 => alive = {} \/ \E c \in Callers : At(c, {"track"})
    /\ \A p \in Sidecars : watch[p] = "clearing" => stateLock = p

\* a reported exit belongs to a sidecar that was spawned and is dead
Reported ==
    /\ lastExit # 0 => \E p \in 1 .. newest : p \notin alive /\ lastExit = PidOf[p]
    /\ \A p \in Sidecars : watch[p] # "none" => p <= newest
    /\ \A p \in Sidecars : watch[p] \in {"reported", "clearing", "done"} => p \notin alive

\* the exit of a sidecar is reported
Gone(p) == watch[p] \in {"reported", "clearing", "done"}

\* exits are reported in the order of the starts: only that of the newest can be missing
InOrder ==
    /\ \A p \in 1 .. newest : p = newest \/ Gone(p)
    /\ newest # 0 /\ Gone(newest) => lastExit = PidOf[newest]
    /\ lastExit # 0 => \E p \in 1 .. newest : Gone(p) /\ lastExit = PidOf[p]
    /\ \A c \in Callers : At(c, {"track", "started"}) => newest # 0 /\ watch[newest] = "none"
    /\ newest # 0 /\ watch[newest] = "none" => \E c \in Callers : At(c, {"track", "started"})

\* a sidecar whose exit is not reported, dead or not, is tracked like a running one
InHands ==
    newest # 0 /\ ~Gone(newest) =>
        \/ child = newest
        \/ stopping = PidOf[newest]
        \/ \E c \in Callers : At(c, {"mark", "track"})

\* what is stopped is the newest sidecar
NewestTaken ==
    /\ \A c \in Callers : At(c, {"mark", "kill", "wait"}) => newest # 0 /\ taken[c] = PidOf[newest]
    /\ stopping # 0 => newest # 0 /\ stopping = PidOf[newest]

\* when a stop has succeeded and until a start spawns one, all exits are reported
AllGone ==
    \A c \in Callers :
        At(c, {"forget", "settle", "prepare", "choose", "service", "fallback", "spawn"}) /\ newest # 0 => Gone(newest)

\* an exit task clears the state of a reported sidecar, and does so before it ends
ClearsLast ==
    /\ stateLock # 0 /\ newest # 0 => Gone(newest) \/ \E c \in Callers : At(c, {"track"})
    /\ child # 0 => watch[child] # "done"

------------------------------------------------------------------------------
(* Every step keeps the types. *)

LEMMA OsPidTypes ==
    /\ \A p \in Sidecars : PidOf[p] \in OsPids /\ PidOf[p] \in Nat \ {0}
    /\ 0 \in OsPids
  BY LifecycleAssumption DEF OsPids, Sidecars

\* what Return and Stopped change keeps its type
CallerTypes ==
    /\ lock = {c \in Callers : pc[c] \notin {"idle", "lock"}}
    /\ task \in [Callers -> Tasks] /\ pc \in [Callers -> Labels] /\ taken \in [Callers -> OsPids]
    /\ requests \in 0 .. MaxRequests

LEMMA StoppedTypes ==
    ASSUME NEW c \in Callers, CallerTypes, pc[c] \notin {"idle", "lock"}, Return(c) \/ Stopped(c)
    PROVE  CallerTypes'
<1>1. CASE Return(c)
  BY <1>1, OsPidTypes DEF CallerTypes, Return, Goto, Labels
<1>2. CASE Stopped(c)
  <2>1. CASE task[c] = "stop" /\ Return(c)
    BY <1>1, <2>1
  <2>2. CASE task[c] # "stop" /\ task' = [task EXCEPT ![c] = "start"]
    <3>1. CASE task[c] = "restart"
      BY <1>2, <2>2, <3>1, OsPidTypes DEF CallerTypes, Stopped, Goto, Labels, Tasks
    <3>2. CASE task[c] # "restart"
      BY <1>2, <2>2, <3>2, OsPidTypes DEF CallerTypes, Stopped, Goto, Labels, Tasks
    <3> QED BY <3>1, <3>2
  <2> QED BY <1>2, <2>1, <2>2 DEF Stopped
<1> QED BY <1>1, <1>2

LEMMA TypeStep ==
    ASSUME TypeOK, [Next]_vars
    PROVE  TypeOK'
<1> USE LifecycleAssumption, OsPidTypes DEF TypeOK, Labels, Tasks, Modes, tracked, callers, processes, service, Goto
<1>1. ASSUME NEW c \in Callers, Request(c) PROVE TypeOK'
  BY <1>1 DEF Request
<1>2. ASSUME NEW c \in Callers, Step(c) PROVE TypeOK'
  <2>1. CASE Lock(c)
    BY <1>2, <2>1 DEF Lock, LockFree
  <2>2. CASE Enter(c)
    BY <1>2, <2>2 DEF Enter
  <2>3. CASE StopNothing(c)
    BY <1>2, <2>3, StoppedTypes DEF StopNothing, CallerTypes
  <2>4. CASE StopService(c)
    BY <1>2, <2>4, StoppedTypes DEF StopService, CallerTypes
  <2>5. CASE StopSidecar(c)
    BY <1>2, <2>5 DEF StopSidecar
  <2>6. CASE TakeChild(c)
    BY <1>2, <2>6 DEF TakeChild, ChildPid, Sidecars
  <2>7. CASE MarkStopping(c)
    BY <1>2, <2>7 DEF MarkStopping
  <2>8. CASE Kill(c)
    BY <1>2, <2>8 DEF Kill
  <2>9. CASE KillFails(c)
    BY <1>2, <2>9 DEF KillFails, Return
  <2>10. CASE WaitDone(c)
    BY <1>2, <2>10 DEF WaitDone, ExitSeen
  <2>11. CASE WaitTimeout(c)
    BY <1>2, <2>11 DEF WaitTimeout, Return, ExitSeen
  <2>12. CASE Forget(c)
    BY <1>2, <2>12 DEF Forget
  <2>13. CASE Settle(c)
    BY <1>2, <2>13, StoppedTypes DEF Settle, CallerTypes
  <2>14. CASE Prepare(c)
    BY <1>2, <2>14 DEF Prepare
  <2>15. CASE Choose(c)
    BY <1>2, <2>15 DEF Choose
  <2>16. CASE StartByService(c)
    BY <1>2, <2>16 DEF StartByService, Return
  <2>17. CASE ServiceFails(c)
    <3>1. CASE Return(c)
      BY <2>17, <3>1, StoppedTypes DEF ServiceFails, CallerTypes
    <3>2. CASE Goto(c, "fallback") /\ UNCHANGED <<lock, task, taken, requests>>
      BY <2>17, <3>2 DEF ServiceFails
    <3> QED BY <2>17, <3>1, <3>2 DEF ServiceFails
  <2>18. CASE Spawn(c)
    BY <1>2, <2>18 DEF Spawn, Sidecars
  <2>19. CASE Track(c)
    BY <1>2, <2>19 DEF Track
  <2>20. CASE Started(c)
    BY <1>2, <2>20 DEF Started, Return, Sidecars
  <2>21. CASE SpawnFails(c)
    BY <1>2, <2>21 DEF SpawnFails, Return
  <2> QED BY <1>2, <2>1, <2>2, <2>3, <2>4, <2>5, <2>6, <2>7, <2>8, <2>9, <2>10, <2>11, <2>12, <2>13, <2>14, <2>15, <2>16, <2>17, <2>18, <2>19, <2>20, <2>21 DEF Step
<1>3. ASSUME NEW p \in Sidecars, Exit(p) PROVE TypeOK'
  BY <1>3 DEF Exit
<1>4. ASSUME NEW p \in Sidecars, ExitTask(p) PROVE TypeOK'
  <2>1. CASE ReportExit(p)
    BY <2>1 DEF ReportExit
  <2>2. CASE CheckExit(p)
    BY <2>2 DEF CheckExit, Sidecars
  <2>3. CASE ClearExit(p)
    BY <2>3 DEF ClearExit
  <2> QED BY <1>4, <2>1, <2>2, <2>3 DEF ExitTask
<1>5. CASE ServiceChanges
  BY <1>5 DEF ServiceChanges
<1>6. CASE UNCHANGED vars
  BY <1>6 DEF vars
<1> QED
  BY <1>1, <1>2, <1>3, <1>4, <1>5, <1>6 DEF Next

------------------------------------------------------------------------------
(* Every step keeps the invariant. *)

\* the inductive invariant, with the types
Facts ==
    /\ OneHolder /\ Newest /\ ChildInv /\ StoppingInv /\ MarkInv
    /\ Tracked /\ NoneRuns /\ Clearing /\ Reported

LEMMA CallerKeepsFacts ==
    ASSUME FreshPid, TypeOK, TypeOK', Facts, NEW c \in Callers, Request(c) \/ Step(c)
    PROVE  Facts'
<1> USE LifecycleAssumption, OsPidTypes
<1> USE DEF TypeOK, Facts, tracked, callers, processes, service, Goto, At, Sidecars, FreshPid, OneHolder
<1>1. CASE Lock(c)
  <2>1. OneHolder'
    BY <1>1 DEF Lock, LockFree
  <2>2. Newest'
    BY <1>1 DEF Lock, LockFree, Newest
  <2>3. ChildInv'
    BY <1>1 DEF Lock, LockFree, ChildInv
  <2>4. StoppingInv'
    BY <1>1 DEF Lock, LockFree, StoppingInv
  <2>5. MarkInv'
    BY <1>1 DEF Lock, LockFree, MarkInv
  <2>6. Tracked'
    BY <1>1 DEF Lock, LockFree, Tracked
  <2>7. NoneRuns'
    BY <1>1 DEF Lock, LockFree, NoneRuns
  <2>8. Clearing'
    BY <1>1 DEF Lock, LockFree, Clearing
  <2>9. Reported'
    BY <1>1 DEF Lock, LockFree, Reported
  <2> QED BY <2>1, <2>2, <2>3, <2>4, <2>5, <2>6, <2>7, <2>8, <2>9
<1>2. CASE Enter(c)
  <2>1. OneHolder'
    BY <1>2 DEF Enter
  <2>2. Newest'
    BY <1>2 DEF Enter, Newest
  <2>3. ChildInv'
    BY <1>2 DEF Enter, ChildInv
  <2>4. StoppingInv'
    BY <1>2 DEF Enter, StoppingInv
  <2>5. MarkInv'
    BY <1>2 DEF Enter, MarkInv
  <2>6. Tracked'
    BY <1>2 DEF Enter, Tracked
  <2>7. NoneRuns'
    BY <1>2 DEF Enter, ChildInv, StoppingInv, Tracked, NoneRuns
  <2>8. Clearing'
    BY <1>2 DEF Enter, Clearing
  <2>9. Reported'
    BY <1>2 DEF Enter, Reported
  <2> QED BY <2>1, <2>2, <2>3, <2>4, <2>5, <2>6, <2>7, <2>8, <2>9
<1>3. CASE StopNothing(c)
  <2>1. OneHolder'
    BY <1>3 DEF StopNothing, Stopped, Return
  <2>2. Newest'
    BY <1>3 DEF StopNothing, Stopped, Return, Newest
  <2>3. ChildInv'
    BY <1>3 DEF StopNothing, Stopped, Return, ChildInv
  <2>4. StoppingInv'
    BY <1>3 DEF StopNothing, Stopped, Return, StoppingInv
  <2>5. MarkInv'
    <3>1. CASE Return(c)
      BY <1>3, <3>1 DEF StopNothing, Return, MarkInv
    <3>2. CASE task[c] # "stop" /\ Goto(c, IF task[c] = "restart" THEN "enter" ELSE "prepare") /\ UNCHANGED lock
      BY <1>3, <3>2 DEF StopNothing, MarkInv
    <3> QED BY <1>3, <3>1, <3>2 DEF StopNothing, Stopped
  <2>6. Tracked'
    BY <1>3, SMTT(30) DEF StopNothing, Stopped, Return, Tracked, Reported
  <2>7. NoneRuns'
    BY <1>3, SMTT(30) DEF StopNothing, Stopped, Return, ChildInv, StoppingInv, Tracked, NoneRuns
  <2>8. Clearing'
    BY <1>3 DEF StopNothing, Stopped, Return, Clearing
  <2>9. Reported'
    BY <1>3 DEF StopNothing, Stopped, Return, Reported
  <2> QED BY <2>1, <2>2, <2>3, <2>4, <2>5, <2>6, <2>7, <2>8, <2>9
<1>4. CASE StopService(c)
  <2>1. OneHolder'
    BY <1>4 DEF StopService, Stopped, Return
  <2>2. Newest'
    BY <1>4 DEF StopService, Stopped, Return, Newest
  <2>3. ChildInv'
    BY <1>4 DEF StopService, Stopped, Return, ChildInv
  <2>4. StoppingInv'
    BY <1>4 DEF StopService, Stopped, Return, StoppingInv
  <2>5. MarkInv'
    <3>1. CASE Return(c)
      BY <1>4, <3>1 DEF StopService, Return, MarkInv
    <3>2. CASE task[c] # "stop" /\ Goto(c, IF task[c] = "restart" THEN "enter" ELSE "prepare") /\ UNCHANGED lock
      BY <1>4, <3>2 DEF StopService, MarkInv
    <3> QED BY <1>4, <3>1, <3>2 DEF StopService, Stopped
  <2>6. Tracked'
    BY <1>4, SMTT(30) DEF StopService, Stopped, Return, Tracked
  <2>7. NoneRuns'
    BY <1>4 DEF StopService, Stopped, Return, Newest, ChildInv, StoppingInv, Tracked, NoneRuns, Reported
  <2>8. Clearing'
    BY <1>4 DEF StopService, Stopped, Return, Clearing
  <2>9. Reported'
    BY <1>4 DEF StopService, Stopped, Return, Reported
  <2> QED BY <2>1, <2>2, <2>3, <2>4, <2>5, <2>6, <2>7, <2>8, <2>9
<1>5. CASE StopSidecar(c)
  <2>1. OneHolder'
    BY <1>5 DEF StopSidecar
  <2>2. Newest'
    BY <1>5 DEF StopSidecar, Newest
  <2>3. ChildInv'
    BY <1>5 DEF StopSidecar, ChildInv
  <2>4. StoppingInv'
    BY <1>5 DEF StopSidecar, StoppingInv
  <2>5. MarkInv'
    BY <1>5 DEF StopSidecar, MarkInv
  <2>6. Tracked'
    BY <1>5, SMTT(30) DEF StopSidecar, Tracked
  <2>7. NoneRuns'
    BY <1>5 DEF StopSidecar, NoneRuns
  <2>8. Clearing'
    BY <1>5 DEF StopSidecar, Clearing
  <2>9. Reported'
    BY <1>5 DEF StopSidecar, Reported
  <2> QED BY <2>1, <2>2, <2>3, <2>4, <2>5, <2>6, <2>7, <2>8, <2>9
<1>6. CASE TakeChild(c)
  <2>1. OneHolder'
    BY <1>6 DEF TakeChild, ChildPid
  <2>2. Newest'
    BY <1>6 DEF TakeChild, ChildPid, Newest
  <2>3. ChildInv'
    BY <1>6 DEF TakeChild, ChildPid, ChildInv
  <2>4. StoppingInv'
    BY <1>6 DEF TakeChild, ChildPid, StoppingInv
  <2>5. MarkInv'
    BY <1>6 DEF TakeChild, ChildPid, ChildInv, MarkInv
  <2>6. Tracked'
    BY <1>6 DEF TakeChild, ChildPid, Tracked
  <2>7. NoneRuns'
    <3>1. CASE child = 0 /\ stopping = 0
      <4>1. c \in lock /\ alive = {}
        BY <1>6, <3>1 DEF TakeChild, Tracked
      <4>2. alive' = {}
        BY <1>6, <4>1 DEF TakeChild
      <4> QED BY <4>2 DEF NoneRuns
    <3>2. CASE child # 0 \/ stopping # 0
      <4>1. pc'[c] \in {"mark", "wait"} /\ lock' = lock /\ \A d \in lock : d = c
        BY <1>6, <3>2 DEF TakeChild
      <4> QED BY <4>1 DEF NoneRuns
    <3> QED BY <3>1, <3>2
  <2>8. Clearing'
    BY <1>6 DEF TakeChild, ChildPid, Clearing
  <2>9. Reported'
    BY <1>6 DEF TakeChild, ChildPid, Reported
  <2> QED BY <2>1, <2>2, <2>3, <2>4, <2>5, <2>6, <2>7, <2>8, <2>9
<1>7. CASE MarkStopping(c)
  <2>1. OneHolder'
    BY <1>7 DEF MarkStopping
  <2>2. Newest'
    BY <1>7 DEF MarkStopping, Newest
  <2>3. ChildInv'
    BY <1>7 DEF MarkStopping, ChildInv
  <2>4. StoppingInv'
    <3>1. mode = "Sidecar" /\ child = 0 /\ c \in lock
      BY <1>7 DEF MarkStopping, MarkInv, ChildInv
    <3>2. \A d \in lock : d = c
      BY <3>1
    <3>3. mode' = "Sidecar" /\ child' = 0 /\ lock' = lock
      BY <1>7, <3>1 DEF MarkStopping
    <3>4. pc'[c] = "kill" /\ taken'[c] = stopping'
      BY <1>7 DEF MarkStopping
    <3> QED BY <3>2, <3>3, <3>4 DEF StoppingInv
  <2>5. MarkInv'
    BY <1>7 DEF MarkStopping, MarkInv
  <2>6. Tracked'
    <3>1. c \in lock /\ child = 0 /\ stopping = 0
      BY <1>7 DEF MarkStopping, ChildInv, StoppingInv
    <3>2. \A p \in alive : PidOf[p] = taken[c]
      <4> SUFFICES ASSUME NEW p \in alive PROVE PidOf[p] = taken[c]
        OBVIOUS
      <4>1. child # p /\ stopping # PidOf[p]
        BY <3>1
      <4>2. PICK d \in Callers : (At(d, {"mark"}) /\ taken[d] = PidOf[p]) \/ At(d, {"track"})
        BY <4>1 DEF Tracked
      <4>3. d = c
        BY <3>1, <4>2
      <4> QED BY <1>7, <4>2, <4>3 DEF MarkStopping
    <3>3. stopping' = taken[c] /\ alive' = alive
      BY <1>7 DEF MarkStopping
    <3> QED BY <3>2, <3>3 DEF Tracked
  <2>7. NoneRuns'
    BY <1>7 DEF MarkStopping, NoneRuns
  <2>8. Clearing'
    BY <1>7 DEF MarkStopping, Clearing
  <2>9. Reported'
    BY <1>7 DEF MarkStopping, Reported
  <2> QED BY <2>1, <2>2, <2>3, <2>4, <2>5, <2>6, <2>7, <2>8, <2>9
<1>8. CASE Kill(c)
  <2>1. OneHolder'
    BY <1>8 DEF Kill
  <2>2. Newest'
    BY <1>8 DEF Kill, Newest
  <2>3. ChildInv'
    BY <1>8 DEF Kill, ChildInv
  <2>4. StoppingInv'
    BY <1>8 DEF Kill, StoppingInv
  <2>5. MarkInv'
    BY <1>8 DEF Kill, MarkInv
  <2>6. Tracked'
    BY <1>8 DEF Kill, Tracked
  <2>7. NoneRuns'
    BY <1>8 DEF Kill, NoneRuns
  <2>8. Clearing'
    BY <1>8 DEF Kill, Clearing
  <2>9. Reported'
    BY <1>8 DEF Kill, Reported
  <2> QED BY <2>1, <2>2, <2>3, <2>4, <2>5, <2>6, <2>7, <2>8, <2>9
<1>9. CASE KillFails(c)
  <2>1. OneHolder'
    BY <1>9 DEF KillFails, Return
  <2>2. Newest'
    BY <1>9 DEF KillFails, Return, Newest
  <2>3. ChildInv'
    BY <1>9 DEF KillFails, Return, ChildInv
  <2>4. StoppingInv'
    BY <1>9 DEF KillFails, Return, StoppingInv
  <2>5. MarkInv'
    BY <1>9 DEF KillFails, Return, MarkInv
  <2>6. Tracked'
    BY <1>9 DEF KillFails, Return, Tracked
  <2>7. NoneRuns'
    BY <1>9 DEF KillFails, Return, NoneRuns
  <2>8. Clearing'
    BY <1>9 DEF KillFails, Return, Clearing
  <2>9. Reported'
    BY <1>9 DEF KillFails, Return, Reported
  <2> QED BY <2>1, <2>2, <2>3, <2>4, <2>5, <2>6, <2>7, <2>8, <2>9
<1>10. CASE WaitDone(c)
  <2>1. OneHolder'
    BY <1>10 DEF WaitDone, ExitSeen
  <2>2. Newest'
    BY <1>10 DEF WaitDone, ExitSeen, Newest
  <2>3. ChildInv'
    BY <1>10 DEF WaitDone, ExitSeen, ChildInv
  <2>4. StoppingInv'
    BY <1>10 DEF WaitDone, ExitSeen, StoppingInv
  <2>5. MarkInv'
    BY <1>10 DEF WaitDone, ExitSeen, MarkInv
  <2>6. Tracked'
    BY <1>10, SMTT(30) DEF WaitDone, ExitSeen, Tracked
  <2>7. NoneRuns'
    <3>1. c \in lock /\ child = 0
      BY <1>10 DEF WaitDone, ChildInv
    <3>2. alive = {}
      <4> SUFFICES ASSUME NEW p \in alive PROVE FALSE
        OBVIOUS
      <4>1. stopping = PidOf[p]
        BY <1>10, <3>1 DEF WaitDone, Tracked
      <4>2. lastExit = PidOf[p]
        BY <1>10, <3>1, <4>1 DEF WaitDone, ExitSeen, StoppingInv
      <4>3. PICK q \in 1 .. newest : q \notin alive /\ lastExit = PidOf[q]
        BY <4>1, <4>2 DEF Reported
      <4>4. p \in Sidecars /\ q \in Sidecars
        OBVIOUS
      <4> QED BY <4>2, <4>3, <4>4
    <3>3. alive' = {}
      BY <1>10, <3>2 DEF WaitDone
    <3> QED BY <3>3 DEF NoneRuns
  <2>8. Clearing'
    BY <1>10 DEF WaitDone, ExitSeen, Clearing
  <2>9. Reported'
    BY <1>10 DEF WaitDone, ExitSeen, Reported
  <2> QED BY <2>1, <2>2, <2>3, <2>4, <2>5, <2>6, <2>7, <2>8, <2>9
<1>11. CASE WaitTimeout(c)
  <2>1. OneHolder'
    BY <1>11 DEF WaitTimeout, Return
  <2>2. Newest'
    BY <1>11 DEF WaitTimeout, Return, Newest
  <2>3. ChildInv'
    BY <1>11 DEF WaitTimeout, Return, ChildInv
  <2>4. StoppingInv'
    BY <1>11 DEF WaitTimeout, Return, StoppingInv
  <2>5. MarkInv'
    BY <1>11 DEF WaitTimeout, Return, MarkInv
  <2>6. Tracked'
    BY <1>11 DEF WaitTimeout, Return, Tracked
  <2>7. NoneRuns'
    BY <1>11 DEF WaitTimeout, Return, NoneRuns
  <2>8. Clearing'
    BY <1>11 DEF WaitTimeout, Return, Clearing
  <2>9. Reported'
    BY <1>11 DEF WaitTimeout, Return, Reported
  <2> QED BY <2>1, <2>2, <2>3, <2>4, <2>5, <2>6, <2>7, <2>8, <2>9
<1>12. CASE Forget(c)
  <2>1. OneHolder'
    BY <1>12 DEF Forget
  <2>2. Newest'
    BY <1>12 DEF Forget, Newest
  <2>3. ChildInv'
    BY <1>12 DEF Forget, ChildInv
  <2>4. StoppingInv'
    BY <1>12 DEF Forget, StoppingInv
  <2>5. MarkInv'
    BY <1>12 DEF Forget, MarkInv
  <2>6. Tracked'
    BY <1>12 DEF Forget, Tracked, NoneRuns
  <2>7. NoneRuns'
    BY <1>12 DEF Forget, NoneRuns
  <2>8. Clearing'
    BY <1>12 DEF Forget, Clearing
  <2>9. Reported'
    BY <1>12 DEF Forget, Reported
  <2> QED BY <2>1, <2>2, <2>3, <2>4, <2>5, <2>6, <2>7, <2>8, <2>9
<1>13. CASE Settle(c)
  <2>1. OneHolder'
    BY <1>13 DEF Settle, Stopped, Return
  <2>2. Newest'
    BY <1>13 DEF Settle, Stopped, Return, Newest
  <2>3. ChildInv'
    BY <1>13 DEF Settle, Stopped, Return, ChildInv
  <2>4. StoppingInv'
    BY <1>13 DEF Settle, Stopped, Return, StoppingInv
  <2>5. MarkInv'
    <3>1. CASE Return(c)
      BY <1>13, <3>1 DEF Settle, Return, MarkInv
    <3>2. CASE task[c] # "stop" /\ Goto(c, IF task[c] = "restart" THEN "enter" ELSE "prepare") /\ UNCHANGED lock
      BY <1>13, <3>2 DEF Settle, MarkInv
    <3> QED BY <1>13, <3>1, <3>2 DEF Settle, Stopped
  <2>6. Tracked'
    BY <1>13 DEF Settle, Stopped, Return, Tracked
  <2>7. NoneRuns'
    BY <1>13 DEF Settle, Stopped, Return, NoneRuns
  <2>8. Clearing'
    BY <1>13 DEF Settle, Stopped, Return, Clearing
  <2>9. Reported'
    BY <1>13 DEF Settle, Stopped, Return, Reported
  <2> QED BY <2>1, <2>2, <2>3, <2>4, <2>5, <2>6, <2>7, <2>8, <2>9
<1>14. CASE Prepare(c)
  <2>1. OneHolder'
    BY <1>14 DEF Prepare
  <2>2. Newest'
    BY <1>14 DEF Prepare, Newest
  <2>3. ChildInv'
    BY <1>14 DEF Prepare, ChildInv
  <2>4. StoppingInv'
    BY <1>14 DEF Prepare, StoppingInv
  <2>5. MarkInv'
    BY <1>14 DEF Prepare, MarkInv
  <2>6. Tracked'
    BY <1>14, SMTT(30) DEF Prepare, Tracked
  <2>7. NoneRuns'
    BY <1>14 DEF Prepare, NoneRuns
  <2>8. Clearing'
    BY <1>14 DEF Prepare, Clearing
  <2>9. Reported'
    BY <1>14 DEF Prepare, Reported
  <2> QED BY <2>1, <2>2, <2>3, <2>4, <2>5, <2>6, <2>7, <2>8, <2>9
<1>15. CASE Choose(c)
  <2>1. OneHolder'
    BY <1>15 DEF Choose
  <2>2. Newest'
    BY <1>15 DEF Choose, Newest
  <2>3. ChildInv'
    BY <1>15 DEF Choose, ChildInv
  <2>4. StoppingInv'
    BY <1>15 DEF Choose, StoppingInv
  <2>5. MarkInv'
    BY <1>15 DEF Choose, MarkInv
  <2>6. Tracked'
    BY <1>15 DEF Choose, Tracked
  <2>7. NoneRuns'
    BY <1>15 DEF Choose, NoneRuns
  <2>8. Clearing'
    BY <1>15 DEF Choose, Clearing
  <2>9. Reported'
    BY <1>15 DEF Choose, Reported
  <2> QED BY <2>1, <2>2, <2>3, <2>4, <2>5, <2>6, <2>7, <2>8, <2>9
<1>16. CASE StartByService(c)
  <2>1. OneHolder'
    BY <1>16 DEF StartByService, Return
  <2>2. Newest'
    BY <1>16 DEF StartByService, Return, Newest
  <2>3. ChildInv'
    BY <1>16 DEF StartByService, Return, ChildInv
  <2>4. StoppingInv'
    BY <1>16 DEF StartByService, Return, StoppingInv
  <2>5. MarkInv'
    BY <1>16 DEF StartByService, Return, MarkInv
  <2>6. Tracked'
    BY <1>16, SMTT(30) DEF StartByService, Return, Tracked
  <2>7. NoneRuns'
    BY <1>16 DEF StartByService, Return, NoneRuns
  <2>8. Clearing'
    BY <1>16 DEF StartByService, Return, Clearing
  <2>9. Reported'
    BY <1>16 DEF StartByService, Return, Reported
  <2> QED BY <2>1, <2>2, <2>3, <2>4, <2>5, <2>6, <2>7, <2>8, <2>9
<1>17. CASE ServiceFails(c)
  <2>1. OneHolder'
    BY <1>17 DEF ServiceFails, Return
  <2>2. Newest'
    BY <1>17 DEF ServiceFails, Return, Newest
  <2>3. ChildInv'
    BY <1>17 DEF ServiceFails, Return, ChildInv
  <2>4. StoppingInv'
    BY <1>17 DEF ServiceFails, Return, StoppingInv
  <2>5. MarkInv'
    BY <1>17 DEF ServiceFails, Return, MarkInv
  <2>6. Tracked'
    BY <1>17, SMTT(30) DEF ServiceFails, Return, Tracked
  <2>7. NoneRuns'
    BY <1>17 DEF ServiceFails, Return, NoneRuns
  <2>8. Clearing'
    BY <1>17 DEF ServiceFails, Return, Clearing
  <2>9. Reported'
    BY <1>17 DEF ServiceFails, Return, Reported
  <2> QED BY <2>1, <2>2, <2>3, <2>4, <2>5, <2>6, <2>7, <2>8, <2>9
<1>18. CASE Spawn(c)
  <2>1. OneHolder'
    BY <1>18 DEF Spawn
  <2>2. Newest'
    BY <1>18 DEF Spawn, Newest, ChildInv, NoneRuns
  <2>3. ChildInv'
    BY <1>18 DEF Spawn, ChildInv
  <2>4. StoppingInv'
    BY <1>18 DEF Spawn, StoppingInv
  <2>5. MarkInv'
    BY <1>18 DEF Spawn, MarkInv
  <2>6. Tracked'
    BY <1>18 DEF Spawn, Tracked
  <2>7. NoneRuns'
    BY <1>18 DEF Spawn, NoneRuns
  <2>8. Clearing'
    BY <1>18 DEF Spawn, Clearing
  <2>9. Reported'
    BY <1>18 DEF Spawn, Reported
  <2> QED BY <2>1, <2>2, <2>3, <2>4, <2>5, <2>6, <2>7, <2>8, <2>9
<1>19. CASE Track(c)
  <2>1. OneHolder'
    BY <1>19 DEF Track
  <2>2. Newest'
    BY <1>19 DEF Track, Newest
  <2>3. ChildInv'
    BY <1>19 DEF Track, ChildInv
  <2>4. StoppingInv'
    BY <1>19 DEF Track, StoppingInv
  <2>5. MarkInv'
    BY <1>19 DEF Track, MarkInv
  <2>6. Tracked'
    BY <1>19 DEF Track, Newest, Tracked
  <2>7. NoneRuns'
    BY <1>19 DEF Track, NoneRuns
  <2>8. Clearing'
    BY <1>19 DEF Track, Clearing
  <2>9. Reported'
    BY <1>19 DEF Track, Reported
  <2> QED BY <2>1, <2>2, <2>3, <2>4, <2>5, <2>6, <2>7, <2>8, <2>9
<1>20. CASE Started(c)
  <2>1. OneHolder'
    BY <1>20 DEF Started, Return
  <2>2. Newest'
    BY <1>20 DEF Started, Return, Newest
  <2>3. ChildInv'
    BY <1>20 DEF Started, Return, ChildInv
  <2>4. StoppingInv'
    BY <1>20 DEF Started, Return, StoppingInv
  <2>5. MarkInv'
    BY <1>20 DEF Started, Return, MarkInv
  <2>6. Tracked'
    BY <1>20 DEF Started, Return, MarkInv, Tracked, Clearing
  <2>7. NoneRuns'
    BY <1>20 DEF Started, Return, NoneRuns
  <2>8. Clearing'
    BY <1>20 DEF Started, Return, Clearing
  <2>9. Reported'
    BY <1>20 DEF Started, Return, Reported
  <2> QED BY <2>1, <2>2, <2>3, <2>4, <2>5, <2>6, <2>7, <2>8, <2>9
<1>21. CASE SpawnFails(c)
  <2>1. OneHolder'
    BY <1>21 DEF SpawnFails, Return
  <2>2. Newest'
    BY <1>21 DEF SpawnFails, Return, Newest
  <2>3. ChildInv'
    BY <1>21 DEF SpawnFails, Return, ChildInv
  <2>4. StoppingInv'
    BY <1>21 DEF SpawnFails, Return, StoppingInv
  <2>5. MarkInv'
    BY <1>21 DEF SpawnFails, Return, MarkInv
  <2>6. Tracked'
    BY <1>21 DEF SpawnFails, Return, Tracked
  <2>7. NoneRuns'
    BY <1>21 DEF SpawnFails, Return, NoneRuns
  <2>8. Clearing'
    BY <1>21 DEF SpawnFails, Return, Clearing
  <2>9. Reported'
    BY <1>21 DEF SpawnFails, Return, Reported
  <2> QED BY <2>1, <2>2, <2>3, <2>4, <2>5, <2>6, <2>7, <2>8, <2>9
<1>22. CASE Request(c)
  <2>1. OneHolder'
    BY <1>22 DEF Request
  <2>2. Newest'
    BY <1>22 DEF Request, Newest
  <2>3. ChildInv'
    BY <1>22 DEF Request, ChildInv
  <2>4. StoppingInv'
    BY <1>22 DEF Request, StoppingInv
  <2>5. MarkInv'
    BY <1>22 DEF Request, MarkInv
  <2>6. Tracked'
    BY <1>22 DEF Request, Tracked
  <2>7. NoneRuns'
    BY <1>22 DEF Request, NoneRuns
  <2>8. Clearing'
    BY <1>22 DEF Request, Clearing
  <2>9. Reported'
    BY <1>22 DEF Request, Reported
  <2> QED BY <2>1, <2>2, <2>3, <2>4, <2>5, <2>6, <2>7, <2>8, <2>9
<1> QED BY <1>1, <1>2, <1>3, <1>4, <1>5, <1>6, <1>7, <1>8, <1>9, <1>10, <1>11, <1>12, <1>13, <1>14, <1>15, <1>16, <1>17, <1>18, <1>19, <1>20, <1>21, <1>22 DEF Step

LEMMA ExitKeepsFacts ==
    ASSUME FreshPid, TypeOK, TypeOK', Facts, NEW p \in Sidecars, Exit(p) \/ ExitTask(p)
    PROVE  Facts'
<1> USE LifecycleAssumption, OsPidTypes
<1> USE DEF TypeOK, Facts, tracked, callers, processes, service, Goto, At, Sidecars, FreshPid, OneHolder
<1>1. CASE Exit(p)
  <2>1. OneHolder'
    BY <1>1 DEF Exit
  <2>2. Newest'
    BY <1>1 DEF Exit, Newest
  <2>3. ChildInv'
    BY <1>1 DEF Exit, ChildInv
  <2>4. StoppingInv'
    BY <1>1 DEF Exit, StoppingInv
  <2>5. MarkInv'
    BY <1>1 DEF Exit, MarkInv
  <2>6. Tracked'
    BY <1>1 DEF Exit, Tracked
  <2>7. NoneRuns'
    BY <1>1 DEF Exit, NoneRuns
  <2>8. Clearing'
    BY <1>1 DEF Exit, Clearing
  <2>9. Reported'
    BY <1>1 DEF Exit, Reported
  <2> QED BY <2>1, <2>2, <2>3, <2>4, <2>5, <2>6, <2>7, <2>8, <2>9
<1>2. CASE ReportExit(p)
  <2>1. OneHolder'
    BY <1>2 DEF ReportExit
  <2>2. Newest'
    BY <1>2 DEF ReportExit, Newest
  <2>3. ChildInv'
    BY <1>2 DEF ReportExit, ChildInv
  <2>4. StoppingInv'
    BY <1>2 DEF ReportExit, StoppingInv
  <2>5. MarkInv'
    BY <1>2 DEF ReportExit, MarkInv
  <2>6. Tracked'
    BY <1>2 DEF ReportExit, Tracked
  <2>7. NoneRuns'
    BY <1>2 DEF ReportExit, NoneRuns
  <2>8. Clearing'
    BY <1>2 DEF ReportExit, Clearing
  <2>9. Reported'
    BY <1>2 DEF ReportExit, Reported
  <2> QED BY <2>1, <2>2, <2>3, <2>4, <2>5, <2>6, <2>7, <2>8, <2>9
<1>3. CASE CheckExit(p)
  <2>1. OneHolder'
    BY <1>3 DEF CheckExit, IsTracked, ChildPid
  <2>2. Newest'
    BY <1>3 DEF CheckExit, IsTracked, ChildPid, Newest
  <2>3. ChildInv'
    BY <1>3 DEF CheckExit, IsTracked, ChildPid, ChildInv
  <2>4. StoppingInv'
    BY <1>3 DEF CheckExit, IsTracked, ChildPid, StoppingInv
  <2>5. MarkInv'
    <3>1. ASSUME NEW c \in Callers, At(c, {"mark"}) PROVE ~IsTracked(p)
      BY <3>1 DEF IsTracked, ChildPid, ChildInv, StoppingInv
    <3> QED BY <1>3, <3>1 DEF CheckExit, MarkInv
  <2>6. Tracked'
    BY <1>3 DEF CheckExit, IsTracked, ChildPid, Tracked
  <2>7. NoneRuns'
    BY <1>3 DEF CheckExit, IsTracked, ChildPid, NoneRuns
  <2>8. Clearing'
    <3>1. p \notin alive /\ watch[p] = "reported" /\ stateLock = 0
      BY <1>3 DEF CheckExit, Reported
    <3>2. CASE ~IsTracked(p)
      BY <1>3, <3>1, <3>2 DEF CheckExit, Clearing
    <3>3. CASE IsTracked(p)
      <4>1. ASSUME NEW q \in alive PROVE \E c \in Callers : At(c, {"track"})
        <5>1. q # p /\ PidOf[q] # PidOf[p]
          BY <3>1
        <5>2. CASE ChildPid = PidOf[p]
          <6>1. child # 0 /\ PidOf[child] = PidOf[p]
            BY <5>2 DEF ChildPid
          <6>2. child = q
            BY <6>1 DEF Newest
          <6> QED BY <5>1, <6>1, <6>2
        <5>3. CASE stopping = PidOf[p]
          <6>1. stopping # 0 /\ child # q /\ stopping # PidOf[q]
            BY <5>1, <5>3 DEF StoppingInv
          <6>2. \A c \in Callers : ~At(c, {"mark"})
            BY <6>1 DEF StoppingInv
          <6> QED BY <6>1, <6>2 DEF Tracked
        <5>4. ChildPid = PidOf[p] \/ stopping = PidOf[p]
          BY <3>3 DEF IsTracked
        <5> QED BY <5>2, <5>3, <5>4
      <4>2. alive' = alive /\ lock' = lock /\ pc' = pc
        BY <1>3 DEF CheckExit
      <4>3. \A q \in Sidecars : watch'[q] = "clearing" => stateLock' = q
        BY <1>3, <3>1, <3>3 DEF CheckExit, Clearing
      <4> QED BY <4>1, <4>2, <4>3 DEF Clearing
    <3> QED BY <3>2, <3>3
  <2>9. Reported'
    BY <1>3 DEF CheckExit, IsTracked, ChildPid, Reported
  <2> QED BY <2>1, <2>2, <2>3, <2>4, <2>5, <2>6, <2>7, <2>8, <2>9
<1>4. CASE ClearExit(p)
  <2>1. OneHolder'
    BY <1>4 DEF ClearExit
  <2>2. Newest'
    BY <1>4 DEF ClearExit, Newest
  <2>3. ChildInv'
    BY <1>4 DEF ClearExit, ChildInv
  <2>4. StoppingInv'
    BY <1>4 DEF ClearExit, StoppingInv
  <2>5. MarkInv'
    BY <1>4 DEF ClearExit, MarkInv, Clearing
  <2>6. Tracked'
    <3>1. stateLock # 0
      BY <1>4 DEF ClearExit, Clearing
    <3>2. alive = {} \/ \E c \in Callers : At(c, {"track"})
      BY <3>1 DEF Clearing
    <3> QED BY <1>4, <3>2 DEF ClearExit, Tracked
  <2>7. NoneRuns'
    BY <1>4 DEF ClearExit, NoneRuns
  <2>8. Clearing'
    BY <1>4 DEF ClearExit, Clearing
  <2>9. Reported'
    BY <1>4 DEF ClearExit, Reported
  <2> QED BY <2>1, <2>2, <2>3, <2>4, <2>5, <2>6, <2>7, <2>8, <2>9
<1> QED BY <1>1, <1>2, <1>3, <1>4 DEF ExitTask

LEMMA OtherKeepsFacts ==
    ASSUME FreshPid, TypeOK, TypeOK', Facts, ServiceChanges \/ UNCHANGED vars
    PROVE  Facts'
<1> USE LifecycleAssumption, OsPidTypes
<1> USE DEF TypeOK, Facts, tracked, callers, processes, service, Goto, At, Sidecars, FreshPid, OneHolder
<1>1. CASE ServiceChanges
  <2>1. OneHolder'
    BY <1>1 DEF ServiceChanges
  <2>2. Newest'
    BY <1>1 DEF ServiceChanges, Newest
  <2>3. ChildInv'
    BY <1>1 DEF ServiceChanges, ChildInv
  <2>4. StoppingInv'
    BY <1>1 DEF ServiceChanges, StoppingInv
  <2>5. MarkInv'
    BY <1>1 DEF ServiceChanges, MarkInv
  <2>6. Tracked'
    BY <1>1 DEF ServiceChanges, Tracked
  <2>7. NoneRuns'
    BY <1>1 DEF ServiceChanges, NoneRuns
  <2>8. Clearing'
    BY <1>1 DEF ServiceChanges, Clearing
  <2>9. Reported'
    BY <1>1 DEF ServiceChanges, Reported
  <2> QED BY <2>1, <2>2, <2>3, <2>4, <2>5, <2>6, <2>7, <2>8, <2>9
<1>2. CASE UNCHANGED vars
  <2>1. OneHolder'
    BY <1>2 DEF vars
  <2>2. Newest'
    BY <1>2 DEF vars, Newest
  <2>3. ChildInv'
    BY <1>2 DEF vars, ChildInv
  <2>4. StoppingInv'
    BY <1>2 DEF vars, StoppingInv
  <2>5. MarkInv'
    BY <1>2 DEF vars, MarkInv
  <2>6. Tracked'
    BY <1>2 DEF vars, Tracked
  <2>7. NoneRuns'
    BY <1>2 DEF vars, NoneRuns
  <2>8. Clearing'
    BY <1>2 DEF vars, Clearing
  <2>9. Reported'
    BY <1>2 DEF vars, Reported
  <2> QED BY <2>1, <2>2, <2>3, <2>4, <2>5, <2>6, <2>7, <2>8, <2>9
<1> QED BY <1>1, <1>2

------------------------------------------------------------------------------
(* Every step keeps the order of the reports. *)

\* the second half of the inductive invariant
Reports == InOrder /\ InHands /\ NewestTaken /\ AllGone /\ ClearsLast

LEMMA CallerKeepsReports ==
    ASSUME FreshPid, TypeOK, TypeOK', Facts, Reports, NEW c \in Callers, Request(c) \/ Step(c)
    PROVE  Reports'
<1> USE LifecycleAssumption, OsPidTypes
<1> USE DEF TypeOK, Facts, Reports, tracked, callers, processes, service, Goto, At, Sidecars, FreshPid, OneHolder, Gone
<1>1. CASE Request(c)
  <2>1. InOrder'
    BY <1>1 DEF Request, InOrder, Reported
  <2>2. InHands'
    BY <1>1 DEF Request, InHands, ChildInv, StoppingInv, NewestTaken, AllGone
  <2>3. NewestTaken'
    BY <1>1 DEF Request, NewestTaken, Newest, StoppingInv, ChildInv, MarkInv
  <2>4. AllGone'
    BY <1>1 DEF Request, AllGone, InHands, ChildInv, StoppingInv, InOrder, NewestTaken
  <2>5. ClearsLast'
    BY <1>1 DEF Request, ClearsLast, InOrder, AllGone
  <2> QED BY <2>1, <2>2, <2>3, <2>4, <2>5
<1>2. CASE Lock(c)
  <2>1. InOrder'
    BY <1>2 DEF Lock, LockFree, InOrder, Reported
  <2>2. InHands'
    BY <1>2 DEF Lock, LockFree, InHands, ChildInv, StoppingInv, NewestTaken, AllGone
  <2>3. NewestTaken'
    BY <1>2 DEF Lock, LockFree, NewestTaken, Newest, StoppingInv, ChildInv, MarkInv
  <2>4. AllGone'
    BY <1>2 DEF Lock, LockFree, AllGone, InHands, ChildInv, StoppingInv, InOrder, NewestTaken
  <2>5. ClearsLast'
    BY <1>2 DEF Lock, LockFree, ClearsLast, InOrder, AllGone
  <2> QED BY <2>1, <2>2, <2>3, <2>4, <2>5
<1>3. CASE Enter(c)
  <2>1. InOrder'
    BY <1>3 DEF Enter, InOrder, Reported
  <2>2. InHands'
    BY <1>3 DEF Enter, InHands, ChildInv, StoppingInv, NewestTaken, AllGone
  <2>3. NewestTaken'
    BY <1>3 DEF Enter, NewestTaken, Newest, StoppingInv, ChildInv, MarkInv
  <2>4. AllGone'
    BY <1>3 DEF Enter, AllGone, InHands, ChildInv, StoppingInv, InOrder, NewestTaken
  <2>5. ClearsLast'
    BY <1>3 DEF Enter, ClearsLast, InOrder, AllGone
  <2> QED BY <2>1, <2>2, <2>3, <2>4, <2>5
<1>4. CASE StopNothing(c)
  <2>1. InOrder'
    BY <1>4 DEF StopNothing, Stopped, Return, InOrder, Reported
  <2>2. InHands'
    BY <1>4 DEF StopNothing, Stopped, Return, InHands, ChildInv, StoppingInv, NewestTaken, AllGone
  <2>3. NewestTaken'
    BY <1>4 DEF StopNothing, Stopped, Return, NewestTaken, Newest, StoppingInv, ChildInv, MarkInv
  <2>4. AllGone'
    BY <1>4 DEF StopNothing, Stopped, Return, AllGone, InHands, ChildInv, StoppingInv, InOrder, NewestTaken
  <2>5. ClearsLast'
    BY <1>4 DEF StopNothing, Stopped, Return, ClearsLast, InOrder, AllGone
  <2> QED BY <2>1, <2>2, <2>3, <2>4, <2>5
<1>5. CASE StopService(c)
  <2>1. /\ pc[c] = "stop" /\ c \in lock /\ mode = "Service" /\ lock' \in {lock, lock \ {c}}
        /\ pc'[c] \in {"idle", "enter", "prepare"} /\ \A d \in Callers \ {c} : pc'[d] = pc[d] /\ taken'[d] = taken[d]
        /\ UNCHANGED <<child, stopping, lastExit, stateLock, processes>>
    <3>1. CASE Return(c)
      BY <1>5, <3>1 DEF StopService, Return
    <3>2. CASE Stopped(c)
      BY <1>5, <3>1, <3>2 DEF StopService, Stopped
    <3> QED BY <1>5, <3>1, <3>2 DEF StopService
  <2>2. \A d \in lock : d = c
    BY <2>1
  <2>3. child = 0 /\ stopping = 0 /\ (newest # 0 => Gone(newest))
    BY <2>1, <2>2 DEF ChildInv, StoppingInv, InHands
  <2>4. InOrder'
    BY <2>1, <2>2, <2>3 DEF InOrder
  <2>5. InHands'
    BY <2>1, <2>3 DEF InHands
  <2>6. NewestTaken'
    BY <2>1, <2>2, <2>3 DEF NewestTaken
  <2>7. AllGone'
    BY <2>1, <2>3 DEF AllGone
  <2>8. ClearsLast'
    BY <2>1, <2>3 DEF ClearsLast
  <2> QED BY <2>4, <2>5, <2>6, <2>7, <2>8
<1>6. CASE StopSidecar(c)
  <2>1. InOrder'
    BY <1>6 DEF StopSidecar, InOrder, Reported
  <2>2. InHands'
    BY <1>6 DEF StopSidecar, InHands, ChildInv, StoppingInv, NewestTaken, AllGone
  <2>3. NewestTaken'
    BY <1>6 DEF StopSidecar, NewestTaken, Newest, StoppingInv, ChildInv, MarkInv
  <2>4. AllGone'
    BY <1>6 DEF StopSidecar, AllGone, InHands, ChildInv, StoppingInv, InOrder, NewestTaken
  <2>5. ClearsLast'
    BY <1>6 DEF StopSidecar, ClearsLast, InOrder, AllGone
  <2> QED BY <2>1, <2>2, <2>3, <2>4, <2>5
<1>7. CASE TakeChild(c)
  <2>1. InOrder'
    BY <1>7 DEF TakeChild, ChildPid, InOrder, Reported
  <2>2. InHands'
    BY <1>7 DEF TakeChild, ChildPid, InHands, ChildInv, StoppingInv, NewestTaken, AllGone
  <2>3. NewestTaken'
    BY <1>7 DEF TakeChild, ChildPid, NewestTaken, Newest, StoppingInv, ChildInv, MarkInv
  <2>4. AllGone'
    BY <1>7 DEF TakeChild, ChildPid, AllGone, InHands, ChildInv, StoppingInv, InOrder, NewestTaken
  <2>5. ClearsLast'
    BY <1>7 DEF TakeChild, ChildPid, ClearsLast, InOrder, AllGone
  <2> QED BY <2>1, <2>2, <2>3, <2>4, <2>5
<1>8. CASE MarkStopping(c)
  <2>1. InOrder'
    BY <1>8 DEF MarkStopping, InOrder, Reported
  <2>2. InHands'
    BY <1>8 DEF MarkStopping, InHands, ChildInv, StoppingInv, NewestTaken, AllGone
  <2>3. NewestTaken'
    BY <1>8 DEF MarkStopping, NewestTaken, Newest, StoppingInv, ChildInv, MarkInv
  <2>4. AllGone'
    BY <1>8 DEF MarkStopping, AllGone, InHands, ChildInv, StoppingInv, InOrder, NewestTaken
  <2>5. ClearsLast'
    BY <1>8 DEF MarkStopping, ClearsLast, InOrder, AllGone
  <2> QED BY <2>1, <2>2, <2>3, <2>4, <2>5
<1>9. CASE Kill(c)
  <2>1. InOrder'
    BY <1>9 DEF Kill, InOrder, Reported
  <2>2. InHands'
    BY <1>9 DEF Kill, InHands, ChildInv, StoppingInv, NewestTaken, AllGone
  <2>3. NewestTaken'
    BY <1>9 DEF Kill, NewestTaken, Newest, StoppingInv, ChildInv, MarkInv
  <2>4. AllGone'
    BY <1>9 DEF Kill, AllGone, InHands, ChildInv, StoppingInv, InOrder, NewestTaken
  <2>5. ClearsLast'
    BY <1>9 DEF Kill, ClearsLast, InOrder, AllGone
  <2> QED BY <2>1, <2>2, <2>3, <2>4, <2>5
<1>10. CASE KillFails(c)
  <2>1. InOrder'
    BY <1>10 DEF KillFails, Return, InOrder, Reported
  <2>2. InHands'
    BY <1>10 DEF KillFails, Return, InHands, ChildInv, StoppingInv, NewestTaken, AllGone
  <2>3. NewestTaken'
    BY <1>10 DEF KillFails, Return, NewestTaken, Newest, StoppingInv, ChildInv, MarkInv
  <2>4. AllGone'
    BY <1>10 DEF KillFails, Return, AllGone, InHands, ChildInv, StoppingInv, InOrder, NewestTaken
  <2>5. ClearsLast'
    BY <1>10 DEF KillFails, Return, ClearsLast, InOrder, AllGone
  <2> QED BY <2>1, <2>2, <2>3, <2>4, <2>5
<1>11. CASE WaitDone(c)
  <2>1. InOrder'
    BY <1>11 DEF WaitDone, ExitSeen, InOrder, Reported
  <2>2. InHands'
    BY <1>11 DEF WaitDone, ExitSeen, InHands, ChildInv, StoppingInv, NewestTaken, AllGone
  <2>3. NewestTaken'
    BY <1>11 DEF WaitDone, ExitSeen, NewestTaken, Newest, StoppingInv, ChildInv, MarkInv
  <2>4. AllGone'
    BY <1>11 DEF WaitDone, ExitSeen, AllGone, InHands, ChildInv, StoppingInv, InOrder, NewestTaken
  <2>5. ClearsLast'
    BY <1>11 DEF WaitDone, ExitSeen, ClearsLast, InOrder, AllGone
  <2> QED BY <2>1, <2>2, <2>3, <2>4, <2>5
<1>12. CASE WaitTimeout(c)
  <2>1. InOrder'
    BY <1>12 DEF WaitTimeout, Return, InOrder, Reported
  <2>2. InHands'
    BY <1>12 DEF WaitTimeout, Return, InHands, ChildInv, StoppingInv, NewestTaken, AllGone
  <2>3. NewestTaken'
    BY <1>12 DEF WaitTimeout, Return, NewestTaken, Newest, StoppingInv, ChildInv, MarkInv
  <2>4. AllGone'
    BY <1>12 DEF WaitTimeout, Return, AllGone, InHands, ChildInv, StoppingInv, InOrder, NewestTaken
  <2>5. ClearsLast'
    BY <1>12 DEF WaitTimeout, Return, ClearsLast, InOrder, AllGone
  <2> QED BY <2>1, <2>2, <2>3, <2>4, <2>5
<1>13. CASE Forget(c)
  <2>1. InOrder'
    BY <1>13 DEF Forget, InOrder, Reported
  <2>2. InHands'
    BY <1>13 DEF Forget, InHands, ChildInv, StoppingInv, NewestTaken, AllGone
  <2>3. NewestTaken'
    BY <1>13 DEF Forget, NewestTaken, Newest, StoppingInv, ChildInv, MarkInv
  <2>4. AllGone'
    BY <1>13 DEF Forget, AllGone, InHands, ChildInv, StoppingInv, InOrder, NewestTaken
  <2>5. ClearsLast'
    BY <1>13 DEF Forget, ClearsLast, InOrder, AllGone
  <2> QED BY <2>1, <2>2, <2>3, <2>4, <2>5
<1>14. CASE Settle(c)
  <2>1. InOrder'
    BY <1>14 DEF Settle, Stopped, Return, InOrder, Reported
  <2>2. InHands'
    BY <1>14 DEF Settle, Stopped, Return, InHands, ChildInv, StoppingInv, NewestTaken, AllGone
  <2>3. NewestTaken'
    BY <1>14 DEF Settle, Stopped, Return, NewestTaken, Newest, StoppingInv, ChildInv, MarkInv
  <2>4. AllGone'
    BY <1>14 DEF Settle, Stopped, Return, AllGone, InHands, ChildInv, StoppingInv, InOrder, NewestTaken
  <2>5. ClearsLast'
    BY <1>14 DEF Settle, Stopped, Return, ClearsLast, InOrder, AllGone
  <2> QED BY <2>1, <2>2, <2>3, <2>4, <2>5
<1>15. CASE Prepare(c)
  <2>1. InOrder'
    BY <1>15 DEF Prepare, InOrder, Reported
  <2>2. InHands'
    BY <1>15 DEF Prepare, InHands, ChildInv, StoppingInv, NewestTaken, AllGone
  <2>3. NewestTaken'
    BY <1>15 DEF Prepare, NewestTaken, Newest, StoppingInv, ChildInv, MarkInv
  <2>4. AllGone'
    BY <1>15 DEF Prepare, AllGone, InHands, ChildInv, StoppingInv, InOrder, NewestTaken
  <2>5. ClearsLast'
    BY <1>15 DEF Prepare, ClearsLast, InOrder, AllGone
  <2> QED BY <2>1, <2>2, <2>3, <2>4, <2>5
<1>16. CASE Choose(c)
  <2>1. InOrder'
    BY <1>16 DEF Choose, InOrder, Reported
  <2>2. InHands'
    BY <1>16 DEF Choose, InHands, ChildInv, StoppingInv, NewestTaken, AllGone
  <2>3. NewestTaken'
    BY <1>16 DEF Choose, NewestTaken, Newest, StoppingInv, ChildInv, MarkInv
  <2>4. AllGone'
    BY <1>16 DEF Choose, AllGone, InHands, ChildInv, StoppingInv, InOrder, NewestTaken
  <2>5. ClearsLast'
    BY <1>16 DEF Choose, ClearsLast, InOrder, AllGone
  <2> QED BY <2>1, <2>2, <2>3, <2>4, <2>5
<1>17. CASE StartByService(c)
  <2>1. InOrder'
    BY <1>17 DEF StartByService, Return, InOrder, Reported
  <2>2. InHands'
    BY <1>17 DEF StartByService, Return, InHands, ChildInv, StoppingInv, NewestTaken, AllGone
  <2>3. NewestTaken'
    BY <1>17 DEF StartByService, Return, NewestTaken, Newest, StoppingInv, ChildInv, MarkInv
  <2>4. AllGone'
    BY <1>17 DEF StartByService, Return, AllGone, InHands, ChildInv, StoppingInv, InOrder, NewestTaken
  <2>5. ClearsLast'
    BY <1>17 DEF StartByService, Return, ClearsLast, InOrder, AllGone
  <2> QED BY <2>1, <2>2, <2>3, <2>4, <2>5
<1>18. CASE ServiceFails(c)
  <2>1. InOrder'
    BY <1>18 DEF ServiceFails, Return, InOrder, Reported
  <2>2. InHands'
    BY <1>18 DEF ServiceFails, Return, InHands, ChildInv, StoppingInv, NewestTaken, AllGone
  <2>3. NewestTaken'
    BY <1>18 DEF ServiceFails, Return, NewestTaken, Newest, StoppingInv, ChildInv, MarkInv
  <2>4. AllGone'
    BY <1>18 DEF ServiceFails, Return, AllGone, InHands, ChildInv, StoppingInv, InOrder, NewestTaken
  <2>5. ClearsLast'
    BY <1>18 DEF ServiceFails, Return, ClearsLast, InOrder, AllGone
  <2> QED BY <2>1, <2>2, <2>3, <2>4, <2>5
<1>19. CASE Spawn(c)
  <2>1. InOrder'
    <3>1. /\ newest' = newest + 1 /\ newest' \in Sidecars /\ c \in lock /\ pc'[c] = "track"
          /\ UNCHANGED <<lock, watch, lastExit>> /\ \A d \in lock : d = c
      BY <1>19 DEF Spawn
    <3>2. watch[newest'] = "none" /\ (newest # 0 => Gone(newest))
      BY <1>19, <3>1 DEF Reported, AllGone, Spawn
    <3>3. \A p \in 1 .. newest : Gone(p)
      BY <3>2 DEF InOrder
    <3>4. lastExit # 0 => \E p \in 1 .. newest' : Gone(p) /\ lastExit = PidOf[p]
      BY <3>1 DEF InOrder
    <3>5. \A p \in 1 .. newest' : p = newest' \/ Gone(p)
      BY <3>1, <3>3
    <3> QED BY <3>1, <3>2, <3>4, <3>5 DEF InOrder
  <2>2. InHands'
    BY <1>19 DEF Spawn, InHands, ChildInv, StoppingInv, NewestTaken, AllGone
  <2>3. NewestTaken'
    <3>1. c \in lock /\ stopping' = 0 /\ lock' = lock /\ pc'[c] = "track"
      BY <1>19 DEF Spawn, StoppingInv
    <3>2. \A d \in lock : d = c
      BY <3>1
    <3>3. \A d \in Callers : ~At(d, {"mark", "kill", "wait"})'
      BY <3>1, <3>2
    <3> QED BY <3>1, <3>3 DEF NewestTaken
  <2>4. AllGone'
    BY <1>19 DEF Spawn, AllGone, InHands, ChildInv, StoppingInv, InOrder, NewestTaken
  <2>5. ClearsLast'
    BY <1>19 DEF Spawn, ClearsLast, InOrder, AllGone
  <2> QED BY <2>1, <2>2, <2>3, <2>4, <2>5
<1>20. CASE Track(c)
  <2>1. InOrder'
    BY <1>20 DEF Track, InOrder, Reported
  <2>2. InHands'
    BY <1>20 DEF Track, InHands, ChildInv, StoppingInv, NewestTaken, AllGone
  <2>3. NewestTaken'
    BY <1>20 DEF Track, NewestTaken, Newest, StoppingInv, ChildInv, MarkInv
  <2>4. AllGone'
    BY <1>20 DEF Track, AllGone, InHands, ChildInv, StoppingInv, InOrder, NewestTaken
  <2>5. ClearsLast'
    BY <1>20 DEF Track, ClearsLast, InOrder, AllGone
  <2> QED BY <2>1, <2>2, <2>3, <2>4, <2>5
<1>21. CASE Started(c)
  <2>1. InOrder'
    BY <1>21 DEF Started, Return, InOrder, Reported
  <2>2. InHands'
    <3>1. /\ c \in lock /\ pc[c] = "started" /\ \A d \in lock : d = c
          /\ UNCHANGED <<child, stopping, newest>>
      BY <1>21 DEF Started
    <3>2. newest # 0 /\ ~Gone(newest) /\ stopping = 0
      BY <3>1 DEF InOrder, StoppingInv
    <3>3. child = newest
      BY <3>1, <3>2 DEF InHands
    <3> QED BY <3>1, <3>3 DEF InHands
  <2>3. NewestTaken'
    BY <1>21 DEF Started, Return, NewestTaken, Newest, StoppingInv, ChildInv, MarkInv
  <2>4. AllGone'
    BY <1>21 DEF Started, Return, AllGone, InHands, ChildInv, StoppingInv, InOrder, NewestTaken
  <2>5. ClearsLast'
    BY <1>21 DEF Started, Return, ClearsLast, InOrder, AllGone
  <2> QED BY <2>1, <2>2, <2>3, <2>4, <2>5
<1>22. CASE SpawnFails(c)
  <2>1. InOrder'
    BY <1>22 DEF SpawnFails, Return, InOrder, Reported
  <2>2. InHands'
    BY <1>22 DEF SpawnFails, Return, InHands, ChildInv, StoppingInv, NewestTaken, AllGone
  <2>3. NewestTaken'
    BY <1>22 DEF SpawnFails, Return, NewestTaken, Newest, StoppingInv, ChildInv, MarkInv
  <2>4. AllGone'
    BY <1>22 DEF SpawnFails, Return, AllGone, InHands, ChildInv, StoppingInv, InOrder, NewestTaken
  <2>5. ClearsLast'
    BY <1>22 DEF SpawnFails, Return, ClearsLast, InOrder, AllGone
  <2> QED BY <2>1, <2>2, <2>3, <2>4, <2>5
<1> QED BY <1>1, <1>2, <1>3, <1>4, <1>5, <1>6, <1>7, <1>8, <1>9, <1>10, <1>11, <1>12, <1>13, <1>14, <1>15, <1>16, <1>17, <1>18, <1>19, <1>20, <1>21, <1>22 DEF Step

LEMMA ExitKeepsReports ==
    ASSUME FreshPid, TypeOK, TypeOK', Facts, Reports, NEW p \in Sidecars, Exit(p) \/ ExitTask(p)
    PROVE  Reports'
<1> USE LifecycleAssumption, OsPidTypes
<1> USE DEF TypeOK, Facts, Reports, tracked, callers, processes, service, Goto, At, Sidecars, FreshPid, OneHolder, Gone
<1>1. CASE Exit(p)
  <2>1. InOrder'
    BY <1>1 DEF Exit, InOrder, Reported
  <2>2. InHands'
    BY <1>1 DEF Exit, InHands, ChildInv, StoppingInv, NewestTaken, AllGone
  <2>3. NewestTaken'
    BY <1>1 DEF Exit, NewestTaken, Newest, StoppingInv, ChildInv, MarkInv
  <2>4. AllGone'
    BY <1>1 DEF Exit, AllGone, InHands, ChildInv, StoppingInv, InOrder, NewestTaken
  <2>5. ClearsLast'
    BY <1>1 DEF Exit, ClearsLast, InOrder, AllGone
  <2> QED BY <2>1, <2>2, <2>3, <2>4, <2>5
<1>2. CASE ReportExit(p)
  <2>1. InOrder'
    BY <1>2 DEF ReportExit, InOrder, Reported
  <2>2. InHands'
    BY <1>2 DEF ReportExit, InHands, ChildInv, StoppingInv, NewestTaken, AllGone
  <2>3. NewestTaken'
    BY <1>2 DEF ReportExit, NewestTaken, Newest, StoppingInv, ChildInv, MarkInv
  <2>4. AllGone'
    BY <1>2 DEF ReportExit, AllGone, InHands, ChildInv, StoppingInv, InOrder, NewestTaken
  <2>5. ClearsLast'
    BY <1>2 DEF ReportExit, ClearsLast, InOrder, AllGone
  <2> QED BY <2>1, <2>2, <2>3, <2>4, <2>5
<1>3. CASE CheckExit(p)
  <2>1. InOrder'
    BY <1>3 DEF CheckExit, IsTracked, ChildPid, InOrder, Reported
  <2>2. InHands'
    BY <1>3 DEF CheckExit, IsTracked, ChildPid, InHands, ChildInv, StoppingInv, NewestTaken, AllGone
  <2>3. NewestTaken'
    BY <1>3 DEF CheckExit, IsTracked, ChildPid, NewestTaken, Newest, StoppingInv, ChildInv, MarkInv
  <2>4. AllGone'
    BY <1>3 DEF CheckExit, IsTracked, ChildPid, AllGone, InHands, ChildInv, StoppingInv, InOrder, NewestTaken
  <2>5. ClearsLast'
    <3>1. /\ watch[p] = "reported" /\ stateLock = 0 /\ UNCHANGED <<child, stopping, newest, lock, pc>>
          /\ watch' = [watch EXCEPT ![p] = IF IsTracked(p) THEN "clearing" ELSE "done"]
          /\ stateLock' = IF IsTracked(p) THEN p ELSE 0
      BY <1>3 DEF CheckExit
    <3>2. child = p => IsTracked(p)
      BY DEF IsTracked, ChildPid
    <3>3. child # 0 => watch'[child] # "done"
      BY <3>1, <3>2 DEF ClearsLast
    <3>4. IsTracked(p) => p = newest
      <4>1. child # 0 => child = newest
        BY DEF Newest
      <4>2. stopping # 0 => newest # 0 /\ stopping = PidOf[newest]
        BY DEF NewestTaken
      <4> QED BY <4>1, <4>2 DEF IsTracked, ChildPid
    <3>5. stateLock' # 0 => Gone(newest)'
      BY <3>1, <3>4
    <3> QED BY <3>1, <3>3, <3>5 DEF ClearsLast
  <2> QED BY <2>1, <2>2, <2>3, <2>4, <2>5
<1>4. CASE ClearExit(p)
  <2>1. InOrder'
    BY <1>4 DEF ClearExit, InOrder, Reported
  <2>2. InHands'
    <3>1. stateLock = p /\ watch[p] = "clearing" /\ UNCHANGED <<newest, lock, pc>> /\ watch' = [watch EXCEPT ![p] = "done"]
      BY <1>4 DEF ClearExit, Clearing
    <3>2. newest # 0 => Gone(newest) \/ \E c \in Callers : At(c, {"track"})
      BY <3>1 DEF ClearsLast
    <3> QED BY <3>1, <3>2 DEF InHands
  <2>3. NewestTaken'
    BY <1>4 DEF ClearExit, NewestTaken, Newest, StoppingInv, ChildInv, MarkInv
  <2>4. AllGone'
    BY <1>4 DEF ClearExit, AllGone, InHands, ChildInv, StoppingInv, InOrder, NewestTaken
  <2>5. ClearsLast'
    BY <1>4 DEF ClearExit, ClearsLast, InOrder, AllGone
  <2> QED BY <2>1, <2>2, <2>3, <2>4, <2>5
<1> QED BY <1>1, <1>2, <1>3, <1>4 DEF ExitTask

------------------------------------------------------------------------------
(* The theorems. *)

IInv == TypeOK /\ Facts /\ Reports

LEMMA InitFacts == Init => IInv
<1> SUFFICES ASSUME Init PROVE IInv
  OBVIOUS
<1>1. TypeOK
  <2>1. lock = {c \in Callers : pc[c] \notin {"idle", "lock"}}
    BY DEF Init
  <2>2. /\ mode \in Modes /\ stopping \in OsPids /\ lastExit \in OsPids
        /\ task \in [Callers -> Tasks] /\ pc \in [Callers -> Labels] /\ taken \in [Callers -> OsPids]
    BY OsPidTypes DEF Init, Modes, Tasks, Labels
  <2>3. watch \in [Sidecars -> {"none", "watching", "reported", "clearing", "done"}]
    BY DEF Init
  <2>4. /\ child \in 0 .. MaxSidecars /\ stateLock \in 0 .. MaxSidecars /\ newest \in 0 .. MaxSidecars
        /\ alive \subseteq 1 .. newest /\ requests \in 0 .. MaxRequests
    BY LifecycleAssumption DEF Init
  <2>5. serviceCore \in BOOLEAN /\ serviceReady \in BOOLEAN
    BY DEF Init
  <2> QED BY <2>1, <2>2, <2>3, <2>4, <2>5 DEF TypeOK
<1>2. Facts
  BY DEF Init, Facts, OneHolder, Newest, ChildInv, StoppingInv, MarkInv, Tracked, NoneRuns, Clearing, Reported, At
<1>3. Reports
  BY DEF Init, Reports, InOrder, InHands, NewestTaken, AllGone, ClearsLast, At
<1> QED BY <1>1, <1>2, <1>3 DEF IInv

LEMMA StepKeepsIInv ==
    ASSUME FreshPid, IInv, [Next]_vars
    PROVE  IInv'
<1>1. TypeOK /\ Facts /\ Reports /\ TypeOK'
  BY TypeStep DEF IInv
<1>2. ASSUME NEW c \in Callers, Request(c) \/ Step(c) PROVE Facts' /\ Reports'
  BY <1>1, <1>2, CallerKeepsFacts, CallerKeepsReports
<1>3. ASSUME NEW p \in Sidecars, Exit(p) \/ ExitTask(p) PROVE Facts' /\ Reports'
  BY <1>1, <1>3, ExitKeepsFacts, ExitKeepsReports
<1>4. ASSUME ServiceChanges \/ UNCHANGED vars PROVE Facts' /\ Reports'
  <2>1. UNCHANGED <<tracked, callers, processes>>
    BY <1>4 DEF ServiceChanges, vars
  <2>2. Reports'
    BY <1>1, <2>1 DEF Reports, InOrder, InHands, NewestTaken, AllGone, ClearsLast, At, Gone, tracked, callers, processes
  <2> QED BY <1>1, <1>4, <2>2, OtherKeepsFacts
<1> QED BY <1>1, <1>2, <1>3, <1>4 DEF Next, IInv

\* Type correctness of the core manager, whatever the pids.
THEOREM TypeCorrect == Spec => []TypeOK
<1>1. Init => TypeOK
  BY InitFacts DEF IInv
<1>2. TypeOK /\ [Next]_vars => TypeOK'
  BY TypeStep
<1> QED BY <1>1, <1>2, PTL DEF Spec

LEMMA Invariance == ASSUME FreshPid PROVE Spec => []IInv
<1>1. Init => IInv
  BY InitFacts
<1>2. IInv /\ [Next]_vars => IInv'
  BY StepKeepsIInv
<1> QED BY <1>1, <1>2, PTL DEF Spec

\* Without reuse of pids one sidecar runs at most, and it is always tracked: none is
\* orphaned by a stop that fails.
THEOREM OneSidecar == ASSUME FreshPid PROVE Spec => []SidecarsControlled
<1>1. Spec => []IInv
  BY Invariance
<1>2. ASSUME IInv PROVE SidecarsControlled
  <2>1. AtMostOneSidecar
    BY <1>2 DEF IInv, Facts, Newest, AtMostOneSidecar
  <2>2. ASSUME NEW p \in alive, p # child, PidOf[p] # stopping
        PROVE  \E c \in lock : \/ (pc[c] = "mark" /\ taken[c] = PidOf[p])
                               \/ (pc[c] = "track" /\ p = newest)
    <3>1. p = newest
      BY <1>2, <2>2 DEF IInv, Facts, Newest
    <3>2. PICK c \in Callers : (At(c, {"mark"}) /\ taken[c] = PidOf[p]) \/ At(c, {"track"})
      BY <1>2, <2>2 DEF IInv, Facts, Tracked
    <3> QED BY <3>1, <3>2 DEF At
  <2> QED BY <2>1, <2>2 DEF SidecarsControlled, NoOrphan
<1> QED BY <1>1, <1>2, PTL

\* A stop of the sidecar that returns success leaves no sidecar running.
THEOREM StopIsConfirmed == ASSUME FreshPid PROVE Spec => StoppedMeansGone
<1>1. Spec => []IInv
  BY Invariance
<1>2. ASSUME IInv, NEW c \in Callers, pc[c] = "settle" PROVE alive = {}
  BY <1>2 DEF IInv, TypeOK, Facts, NoneRuns, At
<1>3. IInv /\ [Next]_vars => [\A c \in Callers : pc[c] = "settle" /\ pc'[c] # "settle" => alive = {}]_vars
  BY <1>2
<1> QED BY <1>1, <1>3, PTL DEF Spec, StoppedMeansGone

\* Without reuse of pids, exits that a caller waits for are not missed, and at rest
\* mode and child are those of the running sidecar.
THEOREM KnowledgeHolds == ASSUME FreshPid PROVE Spec => []KnowledgeIsTrue
<1>1. Spec => []IInv
  BY Invariance
<1>2. ASSUME IInv PROVE ConfirmationIsKept
  <2> SUFFICES ASSUME NEW c \in Callers, NEW p \in Sidecars, pc[c] = "wait", taken[c] = PidOf[p], Gone(p)
               PROVE  lastExit = PidOf[p]
    BY DEF ConfirmationIsKept, Gone
  <2>1. newest # 0 /\ PidOf[p] = PidOf[newest]
    BY <1>2 DEF IInv, TypeOK, Reports, NewestTaken, At
  <2>2. p = newest
    BY <1>2, <2>1 DEF FreshPid, IInv, TypeOK, Sidecars
  <2> QED BY <1>2, <2>1, <2>2 DEF IInv, Reports, InOrder
<1>3. ASSUME IInv PROVE StateIsTruthful
  <2> SUFFICES ASSUME lock = {}, \A p \in Sidecars : p \in alive \/ watch[p] \in {"none", "done"}
               PROVE  /\ child # 0 => child \in alive /\ mode = "Sidecar"
                      /\ alive # {} => mode = "Sidecar"
    BY DEF StateIsTruthful
  <2>1. ASSUME child # 0 PROVE child \in alive /\ mode = "Sidecar"
    <3>1. child = newest /\ child \in Sidecars /\ mode = "Sidecar"
      BY <1>3, <2>1 DEF IInv, TypeOK, Facts, Newest, ChildInv, Sidecars, At
    <3>2. watch[child] # "none"
      BY <1>3, <2>1, <3>1 DEF IInv, Reports, InOrder, At
    <3>3. watch[child] # "done"
      BY <1>3, <2>1 DEF IInv, Reports, ClearsLast
    <3> QED BY <3>1, <3>2, <3>3
  <2>2. ASSUME NEW p \in alive PROVE mode = "Sidecar"
    <3>1. child = p \/ stopping = PidOf[p]
      BY <1>3 DEF IInv, Facts, Tracked, At
    <3>2. PidOf[p] # 0 /\ p # 0
      <4>1. p \in 1 .. MaxSidecars
        BY <1>3, LifecycleAssumption DEF IInv, TypeOK
      <4> QED BY <4>1, OsPidTypes, LifecycleAssumption DEF Sidecars
    <3> QED BY <1>3, <2>1, <3>1, <3>2 DEF IInv, Facts, StoppingInv
  <2> QED BY <2>1, <2>2
<1> QED BY <1>1, <1>2, <1>3, PTL DEF KnowledgeIsTrue
==============================================================================
