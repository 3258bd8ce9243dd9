----------------------------- MODULE CoreLifecycle -----------------------------
(***************************************************************************)
(* The lifecycle of the proxy core: core/manager/{mod,lifecycle,state,     *)
(* sidecar_exit}.rs.  Callers start, stop and restart the core under       *)
(* lifecycle_lock, as a service core or as a sidecar process of the app.   *)
(* Every sidecar has an exit task that does NOT take that lock: it records *)
(* the exit for the waiters, then clears the tracked state under           *)
(* sidecar_state_lock, in between which callers go on.  A process may die  *)
(* on its own, outlive its kill, and be reported dead late.                *)
(***************************************************************************)
EXTENDS Naturals, FiniteSets

CONSTANTS
    Callers,            \* tasks that start, stop or restart the core
    MaxSidecars,        \* sidecars spawned in a behaviour
    PidOf,              \* the pid the system gives to the n-th of them
    MaxRequests,        \* requests made in a behaviour
    LostServiceAnswers  \* may a service command take effect and still return an error?

ASSUME LifecycleAssumption ==
    /\ MaxSidecars \in Nat /\ MaxRequests \in Nat
    /\ PidOf \in [1 .. MaxSidecars -> Nat \ {0}]
    /\ LostServiceAnswers \in BOOLEAN

VARIABLES
    mode,           \* running_mode
    child,          \* child_sidecar: the tracked sidecar, 0 for none
    stopping,       \* stopping_sidecar_pid, 0 for none
    lastExit,       \* sidecar_exit, the watch channel: the last pid reported, 0 for none
    stateLock,      \* sidecar_state_lock: 0, or the sidecar whose exit task holds it
    lock,           \* holders of lifecycle_lock
    task,           \* what each caller was asked to do
    pc,             \* where each caller stands
    taken,          \* pid of the child a stopping caller took or waits for
    newest,         \* the sidecar spawned last
    alive,          \* sidecars whose process runs
    watch,          \* where each sidecar's exit task stands
    serviceCore,    \* does the service run a core?
    serviceReady,   \* does SERVICE_MANAGER say Ready?
    requests        \* requests made so far

tracked == <<mode, child, stopping, lastExit, stateLock>>
callers == <<lock, task, pc, taken, requests>>
processes == <<newest, alive, watch>>
service == <<serviceCore, serviceReady>>
vars == <<tracked, callers, processes, service>>

Sidecars == 1 .. MaxSidecars
ChildPid == IF child = 0 THEN 0 ELSE PidOf[child]
Modes == {"Service", "Sidecar", "NotRunning"}
Tasks == {"start", "stop", "restart"}

Init ==
    /\ mode = "NotRunning" /\ child = 0 /\ stopping = 0 /\ lastExit = 0 /\ stateLock = 0
    /\ lock = {} /\ requests = 0
    /\ task = [c \in Callers |-> "stop"] /\ pc = [c \in Callers |-> "idle"]
    /\ taken = [c \in Callers |-> 0]
    /\ newest = 0 /\ alive = {} /\ watch = [p \in Sidecars |-> "none"]
    /\ serviceCore = FALSE /\ serviceReady \in BOOLEAN

Goto(c, l) == pc' = [pc EXCEPT ![c] = l]

------------------------------------------------------------------------------
(* Callers. *)

\* start_core, stop_core, restart_core: wait for lifecycle_lock
Request(c) ==
    /\ pc[c] = "idle" /\ requests < MaxRequests
    /\ \E t \in Tasks : task' = [task EXCEPT ![c] = t]
    /\ Goto(c, "lock")
    /\ requests' = requests + 1
    /\ UNCHANGED <<tracked, lock, taken, processes, service>>

LockFree == lock = {}

Lock(c) ==
    /\ pc[c] = "lock" /\ LockFree
    /\ lock' = lock \cup {c}
    /\ Goto(c, IF task[c] = "start" THEN "enter" ELSE "stop")
    /\ UNCHANGED <<tracked, task, taken, requests, processes, service>>

ReturnKeepsLock(c) ==                                       \* a guard that is leaked
    /\ Goto(c, "idle")
    /\ taken' = [taken EXCEPT ![c] = 0]
    /\ UNCHANGED <<lock, task, requests>>

\* the caller returns, with or without an error
Return(c) ==
    /\ lock' = lock \ {c}
    /\ Goto(c, "idle")
    /\ taken' = [taken EXCEPT ![c] = 0]
    /\ UNCHANGED <<task, requests>>

\* start_core_locked stops the tracked instance first
Enter(c) ==
    /\ pc[c] = "enter"
    /\ Goto(c, IF mode = "NotRunning" THEN "prepare" ELSE "stop")
    /\ UNCHANGED <<tracked, lock, task, taken, requests, processes, service>>

\* stop_core_locked succeeded
Stopped(c) ==
    \/ task[c] = "stop" /\ Return(c)
    \/ /\ task[c] # "stop"
       /\ Goto(c, IF task[c] = "restart" THEN "enter" ELSE "prepare")
       /\ task' = [task EXCEPT ![c] = "start"]
       /\ taken' = [taken EXCEPT ![c] = 0]
       /\ UNCHANGED <<lock, requests>>

\* stop_core_locked chooses by the running mode
StopNothing(c) ==
    /\ pc[c] = "stop" /\ mode = "NotRunning"
    /\ Stopped(c)
    /\ UNCHANGED <<tracked, processes, service>>

StopService(c) ==
    /\ pc[c] = "stop" /\ mode = "Service"
    /\ \/ /\ serviceCore' = FALSE /\ mode' = "NotRunning"
          /\ Stopped(c)
       \/ /\ serviceCore' \in IF LostServiceAnswers THEN {serviceCore, FALSE} ELSE {serviceCore}
          /\ Return(c) /\ UNCHANGED mode
    /\ UNCHANGED <<child, stopping, lastExit, stateLock, processes, serviceReady>>

\* stop_core_by_sidecar: take the child under sidecar_state_lock, or fall back
\* to the process whose exit an earlier stop could not confirm
StopSidecar(c) ==
    /\ pc[c] = "stop" /\ mode = "Sidecar"
    /\ Goto(c, "take")
    /\ UNCHANGED <<tracked, lock, task, taken, requests, processes, service>>

TakeChildForgets(c) ==                                      \* without the fallback
    /\ pc[c] = "take" /\ stateLock = 0
    /\ taken' = [taken EXCEPT ![c] = ChildPid]
    /\ Goto(c, IF child # 0 THEN "mark" ELSE "forget")
    /\ child' = 0
    /\ UNCHANGED <<mode, stopping, lastExit, stateLock, lock, task, requests, processes, service>>

TakeChild(c) ==
    /\ pc[c] = "take" /\ stateLock = 0
    /\ taken' = [taken EXCEPT ![c] = IF child # 0 THEN ChildPid ELSE stopping]
    /\ Goto(c, IF child # 0 THEN "mark" ELSE IF stopping # 0 THEN "wait" ELSE "forget")
    /\ child' = 0
    /\ UNCHANGED <<mode, stopping, lastExit, stateLock, lock, task, requests, processes, service>>

\* stopping_sidecar_pid.store(pid)
MarkStopping(c) ==
    /\ pc[c] = "mark"
    /\ stopping' = taken[c]
    /\ Goto(c, "kill")
    /\ UNCHANGED <<mode, child, lastExit, stateLock, lock, task, taken, requests, processes, service>>

\* child.kill(): a failure is forgiven only when the exit was already recorded
Kill(c) ==
    /\ pc[c] = "kill"
    /\ Goto(c, "wait")
    /\ UNCHANGED <<tracked, lock, task, taken, requests, processes, service>>

KillFails(c) ==
    /\ pc[c] = "kill" /\ lastExit # taken[c]
    /\ Return(c)
    /\ UNCHANGED <<tracked, processes, service>>

\* wait_for_exit: confirmed, or the 8 s are over and stopping_sidecar_pid stays
ExitSeenOfAny(p) == lastExit # 0
ExitSeen(p) == lastExit = p

WaitDone(c) ==
    /\ pc[c] = "wait" /\ ExitSeen(taken[c])
    /\ Goto(c, "forget")
    /\ UNCHANGED <<tracked, lock, task, taken, requests, processes, service>>

WaitTimeout(c) ==
    /\ pc[c] = "wait" /\ ~ExitSeen(taken[c])
    /\ Return(c)
    /\ UNCHANGED <<tracked, processes, service>>

\* the two stores that end stop_core_by_sidecar, neither under sidecar_state_lock
Forget(c) ==
    /\ pc[c] = "forget"
    /\ stopping' = 0
    /\ Goto(c, "settle")
    /\ UNCHANGED <<mode, child, lastExit, stateLock, lock, task, taken, requests, processes, service>>

Settle(c) ==
    /\ pc[c] = "settle"
    /\ mode' = "NotRunning"
    /\ Stopped(c)
    /\ UNCHANGED <<child, stopping, lastExit, stateLock, processes, service>>

------------------------------------------------------------------------------
(* Starting, after the tracked instance is gone. *)

\* prepare_startup
Prepare(c) ==
    /\ pc[c] = "prepare"
    /\ mode' = IF serviceReady THEN "Service" ELSE "Sidecar"
    /\ Goto(c, "choose")
    /\ UNCHANGED <<child, stopping, lastExit, stateLock, lock, task, taken, requests, processes, service>>

\* the match of start_core_locked reads the mode again
Choose(c) ==
    /\ pc[c] = "choose"
    /\ Goto(c, IF mode = "Service" THEN "service" ELSE "spawn")
    /\ UNCHANGED <<tracked, lock, task, taken, requests, processes, service>>

\* start_core_by_service
StartByService(c) ==
    /\ pc[c] = "service"
    /\ serviceCore' = TRUE /\ mode' = "Service"
    /\ Return(c)
    /\ UNCHANGED <<child, stopping, lastExit, stateLock, processes, serviceReady>>

\* its error falls back to a sidecar, unless preparing the fallback fails too
ServiceFails(c) ==
    /\ pc[c] = "service"
    /\ serviceCore' \in IF LostServiceAnswers THEN {serviceCore, TRUE} ELSE {serviceCore}
    /\ mode' = "NotRunning"
    /\ \/ Goto(c, "fallback") /\ UNCHANGED <<lock, task, taken, requests>>
       \/ Return(c)
    /\ UNCHANGED <<child, stopping, lastExit, stateLock, processes, serviceReady>>

\* start_core_by_sidecar: spawn, then track the child under sidecar_state_lock
Spawn(c) ==
    /\ pc[c] \in {"spawn", "fallback"} /\ newest < MaxSidecars
    /\ PidOf[newest + 1] \notin {PidOf[p] : p \in alive}
    /\ newest' = newest + 1
    /\ alive' = alive \cup {newest + 1}
    /\ Goto(c, "track")
    /\ UNCHANGED <<tracked, lock, task, taken, requests, watch, service>>

Track(c) ==
    /\ pc[c] = "track" /\ stateLock = 0
    /\ child' = newest
    /\ Goto(c, "started")
    /\ UNCHANGED <<mode, stopping, lastExit, stateLock, lock, task, taken, requests, processes, service>>

\* set_running_mode, then the exit task is spawned
Started(c) ==
    /\ pc[c] = "started"
    /\ mode' = "Sidecar"
    /\ watch' = [watch EXCEPT ![newest] = "watching"]
    /\ Return(c)
    /\ UNCHANGED <<child, stopping, lastExit, stateLock, newest, alive, service>>

\* the run file or the spawn fails; only the fallback resets the mode
SpawnFails(c) ==
    /\ pc[c] \in {"spawn", "fallback"}
    /\ mode' = IF pc[c] = "fallback" THEN "NotRunning" ELSE mode
    /\ Return(c)
    /\ UNCHANGED <<child, stopping, lastExit, stateLock, processes, service>>

------------------------------------------------------------------------------
(* Processes and their exit tasks. *)

\* a sidecar ends, killed or by itself
Exit(p) ==
    /\ p \in alive
    /\ alive' = alive \ {p}
    /\ UNCHANGED <<tracked, callers, newest, watch, service>>

\* clear_running_child_sidecar, first part: send_replace wakes the waiters
ReportExit(p) ==
    /\ watch[p] = "watching" /\ p \notin alive
    /\ lastExit' = PidOf[p]
    /\ watch' = [watch EXCEPT ![p] = "reported"]
    /\ UNCHANGED <<mode, child, stopping, stateLock, callers, newest, alive, service>>

\* second part, under sidecar_state_lock: is the process still the tracked one?
IsTrackedAlways(p) == TRUE
IsTracked(p) == PidOf[p] \in {ChildPid, stopping}

CheckExit(p) ==
    /\ watch[p] = "reported" /\ stateLock = 0
    /\ stateLock' = IF IsTracked(p) THEN p ELSE 0
    /\ watch' = [watch EXCEPT ![p] = IF IsTracked(p) THEN "clearing" ELSE "done"]
    /\ UNCHANGED <<mode, child, stopping, lastExit, callers, newest, alive, service>>

ClearExit(p) ==
    /\ watch[p] = "clearing"
    /\ stopping' = 0 /\ child' = 0 /\ mode' = "NotRunning"
    /\ stateLock' = 0
    /\ watch' = [watch EXCEPT ![p] = "done"]
    /\ UNCHANGED <<lastExit, callers, newest, alive, service>>

\* the service comes and goes, and so does the core it runs
ServiceChanges ==
    /\ serviceReady' = ~serviceReady
    /\ UNCHANGED <<tracked, callers, processes, serviceCore>>

Step(c) ==
    \/ Lock(c) \/ Enter(c)
    \/ StopNothing(c) \/ StopService(c)
    \/ StopSidecar(c) \/ TakeChild(c) \/ MarkStopping(c) \/ Kill(c) \/ KillFails(c)
    \/ WaitDone(c) \/ WaitTimeout(c) \/ Forget(c) \/ Settle(c)
    \/ Prepare(c) \/ Choose(c) \/ StartByService(c) \/ ServiceFails(c)
    \/ Spawn(c) \/ Track(c) \/ Started(c) \/ SpawnFails(c)

ExitTask(p) == ReportExit(p) \/ CheckExit(p) \/ ClearExit(p)

Next ==
    \/ \E c \in Callers : Request(c) \/ Step(c)
    \/ \E p \in Sidecars : Exit(p) \/ ExitTask(p)
    \/ ServiceChanges

Spec == Init /\ [][Next]_vars

\* lifecycle_lock is granted in order of arrival; every await of a caller has a
\* timeout or an answer; exit tasks are scheduled
Fairness ==
    /\ \A c \in Callers : WF_vars(Step(c)) /\ SF_vars(Lock(c))
    /\ \A p \in Sidecars : WF_vars(ExitTask(p))

FairSpec == Spec /\ Fairness

------------------------------------------------------------------------------
(* Properties. *)

Labels == {"idle", "lock", "enter", "stop", "take", "mark", "kill", "wait", "forget", "settle",
           "prepare", "choose", "service", "fallback", "spawn", "track", "started"}
OsPids == {0} \cup {PidOf[p] : p \in Sidecars}

\* Every variable has its type, and lifecycle_lock is held exactly while a caller works.
TypeOK ==
    /\ mode \in Modes
    /\ child \in 0 .. MaxSidecars /\ stateLock \in 0 .. MaxSidecars
    /\ stopping \in OsPids /\ lastExit \in OsPids
    /\ lock = {c \in Callers : pc[c] \notin {"idle", "lock"}}
    /\ task \in [Callers -> Tasks] /\ pc \in [Callers -> Labels] /\ taken \in [Callers -> OsPids]
    /\ newest \in 0 .. MaxSidecars /\ alive \subseteq 1 .. newest
    /\ watch \in [Sidecars -> {"none", "watching", "reported", "clearing", "done"}]
    /\ serviceCore \in BOOLEAN /\ serviceReady \in BOOLEAN
    /\ requests \in 0 .. MaxRequests

\* "Do not forget that owned process and start a second one while its exit is
\* still unconfirmed": whatever callers and exits do, one sidecar runs at most.
AtMostOneSidecar == \A p, q \in alive : p = q

\* No sidecar is orphaned: one that runs is the tracked child, or the one being
\* stopped, or in the hands of the caller that just spawned or took it.
NoOrphan ==
    \A p \in alive :
        \/ p = child
        \/ PidOf[p] = stopping
        \/ \E c \in lock : \/ pc[c] = "mark" /\ taken[c] = PidOf[p]
                           \/ pc[c] = "track" /\ p = newest

\* Whatever callers and exits do, a sidecar is never out of the app's hands: one
\* runs at most, and it is known to the state or to a caller.
SidecarsControlled == AtMostOneSidecar /\ NoOrphan

\* A reported exit is not overwritten in the watch channel before the caller that
\* waits for it reads it.
ConfirmationIsKept ==
    \A c \in Callers, p \in Sidecars :
        pc[c] = "wait" /\ taken[c] = PidOf[p] /\ watch[p] \in {"reported", "clearing", "done"}
            => lastExit = PidOf[p]

\* When nobody works on the core, the tracked child runs and the mode says so,
\* and a running sidecar is never reported as NotRunning or as Service.
StateIsTruthful ==
    lock = {} /\ (\A p \in Sidecars : p \in alive \/ watch[p] \in {"none", "done"}) =>
        /\ child # 0 => child \in alive /\ mode = "Sidecar"
        /\ alive # {} => mode = "Sidecar"

\* What the app knows of its processes is true: exits that a caller waits for are
\* not missed, and at rest mode and child are those of the running sidecar.
KnowledgeIsTrue == ConfirmationIsKept /\ StateIsTruthful

\* A stop of the sidecar that returns success leaves no sidecar running.
StoppedMeansGone ==
    [][\A c \in Callers : pc[c] = "settle" /\ pc'[c] # "settle" => alive = {}]_vars

\* Every start, stop or restart returns, whatever exits, kills and the service do,
\* and the death of the tracked core is noticed.
RequestsReturn ==
    /\ \A c \in Callers : (pc[c] # "idle") ~> (pc[c] = "idle")
    /\ \A p \in Sidecars : (child = p /\ p \notin alive) ~> (child # p)
==============================================================================
