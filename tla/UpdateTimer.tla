------------------------------ MODULE UpdateTimer ------------------------------
(***************************************************************************)
(* The automatic updates of the profiles: core/timer.rs.  One task owns a  *)
(* DelayQueue and the states of the profiles' tasks; it takes expired      *)
(* entries and the commands of a channel.  Whoever changes a profile calls *)
(* refresh afterwards, on a task of its own.  Time passes in ticks: the    *)
(* intervals, the waits of the queue and the ages of updates count them.   *)
(* A key of the queue is an index of its slab and is used again.           *)
(***************************************************************************)
EXTENDS Integers, Sequences, FiniteSets, Functions

CONSTANTS
    Uids,           \* profiles
    Intervals,      \* update intervals a profile may have, in ticks
    Callers,        \* tasks that change profiles and refresh the timer
    MaxUpdate,      \* ticks an update takes at most: wait_until_resolve_done and the 40 s of async_task
    NoKey,          \* TaskState.key = None
    MaxEdits        \* bound: changes of profiles

ASSUME TimerAssumption ==
    /\ IsFiniteSet(Uids)
    /\ Intervals \subseteq Nat /\ MaxUpdate \in Nat /\ MaxEdits \in Nat /\ NoKey \notin Nat
    /\ \A i \in Intervals : MaxUpdate < i       \* 45 s against a minute at least

VARIABLES
    items,          \* interval of each profile in the index, 0 without automatic updates
    timer_map,      \* the map of the last refresh
    refresh,        \* what each caller's refresh is about to do, and its new_map
    commands,       \* the channel command_tx, command_rx
    queue,          \* DelayQueue: key -> profile and ticks to wait
    tasks,          \* profiles that have a TaskState
    key, interval, running,     \* their TaskStates
    updates,        \* ages of the update tasks under way, per profile
    edits,          \* bound
    behind,         \* the last refresh missed a change or was overtaken (history)
    readded         \* profiles that were added again before an update of theirs ended (history)

taskVars == <<queue, tasks, key, interval, running, updates, readded>>
vars == <<items, timer_map, refresh, commands, edits, behind, taskVars>>

Maps == [Uids -> {0} \cup Intervals]
Apply(map) == [cmd |-> "Apply", map |-> map]
RunNow(u) == [cmd |-> "RunNow", uid |-> u]
TaskFinished(u) == [cmd |-> "TaskFinished", uid |-> u]

\* init: the first refresh is done, and overdue profiles are to be updated at once
Init ==
    /\ items \in Maps /\ timer_map = items
    /\ refresh = [c \in Callers |-> [at |-> "idle"]]
    /\ \E overdue \in SUBSET {u \in Uids : items[u] > 0} :
          \E order \in Bijection(1 .. Cardinality(overdue), overdue) :
             commands = <<Apply(items)>> \o [n \in DOMAIN order |-> RunNow(order[n])]
    /\ queue = <<>> /\ tasks = {}
    /\ key = [u \in Uids |-> NoKey] /\ interval = [u \in Uids |-> 0]
    /\ running = [u \in Uids |-> FALSE] /\ updates = [u \in Uids |-> <<>>]
    /\ edits = 0 /\ behind = FALSE /\ readded = {}

------------------------------------------------------------------------------
(* Changes of profiles, and refresh. *)

\* Mutant of PatchProfile: no refresh follows.
PatchProfileQuietly(c, u, i) ==
    /\ refresh[c].at = "idle" /\ edits < MaxEdits /\ items[u] # i
    /\ items' = [items EXCEPT ![u] = i] /\ edits' = edits + 1
    /\ UNCHANGED <<timer_map, refresh, commands, behind, taskVars>>

\* patch_profile or delete_profile: a refresh follows
PatchProfile(c, u, i) ==
    /\ refresh[c].at = "idle" /\ edits < MaxEdits /\ items[u] # i
    /\ items' = [items EXCEPT ![u] = i] /\ edits' = edits + 1
    /\ refresh' = [refresh EXCEPT ![c] = [at |-> "start"]]
    /\ UNCHANGED <<timer_map, commands, behind, taskVars>>

\* import_profile, or an update that brings the interval the server names: no refresh follows
ImportProfile(u, i) ==
    /\ edits < MaxEdits /\ items[u] = 0 /\ i > 0
    /\ items' = [items EXCEPT ![u] = i] /\ edits' = edits + 1
    /\ behind' = TRUE
    /\ UNCHANGED <<timer_map, refresh, commands, taskVars>>

GenMap(c) ==
    /\ refresh[c].at = "start"
    /\ refresh' = [refresh EXCEPT ![c] = [at |-> "store", map |-> items]]
    /\ UNCHANGED <<items, timer_map, commands, edits, behind, taskVars>>

\* under the write lock of timer_map; the command is sent after the lock is dropped
StoreMap(c) ==
    /\ refresh[c].at = "store"
    /\ IF timer_map = refresh[c].map
       THEN /\ refresh' = [refresh EXCEPT ![c] = [at |-> "idle"]]
            /\ UNCHANGED <<timer_map, behind>>
       ELSE /\ timer_map' = refresh[c].map
            /\ refresh' = [refresh EXCEPT ![c].at = "send"]
            /\ behind' = \/ items # refresh[c].map
                         \/ \E d \in Callers : refresh[d].at = "send"
    /\ UNCHANGED <<items, commands, edits, taskVars>>

SendMap(c) ==
    /\ refresh[c].at = "send"
    /\ commands' = Append(commands, Apply(refresh[c].map))
    /\ refresh' = [refresh EXCEPT ![c] = [at |-> "idle"]]
    /\ UNCHANGED <<items, timer_map, edits, behind, taskVars>>

------------------------------------------------------------------------------
(* run_scheduler. *)

\* places for new entries in the slab: one free index each
Places(q, new) ==
    {at \in [new -> {k \in 0 .. Cardinality(DOMAIN q) + Cardinality(new) - 1 : k \notin DOMAIN q}] :
        IsInjective(at)}

Without(q, ks) == [k \in DOMAIN q \ ks |-> q[k]]
\* q with an entry for each profile of at, due after its interval
With(q, at, after) ==
    [k \in DOMAIN q \cup Range(at) |->
        IF k \in DOMAIN q THEN q[k]
        ELSE LET u == CHOOSE v \in DOMAIN at : at[v] = k IN [uid |-> u, wait |-> after[u]]]

Command(c) == commands # <<>> /\ Head(commands).cmd = c /\ commands' = Tail(commands)

\* apply_timer_map, with insert_task and update_task_interval
ApplyTimerMap ==
    /\ Command("Apply")
    /\ LET map == Head(commands).map
           kept == {u \in tasks : map[u] > 0}
           new == {u \in Uids \ tasks : map[u] > 0}
           changed == {u \in kept : interval[u] # map[u]}
           left == Without(queue, {key[u] : u \in tasks \ kept})
           kicked == [k \in DOMAIN left |->
                        IF \E u \in changed : key[u] = k
                        THEN [left[k] EXCEPT !.wait = map[CHOOSE u \in changed : key[u] = k]]
                        ELSE left[k]]
           unscheduled == new \cup {u \in changed : key[u] = NoKey /\ ~running[u]}
       IN \E at \in Places(kicked, unscheduled) :
             /\ queue' = With(kicked, at, map)
             /\ key' = [u \in Uids |-> IF u \in unscheduled THEN at[u]
                                       ELSE IF u \in kept THEN key[u] ELSE NoKey]
             /\ tasks' = kept \cup new
             /\ interval' = map
             /\ running' = [u \in Uids |-> u \in kept /\ running[u]]
             /\ readded' = readded \cup {u \in new : updates[u] # <<>> \/ TaskFinished(u) \in Range(commands)}
    /\ UNCHANGED <<items, timer_map, refresh, edits, behind, updates>>

\* spawn_update_task
Spawn(u) == updates' = [updates EXCEPT ![u] = Append(@, 0)]

\* an entry of the queue expires
RunExpiredTask(k) ==
    /\ k \in DOMAIN queue /\ queue[k].wait = 0
    /\ queue' = Without(queue, {k})
    /\ LET u == queue[k].uid
       IN IF u \notin tasks THEN UNCHANGED <<key, running, updates>>
          ELSE /\ key' = [key EXCEPT ![u] = NoKey]
               /\ IF running[u] THEN UNCHANGED <<running, updates>>
                  ELSE running' = [running EXCEPT ![u] = TRUE] /\ Spawn(u)
    /\ UNCHANGED <<items, timer_map, refresh, commands, edits, behind, tasks, interval, readded>>

\* Mutant of RunTaskNow: the entry stays in the queue.
RunTaskNowKeepsEntry ==
    /\ Command("RunNow")
    /\ LET u == Head(commands).uid
       IN IF u \notin tasks \/ running[u] THEN UNCHANGED <<key, running, updates>>
          ELSE running' = [running EXCEPT ![u] = TRUE] /\ Spawn(u) /\ key' = [key EXCEPT ![u] = NoKey]
    /\ UNCHANGED <<items, timer_map, refresh, edits, behind, queue, tasks, interval, readded>>

RunTaskNow ==
    /\ Command("RunNow")
    /\ LET u == Head(commands).uid
       IN IF u \notin tasks \/ running[u] THEN UNCHANGED <<queue, key, running, updates>>
          ELSE /\ running' = [running EXCEPT ![u] = TRUE] /\ Spawn(u)
               /\ queue' = Without(queue, {key[u]})
               /\ key' = [key EXCEPT ![u] = NoKey]
    /\ UNCHANGED <<items, timer_map, refresh, edits, behind, tasks, interval, readded>>

\* Mutant of FinishTask: an update that ended is not followed by another.
FinishTaskForGood ==
    /\ Command("TaskFinished")
    /\ LET u == Head(commands).uid
       IN IF u \notin tasks THEN UNCHANGED running ELSE running' = [running EXCEPT ![u] = FALSE]
    /\ UNCHANGED <<items, timer_map, refresh, edits, behind, queue, tasks, key, interval, updates, readded>>

FinishTask ==
    /\ Command("TaskFinished")
    /\ LET u == Head(commands).uid
       IN IF u \notin tasks THEN UNCHANGED <<queue, key, running>>
          ELSE \E at \in Places(queue, {u}) :
                  /\ running' = [running EXCEPT ![u] = FALSE]
                  /\ queue' = With(queue, at, interval)
                  /\ key' = [key EXCEPT ![u] = at[u]]
    /\ UNCHANGED <<items, timer_map, refresh, edits, behind, tasks, interval, updates, readded>>

------------------------------------------------------------------------------

\* async_task is over, by success, failure or its timeout: TaskFinished is sent
UpdateEnds(u) ==
    \E n \in DOMAIN updates[u] :
        /\ updates' = [updates EXCEPT ![u] = [m \in 1 .. Len(@) - 1 |-> @[IF m < n THEN m ELSE m + 1]]]
        /\ commands' = Append(commands, TaskFinished(u))
        /\ UNCHANGED <<items, timer_map, refresh, edits, behind,
                       queue, tasks, key, interval, running, readded>>

\* Mutant of Tick: the 40 s do not end an update.
TickPastTimeout ==
    /\ commands = <<>> /\ \A k \in DOMAIN queue : queue[k].wait > 0
    /\ queue' = [k \in DOMAIN queue |-> [queue[k] EXCEPT !.wait = @ - 1]]
    /\ updates' = [u \in Uids |-> [n \in DOMAIN updates[u] |-> updates[u][n] + 1]]
    /\ UNCHANGED <<items, timer_map, refresh, commands, edits, behind, tasks, key, interval, running, readded>>

\* time passes when the scheduler has nothing to do and no update is over its time
Tick ==
    /\ commands = <<>> /\ \A k \in DOMAIN queue : queue[k].wait > 0
    /\ \A u \in Uids : \A n \in DOMAIN updates[u] : updates[u][n] < MaxUpdate
    /\ queue' = [k \in DOMAIN queue |-> [queue[k] EXCEPT !.wait = @ - 1]]
    /\ updates' = [u \in Uids |-> [n \in DOMAIN updates[u] |-> updates[u][n] + 1]]
    /\ UNCHANGED <<items, timer_map, refresh, commands, edits, behind, tasks, key, interval, running, readded>>

Scheduler ==
    \/ ApplyTimerMap \/ RunTaskNow \/ FinishTask
    \/ \E k \in DOMAIN queue : RunExpiredTask(k)
Refresh(c) == GenMap(c) \/ StoreMap(c) \/ SendMap(c)

Next ==
    \/ \E c \in Callers, u \in Uids, i \in {0} \cup Intervals : PatchProfile(c, u, i)
    \/ \E u \in Uids, i \in Intervals : ImportProfile(u, i)
    \/ \E c \in Callers : Refresh(c)
    \/ Scheduler
    \/ \E u \in Uids : UpdateEnds(u)
    \/ Tick

Spec == Init /\ [][Next]_vars

\* Tokio runs the scheduler, the callers and the updates, and time passes
FairSpec ==
    /\ Spec
    /\ WF_vars(Scheduler) /\ WF_vars(Tick)
    /\ \A k \in 0 .. 2 * Cardinality(Uids) + MaxEdits : WF_vars(RunExpiredTask(k))
    /\ \A c \in Callers : WF_vars(Refresh(c))
    /\ \A u \in Uids : WF_vars(UpdateEnds(u))

------------------------------------------------------------------------------
(* Properties. *)

Idle == [at |-> "idle"]
Commands == {Apply(map) : map \in Maps} \cup {RunNow(u) : u \in Uids} \cup {TaskFinished(u) : u \in Uids}

\* Type correctness: the index, the map and the task's own states keep their types,
\* and no entry of the queue is overdue by more than the tick that expires it.
TypeOK ==
    /\ items \in Maps /\ timer_map \in Maps
    /\ refresh \in [Callers -> [at : {"idle", "start"}] \cup [at : {"store", "send"}, map : Maps]]
    /\ commands \in Seq(Commands)
    /\ DOMAIN queue \subseteq Nat /\ Range(queue) \subseteq [uid : Uids, wait : Nat]
    /\ tasks \subseteq Uids
    /\ key \in [Uids -> Nat \cup {NoKey}] /\ interval \in Maps /\ running \in [Uids -> BOOLEAN]
    /\ updates \in [Uids -> Seq(0 .. MaxUpdate)]

\* A key that a task holds is in the queue and is the task's own: remove and
\* reset panic on a missing key, and an index used again would cut short or
\* drop the updates of another profile.
KeyIsQueued ==
    \A u \in Uids : key[u] # NoKey =>
        u \in tasks /\ key[u] \in DOMAIN queue /\ queue[key[u]].uid = u

Entries(u) == {k \in DOMAIN queue : queue[k].uid = u}
Finishing(u) == {n \in DOMAIN commands : commands[n] = TaskFinished(u)}

\* A profile with automatic updates always has exactly one thing ahead that
\* leads to its next update (an entry, an update under way or its end in the
\* channel), so that none is lost or doubled; a profile without has no entry.
\* One that came back while an update of its earlier life ran is excluded: it
\* has its own entry and gets a second one from the old update's end.
OneTurnAhead ==
    \A u \in Uids \ readded :
        IF u \in tasks
        THEN Cardinality(Entries(u)) + Len(updates[u]) + Cardinality(Finishing(u)) = 1
        ELSE Entries(u) = {}

\* No profile is updated twice at the same time, also one that was removed while
\* its update runs: two update_profile of one uid would write one file.
OneUpdateAtATime == \A u \in Uids \ readded : Len(updates[u]) <= 1

\* The queue serves the tasks: their keys are valid, a profile with automatic updates
\* has one turn ahead, and never two updates at a time.
QueueServesTasks == KeyIsQueued /\ OneTurnAhead /\ OneUpdateAtATime

\* With every refresh and command done, the tasks are the profiles with
\* automatic updates and have their intervals, unless the last refresh missed a
\* change or was overtaken by another one.
TasksFollowProfiles ==
    (commands = <<>> /\ \A c \in Callers : refresh[c] = Idle) =>
        behind \/ (tasks = {u \in Uids : items[u] > 0} /\ \A u \in tasks : interval[u] = items[u])

\* A profile whose task stays is updated again and again.
ProfilesKeepUpdating ==
    \A u \in Uids : (<>[](u \in tasks)) => []<>(updates[u] # <<>>)
================================================================================
