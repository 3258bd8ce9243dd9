------------------------------ MODULE SystemProxy ------------------------------
(***************************************************************************)
(* The settings of the system proxy and what the operating system has:     *)
(* patch_verge of feat/config.rs on the draft of the settings, Sysopt of   *)
(* core/sysopt.rs, and the end of the application in feat/window.rs.       *)
(*                                                                         *)
(* Patches run concurrently.  Each edits the one draft, has the operating  *)
(* system follow it, refreshes the guard, publishes the draft and saves.   *)
(* The other settings of a patch are the steps that may fail before and    *)
(* after those of the proxy.                                               *)
(***************************************************************************)
EXTENDS Naturals, Sequences

CONSTANTS
    Patchers,       \* callers of patch_verge: the windows' commands, hotkeys, the tray
    Fails,          \* what may fail: a subset of {"before", "os", "after", "save", "reset"}
    PacOffClears,   \* does turning PAC off clear the global proxy, as on Windows?
    MaxPatches,     \* patches in a behaviour
    None

Fields == {"sys", "pac", "guard"}

ASSUME ProxyAssumption ==
    /\ Fails \subseteq {"before", "os", "after", "save", "reset"}
    /\ PacOffClears \in BOOLEAN /\ MaxPatches \in Nat
    /\ None \notin [Fields -> BOOLEAN] \cup Patchers

VARIABLES
    data,           \* the published settings: enable_system_proxy, proxy_auto_config, enable_proxy_guard
    draft,          \* their draft, or None
    file,           \* the settings file
    os,             \* what the operating system uses: the global proxy, PAC
    inner,          \* inner_proxy
    guardType,      \* what the guard enforces: "none" or a field of os
    guardOn,        \* does the guard's task run?
    lock,           \* who holds update_lock, or None
    pc,
    seen,           \* the settings each patch has read last
    todo,           \* the writes to the operating system each patch has left
    quitting,       \* "no", then the steps of quit, then "gone"
    tainted,        \* a patch or a write has failed (history)
    crossed,        \* what may be stale, as patches read it before and used it after another one (history)
    raced,          \* a patch was running when quit began or after (history)
    count

settings == <<data, draft, file>>
proxy == <<os, inner, guardType, guardOn>>
locals == <<lock, pc, seen, todo>>
history == <<tainted, crossed, raced, count>>
vars == <<settings, proxy, locals, quitting, history>>

Latest == IF draft # None THEN draft ELSE data
Goto(p, l) == pc' = [pc EXCEPT ![p] = l]
Alive == quitting # "gone"

\* `enable_system_proxy` is the master switch
Wanted(s) == [sys |-> s.sys /\ ~s.pac, pac |-> s.sys /\ s.pac]
WantedGuard(s) == IF ~s.sys \/ ~s.guard THEN "none" ELSE IF s.pac THEN "pac" ELSE "sys"

\* at boot the operating system and the guard are made to follow the settings
Init ==
    /\ data \in [Fields -> BOOLEAN] /\ draft = None /\ file = data
    /\ os = Wanted(data) /\ inner = Wanted(data)
    /\ guardType = WantedGuard(data) /\ guardOn = (WantedGuard(data) # "none")
    /\ lock = None
    /\ pc = [p \in Patchers |-> "idle"] /\ seen = [p \in Patchers |-> data]
    /\ todo = [p \in Patchers |-> <<>>]
    /\ quitting = "no"
    /\ tainted = FALSE /\ crossed = {} /\ raced = FALSE /\ count = 0

------------------------------------------------------------------------------
(* patch_verge *)

\* a patch sets one field
Edit(p) ==
    /\ Alive /\ pc[p] = "idle" /\ count < MaxPatches
    /\ count' = count + 1 /\ raced' = (raced \/ quitting # "no")
    /\ \E f \in Fields, b \in BOOLEAN : draft' = [Latest EXCEPT ![f] = b]
    /\ Goto(p, "before")
    /\ UNCHANGED <<data, file, proxy, lock, seen, todo, quitting, tainted, crossed>>

\* the `?` of process_terminated_flags returns from patch_verge: nothing is discarded
Abandon(p) ==
    /\ Goto(p, "idle") /\ tainted' = TRUE
    /\ todo' = [todo EXCEPT ![p] = <<>>]
    /\ lock' = IF lock = p THEN None ELSE lock
    /\ UNCHANGED <<settings, guardType, guardOn, inner, seen, quitting, crossed, raced, count>>

\* a restart of the core, a configuration that is refused or an update that is busy
FailBefore(p) ==
    /\ Alive /\ pc[p] = "before" /\ "before" \in Fails
    /\ Abandon(p) /\ UNCHANGED os

(* update_sysproxy *)

\* Mutant of Lock: the lock is not waited for.
LockUnheld(p) ==
    /\ Alive /\ pc[p] = "before"
    /\ lock' = p /\ seen' = [seen EXCEPT ![p] = Latest] /\ Goto(p, "locked")
    /\ UNCHANGED <<settings, proxy, todo, quitting, history>>

\* update_lock is taken and then the latest settings are read
Lock(p) ==
    /\ Alive /\ pc[p] = "before" /\ lock = None
    /\ lock' = p /\ seen' = [seen EXCEPT ![p] = Latest] /\ Goto(p, "locked")
    /\ UNCHANGED <<settings, proxy, todo, quitting, history>>

\* proxy_apply_steps
ApplySteps(w) == IF w.sys /\ ~w.pac THEN <<"pac", "sys">> ELSE <<"sys", "pac">>

\* inner_proxy and the guard's type follow what was read
Prepare(p) ==
    /\ Alive /\ pc[p] = "locked"
    /\ inner' = Wanted(seen[p]) /\ guardType' = WantedGuard(seen[p])
    /\ todo' = [todo EXCEPT ![p] = ApplySteps(Wanted(seen[p]))]
    /\ Goto(p, "apply")
    /\ UNCHANGED <<settings, os, guardOn, lock, seen, quitting, history>>

\* set_system_proxy or set_auto_proxy writes one of the two
Written(f, b) ==
    IF f = "pac" /\ ~b /\ PacOffClears THEN [sys |-> FALSE, pac |-> FALSE] ELSE [os EXCEPT ![f] = b]

Apply(p) ==
    /\ Alive /\ pc[p] = "apply" /\ todo[p] # <<>>
    /\ \/ /\ os' = Written(Head(todo[p]), Wanted(seen[p])[Head(todo[p])])
          /\ todo' = [todo EXCEPT ![p] = Tail(@)]
          /\ UNCHANGED <<settings, inner, guardType, guardOn, lock, pc, seen, quitting, history>>
       \/ "os" \in Fails /\ Abandon(p) /\ UNCHANGED os

Unlock(p) ==
    /\ Alive /\ pc[p] = "apply" /\ todo[p] = <<>>
    /\ lock' = None /\ Goto(p, "refresh")
    /\ UNCHANGED <<settings, proxy, seen, todo, quitting, history>>

(* refresh_guard, the steps after it, apply and save_file *)

\* the settings are read without a lock
ReadForGuard(p) ==
    /\ Alive /\ pc[p] = "refresh"
    /\ seen' = [seen EXCEPT ![p] = Latest] /\ Goto(p, "guard")
    /\ UNCHANGED <<settings, proxy, lock, todo, quitting, history>>

StartOrStop(p) ==
    /\ Alive /\ pc[p] = "guard"
    /\ guardOn' = (seen[p].sys /\ seen[p].guard)
    /\ crossed' = IF seen[p] # Latest THEN crossed \cup {"guard"} ELSE crossed
    /\ Goto(p, "after")
    /\ UNCHANGED <<settings, os, inner, guardType, lock, seen, todo, quitting, tainted, raced, count>>

\* hotkeys, the tray, the log
FailAfter(p) ==
    /\ Alive /\ pc[p] = "after" /\ "after" \in Fails
    /\ Abandon(p) /\ UNCHANGED os

\* another patch has published its settings and not yet saved them
OtherSaves == \E q \in Patchers : pc[q] = "save"

\* apply(), then data_arc()
Commit(p) ==
    /\ Alive /\ pc[p] = "after"
    /\ data' = Latest /\ draft' = None
    /\ seen' = [seen EXCEPT ![p] = Latest] /\ Goto(p, "save")
    /\ crossed' = IF OtherSaves THEN crossed \cup {"file"} ELSE crossed
    /\ UNCHANGED <<file, proxy, lock, todo, quitting, tainted, raced, count>>

\* save_file writes the snapshot, newer or not than what the file has
Save(p) ==
    /\ Alive /\ pc[p] = "save"
    /\ \/ file' = seen[p] /\ UNCHANGED tainted
       \/ "save" \in Fails /\ tainted' = TRUE /\ UNCHANGED file
    /\ Goto(p, "idle")
    /\ UNCHANGED <<data, draft, proxy, lock, seen, todo, quitting, crossed, raced, count>>

------------------------------------------------------------------------------
(* the guard, and quit *)

\* while its task runs the guard writes what its type asks for
Enforce ==
    /\ Alive /\ guardOn /\ guardType # "none"
    /\ os' = [os EXCEPT ![guardType] = TRUE]
    /\ UNCHANGED <<settings, inner, guardType, guardOn, locals, quitting, history>>

Step(from, to) == quitting = from /\ quitting' = to

\* Mutant of Quit: a draft is published even where there is none.
QuitTakesDraft ==
    /\ Step("no", "cleaning")
    /\ data' = draft /\ draft' = None /\ file' = draft
    /\ raced' = \E p \in Patchers : pc[p] # "idle"
    /\ UNCHANGED <<proxy, locals, tainted, crossed, count>>

\* apply_all_and_save_file publishes whatever draft there is
Quit ==
    /\ Step("no", "cleaning")
    /\ data' = Latest /\ draft' = None /\ file' = Latest
    /\ raced' = \E p \in Patchers : pc[p] # "idle"
    /\ UNCHANGED <<proxy, locals, tainted, crossed, count>>

\* Mutant of Skip: the published settings do not matter.
SkipAlways ==
    /\ Step("cleaning", "exiting")
    /\ UNCHANGED <<settings, proxy, locals, history>>

\* clean_with_core_timeout resets nothing when the published settings have the proxy off
Skip ==
    /\ ~data.sys
    /\ Step("cleaning", "exiting")
    /\ UNCHANGED <<settings, proxy, locals, history>>

\* reset_sysproxy, without update_lock
Reset ==
    /\ data.sys
    /\ Step("cleaning", "reset")
    /\ guardType' = "none" /\ inner' = [sys |-> FALSE, pac |-> FALSE]
    /\ UNCHANGED <<settings, os, guardOn, locals, history>>

ResetSys ==
    /\ Step("reset", "resetPac")
    /\ os' = Written("sys", FALSE)
    /\ UNCHANGED <<settings, inner, guardType, guardOn, locals, history>>

ResetPac ==
    /\ Step("resetPac", "exiting")
    /\ os' = Written("pac", FALSE)
    /\ UNCHANGED <<settings, inner, guardType, guardOn, locals, history>>

\* a write fails or the 1500 ms are over
ResetFails ==
    /\ "reset" \in Fails
    /\ Step("reset", "exiting") \/ Step("resetPac", "exiting")
    /\ tainted' = TRUE
    /\ UNCHANGED <<settings, proxy, locals, crossed, raced, count>>

Exit ==
    /\ Step("exiting", "gone")
    /\ UNCHANGED <<settings, proxy, locals, history>>

Patch(p) ==
    \/ Edit(p) \/ FailBefore(p) \/ Lock(p) \/ Prepare(p) \/ Apply(p) \/ Unlock(p)
    \/ ReadForGuard(p) \/ StartOrStop(p) \/ FailAfter(p) \/ Commit(p) \/ Save(p)

QuitSteps == Quit \/ Skip \/ Reset \/ ResetSys \/ ResetPac \/ ResetFails \/ Exit

Next == (\E p \in Patchers : Patch(p)) \/ Enforce \/ QuitSteps

Spec == Init /\ [][Next]_vars

------------------------------------------------------------------------------
(* Properties. *)

\* Every variable has its type.
TypeOK ==
    /\ {data, file} \subseteq [Fields -> BOOLEAN] /\ draft \in [Fields -> BOOLEAN] \cup {None}
    /\ {os, inner} \subseteq [{"sys", "pac"} -> BOOLEAN]
    /\ guardType \in {"none", "sys", "pac"} /\ guardOn \in BOOLEAN
    /\ lock \in Patchers \cup {None}
    /\ pc \in [Patchers -> {"idle", "before", "locked", "apply", "refresh", "guard", "after", "save"}]
    /\ seen \in [Patchers -> [Fields -> BOOLEAN]]
    /\ todo \in [Patchers -> Seq({"sys", "pac"})]
    /\ quitting \in {"no", "cleaning", "reset", "resetPac", "exiting", "gone"}
    /\ tainted \in BOOLEAN /\ crossed \subseteq {"guard", "file"} /\ raced \in BOOLEAN
    /\ count \in 0 .. MaxPatches

Quiet == quitting = "no" /\ \A p \in Patchers : pc[p] = "idle"

\* Whatever patches ran concurrently, when they are over and none failed, no draft is
\* left and the operating system uses what the settings say; the guard enforces it, if
\* the settings want that, unless refresh_guard used settings that another patch had
\* changed since it read them; and the file has the settings, unless a patch published
\* its own while another was saving: the older write may come last.
SettingsTakeEffect ==
    Quiet /\ ~tainted =>
        /\ draft = None /\ os = Wanted(data)
        /\ guardType = WantedGuard(data)
        /\ "guard" \notin crossed => guardOn = (data.sys /\ data.guard)
        /\ "file" \notin crossed => file = data

\* "the system proxy is turned off": after a quit that no patch ran into the operating
\* system uses no proxy of the application that is gone, if no patch and no write failed.
QuitTurnsProxyOff ==
    quitting = "gone" /\ ~raced /\ ~tainted => os = [sys |-> FALSE, pac |-> FALSE]

\* The same for applications in which patches failed.
QuitAlwaysTurnsProxyOff ==
    quitting = "gone" /\ ~raced => os = [sys |-> FALSE, pac |-> FALSE]
================================================================================
