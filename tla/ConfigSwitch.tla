------------------------------ MODULE ConfigSwitch ------------------------------
(***************************************************************************)
(* Switching the profile: cmd/profile.rs on top of manager/config.rs, the  *)
(* drafts of the profile index and of the runtime configuration, the run   *)
(* file and the core.  A switch edits the draft of the index, has the      *)
(* runtime configuration generated, validated, written and loaded, and     *)
(* publishes the index; every failure discards and restores.  Restarts of  *)
(* the core run beside it and read the same drafts.                        *)
(*                                                                         *)
(* A configuration is named by the profile it was generated from, 0 is     *)
(* none.  CoreLifecycle details what a stop and a start are here.          *)
(***************************************************************************)
EXTENDS Naturals

CONSTANTS
    Profiles,       \* a set of positive numbers
    Broken,         \* profiles whose configuration the validator refuses
    Switchers,      \* tasks that switch the profile
    Restarters,     \* tasks that restart the core
    Timeouts,       \* can a switch exceed 30 s, and a reload act after its 15 s?
    MaxSwitches     \* switches and restarts in a behaviour

ASSUME SwitchAssumption ==
    /\ Profiles \subseteq Nat \ {0} /\ Broken \subseteq Profiles
    /\ Switchers \cap Restarters = {}
    /\ Timeouts \in BOOLEAN /\ MaxSwitches \in Nat

VARIABLES
    current,        \* committed current of the profile index
    draft,          \* current in the draft of the index, 0 without a draft
    disk,           \* current in profiles.yaml, 0 when a failed write left it partial
    runtime,        \* committed runtime configuration, 0 for none
    runtimeDraft,   \* its draft, 0 for none
    runFile,        \* what the run file holds
    core,           \* what the core runs, 0 when it is stopped
    switching,      \* CURRENT_SWITCHING_PROFILE
    updating,       \* config_update_in_progress
    lifecycle,      \* is lifecycle_lock held?
    pc,
    target,         \* what each switcher switches to
    previous,       \* previous_profile of each switcher
    checked,        \* what each switcher's update generated, then what it validated
    rollback,       \* switchers whose second update restores the old configuration
    astray,         \* what may keep the core from the current profile (history):
                    \* "unrestored": a restoration failed, which the code reports;
                    \* "late": the core acted on a reload the update had given up;
                    \* "read": a restart loaded the draft of an update not through;
                    \* "left": such a draft is still there for a restart to load
    count

index == <<current, draft, disk>>
config == <<runtime, runtimeDraft, runFile, core>>
flags == <<switching, updating, lifecycle>>
locals == <<target, previous, checked, rollback, astray, count>>
vars == <<index, config, flags, pc, locals>>

Actors == Switchers \cup Restarters
Goto(a, l) == pc' = [pc EXCEPT ![a] = l]

\* the application has started: the runtime configuration was generated and
\* validated, the core runs it, and its draft was never applied
Init ==
    /\ current \in Profiles \ Broken /\ draft = 0 /\ disk = current
    /\ runtime = 0 /\ runtimeDraft = current /\ runFile = current /\ core = current
    /\ switching = FALSE /\ updating = FALSE /\ lifecycle = FALSE
    /\ pc = [a \in Actors |-> "idle"]
    /\ target = [s \in Switchers |-> 0] /\ previous = [s \in Switchers |-> 0]
    /\ checked = [s \in Switchers |-> 0] /\ rollback = {} /\ astray = {} /\ count = 0

IndexLatest == IF draft # 0 THEN draft ELSE current
RuntimeLatest == IF runtimeDraft # 0 THEN runtimeDraft ELSE runtime

------------------------------------------------------------------------------
(* patch_profiles_config *)

\* the flag is taken, or the request is answered Busy
Switch(s) ==
    /\ pc[s] = "idle" /\ count < MaxSwitches
    /\ count' = count + 1
    /\ \E p \in Profiles :
           IF switching THEN UNCHANGED <<switching, target, pc>>
           ELSE switching' = TRUE /\ target' = [target EXCEPT ![s] = p] /\ Goto(s, "edit")
    /\ UNCHANGED <<index, config, updating, lifecycle, previous, checked, rollback, astray>>

EditIndex(s) ==
    /\ pc[s] = "edit"
    /\ previous' = [previous EXCEPT ![s] = current]
    /\ draft' = target[s]
    /\ Goto(s, "update")
    /\ UNCHANGED <<current, disk, config, flags, target, checked, rollback, astray, count>>

\* handle_success: save the draft of the index, then publish it
SaveIndex(s) ==
    /\ pc[s] = "valid" /\ s \notin rollback
    /\ disk' = IndexLatest
    /\ Goto(s, "publish")
    /\ UNCHANGED <<current, draft, config, flags, locals>>

Publish(s) ==
    /\ pc[s] = "publish"
    /\ IF draft # 0 THEN current' = draft ELSE UNCHANGED current
    /\ draft' = 0
    /\ switching' = FALSE
    /\ astray' = {}
    /\ Goto(s, "idle")
    /\ UNCHANGED <<disk, config, updating, lifecycle, target, previous, checked, rollback, count>>

\* Mutant of SaveFails: the old configuration is not loaded again.
SaveFailsQuietly(s) ==
    /\ pc[s] = "valid" /\ s \notin rollback
    /\ draft' = 0 /\ disk' = current
    /\ switching' = FALSE
    /\ Goto(s, "idle")
    /\ UNCHANGED <<current, config, updating, lifecycle, locals>>

\* the save failed: the draft is discarded, the old index saved, which may fail too,
\* and the old configuration loaded again
SaveFails(s) ==
    /\ pc[s] = "valid" /\ s \notin rollback
    /\ draft' = 0 /\ disk' \in {current, 0}
    /\ rollback' = rollback \cup {s}
    /\ Goto(s, "update")
    /\ UNCHANGED <<current, config, flags, target, previous, checked, astray, count>>

\* Mutant of RolledBack: a restoration that fails is forgotten.
RolledBackIfValid(s) ==
    /\ pc[s] = "valid" /\ s \in rollback
    /\ rollback' = rollback \ {s}
    /\ switching' = FALSE
    /\ Goto(s, "idle")
    /\ UNCHANGED <<index, config, updating, lifecycle, target, previous, checked, astray, count>>

RolledBack(s) ==
    /\ pc[s] \in {"valid", "failed"} /\ s \in rollback
    /\ rollback' = rollback \ {s}
    /\ astray' = IF pc[s] = "valid" THEN {} ELSE astray \cup {"unrestored"}
    /\ switching' = FALSE
    /\ Goto(s, "idle")
    /\ UNCHANGED <<index, config, updating, lifecycle, target, previous, checked, count>>

\* Mutant of Restore: the edited draft is not applied.
RestoreUnapplied(s) ==
    /\ pc[s] = "failed" /\ s \notin rollback
    /\ draft' = previous[s]
    /\ switching' = FALSE
    /\ Goto(s, "idle")
    /\ UNCHANGED <<current, disk, config, updating, lifecycle, locals>>

\* discard_and_restore: the previous profile is edited, applied and saved, if it can be
Restore(s) ==
    /\ pc[s] = "failed" /\ s \notin rollback
    /\ draft' = 0 /\ current' = previous[s] /\ disk' \in {previous[s], 0}
    /\ switching' = FALSE
    /\ Goto(s, "idle")
    /\ UNCHANGED <<config, updating, lifecycle, locals>>

\* the 30 s are over while the update awaits: its future is dropped, which releases
\* config_update_in_progress and lifecycle_lock but leaves the drafts; what the
\* future waited for, the core's reload or the write of the run file, may be done
HoldsUpdate == {"generate", "store", "check", "write", "reload", "apply", "stop", "start"}
Stored == {"check", "write", "reload", "stop", "start"}
Leaves(s) == IF pc[s] \in Stored THEN {"left"} ELSE {}

Timeout(s) ==
    /\ Timeouts /\ pc[s] \in {"generate"} \cup Stored /\ s \notin rollback
    /\ updating' = FALSE
    /\ lifecycle' = (lifecycle /\ pc[s] # "start")
    /\ \/ /\ astray' = astray \cup Leaves(s) /\ UNCHANGED <<core, runFile>>
       \/ /\ pc[s] \in {"write", "start"} /\ runFile' = RuntimeLatest
          /\ astray' = astray \cup Leaves(s) /\ UNCHANGED core
       \/ /\ pc[s] = "reload" /\ core # 0 /\ core' = runFile
          /\ astray' = astray \cup Leaves(s) \cup {"late"} /\ UNCHANGED runFile
    /\ Goto(s, "failed")
    /\ UNCHANGED <<index, runtime, runtimeDraft, switching, target, previous, checked, rollback, count>>

------------------------------------------------------------------------------
(* update_config_forced *)

UpdateBusy == updating

BeginUpdate(s) ==
    /\ pc[s] = "update"
    /\ IF UpdateBusy THEN Goto(s, "failed") /\ UNCHANGED updating
                     ELSE Goto(s, "generate") /\ updating' = TRUE
    /\ UNCHANGED <<index, config, switching, lifecycle, locals>>

\* enhance reads the index and awaits scripts; then the draft is stored
Generate(s) ==
    /\ pc[s] = "generate"
    /\ checked' = [checked EXCEPT ![s] = IndexLatest]
    /\ Goto(s, "store")
    /\ UNCHANGED <<index, config, flags, target, previous, rollback, astray, count>>

StoreDraft(s) ==
    /\ pc[s] = "store"
    /\ runtimeDraft' = checked[s] /\ astray' = astray \ {"left"}
    /\ Goto(s, "check")
    /\ UNCHANGED <<index, runtime, runFile, core, flags, target, previous, checked, rollback, count>>

\* the update ends without the new configuration and discards its draft
GiveUp(s) ==
    /\ runtimeDraft' = 0 /\ astray' = astray \ {"left"}
    /\ updating' = FALSE
    /\ Goto(s, "failed")

GenerateFails(s) ==
    /\ pc[s] = "generate"
    /\ GiveUp(s)
    /\ UNCHANGED <<index, runtime, runFile, core, switching, lifecycle, target, previous, checked, rollback, count>>

\* what the validator reads is the latest runtime configuration; it may also fail
Accepts(p) == p \notin Broken
Validate(s) ==
    /\ pc[s] = "check"
    /\ checked' = [checked EXCEPT ![s] = RuntimeLatest]
    /\ \/ /\ RuntimeLatest # 0 /\ Accepts(RuntimeLatest)
          /\ Goto(s, "write") /\ UNCHANGED <<runtimeDraft, updating, astray>>
       \/ GiveUp(s)
    /\ UNCHANGED <<index, runtime, runFile, core, switching, lifecycle, target, previous, rollback, count>>

\* generate_file(Run) writes the latest runtime configuration
WriteRunFile(s) ==
    /\ pc[s] = "write" /\ RuntimeLatest # 0
    /\ runFile' = RuntimeLatest
    /\ Goto(s, "reload")
    /\ UNCHANGED <<index, runtime, runtimeDraft, core, flags, locals>>

\* Mutant of WriteFails: the early return skips finish_config_update.
WriteFailsHolding(s) ==
    /\ pc[s] = "write"
    /\ Goto(s, "failed")
    /\ UNCHANGED <<index, config, flags, locals>>

\* the error is returned at once: the draft is not discarded
WriteFails(s) ==
    /\ pc[s] = "write"
    /\ updating' = FALSE /\ astray' = astray \cup {"left"}
    /\ Goto(s, "failed")
    /\ UNCHANGED <<index, config, switching, lifecycle, target, previous, checked, rollback, count>>

\* Mutant of Reload: an error of the reload is ignored.
ReloadUnchecked(s) ==
    /\ pc[s] = "reload"
    /\ core' \in {core} \cup ({runFile} \ {0})
    /\ Goto(s, "apply")
    /\ UNCHANGED <<index, runtime, runtimeDraft, runFile, flags, locals>>

\* reload_config: the core loads the run file, or fails and is restarted; a reload
\* that timed out may have been done all the same
Reload(s) ==
    /\ pc[s] = "reload"
    /\ \/ /\ core # 0 /\ core' = runFile /\ astray' = astray \ {"late", "read"}
          /\ Goto(s, "apply")
       \/ /\ UNCHANGED <<core, astray>>
          /\ Goto(s, "stop")
       \/ /\ Timeouts /\ core # 0 /\ core' = runFile /\ astray' = (astray \ {"read"}) \cup {"late"}
          /\ Goto(s, "stop")
    /\ UNCHANGED <<index, runtime, runtimeDraft, runFile, flags, target, previous, checked, rollback, count>>

ApplyRuntime(s) ==
    /\ pc[s] = "apply"
    /\ runtime' = RuntimeLatest /\ runtimeDraft' = 0
    /\ updating' = FALSE
    /\ Goto(s, "valid")
    /\ UNCHANGED <<index, runFile, core, switching, lifecycle, locals>>

------------------------------------------------------------------------------
(* restart_core, for an update or on its own. *)

Restart(r) ==
    /\ pc[r] = "idle" /\ count < MaxSwitches
    /\ count' = count + 1
    /\ Goto(r, "stop")
    /\ UNCHANGED <<index, config, flags, target, previous, checked, rollback, astray>>

Stop(a) ==
    /\ pc[a] = "stop" /\ ~lifecycle
    /\ lifecycle' = TRUE
    /\ core' = 0 /\ astray' = astray \ {"late", "read"}
    /\ Goto(a, "start")
    /\ UNCHANGED <<index, runtime, runtimeDraft, runFile, switching, updating, target, previous, checked, rollback, count>>

\* the restart returns an error; an update then discards its draft
RestartError(a) ==
    IF a \in Switchers THEN GiveUp(a) ELSE Goto(a, "idle") /\ UNCHANGED <<runtimeDraft, updating, astray>>

StopFails(a) ==
    /\ pc[a] = "stop" /\ ~lifecycle
    /\ RestartError(a)
    /\ UNCHANGED <<index, runtime, runFile, core, switching, lifecycle, target, previous, checked, rollback, count>>

\* the core starts with the run file, written anew from the latest configuration: for
\* a restart of its own, that of an update not through or given up, if there is one
ReadsDraft(a) ==
    a \in Restarters /\ ("left" \in astray \/ \E s \in Switchers : pc[s] \in Stored)

Start(a) ==
    /\ pc[a] = "start" /\ RuntimeLatest # 0
    /\ runFile' = RuntimeLatest /\ core' = RuntimeLatest
    /\ lifecycle' = FALSE
    /\ astray' = astray \cup (IF ReadsDraft(a) THEN {"read"} ELSE {})
    /\ Goto(a, IF a \in Switchers THEN "apply" ELSE "idle")
    /\ UNCHANGED <<index, runtime, runtimeDraft, switching, updating, target, previous, checked, rollback, count>>

StartFails(a) ==
    /\ pc[a] = "start"
    /\ lifecycle' = FALSE
    /\ RestartError(a)
    /\ UNCHANGED <<index, runtime, runFile, core, switching, target, previous, checked, rollback, count>>

------------------------------------------------------------------------------

Update(s) ==
    \/ BeginUpdate(s) \/ Generate(s) \/ StoreDraft(s) \/ GenerateFails(s) \/ Validate(s)
    \/ WriteRunFile(s) \/ WriteFails(s) \/ Reload(s) \/ ApplyRuntime(s)

Restarting(a) == Stop(a) \/ StopFails(a) \/ Start(a) \/ StartFails(a)

Finish(s) == SaveIndex(s) \/ SaveFails(s) \/ Publish(s) \/ RolledBack(s) \/ Restore(s)

Next ==
    \/ \E s \in Switchers : Switch(s) \/ EditIndex(s) \/ Update(s) \/ Finish(s) \/ Timeout(s)
    \/ \E r \in Restarters : Restart(r)
    \/ \E a \in Actors : Restarting(a)

Spec == Init /\ [][Next]_vars

\* every await of a task has an answer or a timeout, and lifecycle_lock is fair
FairSpec ==
    /\ Spec
    /\ \A s \in Switchers : WF_vars(EditIndex(s) \/ Update(s) \/ Finish(s))
    /\ \A a \in Actors : WF_vars(Restarting(a))

------------------------------------------------------------------------------
(* Properties. *)

Configs == Profiles \cup {0}
Causes == {"unrestored", "late", "read", "left"}

\* Every variable has its type, and each flag is set exactly while a task owns it.
TypeOK ==
    /\ current \in Profiles /\ draft \in Configs /\ disk \in Configs
    /\ runtime \in Configs /\ runtimeDraft \in Configs /\ runFile \in Profiles /\ core \in Configs
    /\ switching = (\E s \in Switchers : pc[s] # "idle")
    /\ updating = (\E s \in Switchers : pc[s] \in HoldsUpdate)
    /\ lifecycle = (\E a \in Actors : pc[a] = "start")
    /\ target \in [Switchers -> Configs] /\ previous \in [Switchers -> Configs]
    /\ checked \in [Switchers -> Configs] /\ rollback \subseteq Switchers
    /\ astray \subseteq Causes /\ count \in 0 .. MaxSwitches

Quiet == \A a \in Actors : pc[a] = "idle"

\* When no switch runs, no draft of the index is left behind for others to publish,
\* and the file names the committed profile, unless its repair failed half-way too.
IndexSettles == (\A s \in Switchers : pc[s] = "idle") => draft = 0 /\ disk \in {current, 0}

\* When nothing runs, a running core runs the profile the index names, whatever failed
\* in a switch, timed out and was rolled back, and whatever restart ran beside it: the
\* exceptions are a failed restoration, and until the core is next stopped or reloaded
\* a reload that acted late and a restart that read the draft of an update not
\* through.  Only the last makes the core run what the validator refuses.
CoreRunsCurrent ==
    /\ Quiet /\ core # 0 /\ astray \subseteq {"left"} => core = current
    /\ "read" \notin astray => core \notin Broken

\* A committed runtime configuration is one the core has loaded: it changes to what
\* the core runs, if it runs.
CommittedWasLoaded == [][runtime' # runtime /\ core # 0 => runtime' = core]_vars

\* Every switch ends.
SwitchEnds == \A s \in Switchers : (pc[s] # "idle") ~> (pc[s] = "idle")
================================================================================
