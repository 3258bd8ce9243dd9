--------------------------- MODULE ConfigSwitchProofs ---------------------------
(***************************************************************************)
(* Proofs about ConfigSwitch: its types with the owners of the flags, that *)
(* the index settles, that a core at rest runs the current profile, and    *)
(* that the core runs what is committed.                                   *)
(***************************************************************************)
EXTENDS ConfigSwitch, TLAPS

------------------------------------------------------------------------------
(* The inductive invariant. *)

Labels == {"idle", "edit", "update", "failed", "valid", "publish"} \cup HoldsUpdate
Active(s) == pc[s] # "idle"
AtRest == \A s \in Switchers : ~Active(s)

Places ==
    /\ pc \in [Actors -> Labels] /\ \A r \in Restarters : pc[r] \in {"idle", "stop", "start"}
    /\ \A s, t \in Switchers : Active(s) /\ Active(t) => s = t
    /\ \A a, b \in Actors : pc[a] = "start" /\ pc[b] = "start" => a = b

\* where a switch is decides what the index and its file hold
IndexAt(s) ==
    /\ Active(s) => target[s] \in Profiles
    /\ s \in rollback => pc[s] \notin {"idle", "edit", "publish"} /\ draft = 0
    /\ pc[s] = "edit" => draft = 0
    /\ pc[s] \notin {"idle", "edit"} /\ s \notin rollback => previous[s] = current /\ draft = target[s]
    /\ pc[s] = "publish" => disk = draft
    /\ pc[s] \notin {"idle", "publish"} => disk \in {current, 0}
IndexOK == (AtRest => draft = 0 /\ disk \in {current, 0}) /\ \A s \in Switchers : IndexAt(s)

\* from the validation on, the draft of the runtime configuration is that of the
\* index, whatever restarts do in between
ConfigAt(s) ==
    /\ pc[s] = "store" => checked[s] = IndexLatest
    /\ pc[s] \in {"check", "write", "reload", "stop", "start", "apply"} => runtimeDraft = IndexLatest
    /\ pc[s] \in {"write", "reload", "stop", "start", "apply"} => runtimeDraft \notin Broken
    /\ pc[s] = "reload" => runFile = runtimeDraft
    /\ pc[s] = "apply" => core \in {0, runtimeDraft}
    /\ pc[s] \in {"valid", "publish"} => runtimeDraft = 0 /\ runtime = IndexLatest /\ core \in {0, runtime}
ConfigOK == current \notin Broken /\ runtime \notin Broken /\ \A s \in Switchers : ConfigAt(s)

\* what a switch that is not through leaves alone, for it or for a restart to load, is
\* the configuration of the current profile, but for what the history tells
Excused == ~(astray \subseteq {"left"})
OfCurrent ==
    /\ "unrestored" \notin astray => runtime \in {0, current}
    /\ "left" \notin astray => runtimeDraft \in {0, current}
    /\ ~Excused => core \in {0, current}
SettledAt(s) ==
    /\ pc[s] \in {"edit", "update", "generate", "store", "failed"} /\ "left" \notin astray =>
           runtimeDraft \in {0, current}
    /\ Active(s) /\ s \notin rollback /\ pc[s] \notin {"valid", "publish"} =>
           /\ "unrestored" \notin astray => runtime \in {0, current}
           /\ ~Excused => pc[s] = "apply" \/ core \in {0, current}
SettledOK ==
    /\ "read" \notin astray => core \notin Broken
    /\ AtRest => OfCurrent
    /\ \A s \in Switchers : SettledAt(s)

IInv == TypeOK /\ Places /\ IndexOK /\ ConfigOK /\ SettledOK

LEMMA NoProfileIsZero == 0 \notin Profiles /\ 0 \notin Broken /\ Broken \subseteq Profiles /\ Configs = Profiles \cup {0}
BY SwitchAssumption DEF Configs

LEMMA InitOK == Init => IInv
<1> SUFFICES ASSUME Init PROVE IInv
  OBVIOUS
<1>1. TypeOK
  <2>1. /\ (\E s \in Switchers : pc[s] # "idle") = FALSE
        /\ (\E s \in Switchers : pc[s] \in HoldsUpdate) = FALSE
        /\ (\E a \in Actors : pc[a] = "start") = FALSE
    BY DEF Init, Actors, HoldsUpdate
  <2>2. /\ switching = FALSE /\ updating = FALSE /\ lifecycle = FALSE
    BY DEF Init
  <2>3. /\ switching = (\E s \in Switchers : pc[s] # "idle")
        /\ updating = (\E s \in Switchers : pc[s] \in HoldsUpdate)
        /\ lifecycle = (\E a \in Actors : pc[a] = "start")
    BY <2>1, <2>2, Zenon
  <2>4. /\ current \in Profiles /\ draft \in Configs /\ disk \in Configs
        /\ runtime \in Configs /\ runtimeDraft \in Configs /\ runFile \in Profiles /\ core \in Configs
        /\ target \in [Switchers -> Configs] /\ previous \in [Switchers -> Configs]
        /\ checked \in [Switchers -> Configs] /\ rollback \subseteq Switchers
        /\ astray \subseteq Causes /\ count \in 0 .. MaxSwitches
    <3>1. count \in 0 .. MaxSwitches
      BY SwitchAssumption DEF Init
    <3>2. 0 \in Configs /\ Profiles \subseteq Configs
      BY NoProfileIsZero
    <3> QED BY <3>1, <3>2 DEF Init, Causes
  <2> QED BY <2>3, <2>4 DEF TypeOK
<1>2. Places
  BY DEF Init, Places, Labels, Actors, Active
<1>3. AtRest /\ \A s \in Switchers : pc[s] = "idle"
  BY DEF Init, AtRest, Active, Actors
<1>4. IndexOK /\ ConfigOK /\ SettledOK
  BY <1>3, NoProfileIsZero DEF Init, IndexOK, IndexAt, ConfigOK, ConfigAt,
                               SettledOK, SettledAt, OfCurrent, Excused, Active
<1> QED BY <1>1, <1>2, <1>4 DEF IInv

------------------------------------------------------------------------------
(* Steps of the one switch under way. *)

\* While one switcher is active, the others are not, and the flags are about it.
LEMMA Alone ==
    ASSUME IInv, NEW s \in Switchers, Active(s)
    PROVE  /\ \A t \in Switchers \ {s} : pc[t] = "idle"
           /\ switching = TRUE /\ ~AtRest
           /\ updating = IF pc[s] \in HoldsUpdate THEN TRUE ELSE FALSE
<1>1. \A t \in Switchers \ {s} : pc[t] = "idle"
  BY DEF IInv, Places, Active
<1>2. "idle" \notin HoldsUpdate
  BY DEF HoldsUpdate
<1>3. (\E t \in Switchers : pc[t] # "idle") = TRUE
  BY DEF Active
<1>4. (\E t \in Switchers : pc[t] \in HoldsUpdate) = IF pc[s] \in HoldsUpdate THEN TRUE ELSE FALSE
  BY <1>1, <1>2
<1> QED BY <1>1, <1>3, <1>4 DEF IInv, TypeOK, AtRest

\* Where the program counters are after a step of a switcher to label l.
LEMMA Moves ==
    ASSUME IInv, NEW s \in Switchers, Active(s), NEW l \in Labels, Goto(s, l),
           l = "start" => ~lifecycle
    PROVE  /\ Places'
           /\ pc'[s] = l /\ \A t \in Switchers \ {s} : pc[t] = "idle" /\ pc'[t] = "idle"
           /\ \A r \in Restarters : pc'[r] = pc[r]
           /\ (\E t \in Switchers : pc'[t] # "idle") = IF l = "idle" THEN FALSE ELSE TRUE
           /\ (\E t \in Switchers : pc'[t] \in HoldsUpdate) = IF l \in HoldsUpdate THEN TRUE ELSE FALSE
           /\ (\E a \in Actors : pc'[a] = "start")
                 = IF l = "start" THEN TRUE ELSE IF pc[s] = "start" THEN FALSE ELSE lifecycle
<1>1. pc \in [Actors -> Labels] /\ s \in Actors /\ pc' = [pc EXCEPT ![s] = l]
  BY DEF IInv, Places, Goto, Actors
<1>2. /\ pc'[s] = l /\ \A a \in Actors \ {s} : pc'[a] = pc[a]
      /\ \A t \in Switchers \ {s} : pc[t] = "idle" /\ pc'[t] = "idle"
  BY <1>1, Alone DEF Actors
<1>3. \A r \in Restarters : pc'[r] = pc[r]
  BY <1>2, SwitchAssumption DEF Actors
<1>4. lifecycle = (\E a \in Actors : pc[a] = "start")
  BY DEF IInv, TypeOK
<1>5. Places'
  <2>1. pc' \in [Actors -> Labels]
    BY <1>1
  <2>2. \A r \in Restarters : pc'[r] \in {"idle", "stop", "start"}
    BY <1>3 DEF IInv, Places
  <2>3. \A t, u \in Switchers : pc'[t] # "idle" /\ pc'[u] # "idle" => t = u
    BY <1>2
  <2>4. \A a, b \in Actors : pc'[a] = "start" /\ pc'[b] = "start" => a = b
    BY <1>2, <1>4 DEF IInv, Places
  <2> QED BY <2>1, <2>2, <2>3, <2>4 DEF Places, Active
<1>6. "idle" \notin HoldsUpdate
  BY DEF HoldsUpdate
<1>7. (\E t \in Switchers : pc'[t] # "idle") = IF l = "idle" THEN FALSE ELSE TRUE
  BY <1>2
<1>8. (\E t \in Switchers : pc'[t] \in HoldsUpdate) = IF l \in HoldsUpdate THEN TRUE ELSE FALSE
  BY <1>2, <1>6
<1>9. CASE l = "start"
  BY <1>1, <1>2, <1>3, <1>5, <1>7, <1>8, <1>9
<1>10. CASE l # "start" /\ pc[s] = "start"
  <2>1. (\E a \in Actors : pc'[a] = "start") = FALSE
    BY <1>1, <1>2, <1>10 DEF IInv, Places
  <2> QED BY <1>2, <1>3, <1>5, <1>7, <1>8, <1>10, <2>1
<1>11. CASE l # "start" /\ pc[s] # "start"
  <2>1. (\E a \in Actors : pc'[a] = "start") = lifecycle
    BY <1>1, <1>2, <1>4, <1>11
  <2> QED BY <1>2, <1>3, <1>5, <1>7, <1>8, <1>11, <2>1
<1> QED BY <1>9, <1>10, <1>11

\* What the invariant says of the switcher that is active ...
Here(s) ==
    /\ Active(s) /\ pc \in [Actors -> Labels] /\ s \in Actors
    /\ IndexAt(s) /\ ConfigAt(s) /\ ("read" \notin astray => core \notin Broken) /\ SettledAt(s)
    /\ current \in Profiles \ Broken /\ draft \in Configs /\ disk \in Configs /\ IndexLatest \in Profiles
    /\ runtime \in Configs \ Broken /\ runtimeDraft \in Configs /\ runFile \in Profiles /\ core \in Configs
    /\ target \in [Switchers -> Configs] /\ previous \in [Switchers -> Configs]
    /\ checked \in [Switchers -> Configs] /\ astray \subseteq Causes
    /\ switching = TRUE /\ updating = IF pc[s] \in HoldsUpdate THEN TRUE ELSE FALSE

LEMMA InvHere == ASSUME IInv, NEW s \in Switchers, Active(s) PROVE Here(s)
BY Alone, NoProfileIsZero DEF Here, IInv, TypeOK, Places, IndexOK, ConfigOK, SettledOK, IndexLatest, Actors

\* ... and what a step of it to l has to leave to keep the invariant.
StepTo(s, l) ==
    /\ Goto(s, l) /\ (l = "start" => ~lifecycle)
    /\ switching' = (IF l = "idle" THEN FALSE ELSE TRUE)
    /\ updating' = (IF l \in HoldsUpdate THEN TRUE ELSE FALSE)
    /\ lifecycle' = IF l = "start" THEN TRUE ELSE IF pc[s] = "start" THEN FALSE ELSE lifecycle
    /\ current' \in Profiles \ Broken /\ draft' \in Configs /\ disk' \in Configs
    /\ runtime' \in Configs \ Broken /\ runtimeDraft' \in Configs /\ runFile' \in Profiles /\ core' \in Configs
    /\ target' \in [Switchers -> Configs] /\ previous' \in [Switchers -> Configs]
    /\ checked' \in [Switchers -> Configs] /\ rollback' \subseteq rollback \cup {s}
    /\ astray' \subseteq Causes /\ count' = count
    /\ IndexAt(s)' /\ ConfigAt(s)' /\ ("read" \notin astray' => core' \notin Broken) /\ SettledAt(s)'
    /\ l = "idle" => draft' = 0 /\ disk' \in {current', 0} /\ OfCurrent'

LEMMA StepOfSwitch ==
    ASSUME IInv, NEW s \in Switchers, Active(s), NEW l \in Labels, StepTo(s, l)
    PROVE  IInv'
<1>1. /\ Places'
      /\ pc'[s] = l /\ \A t \in Switchers \ {s} : pc[t] = "idle" /\ pc'[t] = "idle"
      /\ (\E t \in Switchers : pc'[t] # "idle") = IF l = "idle" THEN FALSE ELSE TRUE
      /\ (\E t \in Switchers : pc'[t] \in HoldsUpdate) = IF l \in HoldsUpdate THEN TRUE ELSE FALSE
      /\ (\E a \in Actors : pc'[a] = "start")
            = IF l = "start" THEN TRUE ELSE IF pc[s] = "start" THEN FALSE ELSE lifecycle
  BY Moves DEF StepTo
<1>2. TypeOK'
  <2>1. switching' = (\E t \in Switchers : pc'[t] # "idle")
    BY <1>1 DEF StepTo
  <2>2. updating' = (\E t \in Switchers : pc'[t] \in HoldsUpdate)
    BY <1>1 DEF StepTo
  <2>3. lifecycle' = (\E a \in Actors : pc'[a] = "start")
    BY <1>1 DEF StepTo
  <2>4. rollback' \subseteq Switchers /\ count' \in 0 .. MaxSwitches
    BY DEF IInv, TypeOK, StepTo
  <2> QED BY <2>1, <2>2, <2>3, <2>4 DEF TypeOK, StepTo
<1>3. \A t \in Switchers \ {s} : t \notin rollback /\ t \notin rollback'
  BY <1>1 DEF IInv, IndexOK, IndexAt, StepTo
<1>4. ASSUME NEW t \in Switchers, t # s PROVE IndexAt(t)' /\ ConfigAt(t)' /\ SettledAt(t)'
  BY <1>1, <1>3, <1>4 DEF IndexAt, ConfigAt, SettledAt, Active
<1>5. AtRest' <=> l = "idle"
  BY <1>1 DEF AtRest, Active
<1> QED BY <1>1, <1>2, <1>4, <1>5 DEF StepTo, IInv, IndexOK, ConfigOK, SettledOK

\* Every step of a switch under way leaves what the next one relies on.
LEMMA SwitcherSteps ==
    ASSUME IInv, NEW s \in Switchers, Active(s),
           EditIndex(s) \/ Update(s) \/ Finish(s) \/ Timeout(s) \/ Restarting(s)
    PROVE  IInv'
<1> SUFFICES \E l \in Labels : StepTo(s, l)
  BY StepOfSwitch
<1> USE InvHere, NoProfileIsZero, SwitchAssumption
<1> USE DEF Here, StepTo, IndexAt, ConfigAt, SettledAt, Active, OfCurrent, IndexLatest, RuntimeLatest,
            Labels, HoldsUpdate, Goto, index, config, flags, locals, GiveUp, Excused, Causes
<1>1. ASSUME EditIndex(s) PROVE StepTo(s, "update")
  BY <1>1 DEF EditIndex
<1>2. ASSUME BeginUpdate(s), UpdateBusy PROVE StepTo(s, "failed")
  BY <1>2 DEF BeginUpdate, UpdateBusy
<1>3. ASSUME BeginUpdate(s), ~UpdateBusy PROVE StepTo(s, "generate")
  BY <1>3, ZenonT(90) DEF BeginUpdate, UpdateBusy
<1>4. ASSUME Generate(s) PROVE StepTo(s, "store")
  BY <1>4, ZenonT(90) DEF Generate
<1>5. ASSUME StoreDraft(s) PROVE StepTo(s, "check")
  BY <1>5 DEF StoreDraft
<1>6. ASSUME GenerateFails(s) PROVE StepTo(s, "failed")
  BY <1>6 DEF GenerateFails
<1>7. ASSUME Validate(s), pc'[s] = "write" PROVE StepTo(s, "write")
  BY <1>7 DEF Validate, Accepts
<1>8. ASSUME Validate(s), pc'[s] # "write" PROVE StepTo(s, "failed")
  BY <1>8 DEF Validate, Accepts
<1>9. ASSUME WriteRunFile(s) PROVE StepTo(s, "reload")
  BY <1>9 DEF WriteRunFile
<1>10. ASSUME WriteFails(s) PROVE StepTo(s, "failed")
  BY <1>10 DEF WriteFails
<1>11. ASSUME Reload(s), pc'[s] = "apply" PROVE StepTo(s, "apply")
  <2>1. /\ pc[s] = "reload" /\ Goto(s, "apply")
        /\ core # 0 /\ core' = runFile /\ astray' = astray \ {"late", "read"}
        /\ UNCHANGED <<index, runtime, runtimeDraft, runFile, flags, target, previous, checked, rollback, count>>
    BY <1>11 DEF Reload
  <2>2. runFile = runtimeDraft /\ runtimeDraft \notin Broken /\ pc'[s] = "apply"
    BY <2>1
  <2>3. IndexAt(s)' /\ ConfigAt(s)' /\ SettledAt(s)'
    BY <2>1, <2>2
  <2> QED BY <2>1, <2>2, <2>3
<1>12. ASSUME Reload(s), pc'[s] # "apply" PROVE StepTo(s, "stop")
  <2>1. /\ pc[s] = "reload" /\ Goto(s, "stop")
        /\ UNCHANGED <<index, runtime, runtimeDraft, runFile, flags, target, previous, checked, rollback, count>>
        /\ \/ core' = core /\ astray' = astray
           \/ core' = runFile /\ astray' = (astray \ {"read"}) \cup {"late"}
    BY <1>12 DEF Reload
  <2>2. runFile = runtimeDraft /\ runtimeDraft \notin Broken /\ pc'[s] = "stop"
    BY <2>1
  <2>3. IndexAt(s)' /\ ConfigAt(s)'
    BY <2>1, <2>2
  <2>4. /\ "unrestored" \in astray' <=> "unrestored" \in astray
        /\ (core' = core /\ astray' = astray) \/ (core' = runFile /\ Excused')
    BY <2>1
  <2>5. SettledAt(s)' /\ ("read" \notin astray' => core' \notin Broken)
    BY <2>1, <2>2, <2>4
  <2> QED BY <2>1, <2>2, <2>3, <2>5
<1>13. ASSUME Stop(s) PROVE StepTo(s, "start")
  BY <1>13 DEF Stop
<1>14. ASSUME StopFails(s) PROVE StepTo(s, "failed")
  BY <1>14, ZenonT(90) DEF StopFails, RestartError
<1>15. ASSUME Start(s) PROVE StepTo(s, "apply")
  BY <1>15 DEF Start
<1>16. ASSUME StartFails(s) PROVE StepTo(s, "failed")
  BY <1>16, ZenonT(90) DEF StartFails, RestartError
<1>17. ASSUME ApplyRuntime(s) PROVE StepTo(s, "valid")
  BY <1>17 DEF ApplyRuntime
<1>18. ASSUME SaveIndex(s) PROVE StepTo(s, "publish")
  BY <1>18 DEF SaveIndex
<1>19. ASSUME SaveFails(s) PROVE StepTo(s, "update")
  BY <1>19 DEF SaveFails
<1>20. ASSUME RolledBack(s) PROVE StepTo(s, "idle")
  BY <1>20 DEF RolledBack
<1>21. ASSUME Restore(s) PROVE StepTo(s, "idle")
  BY <1>21 DEF Restore
<1>22. ASSUME Publish(s) PROVE StepTo(s, "idle")
  <2>1. draft \in Profiles \ Broken /\ disk = draft /\ runtime = draft /\ core \in {0, draft} /\ runtimeDraft = 0
    BY <1>22 DEF Publish
  <2>2. current' = draft /\ draft' = 0 /\ pc'[s] = "idle" /\ s \notin rollback
    BY <1>22, <2>1 DEF Publish
  <2>3. IndexAt(s)' /\ ConfigAt(s)' /\ SettledAt(s)' /\ OfCurrent' /\ core' \notin Broken
    BY <1>22, <2>1, <2>2 DEF Publish
  <2>4. /\ Goto(s, "idle") /\ switching' = FALSE /\ astray' = {}
        /\ UNCHANGED <<disk, config, updating, lifecycle, target, previous, checked, rollback, count>>
    BY <1>22 DEF Publish
  <2>5. pc[s] = "publish" /\ updating = FALSE
    BY <1>22 DEF Publish
  <2> QED BY <2>1, <2>2, <2>3, <2>4, <2>5
<1>23. ASSUME Timeout(s) PROVE StepTo(s, "failed")
  <2>1. /\ pc[s] \in HoldsUpdate /\ s \notin rollback /\ Goto(s, "failed") /\ updating' = FALSE
        /\ lifecycle' = (lifecycle /\ pc[s] # "start")
        /\ UNCHANGED <<index, runtime, runtimeDraft, switching, target, previous, checked, rollback, count>>
    BY <1>23 DEF Timeout, Stored
  <2>2. /\ astray' = astray \cup Leaves(s) \/ astray' = astray \cup Leaves(s) \cup {"late"}
        /\ \/ UNCHANGED core
           \/ pc[s] = "reload" /\ core' = runFile /\ "late" \in astray'
        /\ runFile' = runFile \/ (pc[s] \in {"write", "start"} /\ runFile' = runtimeDraft)
    <3>1. pc[s] \in {"write", "start"} => RuntimeLatest = runtimeDraft
      OBVIOUS
    <3> HIDE DEF Here, IndexAt, ConfigAt, SettledAt, RuntimeLatest
    <3> QED BY <1>23, <3>1 DEF Timeout
  <2>7. /\ core' \in Configs /\ runFile' \in Profiles
        /\ core' = core \/ core' \notin Broken
    <3>1. pc[s] = "reload" => runFile = runtimeDraft /\ runtimeDraft \notin Broken
      OBVIOUS
    <3>2. pc[s] \in {"write", "start"} => runtimeDraft \in Profiles
      OBVIOUS
    <3> QED BY <2>1, <2>2, <3>1, <3>2
  <2>8. /\ astray' \subseteq Causes /\ astray \subseteq astray'
        /\ pc[s] \in Stored => "left" \in astray'
        /\ core' = core \/ Excused'
    BY <2>2 DEF Leaves
  <2>3. lifecycle' = IF pc[s] = "start" THEN FALSE ELSE lifecycle
    BY <2>1 DEF IInv, TypeOK
  <2>4. pc'[s] = "failed"
    BY <2>1
  <2>5. IndexAt(s)' /\ ConfigAt(s)'
    BY <2>1, <2>4
  <2>6. ("read" \notin astray' => core' \notin Broken) /\ SettledAt(s)'
    <3>1. pc[s] \notin Stored => pc[s] = "generate"
      BY <1>23 DEF Timeout
    <3> QED BY <2>1, <2>4, <2>7, <2>8, <3>1 DEF Stored
  <2>9. core' \in Configs /\ runFile' \in Profiles /\ astray' \subseteq Causes
    BY <2>7, <2>8
  <2> QED BY <2>1, <2>3, <2>4, <2>5, <2>6, <2>9
<1> QED BY <1>1, <1>2, <1>3, <1>4, <1>5, <1>6, <1>7, <1>8, <1>9, <1>10, <1>11, <1>12,
            <1>13, <1>14, <1>15, <1>16, <1>17, <1>18, <1>19, <1>20, <1>21, <1>22, <1>23 DEF Update, Finish, Restarting

\* A switch begins only when none is under way.
LEMMA SwitchOK == ASSUME IInv, NEW s \in Switchers, Switch(s) PROVE IInv'
<1>1. CASE switching
  <2>1. UNCHANGED <<index, config, flags, pc, target, previous, checked, rollback, astray>> /\ count' = count + 1
    BY <1>1 DEF Switch, flags
  <2>2. count' \in 0 .. MaxSwitches
    BY <2>1, SwitchAssumption DEF IInv, TypeOK, Switch
  <2> QED BY <2>1, <2>2 DEF IInv, TypeOK, Places, IndexOK, ConfigOK, SettledOK, AtRest, OfCurrent, Active,
             IndexAt, ConfigAt, SettledAt, Excused, IndexLatest, index, config, flags
<1>2. CASE ~switching
  <2>1. PICK p \in Profiles : switching' = TRUE /\ target' = [target EXCEPT ![s] = p] /\ Goto(s, "edit")
    BY <1>2 DEF Switch
  <2>2. /\ UNCHANGED <<index, config, updating, lifecycle, previous, checked, rollback, astray>>
        /\ count' \in 0 .. MaxSwitches
    BY SwitchAssumption DEF IInv, TypeOK, Switch
  <2>3. \A t \in Switchers : pc[t] = "idle" /\ t \notin rollback
    BY <1>2 DEF IInv, TypeOK, IndexOK, IndexAt
  <2>4. /\ pc \in [Actors -> Labels] /\ s \in Actors /\ pc' = [pc EXCEPT ![s] = "edit"]
        /\ pc'[s] = "edit" /\ \A a \in Actors \ {s} : pc'[a] = pc[a]
        /\ \A r \in Restarters : r \in Actors \ {s}
    BY <2>1, SwitchAssumption DEF IInv, Places, Goto, Actors
  <2>5. \A t \in Switchers \ {s} : pc'[t] = "idle"
    BY <2>3, <2>4 DEF Actors
  <2>6. Places'
    BY <2>4, <2>5 DEF IInv, Places, Labels, Active
  <2>7. TypeOK'
    <3>1. (\E t \in Switchers : pc'[t] # "idle") = TRUE
      BY <2>4
    <3>2. updating = FALSE /\ (\E t \in Switchers : pc'[t] \in HoldsUpdate) = FALSE
      BY <2>3, <2>4, <2>5 DEF IInv, TypeOK, HoldsUpdate
    <3>3. (\E a \in Actors : pc'[a] = "start") = (\E a \in Actors : pc[a] = "start")
      BY <2>3, <2>4
    <3>4. lifecycle' = (\E a \in Actors : pc'[a] = "start")
      BY <2>2, <3>3 DEF IInv, TypeOK
    <3>5. target' \in [Switchers -> Configs]
      BY <2>1, NoProfileIsZero DEF IInv, TypeOK
    <3> QED BY <2>1, <2>2, <3>1, <3>2, <3>4, <3>5 DEF IInv, TypeOK, index, config
  <2>8. AtRest /\ ~AtRest'
    BY <2>3, <2>4 DEF AtRest, Active
  <2>9. target'[s] \in Profiles
    BY <2>1 DEF IInv, TypeOK
  <2>10. \A t \in Switchers : IndexAt(t)' /\ ConfigAt(t)' /\ SettledAt(t)'
    BY <2>2, <2>3, <2>4, <2>5, <2>8, <2>9
       DEF IInv, IndexOK, SettledOK, OfCurrent, Excused, IndexAt, ConfigAt, SettledAt, Active, index, config
  <2> QED BY <2>2, <2>6, <2>7, <2>8, <2>10 DEF IInv, IndexOK, ConfigOK, SettledOK, index, config
<1> QED BY <1>1, <1>2 DEF IInv, TypeOK

------------------------------------------------------------------------------
(* Restarts beside it. *)

\* A restart leaves the switches where they are, and what it starts is the latest
\* configuration, which is theirs from the validation on.
LEMMA RestarterSteps ==
    ASSUME IInv, NEW r \in Restarters, Restart(r) \/ Restarting(r)
    PROVE  IInv'
<1> DEFINE l == pc'[r]
<1>1. /\ r \in Actors /\ r \notin Switchers /\ pc \in [Actors -> Labels]
      /\ pc[r] \in {"idle", "stop", "start"}
  BY SwitchAssumption DEF Actors, IInv, Places
<1>2. \E m \in {"idle", "stop", "start"} : Goto(r, m)
  BY <1>1 DEF Restart, Restarting, Stop, StopFails, Start, StartFails, RestartError
<1>3. /\ l \in {"idle", "stop", "start"} /\ pc' \in [Actors -> Labels] /\ \A a \in Actors \ {r} : pc'[a] = pc[a]
  BY <1>1, <1>2 DEF Goto, Labels, HoldsUpdate
<1>4. \A s \in Switchers : pc'[s] = pc[s]
  BY <1>1, <1>3 DEF Actors
<1>5. UNCHANGED <<index, runtime, runtimeDraft, switching, updating, target, previous, checked, rollback>>
  BY <1>1 DEF Restart, Restarting, Stop, StopFails, Start, StartFails, RestartError, config, flags, locals
<1>6. /\ runFile' \in Profiles /\ core' \in Configs /\ astray' \subseteq Causes /\ count' \in 0 .. MaxSwitches
      /\ lifecycle' \in BOOLEAN /\ (pc[r] = "start" => lifecycle) /\ lifecycle \in BOOLEAN
  <2>1. /\ runFile \in Profiles /\ core \in Configs /\ astray \subseteq Causes /\ count \in 0 .. MaxSwitches
        /\ RuntimeLatest \in Configs /\ 0 \in Configs
    BY NoProfileIsZero DEF IInv, TypeOK, RuntimeLatest
  <2>2. lifecycle \in BOOLEAN /\ (pc[r] = "start" => lifecycle)
    BY <1>1 DEF IInv, TypeOK
  <2>3. CASE Restart(r)
    BY <2>1, <2>2, <2>3, SwitchAssumption DEF Restart, config, flags
  <2>4. CASE Stop(r)
    BY <2>1, <2>2, <2>4 DEF Stop, locals
  <2>5. CASE StopFails(r)
    BY <1>1, <2>1, <2>2, <2>5 DEF StopFails, RestartError
  <2>6. CASE Start(r)
    BY <1>1, <2>1, <2>2, <2>6, NoProfileIsZero DEF Start, Causes
  <2>7. CASE StartFails(r)
    BY <1>1, <2>1, <2>2, <2>7 DEF StartFails, RestartError
  <2> QED BY <2>3, <2>4, <2>5, <2>6, <2>7 DEF Restarting
<1>7. /\ l = "start" => ~lifecycle /\ lifecycle'
      /\ l # "start" => lifecycle' = IF pc[r] = "start" THEN FALSE ELSE lifecycle
  BY <1>1, <1>2, <1>6
     DEF Restart, Restarting, Stop, StopFails, Start, StartFails, RestartError, Goto, flags
<1>8. lifecycle = (\E a \in Actors : pc[a] = "start") /\ \A a, b \in Actors : pc[a] = "start" /\ pc[b] = "start" => a = b
  BY DEF IInv, TypeOK, Places
<1>9. lifecycle' = (\E a \in Actors : pc'[a] = "start")
  <2>1. CASE l = "start"
    <3>1. (\E a \in Actors : pc'[a] = "start") = TRUE
      BY <1>1, <2>1
    <3> QED BY <1>6, <1>7, <2>1, <3>1
  <2>2. CASE l # "start" /\ pc[r] = "start"
    <3>1. (\E a \in Actors : pc'[a] = "start") = FALSE
      BY <1>1, <1>3, <1>8, <2>2
    <3> QED BY <1>7, <2>2, <3>1
  <2>3. CASE l # "start" /\ pc[r] # "start"
    <3>1. (\E a \in Actors : pc'[a] = "start") = (\E a \in Actors : pc[a] = "start")
      BY <1>1, <1>3, <2>3
    <3> QED BY <1>7, <1>8, <2>3, <3>1
  <2> QED BY <2>1, <2>2, <2>3
<1>10. Places'
  <2>1. \A q \in Restarters : pc'[q] \in {"idle", "stop", "start"}
    BY <1>3 DEF IInv, Places, Actors
  <2>2. \A a, b \in Actors : pc'[a] = "start" /\ pc'[b] = "start" => a = b
    BY <1>3, <1>7, <1>8
  <2> QED BY <1>3, <1>4, <2>1, <2>2 DEF IInv, Places, Active
<1>11. TypeOK'
  <2>1. switching' = (\E s \in Switchers : pc'[s] # "idle")
    BY <1>4, <1>5 DEF IInv, TypeOK
  <2>2. updating' = (\E s \in Switchers : pc'[s] \in HoldsUpdate)
    BY <1>4, <1>5 DEF IInv, TypeOK
  <2> QED BY <1>5, <1>6, <1>9, <2>1, <2>2 DEF IInv, TypeOK, index
<1>12. IndexOK'
  BY <1>4, <1>5 DEF IInv, IndexOK, IndexAt, AtRest, Active, index
<1>13. /\ \/ core' = core /\ astray' = astray
          \/ core' = 0 /\ astray' = astray \ {"late", "read"}
          \/ /\ core' = RuntimeLatest /\ RuntimeLatest # 0 /\ astray \subseteq astray'
             /\ \A c \in astray' \ astray : c = "read"
             /\ "read" \notin astray' => "left" \notin astray /\ \A s \in Switchers : pc[s] \notin Stored
       /\ runFile' = runFile \/ (runFile' = RuntimeLatest /\ RuntimeLatest # 0)
  <2>1. CASE Restart(r)
    BY <2>1 DEF Restart, config
  <2>2. CASE Stop(r)
    BY <2>2 DEF Stop
  <2>3. CASE StopFails(r) \/ StartFails(r)
    BY <1>1, <2>3 DEF StopFails, StartFails, RestartError
  <2>4. CASE Start(r)
    <3>1. core' = RuntimeLatest /\ runFile' = RuntimeLatest /\ RuntimeLatest # 0
      BY <2>4 DEF Start
    <3>2. /\ astray \subseteq astray' /\ \A c \in astray' \ astray : c = "read"
          /\ "read" \notin astray' => ~ReadsDraft(r)
      BY <2>4 DEF Start
    <3> QED BY <3>1, <3>2 DEF ReadsDraft
  <2> QED BY <2>1, <2>2, <2>3, <2>4 DEF Restarting
<1>14. /\ "left" \in astray' <=> "left" \in astray
       /\ "unrestored" \in astray' <=> "unrestored" \in astray
       /\ ~Excused' => \/ ~Excused /\ core' = core
                       \/ core' = 0
                       \/ ~Excused /\ "read" \notin astray' /\ core' = RuntimeLatest
  BY <1>13 DEF Excused
<1>15. \A s \in Switchers : /\ ConfigAt(s) /\ IndexAt(s) /\ SettledAt(s)
                           /\ pc[s] \in Labels
                           /\ IndexLatest \in Profiles /\ IndexLatest' = IndexLatest
  BY <1>5, NoProfileIsZero
     DEF IInv, TypeOK, Places, IndexOK, ConfigOK, SettledOK, IndexLatest, Actors, index
<1>16. ASSUME NEW s \in Switchers PROVE ConfigAt(s)' /\ SettledAt(s)'
  <2>1. ConfigAt(s)'
    <3>1. \/ core' \in {core, 0}
          \/ core' = RuntimeLatest /\ RuntimeLatest # 0
      BY <1>13
    <3> QED BY <1>4, <1>5, <1>13, <1>15, <3>1, NoProfileIsZero DEF ConfigAt, RuntimeLatest
  <2>2. ASSUME Active(s), s \notin rollback, pc[s] \notin {"valid", "publish", "apply"}, ~Excused'
        PROVE  core' \in {0, current}
    <3>1. CASE core' = 0 \/ (~Excused /\ core' = core)
      BY <1>15, <2>2, <3>1 DEF SettledAt
    <3>2. CASE ~Excused /\ "read" \notin astray' /\ core' = RuntimeLatest /\ core' \notin {core, 0}
      <4>1. "left" \notin astray /\ pc[s] \notin Stored
        BY <1>13, <3>2
      <4>2. pc[s] \in {"edit", "update", "generate", "store", "failed"}
        BY <1>15, <2>2, <4>1 DEF Labels, HoldsUpdate, Stored, Active
      <4>3. runtime \in {0, current} /\ runtimeDraft \in {0, current}
        BY <1>15, <2>2, <3>2, <4>1, <4>2 DEF SettledAt, Excused
      <4> QED BY <3>2, <4>3 DEF RuntimeLatest
    <3>3. CASE core' = core /\ Excused
      BY <1>13, <2>2, <3>3, <1>14
    <3> QED BY <1>14, <2>2, <3>1, <3>2, <3>3
  <2>3. SettledAt(s)'
    BY <1>4, <1>5, <1>14, <1>15, <2>2 DEF SettledAt, Active, index
  <2> QED BY <2>1, <2>3
<1>17. ConfigOK' /\ SettledOK'
  <2>1. AtRest' <=> AtRest
    BY <1>4 DEF AtRest, Active
  <2>2. ASSUME "read" \notin astray' PROVE core' \notin Broken
    <3>1. runtime \notin Broken /\ current \notin Broken /\ 0 \notin Broken
      BY NoProfileIsZero DEF IInv, ConfigOK
    <3>2. CASE core' = 0 \/ (core' = core /\ astray' = astray)
      BY <2>2, <3>1, <3>2 DEF IInv, SettledOK
    <3>3. CASE core' = RuntimeLatest /\ "left" \notin astray /\ \A s \in Switchers : pc[s] \notin Stored
      <4>1. CASE AtRest
        BY <3>1, <3>3, <4>1 DEF IInv, SettledOK, OfCurrent, RuntimeLatest
      <4>2. ASSUME NEW s \in Switchers, Active(s) PROVE core' \notin Broken
        <5>1. pc[s] \in {"edit", "update", "generate", "store", "failed", "apply", "valid", "publish"}
          BY <1>15, <3>3, <4>2 DEF Labels, HoldsUpdate, Stored, Active
        <5> QED BY <1>15, <3>1, <3>3, <5>1 DEF SettledAt, ConfigAt, RuntimeLatest
      <4> QED BY <4>1, <4>2 DEF AtRest
    <3> QED BY <1>13, <2>2, <3>2, <3>3
  <2>3. ASSUME AtRest PROVE OfCurrent'
    <3>1. OfCurrent
      BY <2>3 DEF IInv, SettledOK
    <3>2. ~Excused' => core' \in {0, current}
      <4>1. CASE core' = RuntimeLatest /\ ~Excused /\ "left" \notin astray
        BY <3>1, <4>1 DEF OfCurrent, RuntimeLatest, Excused
      <4> QED BY <1>13, <1>14, <3>1, <4>1 DEF OfCurrent
    <3> QED BY <1>5, <1>14, <3>1, <3>2 DEF OfCurrent, index
  <2> QED BY <1>5, <1>16, <2>1, <2>2, <2>3 DEF IInv, ConfigOK, SettledOK, index
<1> QED BY <1>10, <1>11, <1>12, <1>17 DEF IInv

------------------------------------------------------------------------------
(* The theorems. *)

LEMMA StepOK == IInv /\ [Next]_vars => IInv'
<1> SUFFICES ASSUME IInv, [Next]_vars PROVE IInv'
  OBVIOUS
<1>1. CASE UNCHANGED vars
  BY <1>1 DEF vars, index, config, flags, locals, IInv, TypeOK, Places, IndexOK, IndexAt, ConfigOK, ConfigAt,
              SettledOK, SettledAt, OfCurrent, Excused, AtRest, Active, IndexLatest
<1>2. ASSUME NEW s \in Switchers, EditIndex(s) \/ Update(s) \/ Finish(s) \/ Timeout(s) \/ Restarting(s) PROVE IInv'
  <2>1. Active(s)
    BY <1>2 DEF Active, EditIndex, Update, Finish, Timeout, Restarting, BeginUpdate, Generate, StoreDraft,
                GenerateFails, Validate, WriteRunFile, WriteFails, Reload, ApplyRuntime, SaveIndex, SaveFails,
                Publish, RolledBack, Restore, Stored, Stop, StopFails, Start, StartFails
  <2> QED BY <1>2, <2>1, SwitcherSteps
<1> QED BY <1>1, <1>2, SwitchOK, RestarterSteps DEF Next, Actors

THEOREM Inductive == Spec => []IInv
BY InitOK, StepOK, PTL DEF Spec

\* Types, and the owners of the flags: CURRENT_SWITCHING_PROFILE is set exactly while a
\* switch runs, config_update_in_progress exactly while an update does, lifecycle_lock
\* is held exactly by a restart, however updates fail or time out.
THEOREM TypeCorrect == Spec => []TypeOK
<1>1. IInv => TypeOK
  BY DEF IInv
<1> QED BY <1>1, Inductive, PTL

\* No failure of a switch leaves a draft of the index, or a file that differs from it.
THEOREM IndexIsSettled == Spec => []IndexSettles
<1>1. IInv => IndexSettles
  BY DEF IInv, IndexOK, AtRest, Active, IndexSettles
<1> QED BY <1>1, Inductive, PTL

\* A core at rest runs the current profile, for any number of profiles, switchers and
\* restarts and after any failures and timeouts, but for a failed restoration, a reload
\* that acted late and a restart that read a draft not through; and it runs what the
\* validator refuses only after such a restart.
THEOREM CoreIsCurrent == Spec => []CoreRunsCurrent
<1>1. IInv => CoreRunsCurrent
  BY DEF IInv, SettledOK, OfCurrent, Excused, AtRest, Active, CoreRunsCurrent, Quiet, Actors
<1> QED BY <1>1, Inductive, PTL

\* The runtime configuration is committed only as what the core runs.
THEOREM CommitsAreLoaded == Spec => CommittedWasLoaded
<1> DEFINE Loaded == runtime' # runtime /\ core # 0 => runtime' = core
<1>1. ASSUME IInv, [Next]_vars PROVE Loaded
  <2>1. \/ UNCHANGED runtime
        \/ \E s \in Switchers : ApplyRuntime(s)
    BY <1>1 DEF Next, vars, Switch, EditIndex, Update, Finish, Timeout, Restart, Restarting, BeginUpdate,
                Generate, StoreDraft, GenerateFails, Validate, WriteRunFile, WriteFails, Reload, SaveIndex,
                SaveFails, Publish, RolledBack, Restore, Stop, StopFails, Start, StartFails, index, config
  <2>2. ASSUME NEW s \in Switchers, ApplyRuntime(s) PROVE Loaded
    <3>1. core \in {0, runtimeDraft} /\ runtimeDraft = IndexLatest /\ IndexLatest # 0
      BY <1>1, <2>2, NoProfileIsZero DEF IInv, TypeOK, ConfigOK, ConfigAt, ApplyRuntime, IndexLatest
    <3> QED BY <2>2, <3>1 DEF ApplyRuntime, RuntimeLatest
  <2> QED BY <2>1, <2>2
<1>2. IInv /\ [Next]_vars => [Loaded]_vars
  BY <1>1
<1> QED BY <1>2, Inductive, PTL DEF Spec, CommittedWasLoaded
==============================================================================
