--------------------------- MODULE SystemProxyProofs ---------------------------
(***************************************************************************)
(* Proofs about SystemProxy: its types, that the settings take effect, and *)
(* that a quit no patch ran into turns the proxy off.                      *)
(***************************************************************************)
EXTENDS SystemProxy, TLAPS

Settings == [Fields -> BOOLEAN]
Proxies == [{"sys", "pac"} -> BOOLEAN]

------------------------------------------------------------------------------
(* The inductive invariant. *)

Applying(p) == pc[p] \in {"locked", "apply"}
ToApply(p) == pc[p] = "before" \/ Applying(p)
ToGuard(p) == ToApply(p) \/ pc[p] \in {"refresh", "guard"}
ToCommit(p) == ToGuard(p) \/ pc[p] = "after"

Holds == \A p \in Patchers : Applying(p) <=> lock = p

\* the two writes of s to the operating system are done
Uses(o, s) == (o.sys <=> (s.sys /\ ~s.pac)) /\ (o.pac <=> (s.sys /\ s.pac))

\* what a patch has written so far, while the guard may write, too
SoFar(p) ==
    LET s == seen[p]
    IN \/ todo[p] = <<"pac", "sys">> /\ s.sys /\ ~s.pac
       \/ todo[p] = <<"sys">> /\ s.sys /\ ~s.pac /\ ~os.pac
       \/ todo[p] = <<"sys", "pac">> /\ ~(s.sys /\ ~s.pac)
       \/ todo[p] = <<"pac">> /\ ~(s.sys /\ ~s.pac) /\ ~os.sys
       \/ todo[p] = <<>> /\ Uses(os, s)

Progress(p) == guardType = WantedGuard(seen[p]) /\ SoFar(p)

Effective ==
    /\ draft # None => \E p \in Patchers : ToCommit(p)
    /\ \A p \in Patchers : Applying(p) /\ (\A q \in Patchers : pc[q] # "before") => seen[p] = Latest
    /\ \A p \in Patchers : pc[p] = "apply" => Progress(p)
    /\ (\A p \in Patchers : ~ToApply(p)) => Uses(os, Latest) /\ guardType = WantedGuard(Latest)
    /\ "guard" \notin crossed /\ (\A p \in Patchers : ~ToGuard(p)) => (guardOn <=> (Latest.sys /\ Latest.guard))
    /\ "file" \notin crossed =>
          /\ (\A p \in Patchers : pc[p] # "save") => file = data
          /\ \A p \in Patchers : pc[p] = "save" =>
                seen[p] = data /\ \A q \in Patchers : pc[q] = "save" => q = p

AllIdle == \A p \in Patchers : pc[p] = "idle"
Off == ~os.sys /\ ~os.pac

Ending ==
    /\ AllIdle
    /\ ~tainted =>
          /\ quitting = "cleaning" => Uses(os, data) /\ guardType = WantedGuard(data)
          /\ quitting # "cleaning" => guardType = "none"
          /\ quitting = "resetPac" => ~os.sys
          /\ quitting \in {"exiting", "gone"} => Off

IInv ==
    /\ TypeOK /\ Holds
    /\ quitting = "no" /\ ~tainted => Effective
    /\ quitting # "no" /\ ~raced => Ending

LEMMA NoneIsNone == None \notin Settings /\ None \notin Patchers
BY ProxyAssumption DEF Settings

LEMMA LatestType == TypeOK => Latest \in Settings
BY NoneIsNone DEF TypeOK, Latest, Settings

\* The writes that are left, one by one.
LEMMA Steps ==
    /\ <<"sys">> # <<>> /\ <<"pac">> # <<>> /\ <<"pac", "sys">> # <<>> /\ <<"sys", "pac">> # <<>>
    /\ Head(<<"sys">>) = "sys" /\ Tail(<<"sys">>) = <<>>
    /\ Head(<<"pac">>) = "pac" /\ Tail(<<"pac">>) = <<>>
    /\ Head(<<"sys", "pac">>) = "sys" /\ Tail(<<"sys", "pac">>) = <<"pac">>
    /\ Head(<<"pac", "sys">>) = "pac" /\ Tail(<<"pac", "sys">>) = <<"sys">>
    /\ "sys" # "pac"
<1>1. <<"sys">> # <<>> /\ <<"pac">> # <<>> /\ <<"pac", "sys">> # <<>> /\ <<"sys", "pac">> # <<>>
  OBVIOUS
<1>2. Head(<<"sys">>) = "sys" /\ Head(<<"pac">>) = "pac" /\ Head(<<"sys", "pac">>) = "sys"
      /\ Head(<<"pac", "sys">>) = "pac"
  OBVIOUS
<1>3. Tail(<<"sys">>) = <<>> /\ Tail(<<"pac">>) = <<>>
  OBVIOUS
<1>4. Tail(<<"sys", "pac">>) = <<"pac">> /\ Tail(<<"pac", "sys">>) = <<"sys">>
  OBVIOUS
<1> QED BY <1>1, <1>2, <1>3, <1>4

LEMMA ProxyRecord == ASSUME NEW a \in BOOLEAN, NEW b \in BOOLEAN PROVE [sys |-> a, pac |-> b] \in Proxies
BY DEF Proxies

\* What is wanted is one of the two proxies or none, and the steps end with it.
LEMMA WantedIsUsed ==
    ASSUME NEW s \in Settings
    PROVE  /\ s.sys \in BOOLEAN /\ s.pac \in BOOLEAN /\ s.guard \in BOOLEAN
           /\ Wanted(s) \in Proxies /\ Uses(Wanted(s), s)
           /\ WantedGuard(s) \in {"none", "sys", "pac"}
           /\ ApplySteps(Wanted(s)) \in Seq({"sys", "pac"})
           /\ ApplySteps(Wanted(s)) = IF s.sys /\ ~s.pac THEN <<"pac", "sys">> ELSE <<"sys", "pac">>
<1>1. s.sys \in BOOLEAN /\ s.pac \in BOOLEAN /\ s.guard \in BOOLEAN
  BY DEF Settings, Fields
<1>2. Wanted(s) \in Proxies
  <2>1. (s.sys /\ ~s.pac) \in BOOLEAN /\ (s.sys /\ s.pac) \in BOOLEAN
    OBVIOUS
  <2> QED BY <2>1, ProxyRecord DEF Wanted
<1>3. Uses(Wanted(s), s)
  BY DEF Uses, Wanted
<1>4. WantedGuard(s) \in {"none", "sys", "pac"}
  BY DEF WantedGuard
<1>5. <<"pac", "sys">> \in Seq({"sys", "pac"}) /\ <<"sys", "pac">> \in Seq({"sys", "pac"})
  OBVIOUS
<1>6. ApplySteps(Wanted(s)) = IF s.sys /\ ~s.pac THEN <<"pac", "sys">> ELSE <<"sys", "pac">>
  BY <1>1, <1>3 DEF Uses, ApplySteps
<1> QED BY <1>1, <1>2, <1>3, <1>4, <1>5, <1>6

\* Turning PAC off may clear the other proxy, too; else a write changes one of the two.
LEMMA WrittenOK ==
    ASSUME os \in Proxies, NEW b \in BOOLEAN
    PROVE  /\ Written("sys", b) \in Proxies /\ Written("pac", b) \in Proxies
           /\ (Written("sys", b).sys <=> b) /\ (Written("sys", b).pac <=> os.pac)
           /\ (Written("pac", b).pac <=> b) /\ (~os.sys => ~Written("pac", b).sys)
<1>1. os.sys \in BOOLEAN /\ os.pac \in BOOLEAN
  BY DEF Proxies
<1>2. Written("sys", b) = [os EXCEPT !["sys"] = b]
  BY DEF Written
<1>3. Written("sys", b) \in Proxies /\ Written("sys", b).sys = b /\ Written("sys", b).pac = os.pac
  BY <1>2 DEF Proxies
<1>4. CASE ~b /\ PacOffClears
  <2>1. Written("pac", b) = [sys |-> FALSE, pac |-> FALSE]
    BY <1>4 DEF Written
  <2>2. Written("pac", b) \in Proxies /\ Written("pac", b).sys = FALSE /\ Written("pac", b).pac = FALSE
    <3>1. [sys |-> FALSE, pac |-> FALSE] \in Proxies
      BY ProxyRecord
    <3>2. [sys |-> FALSE, pac |-> FALSE].sys = FALSE /\ [sys |-> FALSE, pac |-> FALSE].pac = FALSE
      OBVIOUS
    <3> QED BY <2>1, <3>1, <3>2
  <2> QED BY <1>3, <1>4, <2>2
<1>5. CASE ~(~b /\ PacOffClears)
  <2>1. Written("pac", b) = [os EXCEPT !["pac"] = b]
    BY <1>5 DEF Written
  <2>2. Written("pac", b) \in Proxies /\ Written("pac", b).pac = b /\ Written("pac", b).sys = os.sys
    BY <2>1 DEF Proxies
  <2> QED BY <1>3, <2>2
<1> QED BY <1>4, <1>5

LEMMA InitOK == Init => IInv
<1> SUFFICES ASSUME Init PROVE IInv
  OBVIOUS
<1>1. data \in Settings /\ data.sys \in BOOLEAN /\ data.pac \in BOOLEAN /\ data.guard \in BOOLEAN
  BY DEF Init, Settings, Fields
<1>2. Wanted(data) \in Proxies /\ Uses(Wanted(data), data)
  BY <1>1, WantedIsUsed
<1>3. TypeOK
  <2>1. WantedGuard(data) \in {"none", "sys", "pac"} /\ (WantedGuard(data) # "none") \in BOOLEAN
    BY DEF WantedGuard
  <2>2. count \in 0 .. MaxPatches
    BY ProxyAssumption DEF Init
  <2>3. guardOn \in BOOLEAN /\ guardType \in {"none", "sys", "pac"}
    BY <2>1 DEF Init
  <2>4. /\ os \in Proxies /\ inner \in Proxies /\ data \in Settings /\ file \in Settings
        /\ seen \in [Patchers -> Settings] /\ todo \in [Patchers -> Seq({"sys", "pac"})]
    BY <1>1, <1>2 DEF Init
  <2> QED BY <2>2, <2>3, <2>4 DEF Init, TypeOK, Settings, Proxies
<1>4. Holds
  BY NoneIsNone DEF Init, Holds, Applying
<1>5. Effective
  <2>1. guardOn <=> (data.sys /\ data.guard)
    BY <1>1 DEF Init, WantedGuard
  <2> QED BY <1>2, <2>1 DEF Init, Effective, Latest, ToCommit, ToGuard, ToApply, Applying
<1> QED BY <1>3, <1>4, <1>5 DEF IInv, Init

------------------------------------------------------------------------------
(* Types and the lock. *)

\* Apply, unless the write fails.
Writes(p) ==
    /\ Alive /\ pc[p] = "apply" /\ todo[p] # <<>>
    /\ os' = Written(Head(todo[p]), Wanted(seen[p])[Head(todo[p])])
    /\ todo' = [todo EXCEPT ![p] = Tail(todo[p])]
    /\ UNCHANGED <<settings, inner, guardType, guardOn, lock, pc, seen, quitting, history>>

LEMMA ApplyCases == ASSUME NEW p \in Patchers, Apply(p) PROVE Writes(p) \/ (Abandon(p) /\ UNCHANGED os)
BY DEF Apply, Writes

LEMMA TypesKept == TypeOK /\ Holds /\ [Next]_vars => TypeOK' /\ Holds'
<1> SUFFICES ASSUME TypeOK, Holds, [Next]_vars PROVE TypeOK' /\ Holds'
  OBVIOUS
<1>1. /\ os \in Proxies /\ Latest \in [Fields -> BOOLEAN] /\ None \notin Patchers
      /\ \A p \in Patchers : seen[p] \in Settings
  BY LatestType, NoneIsNone DEF TypeOK, Settings, Proxies
<1> USE <1>1
<1> USE DEF TypeOK, Holds, Applying, Goto, settings, proxy, locals, history
<1>2. CASE UNCHANGED vars
  BY <1>2 DEF vars
<1>3. ASSUME NEW p \in Patchers, Edit(p) PROVE TypeOK' /\ Holds'
  <2>1. draft' \in [Fields -> BOOLEAN]
    BY <1>3 DEF Edit
  <2>2. count' \in 0 .. MaxPatches
    BY <1>3, ProxyAssumption DEF Edit
  <2> QED BY <1>3, <2>1, <2>2 DEF Edit
<1>4. ASSUME NEW p \in Patchers, Abandon(p), UNCHANGED os PROVE TypeOK' /\ Holds'
  <2>1. pc' = [pc EXCEPT ![p] = "idle"] /\ lock' = IF lock = p THEN None ELSE lock
    BY <1>4 DEF Abandon
  <2>2. Holds'
    BY <2>1
  <2>3. todo' \in [Patchers -> Seq({"sys", "pac"})]
    BY <1>4 DEF Abandon
  <2> QED BY <1>4, <2>1, <2>2, <2>3 DEF Abandon
<1>5. ASSUME NEW p \in Patchers, FailBefore(p) \/ FailAfter(p) PROVE TypeOK' /\ Holds'
  BY <1>4, <1>5 DEF FailBefore, FailAfter
<1>6. ASSUME NEW p \in Patchers, Lock(p) PROVE TypeOK' /\ Holds'
  BY <1>6 DEF Lock
<1>7. ASSUME NEW p \in Patchers, Prepare(p) PROVE TypeOK' /\ Holds'
  <2>1. inner' \in Proxies /\ guardType' \in {"none", "sys", "pac"}
    BY <1>7, WantedIsUsed DEF Prepare
  <2>2. todo' \in [Patchers -> Seq({"sys", "pac"})]
    BY <1>7, WantedIsUsed DEF Prepare
  <2> QED BY <1>7, <2>1, <2>2 DEF Prepare, Proxies
<1>8. ASSUME NEW p \in Patchers, Writes(p) PROVE TypeOK' /\ Holds'
  <2>1. todo[p] \in Seq({"sys", "pac"}) /\ todo[p] # <<>>
    BY <1>8 DEF Writes
  <2>2. Head(todo[p]) \in {"sys", "pac"} /\ Tail(todo[p]) \in Seq({"sys", "pac"})
    BY <2>1
  <2>3. Wanted(seen[p])[Head(todo[p])] \in BOOLEAN
    <3>1. Wanted(seen[p]) \in Proxies
      BY WantedIsUsed
    <3> QED BY <2>2, <3>1 DEF Proxies
  <2>4. os' \in Proxies
    <3>1. os' = Written(Head(todo[p]), Wanted(seen[p])[Head(todo[p])])
      BY <1>8 DEF Writes
    <3> QED BY <2>2, <2>3, <3>1, WrittenOK
  <2>5. todo' \in [Patchers -> Seq({"sys", "pac"})]
    BY <1>8, <2>2 DEF Writes
  <2> QED BY <1>8, <2>4, <2>5 DEF Writes, Proxies
<1>9. ASSUME NEW p \in Patchers, Unlock(p) PROVE TypeOK' /\ Holds'
  BY <1>9 DEF Unlock
<1>10. ASSUME NEW p \in Patchers, ReadForGuard(p) PROVE TypeOK' /\ Holds'
  BY <1>10 DEF ReadForGuard
<1>11. ASSUME NEW p \in Patchers, StartOrStop(p) PROVE TypeOK' /\ Holds'
  <2>1. guardOn' \in BOOLEAN
    BY <1>11 DEF StartOrStop
  <2> QED BY <1>11, <2>1 DEF StartOrStop
<1>12. ASSUME NEW p \in Patchers, Commit(p) PROVE TypeOK' /\ Holds'
  BY <1>12 DEF Commit
<1>13. ASSUME NEW p \in Patchers, Save(p) PROVE TypeOK' /\ Holds'
  <2>1. file' \in [Fields -> BOOLEAN] /\ tainted' \in BOOLEAN
    BY <1>13 DEF Save, Settings
  <2> QED BY <1>13, <2>1 DEF Save
<1>14. CASE Enforce
  BY <1>14 DEF Enforce
<1>15. CASE Quit \/ Skip \/ Exit \/ ResetFails
  <2>1. CASE Quit
    <3>1. UNCHANGED <<proxy, locals, tainted, crossed, count>> /\ raced' \in BOOLEAN /\ quitting' = "cleaning"
      BY <2>1 DEF Quit, Step
    <3>2. draft' = None /\ data' \in [Fields -> BOOLEAN] /\ file' \in [Fields -> BOOLEAN]
      BY <2>1 DEF Quit
    <3> QED BY <3>1, <3>2
  <2>2. CASE Skip \/ Exit \/ ResetFails
    BY <2>2 DEF Skip, Exit, ResetFails, Step
  <2> QED BY <1>15, <2>1, <2>2
<1>16. CASE Reset
  BY <1>16, ProxyRecord DEF Reset, Step, Proxies
<1>17. CASE ResetSys \/ ResetPac
  <2>1. os' \in Proxies
    BY <1>17, WrittenOK DEF ResetSys, ResetPac
  <2>2. CASE ResetSys
    BY <2>1, <2>2 DEF ResetSys, Step, Proxies
  <2>3. CASE ResetPac
    BY <2>1, <2>3 DEF ResetPac, Step, Proxies
  <2> QED BY <1>17, <2>2, <2>3
<1>18. ASSUME NEW p \in Patchers, Apply(p) PROVE TypeOK' /\ Holds'
  BY <1>4, <1>8, <1>18, ApplyCases
<1> QED BY <1>2, <1>3, <1>5, <1>6, <1>7, <1>9, <1>10, <1>11, <1>12, <1>13, <1>14, <1>15, <1>16, <1>17, <1>18
        DEF Next, Patch, QuitSteps

------------------------------------------------------------------------------
(* While the application runs. *)

\* Nothing of a patch that is under way is excused while nothing failed.
LEMMA EffectiveSteps ==
    ASSUME IInv, TypeOK', Holds', quitting = "no", quitting' = "no", ~tainted', NEW p \in Patchers, Patch(p)
    PROVE  Effective'
<1>1. /\ TypeOK /\ Holds /\ Latest \in Settings /\ Latest' \in Settings /\ os \in Proxies /\ os' \in Proxies
      /\ p # None /\ data \in Settings /\ data # None /\ \A q \in Patchers : seen[q] \in Settings
      /\ pc \in [Patchers -> {"idle", "before", "locked", "apply", "refresh", "guard", "after", "save"}]
      /\ seen \in [Patchers -> Settings] /\ todo \in [Patchers -> Seq({"sys", "pac"})]
  <2>1. TypeOK /\ Holds
    BY DEF IInv
  <2>2. Latest \in Settings
    BY <2>1, LatestType
  <2>3. Latest' \in Settings
    <3>1. data' \in Settings /\ draft' \in Settings \cup {None}
      BY DEF TypeOK, Settings
    <3> QED BY <3>1, NoneIsNone DEF Latest
  <2> QED BY <2>1, <2>2, <2>3, NoneIsNone DEF TypeOK, Settings, Proxies
<1>2. ~Abandon(p) /\ ~tainted
  BY DEF Abandon, Patch, Edit, FailBefore, Lock, Prepare, Apply, Unlock, ReadForGuard, StartOrStop, FailAfter, Commit,
         Save, history
<1>3. Effective
  BY <1>2 DEF IInv
<1> USE <1>1, <1>3
<1> USE DEF Goto, Applying, ToApply, ToGuard, ToCommit
<1>4. CASE Edit(p)
  <2>1. /\ pc' = [pc EXCEPT ![p] = "before"] /\ pc[p] = "idle"
        /\ UNCHANGED <<data, file, proxy, lock, seen, todo, crossed>>
    BY <1>4 DEF Edit
  <2> QED BY <2>1 DEF Effective, Progress, SoFar, Uses, proxy, Holds
<1>5. CASE Lock(p)
  <2>1. /\ pc' = [pc EXCEPT ![p] = "locked"] /\ pc[p] = "before" /\ lock = None
        /\ seen' = [seen EXCEPT ![p] = Latest] /\ Latest' = Latest
        /\ UNCHANGED <<settings, proxy, todo, crossed>>
    BY <1>5 DEF Lock, settings, history, Latest
  <2>2. \A q \in Patchers \ {p} : ~Applying(q)
    BY <2>1, NoneIsNone DEF Holds
  <2> QED BY <2>1, <2>2 DEF Effective, Progress, SoFar, Uses, settings, proxy
<1>6. CASE Prepare(p)
  <2>1. /\ pc' = [pc EXCEPT ![p] = "apply"] /\ pc[p] = "locked"
        /\ guardType' = WantedGuard(seen[p]) /\ todo'[p] = ApplySteps(Wanted(seen[p])) /\ Latest' = Latest
        /\ UNCHANGED <<settings, os, guardOn, seen, crossed>>
    BY <1>6 DEF Prepare, settings, history, Latest
  <2>2. \A q \in Patchers \ {p} : ~Applying(q)
    BY <2>1 DEF Holds
  <2>3. Progress(p)'
    <3>1. ApplySteps(Wanted(seen[p])) = IF seen[p].sys /\ ~seen[p].pac THEN <<"pac", "sys">> ELSE <<"sys", "pac">>
      BY WantedIsUsed
    <3> QED BY <2>1, <3>1 DEF Progress, SoFar
  <2> QED BY <2>1, <2>2, <2>3 DEF Effective, settings
<1>7. CASE Writes(p)
  <2>1. /\ pc' = pc /\ pc[p] = "apply" /\ Latest' = Latest
        /\ UNCHANGED <<settings, guardType, guardOn, lock, seen, crossed>>
    BY <1>7 DEF Writes, settings, history, Latest
  <2>2. \A q \in Patchers \ {p} : ~Applying(q)
    BY <2>1 DEF Holds
  <2>3. Progress(p)'
    <3>1. Progress(p) /\ seen[p] \in Settings
      BY <2>1 DEF Effective
    <3>2. Uses(Wanted(seen[p]), seen[p]) /\ Wanted(seen[p]) \in Proxies
      BY WantedIsUsed
    <3>3. /\ os' = Written(Head(todo[p]), Wanted(seen[p])[Head(todo[p])])
          /\ todo'[p] = Tail(todo[p]) /\ todo[p] # <<>>
      BY <1>7 DEF Writes
    <3>4. Wanted(seen[p]).sys \in BOOLEAN /\ Wanted(seen[p]).pac \in BOOLEAN
      BY <3>2 DEF Proxies
    <3>8. SoFar(p)
      BY <3>1 DEF Progress
    <3>5. CASE Head(todo[p]) = "sys"
      <4>1. os' = Written("sys", Wanted(seen[p]).sys)
        BY <3>3, <3>5
      <4>2. (os'.sys <=> Wanted(seen[p]).sys) /\ (os'.pac <=> os.pac)
        BY <3>4, <4>1, WrittenOK
      <4>3. \/ todo[p] = <<"sys">> /\ seen[p].sys /\ ~seen[p].pac /\ ~os.pac /\ todo'[p] = <<>>
            \/ todo[p] = <<"sys", "pac">> /\ ~(seen[p].sys /\ ~seen[p].pac) /\ todo'[p] = <<"pac">>
        BY ONLY <3>3, <3>5, <3>8, Steps, Zenon DEF SoFar
      <4> QED BY <2>1, <3>1, <3>2, <4>2, <4>3 DEF Progress, SoFar, Uses
    <3>6. CASE Head(todo[p]) = "pac"
      <4>1. os' = Written("pac", Wanted(seen[p]).pac)
        BY <3>3, <3>6
      <4>2. (os'.pac <=> Wanted(seen[p]).pac) /\ (~os.sys => ~os'.sys)
        BY <3>4, <4>1, WrittenOK
      <4>3. \/ todo[p] = <<"pac", "sys">> /\ seen[p].sys /\ ~seen[p].pac /\ todo'[p] = <<"sys">>
            \/ todo[p] = <<"pac">> /\ ~(seen[p].sys /\ ~seen[p].pac) /\ ~os.sys /\ todo'[p] = <<>>
        BY ONLY <3>3, <3>6, <3>8, Steps, Zenon DEF SoFar
      <4> QED BY <2>1, <3>1, <3>2, <4>2, <4>3 DEF Progress, SoFar, Uses
    <3>7. Head(todo[p]) \in {"sys", "pac"}
      BY <3>3
    <3> QED BY <3>5, <3>6, <3>7
  <2> QED BY <2>1, <2>2, <2>3 DEF Effective, settings
<1>8. CASE Unlock(p)
  <2>1. /\ pc' = [pc EXCEPT ![p] = "refresh"] /\ pc[p] = "apply" /\ todo[p] = <<>> /\ Latest' = Latest
        /\ UNCHANGED <<settings, proxy, seen, todo, crossed>>
    BY <1>8 DEF Unlock, settings, history, Latest
  <2>2. \A q \in Patchers \ {p} : ~Applying(q)
    BY <2>1 DEF Holds
  <2>3. (\A q \in Patchers : pc[q] # "before") => seen[p] = Latest
    BY <2>1 DEF Effective
  <2>4. Uses(os, seen[p]) /\ guardType = WantedGuard(seen[p])
    <3>1. Progress(p)
      BY <2>1 DEF Effective
    <3> QED BY ONLY <2>1, <3>1, Steps, Zenon DEF Progress, SoFar
  <2>5. (\A q \in Patchers : ~ToApply(q)') => Uses(os, Latest) /\ guardType = WantedGuard(Latest)
    BY <2>1, <2>3, <2>4
  <2> QED BY <2>1, <2>2, <2>5 DEF Effective, Uses, settings, proxy
<1>9. CASE ReadForGuard(p)
  <2>1. /\ pc' = [pc EXCEPT ![p] = "guard"] /\ pc[p] = "refresh" /\ Latest' = Latest
        /\ seen' = [seen EXCEPT ![p] = Latest]
        /\ UNCHANGED <<settings, proxy, todo, crossed>>
    BY <1>9 DEF ReadForGuard, settings, history, Latest
  <2> QED BY <2>1 DEF Effective, Progress, SoFar, Uses, settings, proxy
<1>10. CASE StartOrStop(p)
  <2>1. /\ pc' = [pc EXCEPT ![p] = "after"] /\ pc[p] = "guard" /\ Latest' = Latest
        /\ crossed \subseteq crossed' /\ (seen[p] # Latest => "guard" \in crossed')
        /\ "file" \in crossed' => "file" \in crossed
        /\ guardOn' = (seen[p].sys /\ seen[p].guard)
        /\ UNCHANGED <<settings, os, guardType, seen, todo>>
    BY <1>10 DEF StartOrStop, settings, Latest
  <2>2. "guard" \notin crossed' => guardOn' = (Latest.sys /\ Latest.guard)
    BY <2>1
  <2>3. \A q \in Patchers : pc'[q] = "apply" => Progress(q)'
    BY <2>1 DEF Effective, Progress, SoFar, Uses
  <2>4. \A q \in Patchers : q # p => pc'[q] = pc[q]
    BY <2>1
  <2>5. ("file" \notin crossed)' => "file" \notin crossed
    BY <2>1
  <2>6. ("file" \notin crossed)' =>
          /\ (\A q \in Patchers : pc'[q] # "save") => file' = data'
          /\ \A q \in Patchers : pc'[q] = "save" =>
                seen'[q] = data' /\ \A r \in Patchers : pc'[r] = "save" => r = q
    BY <2>1, <2>4, <2>5 DEF Effective, settings
  <2>7. (draft # None)' => \E q \in Patchers : ToCommit(q)'
    BY <2>1
  <2>8. \A q \in Patchers : Applying(q)' /\ (\A r \in Patchers : pc'[r] # "before") => seen'[q] = Latest'
    BY <2>1, <2>4 DEF Effective
  <2>9. (\A q \in Patchers : ~ToApply(q)') => Uses(os', Latest') /\ guardType' = WantedGuard(Latest')
    BY <2>1, <2>4 DEF Effective
  <2> QED BY <2>1, <2>2, <2>3, <2>6, <2>7, <2>8, <2>9 DEF Effective
<1>11. CASE Commit(p)
  <2>1. /\ pc' = [pc EXCEPT ![p] = "save"] /\ pc[p] = "after" /\ Latest' = Latest
        /\ data' = Latest /\ draft' = None /\ seen' = [seen EXCEPT ![p] = Latest]
        /\ crossed \subseteq crossed' /\ (OtherSaves => "file" \in crossed')
        /\ "guard" \in crossed' => "guard" \in crossed
        /\ UNCHANGED <<file, proxy, todo>>
    BY <1>11, NoneIsNone DEF Commit, Latest
  <2> QED BY <2>1 DEF Effective, Progress, SoFar, Uses, OtherSaves, proxy
<1>12. CASE Save(p)
  <2>1. /\ pc' = [pc EXCEPT ![p] = "idle"] /\ pc[p] = "save" /\ Latest' = Latest
        /\ file' = seen[p]
        /\ UNCHANGED <<data, draft, proxy, seen, todo, crossed>>
    BY <1>12 DEF Save, Latest
  <2> QED BY <2>1 DEF Effective, Progress, SoFar, Uses, proxy
<1> QED BY <1>2, <1>4, <1>5, <1>6, <1>7, <1>8, <1>9, <1>10, <1>11, <1>12, ApplyCases
        DEF Patch, FailBefore, FailAfter

\* What the guard writes is what the settings it was given say.
LEMMA GuardWrites ==
    ASSUME NEW s \in Settings, guardType = WantedGuard(s), Enforce, os \in Proxies
    PROVE  /\ s.sys /\ os'.sys = (IF s.pac THEN os.sys ELSE TRUE) /\ os'.pac = (IF s.pac THEN TRUE ELSE os.pac)
           /\ Uses(os, s) => Uses(os', s)
<1>1. /\ s.sys /\ guardType = IF s.pac THEN "pac" ELSE "sys"
      /\ os' = [os EXCEPT ![guardType] = TRUE]
  BY DEF WantedGuard, Enforce
<1>2. os'.sys = (IF s.pac THEN os.sys ELSE TRUE) /\ os'.pac = (IF s.pac THEN TRUE ELSE os.pac)
  BY <1>1 DEF Proxies
<1> QED BY <1>1, <1>2 DEF Uses

LEMMA EnforceSteps ==
    ASSUME IInv, Enforce, quitting = "no", ~tainted
    PROVE  Effective'
<1>1. /\ TypeOK /\ Holds /\ Effective /\ os \in Proxies /\ Latest \in Settings
      /\ \A q \in Patchers : seen[q] \in Settings
  BY LatestType DEF IInv, TypeOK, Proxies, Settings
<1>2. /\ UNCHANGED <<data, draft, file, inner, guardType, guardOn, lock, pc, seen, todo, crossed>>
      /\ Latest' = Latest
  BY DEF Enforce, settings, locals, history, Latest
<1>3. ASSUME NEW p \in Patchers, pc[p] = "apply" PROVE Progress(p)'
  <2>1. Progress(p)
    BY <1>1, <1>3 DEF Effective
  <2>2. /\ seen[p].sys /\ os'.sys = (IF seen[p].pac THEN os.sys ELSE TRUE)
        /\ os'.pac = (IF seen[p].pac THEN TRUE ELSE os.pac)
        /\ Uses(os, seen[p]) => Uses(os', seen[p])
    BY <1>1, <2>1, GuardWrites DEF Progress
  <2>3. guardType' = WantedGuard(seen'[p]) /\ seen'[p] = seen[p] /\ todo'[p] = todo[p]
    BY <1>2, <2>1 DEF Progress
  <2>4. seen[p].pac \in BOOLEAN
    BY <1>1, WantedIsUsed
  <2>5. SoFar(p)'
    BY <2>1, <2>2, <2>3, <2>4 DEF Progress, SoFar
  <2> QED BY <2>3, <2>5 DEF Progress
<1>4. Uses(os, Latest) /\ guardType = WantedGuard(Latest) => Uses(os', Latest)
  BY <1>1, GuardWrites
<1> QED BY <1>1, <1>2, <1>3, <1>4 DEF Effective, Applying, ToApply, ToGuard, ToCommit

------------------------------------------------------------------------------
(* While the application quits. *)

\* A patch that starts now has run into the quit, and no other is under way.
LEMMA PatchesRace ==
    ASSUME IInv, quitting # "no", NEW p \in Patchers, Patch(p), ~raced'
    PROVE  FALSE
<1>1. ~raced
  BY DEF Patch, Edit, FailBefore, Lock, Prepare, Apply, Unlock, ReadForGuard, StartOrStop, FailAfter, Commit, Save,
         Abandon, history
<1>2. pc[p] = "idle"
  BY <1>1 DEF IInv, Ending, AllIdle
<1>3. Edit(p)
  BY <1>2 DEF Patch, FailBefore, Lock, Prepare, Apply, Unlock, ReadForGuard, StartOrStop, FailAfter, Commit, Save
<1> QED BY <1>3 DEF Edit

LEMMA QuitBegins ==
    ASSUME IInv, Quit, ~raced'
    PROVE  Ending'
<1>1. /\ TypeOK /\ quitting = "no" /\ quitting' = "cleaning" /\ data' = Latest
      /\ UNCHANGED <<os, guardType, pc, tainted>>
      /\ raced' = \E p \in Patchers : pc[p] # "idle"
  BY DEF Quit, Step, IInv, proxy, locals
<1>2. AllIdle
  BY <1>1 DEF AllIdle
<1>3. AllIdle'
  BY <1>1, <1>2 DEF AllIdle
<1>4. ~tainted => Uses(os, Latest) /\ guardType = WantedGuard(Latest)
  <2>1. \A p \in Patchers : ~ToApply(p)
    BY <1>2 DEF AllIdle, ToApply, Applying
  <2> QED BY <1>1, <2>1 DEF IInv, Effective
<1> QED BY <1>1, <1>3, <1>4 DEF Ending, Uses

LEMMA EndingSteps ==
    ASSUME IInv, quitting # "no", ~raced, Enforce \/ (QuitSteps /\ ~Quit)
    PROVE  Ending'
<1>1. TypeOK /\ Ending /\ os \in Proxies /\ data \in Settings
  BY DEF IInv, TypeOK, Proxies, Settings
<1>2. AllIdle'
  BY <1>1 DEF Ending, AllIdle, Enforce, QuitSteps, Skip, Reset, ResetSys, ResetPac, ResetFails, Exit, locals
<1>3. CASE Enforce
  <2>1. UNCHANGED <<data, guardType, quitting, tainted>> /\ guardType # "none"
    BY <1>3 DEF Enforce, settings, history
  <2>2. ~tainted => quitting = "cleaning" /\ Uses(os, data) /\ guardType = WantedGuard(data)
    BY <1>1, <2>1 DEF Ending
  <2>3. ~tainted => Uses(os', data)
    BY <1>1, <1>3, <2>2, GuardWrites
  <2> QED BY <1>2, <2>1, <2>2, <2>3 DEF Ending, Uses
<1>4. CASE Skip
  <2>1. UNCHANGED <<data, os, guardType, tainted>> /\ ~data.sys /\ quitting = "cleaning" /\ quitting' = "exiting"
    BY <1>4 DEF Skip, Step, settings, proxy, history
  <2>2. ~tainted => Off /\ guardType = "none"
    BY <1>1, <2>1 DEF Ending, Uses, Off, WantedGuard
  <2> QED BY <1>2, <2>1, <2>2 DEF Ending, Off
<1>5. CASE Reset
  <2>1. UNCHANGED <<os, tainted>> /\ guardType' = "none" /\ quitting' = "reset"
    BY <1>5 DEF Reset, Step, history
  <2> QED BY <1>2, <2>1 DEF Ending
<1>6. CASE ResetSys
  <2>1. UNCHANGED <<guardType, tainted>> /\ quitting = "reset" /\ quitting' = "resetPac" /\ os' = Written("sys", FALSE)
    BY <1>6 DEF ResetSys, Step, history
  <2>2. ~os'.sys
    BY <1>1, <2>1, WrittenOK
  <2> QED BY <1>1, <1>2, <2>1, <2>2 DEF Ending
<1>7. CASE ResetPac
  <2>1. /\ UNCHANGED <<guardType, tainted>> /\ quitting = "resetPac" /\ quitting' = "exiting"
        /\ os' = Written("pac", FALSE)
    BY <1>7 DEF ResetPac, Step, history
  <2>2. ~os'.pac /\ (~os.sys => ~os'.sys)
    BY <1>1, <2>1, WrittenOK
  <2> QED BY <1>1, <1>2, <2>1, <2>2 DEF Ending, Off
<1>8. CASE ResetFails
  BY <1>2, <1>8 DEF ResetFails, Ending
<1>9. CASE Exit
  <2>1. UNCHANGED <<os, guardType, tainted>> /\ quitting = "exiting" /\ quitting' = "gone"
    BY <1>9 DEF Exit, Step, proxy, history
  <2> QED BY <1>1, <1>2, <2>1 DEF Ending, Off
<1> QED BY <1>3, <1>4, <1>5, <1>6, <1>7, <1>8, <1>9 DEF QuitSteps

------------------------------------------------------------------------------
(* The theorems. *)

LEMMA StepOK == IInv /\ [Next]_vars => IInv'
<1> SUFFICES ASSUME IInv, [Next]_vars PROVE IInv'
  OBVIOUS
<1>1. TypeOK' /\ Holds'
  BY TypesKept DEF IInv
<1>2. CASE UNCHANGED vars
  BY <1>1, <1>2 DEF vars, settings, proxy, locals, history, IInv, Effective, Ending, Latest, Applying, ToApply, ToGuard,
                    ToCommit, Progress, SoFar, Uses, AllIdle, Off
<1>3. ASSUME NEW p \in Patchers, Patch(p) PROVE IInv'
  <2>1. quitting' = quitting
    BY <1>3 DEF Patch, Edit, FailBefore, Lock, Prepare, Apply, Unlock, ReadForGuard, StartOrStop, FailAfter, Commit, Save,
                Abandon
  <2>2. quitting' = "no" /\ ~tainted' => Effective'
    BY <1>1, <1>3, <2>1, EffectiveSteps
  <2>3. ~(quitting' # "no" /\ ~raced')
    BY <1>3, <2>1, PatchesRace
  <2> QED BY <1>1, <2>2, <2>3 DEF IInv
<1>4. CASE Enforce
  <2>1. UNCHANGED <<quitting, tainted, raced>>
    BY <1>4 DEF Enforce, history
  <2> QED BY <1>1, <1>4, <2>1, EnforceSteps, EndingSteps DEF IInv
<1>5. CASE Quit
  <2>1. quitting' = "cleaning"
    BY <1>5 DEF Quit, Step
  <2> QED BY <1>1, <1>5, <2>1, QuitBegins DEF IInv
<1>6. CASE QuitSteps /\ ~Quit
  <2>1. quitting # "no" /\ quitting' # "no" /\ raced' = raced
    BY <1>6 DEF QuitSteps, Skip, Reset, ResetSys, ResetPac, ResetFails, Exit, Step, history
  <2> QED BY <1>1, <1>6, <2>1, EndingSteps DEF IInv
<1> QED BY <1>2, <1>3, <1>4, <1>5, <1>6 DEF Next

\* The invariant holds in every state: with a quit that no patch ran into, all patches
\* are idle; while the application runs and nothing failed, the settings are in use but
\* for what the patches under way have left to do.
THEOREM Inductive == Spec => []IInv
<1>1. Init => IInv
  BY InitOK
<1>2. IInv /\ [Next]_vars => IInv'
  BY StepOK
<1> QED BY <1>1, <1>2, PTL DEF Spec

\* Every variable has its type, for any callers, any number of patches and any of the
\* steps of patch_verge and of quit failing.
THEOREM TypeCorrect == Spec => []TypeOK
<1>1. IInv => TypeOK
  BY DEF IInv
<1> QED BY <1>1, Inductive, PTL

\* Whatever patches of the settings ran concurrently, when they are over and none
\* failed the operating system, the guard and the file have what the settings say.
THEOREM SettingsAreUsed == Spec => []SettingsTakeEffect
<1>1. IInv => SettingsTakeEffect
  <2> SUFFICES ASSUME IInv, Quiet, ~tainted PROVE
           /\ draft = None /\ os = Wanted(data)
           /\ guardType = WantedGuard(data)
           /\ "guard" \notin crossed => guardOn = (data.sys /\ data.guard)
           /\ "file" \notin crossed => file = data
    BY DEF SettingsTakeEffect
  <2>1. Effective /\ TypeOK
    BY DEF IInv, Quiet
  <2>2. \A p \in Patchers : ~ToCommit(p) /\ ~ToGuard(p) /\ ~ToApply(p) /\ pc[p] # "save"
    BY DEF Quiet, ToCommit, ToGuard, ToApply, Applying
  <2>3. draft = None /\ Latest = data
    BY <2>1, <2>2 DEF Effective, Latest
  <2>4. data \in Settings /\ os \in Proxies /\ guardOn \in BOOLEAN
    BY <2>1 DEF TypeOK, Settings, Proxies
  <2>5. Uses(os, data) /\ guardType = WantedGuard(data)
    BY <2>1, <2>2, <2>3 DEF Effective
  <2>6. os = Wanted(data)
    <3>1. Wanted(data) \in Proxies /\ Uses(Wanted(data), data)
      BY <2>4, WantedIsUsed
    <3>2. os.sys = Wanted(data).sys /\ os.pac = Wanted(data).pac
      BY <2>4, <2>5, <3>1 DEF Uses, Proxies
    <3> QED BY <2>4, <3>1, <3>2 DEF Proxies
  <2>7. "guard" \notin crossed => (guardOn <=> (data.sys /\ data.guard))
    BY <2>1, <2>2, <2>3 DEF Effective
  <2>8. "file" \notin crossed => file = data
    BY <2>1, <2>2 DEF Effective
  <2>9. data.sys \in BOOLEAN /\ data.guard \in BOOLEAN
    BY <2>4, WantedIsUsed
  <2>10. "guard" \notin crossed => guardOn = (data.sys /\ data.guard)
    BY <2>4, <2>7, <2>9
  <2> QED BY <2>3, <2>5, <2>6, <2>8, <2>10
<1> QED BY <1>1, Inductive, PTL

\* After a quit that no patch ran into, in which nothing failed, the operating system
\* uses no proxy of the application that is gone.
THEOREM QuitEnds == Spec => []QuitTurnsProxyOff
<1>1. IInv => QuitTurnsProxyOff
  <2> SUFFICES ASSUME IInv, quitting = "gone", ~raced, ~tainted PROVE os = [sys |-> FALSE, pac |-> FALSE]
    BY DEF QuitTurnsProxyOff
  <2>1. Off /\ os \in Proxies
    BY DEF IInv, Ending, TypeOK, Proxies
  <2>2. [sys |-> FALSE, pac |-> FALSE] \in Proxies
    BY ProxyRecord
  <2>3. os.sys = FALSE /\ os.pac = FALSE
    BY <2>1 DEF Off, Proxies
  <2> QED BY <2>1, <2>2, <2>3 DEF Proxies
<1> QED BY <1>1, Inductive, PTL
==============================================================================
