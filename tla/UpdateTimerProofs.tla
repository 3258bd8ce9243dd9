--------------------------- MODULE UpdateTimerProofs ---------------------------
(***************************************************************************)
(* Proofs about UpdateTimer: its types, and that the queue serves the      *)
(* tasks: the keys of the tasks are valid, and a profile that was not      *)
(* added again during an update has one turn ahead and one update at most; *)
(* and that the tasks follow the profiles when the refreshes are done.     *)
(***************************************************************************)
EXTENDS UpdateTimer, FiniteSetTheorems, TLAPS

------------------------------------------------------------------------------
(* Elements of a channel. *)

None(s, x) == \A n \in DOMAIN s : s[n] # x
Once(s, x) == \E n \in DOMAIN s : \A m \in DOMAIN s : s[m] = x <=> m = n

\* What recv takes from the channel: the rest keeps its order.
LEMMA TailOfChannel ==
    ASSUME NEW S, NEW s \in Seq(S), s # <<>>, NEW x
    PROVE  /\ Tail(s) \in Seq(S) /\ Head(s) \in S
           /\ None(s, x) => None(Tail(s), x)
           /\ Head(s) # x /\ Once(s, x) => Once(Tail(s), x)
           /\ Head(s) = x /\ Once(s, x) => None(Tail(s), x)
<1> DEFINE t == Tail(s)
<1>1. /\ t \in Seq(S) /\ Head(s) = s[1] /\ 1 \in DOMAIN s
      /\ DOMAIN s = 1 .. Len(s) /\ DOMAIN t = 1 .. Len(s) - 1 /\ Len(s) \in Nat
      /\ \A n \in DOMAIN t : t[n] = s[n + 1] /\ n + 1 \in DOMAIN s
  OBVIOUS
<1>2. Head(s) \in S
  OBVIOUS
<1>3. None(s, x) => None(t, x)
  BY <1>1 DEF None
<1>4. ASSUME Head(s) # x, Once(s, x) PROVE Once(t, x)
  <2>1. PICK n \in DOMAIN s : \A m \in DOMAIN s : s[m] = x <=> m = n
    BY <1>4 DEF Once
  <2>2. n # 1 /\ n - 1 \in DOMAIN t
    BY <1>1, <1>4, <2>1
  <2>3. \A m \in DOMAIN t : t[m] = x <=> m = n - 1
    BY <1>1, <2>1
  <2> QED BY <2>2, <2>3 DEF Once
<1>5. ASSUME Head(s) = x, Once(s, x) PROVE None(t, x)
  <2>1. PICK n \in DOMAIN s : \A m \in DOMAIN s : s[m] = x <=> m = n
    BY <1>5 DEF Once
  <2>2. n = 1
    BY <1>1, <1>5, <2>1
  <2> QED BY <1>1, <2>1, <2>2 DEF None
<1> QED BY <1>1, <1>2, <1>3, <1>4, <1>5

\* What send puts into it.
LEMMA AppendToChannel ==
    ASSUME NEW S, NEW s \in Seq(S), NEW e \in S, NEW x
    PROVE  /\ Append(s, e) \in Seq(S)
           /\ e # x /\ None(s, x) => None(Append(s, e), x)
           /\ e # x /\ Once(s, x) => Once(Append(s, e), x)
           /\ e = x /\ None(s, x) => Once(Append(s, e), x)
<1> DEFINE t == Append(s, e)
<1>1. /\ t \in Seq(S) /\ DOMAIN s = 1 .. Len(s) /\ DOMAIN t = 1 .. Len(s) + 1 /\ Len(s) \in Nat
      /\ t[Len(s) + 1] = e /\ \A n \in DOMAIN s : t[n] = s[n]
  OBVIOUS
<1>2. e # x /\ None(s, x) => None(t, x)
  BY <1>1 DEF None
<1>3. ASSUME e # x, Once(s, x) PROVE Once(t, x)
  <2>1. PICK n \in DOMAIN s : \A m \in DOMAIN s : s[m] = x <=> m = n
    BY <1>3 DEF Once
  <2>2. n \in DOMAIN t /\ \A m \in DOMAIN t : t[m] = x <=> m = n
    BY <1>1, <1>3, <2>1
  <2> QED BY <2>2 DEF Once
<1>4. ASSUME e = x, None(s, x) PROVE Once(t, x)
  <2>1. Len(s) + 1 \in DOMAIN t /\ \A m \in DOMAIN t : t[m] = x <=> m = Len(s) + 1
    BY <1>1, <1>4 DEF None
  <2> QED BY <2>1 DEF Once
<1> QED BY <1>1, <1>2, <1>3, <1>4

\* Removing one element of a sequence, and changing each, keeps it a sequence.
LEMMA ShorterSeq ==
    ASSUME NEW S, NEW s \in Seq(S), NEW n \in DOMAIN s
    PROVE  LET t == [m \in 1 .. Len(s) - 1 |-> s[IF m < n THEN m ELSE m + 1]]
           IN t \in Seq(S) /\ Len(t) = Len(s) - 1
<1> DEFINE t == [m \in 1 .. Len(s) - 1 |-> s[IF m < n THEN m ELSE m + 1]]
<1>1. Len(s) \in Nat \ {0} /\ DOMAIN s = 1 .. Len(s) /\ \A m \in 1 .. Len(s) : s[m] \in S
  OBVIOUS
<1>2. ASSUME NEW m \in 1 .. Len(s) - 1 PROVE t[m] \in S
  <2>1. m \in 1 .. Len(s) /\ m + 1 \in 1 .. Len(s)
    BY <1>1
  <2> QED BY <1>1, <2>1
<1>3. Len(s) - 1 \in Nat /\ t \in [1 .. Len(s) - 1 -> S]
  BY <1>1, <1>2
<1> HIDE DEF t
<1>4. t \in Seq(S) /\ Len(t) = Len(s) - 1
  BY <1>3
<1> QED BY <1>4 DEF t

LEMMA MappedSeq ==
    ASSUME NEW S, NEW n \in Nat, NEW t \in [1 .. n -> S]
    PROVE  t \in Seq(S) /\ Len(t) = n
OBVIOUS

------------------------------------------------------------------------------
(* The queue. *)

Entry == [uid : Uids, wait : Nat]

LEMMA MapTypes == Maps = [Uids -> {0} \cup Intervals] /\ {0} \cup Intervals \subseteq Nat
BY TimerAssumption DEF Maps

\* insert: a new entry takes a free index of the slab, and no other entry moves.
LEMMA Placing ==
    ASSUME NEW q, DOMAIN q \subseteq Nat, \A k \in DOMAIN q : q[k] \in Entry,
           NEW new \in SUBSET Uids, NEW at \in Places(q, new), NEW after \in Maps
    PROVE  LET w == With(q, at, after)
           IN /\ at \in [new -> Nat] /\ IsInjective(at)
              /\ \A u \in new : at[u] \notin DOMAIN q
              /\ DOMAIN w \subseteq Nat /\ \A k \in DOMAIN w : w[k] \in Entry
              /\ \A k \in DOMAIN q : k \in DOMAIN w /\ w[k] = q[k]
              /\ \A u \in new : at[u] \in DOMAIN w /\ w[at[u]].uid = u
              /\ \A k \in DOMAIN w \ DOMAIN q : w[k].uid \in new /\ k = at[w[k].uid]
<1> DEFINE w == With(q, at, after)
<1>1. at \in [new -> Nat] /\ IsInjective(at) /\ \A u \in new : at[u] \notin DOMAIN q
  BY DEF Places
<1>2. DOMAIN w = DOMAIN q \cup Range(at) /\ \A k \in DOMAIN q : w[k] = q[k]
  BY DEF With
<1>3. ASSUME NEW k \in Range(at)
      PROVE  \E u \in new : k = at[u] /\ k \notin DOMAIN q /\ w[k] = [uid |-> u, wait |-> after[u]]
  <2>1. PICK u \in new : k = at[u]
    BY <1>1, <1>3 DEF Range
  <2>2. (CHOOSE v \in DOMAIN at : at[v] = k) = u
    BY <1>1, <2>1 DEF IsInjective
  <2>3. k \notin DOMAIN q
    BY <1>1, <2>1
  <2>4. w[k] = [uid |-> u, wait |-> after[u]]
    BY <1>2, <2>2, <2>3 DEF With
  <2> QED BY <2>1, <2>3, <2>4
<1>4. ASSUME NEW u \in new PROVE at[u] \in DOMAIN w /\ w[at[u]].uid = u
  <2>1. at[u] \in Range(at)
    BY <1>1 DEF Range
  <2>2. PICK v \in new : at[u] = at[v] /\ w[at[u]] = [uid |-> v, wait |-> after[v]]
    BY <1>3, <2>1
  <2> QED BY <1>1, <1>2, <2>1, <2>2 DEF IsInjective
<1>5. ASSUME NEW k \in DOMAIN w PROVE k \in Nat /\ w[k] \in Entry
  <2>1. CASE k \in DOMAIN q
    BY <1>2, <2>1
  <2>2. CASE k \in Range(at)
    <3>1. PICK u \in new : k = at[u] /\ w[k] = [uid |-> u, wait |-> after[u]]
      BY <1>3, <2>2
    <3> QED BY <1>1, <3>1, MapTypes DEF Entry
  <2> QED BY <1>2, <2>1, <2>2
<1>6. \A k \in DOMAIN w \ DOMAIN q : w[k].uid \in new /\ k = at[w[k].uid]
  BY <1>2, <1>3
<1> QED BY <1>1, <1>2, <1>4, <1>5, <1>6

------------------------------------------------------------------------------
(* The inductive invariant. *)

NoEntry(u) == \A k \in DOMAIN queue : queue[k].uid # u
NoUpdate(u) == updates[u] = <<>>
OneUpdate(u) == Len(updates[u]) = 1
NoEnd(u) == None(commands, TaskFinished(u))
OneEnd(u) == Once(commands, TaskFinished(u))

\* a task waits for its entry, runs, or its end is on the way
Waits(u) == /\ key[u] # NoKey /\ (\A k \in DOMAIN queue : queue[k].uid = u => k = key[u])
            /\ ~running[u] /\ NoUpdate(u) /\ NoEnd(u)
Runs(u) == key[u] = NoKey /\ NoEntry(u) /\ running[u] /\ OneUpdate(u) /\ NoEnd(u)
Ends(u) == key[u] = NoKey /\ NoEntry(u) /\ running[u] /\ NoUpdate(u) /\ OneEnd(u)
\* a profile without automatic updates may have one from before
Rests(u) == /\ NoEntry(u)
            /\ (NoUpdate(u) /\ NoEnd(u)) \/ (OneUpdate(u) /\ NoEnd(u)) \/ (NoUpdate(u) /\ OneEnd(u))

Turn(u) == IF u \in tasks THEN Waits(u) \/ Runs(u) \/ Ends(u) ELSE Rests(u)

QueueOK == DOMAIN queue \subseteq Nat /\ \A k \in DOMAIN queue : queue[k] \in Entry

IInv ==
    /\ TypeOK /\ QueueOK /\ KeyIsQueued
    /\ \A u \in Uids \ tasks : ~running[u]
    /\ \A u \in Uids \ readded : Turn(u)

LEMMA CommandTypes ==
    /\ \A map \in Maps : Apply(map) \in Commands
    /\ \A u \in Uids : RunNow(u) \in Commands /\ TaskFinished(u) \in Commands
    /\ \A u, v \in Uids : TaskFinished(u) = TaskFinished(v) => u = v
    /\ \A map \in Maps, u, v \in Uids : Apply(map) # TaskFinished(u) /\ RunNow(v) # TaskFinished(u)
    /\ \A c \in Commands : /\ c.cmd = "Apply" => c.map \in Maps /\ c = Apply(c.map)
                           /\ c.cmd = "RunNow" => c.uid \in Uids /\ c = RunNow(c.uid)
                           /\ c.cmd = "TaskFinished" => c.uid \in Uids /\ c = TaskFinished(c.uid)
<1>1. \A map \in Maps : Apply(map) \in Commands
  BY DEF Commands
<1>2. \A u \in Uids : RunNow(u) \in Commands /\ TaskFinished(u) \in Commands
  BY DEF Commands
<1>3. \A u, v \in Uids : TaskFinished(u) = TaskFinished(v) => u = v
  BY DEF TaskFinished
<1>4. \A map \in Maps, u, v \in Uids : Apply(map) # TaskFinished(u) /\ RunNow(v) # TaskFinished(u)
  BY DEF Apply, RunNow, TaskFinished
<1>5. ASSUME NEW c \in Commands
      PROVE  /\ c.cmd = "Apply" => c.map \in Maps /\ c = Apply(c.map)
             /\ c.cmd = "RunNow" => c.uid \in Uids /\ c = RunNow(c.uid)
             /\ c.cmd = "TaskFinished" => c.uid \in Uids /\ c = TaskFinished(c.uid)
  <2>1. CASE \E map \in Maps : c = Apply(map)
    BY <2>1 DEF Apply
  <2>2. CASE \E u \in Uids : c = RunNow(u)
    BY <2>2 DEF RunNow
  <2>3. CASE \E u \in Uids : c = TaskFinished(u)
    BY <2>3 DEF TaskFinished
  <2> QED BY <2>1, <2>2, <2>3 DEF Commands
<1> QED BY <1>1, <1>2, <1>3, <1>4, <1>5

LEMMA InitOK == Init => IInv
<1> SUFFICES ASSUME Init PROVE IInv
  OBVIOUS
<1>1. PICK overdue \in SUBSET {u \in Uids : items[u] > 0} :
         \E order \in Bijection(1 .. Cardinality(overdue), overdue) :
             commands = <<Apply(items)>> \o [n \in DOMAIN order |-> RunNow(order[n])]
  BY DEF Init
<1>2. PICK order \in Bijection(1 .. Cardinality(overdue), overdue) :
             commands = <<Apply(items)>> \o [n \in DOMAIN order |-> RunNow(order[n])]
  BY <1>1
<1>3. Cardinality(overdue) \in Nat
  <2>1. overdue \in SUBSET Uids
    OBVIOUS
  <2> QED BY <2>1, TimerAssumption, FS_Subset, FS_CardinalityType
<1>4. order \in [1 .. Cardinality(overdue) -> Uids]
  BY DEF Bijection, Injection
<1> DEFINE runs == [n \in DOMAIN order |-> RunNow(order[n])]
<1>5. runs \in Seq(Commands) /\ \A n \in DOMAIN runs : \E u \in Uids : runs[n] = RunNow(u)
  <2>1. runs = [n \in 1 .. Cardinality(overdue) |-> RunNow(order[n])]
    BY <1>4
  <2>2. runs \in [1 .. Cardinality(overdue) -> Commands]
    BY <2>1, <1>4, CommandTypes
  <2>3. runs \in Seq(Commands)
    BY <2>2, <1>3
  <2> QED BY <2>3, <1>4, <2>1
<1>6. items \in Maps /\ Apply(items) \in Commands
  BY CommandTypes DEF Init
<1>7. commands \in Seq(Commands)
  BY <1>2, <1>5, <1>6
<1>8. ASSUME NEW u \in Uids PROVE NoEnd(u)
  <2> SUFFICES ASSUME NEW n \in DOMAIN commands PROVE commands[n] # TaskFinished(u)
    BY DEF NoEnd, None
  <2>1. commands[n] = Apply(items) \/ \E m \in DOMAIN runs : commands[n] = runs[m]
    BY <1>2, <1>5, <1>6
  <2> QED BY <2>1, <1>5, <1>6, CommandTypes
<1>9. TypeOK
  <2>1. Range(queue) \subseteq [uid : Uids, wait : Nat] /\ DOMAIN queue \subseteq Nat
    BY DEF Init, Range
  <2> QED BY <1>6, <1>7, <2>1, MapTypes DEF Init, TypeOK
<1>10. QueueOK /\ KeyIsQueued
  BY DEF Init, QueueOK, KeyIsQueued
<1>11. \A u \in Uids : Turn(u)
  BY <1>8 DEF Init, Turn, Rests, NoEntry, NoUpdate
<1> QED BY <1>9, <1>10, <1>11 DEF IInv, Init

------------------------------------------------------------------------------
(* Changes of profiles and refresh do not touch the tasks. *)

LEMMA TasksUntouched == IInv /\ TypeOK' /\ UNCHANGED <<commands, taskVars>> => IInv'
BY DEF IInv, taskVars, QueueOK, KeyIsQueued, Turn, Waits, Runs, Ends, Rests,
       NoEntry, NoUpdate, OneUpdate, NoEnd, OneEnd

LEMMA ProfileStepsOK ==
    ASSUME IInv,
           \/ \E c \in Callers, u \in Uids, i \in {0} \cup Intervals : PatchProfile(c, u, i)
           \/ \E u \in Uids, i \in Intervals : ImportProfile(u, i)
           \/ \E c \in Callers : GenMap(c) \/ StoreMap(c)
    PROVE  IInv'
<1> USE DEF IInv, TypeOK, taskVars
<1>1. ASSUME NEW c \in Callers, NEW u \in Uids, NEW i \in {0} \cup Intervals, PatchProfile(c, u, i)
      PROVE  IInv'
  <2>1. TypeOK'
    BY <1>1 DEF PatchProfile, Maps
  <2> QED BY <1>1, <2>1, TasksUntouched DEF PatchProfile
<1>2. ASSUME NEW u \in Uids, NEW i \in Intervals, ImportProfile(u, i) PROVE IInv'
  <2>1. TypeOK'
    BY <1>2 DEF ImportProfile, Maps
  <2> QED BY <1>2, <2>1, TasksUntouched DEF ImportProfile
<1>3. ASSUME NEW c \in Callers, GenMap(c) PROVE IInv'
  <2>1. TypeOK'
    BY <1>3 DEF GenMap
  <2> QED BY <1>3, <2>1, TasksUntouched DEF GenMap
<1>4. ASSUME NEW c \in Callers, StoreMap(c) PROVE IInv'
  <2>1. refresh[c] \in [at : {"store", "send"}, map : Maps]
    BY <1>4 DEF StoreMap
  <2>2. [refresh[c] EXCEPT !.at = "send"] \in [at : {"store", "send"}, map : Maps]
    BY <2>1
  <2>3. refresh' = [refresh EXCEPT ![c] = [at |-> "idle"]]
           \/ refresh' = [refresh EXCEPT ![c] = [refresh[c] EXCEPT !.at = "send"]]
    BY <1>4 DEF StoreMap
  <2>4. refresh' \in [Callers -> [at : {"idle", "start"}] \cup [at : {"store", "send"}, map : Maps]]
    BY <2>2, <2>3
  <2>5. TypeOK'
    BY <1>4, <2>1, <2>4 DEF StoreMap
  <2> QED BY <1>4, <2>5, TasksUntouched DEF StoreMap
<1> QED BY <1>1, <1>2, <1>3, <1>4

LEMMA SendMapOK == ASSUME IInv, NEW c \in Callers, SendMap(c) PROVE IInv'
<1> USE DEF IInv, TypeOK, taskVars
<1>1. refresh[c] \in [at : {"store", "send"}, map : Maps]
  BY DEF SendMap
<1>2. Apply(refresh[c].map) \in Commands /\ commands' = Append(commands, Apply(refresh[c].map))
  BY <1>1, CommandTypes DEF SendMap
<1>3. TypeOK'
  <2>1. commands' \in Seq(Commands)
    BY <1>2
  <2>2. refresh' \in [Callers -> [at : {"idle", "start"}] \cup [at : {"store", "send"}, map : Maps]]
    BY DEF SendMap
  <2> QED BY <2>1, <2>2 DEF SendMap
<1>4. \A u \in Uids : (NoEnd(u) => NoEnd(u)') /\ (OneEnd(u) => OneEnd(u)')
  <2> SUFFICES ASSUME NEW u \in Uids PROVE (NoEnd(u) => NoEnd(u)') /\ (OneEnd(u) => OneEnd(u)')
    OBVIOUS
  <2>1. Apply(refresh[c].map) # TaskFinished(u) /\ commands \in Seq(Commands)
    BY <1>1, CommandTypes
  <2>2. /\ None(commands, TaskFinished(u)) => None(commands', TaskFinished(u))
        /\ Once(commands, TaskFinished(u)) => Once(commands', TaskFinished(u))
    BY <1>2, <2>1, AppendToChannel
  <2> QED BY <2>2 DEF NoEnd, OneEnd
<1> QED BY <1>3, <1>4 DEF SendMap, QueueOK, KeyIsQueued, Turn, Waits, Runs, Ends, Rests,
                          NoEntry, NoUpdate, OneUpdate

------------------------------------------------------------------------------
(* The steps of the scheduler. *)

LEMMA Received ==
    ASSUME TypeOK, NEW c, Command(c)
    PROVE  /\ commands' \in Seq(Commands) /\ Head(commands) \in Commands /\ Head(commands).cmd = c
           /\ \A u \in Uids :
                 /\ NoEnd(u) => NoEnd(u)' /\ Head(commands) # TaskFinished(u)
                 /\ OneEnd(u) /\ Head(commands) # TaskFinished(u) => OneEnd(u)'
                 /\ OneEnd(u) /\ Head(commands) = TaskFinished(u) => NoEnd(u)'
<1>1. commands # <<>> /\ commands' = Tail(commands) /\ Head(commands).cmd = c /\ commands \in Seq(Commands)
  BY DEF Command, TypeOK
<1>2. commands' \in Seq(Commands) /\ Head(commands) \in Commands
  BY <1>1
<1>3. ASSUME NEW u \in Uids
      PROVE  /\ NoEnd(u) => NoEnd(u)' /\ Head(commands) # TaskFinished(u)
             /\ OneEnd(u) /\ Head(commands) # TaskFinished(u) => OneEnd(u)'
             /\ OneEnd(u) /\ Head(commands) = TaskFinished(u) => NoEnd(u)'
  <2> DEFINE x == TaskFinished(u)
  <2>1. /\ None(commands, x) => None(Tail(commands), x)
        /\ Head(commands) # x /\ Once(commands, x) => Once(Tail(commands), x)
        /\ Head(commands) = x /\ Once(commands, x) => None(Tail(commands), x)
    BY <1>1, TailOfChannel
  <2>2. None(commands, x) => Head(commands) # x
    <3>1. 1 \in DOMAIN commands /\ Head(commands) = commands[1]
      BY <1>1
    <3> QED BY <3>1 DEF None
  <2> QED BY <1>1, <2>1, <2>2 DEF NoEnd, OneEnd
<1> QED BY <1>1, <1>2, <1>3

\* A step that only moves entries of others leaves a profile its turn.
LEMMA TurnKept ==
    ASSUME NEW u \in Uids, Turn(u), u \in tasks <=> u \in tasks',
           key'[u] = key[u], running'[u] = running[u], updates'[u] = updates[u],
           NoEnd(u) => NoEnd(u)', OneEnd(u) => OneEnd(u)',
           \A k \in DOMAIN queue' : queue'[k].uid = u => k \in DOMAIN queue /\ queue[k].uid = u
    PROVE  Turn(u)'
BY DEF Turn, Waits, Runs, Ends, Rests, NoEntry, NoUpdate, OneUpdate

LEMMA TurnsOfEntry ==
    ASSUME IInv, NEW k \in DOMAIN queue, queue[k].uid \in Uids \ readded
    PROVE  LET u == queue[k].uid
           IN u \in tasks /\ key[u] = k /\ Waits(u)
BY DEF IInv, Turn, Waits, Runs, Ends, Rests, NoEntry

\* The types follow from those of the parts a step of the scheduler changes.
LEMMA TypesOfTasks ==
    ASSUME TypeOK, UNCHANGED <<items, timer_map, refresh>>, commands' \in Seq(Commands), QueueOK',
           tasks' \subseteq Uids, key' \in [Uids -> Nat \cup {NoKey}], interval' \in Maps,
           running' \in [Uids -> BOOLEAN], updates' \in [Uids -> Seq(0 .. MaxUpdate)]
    PROVE  TypeOK'
<1>1. Range(queue)' \subseteq [uid : Uids, wait : Nat] /\ (DOMAIN queue)' \subseteq Nat
  BY DEF QueueOK, Entry, Range
<1> QED BY <1>1 DEF TypeOK

\* spawn_update_task starts an update of a profile that has none.
LEMMA Spawned ==
    ASSUME TypeOK, NEW u \in Uids, Spawn(u)
    PROVE  /\ updates' \in [Uids -> Seq(0 .. MaxUpdate)]
           /\ \A v \in Uids \ {u} : updates'[v] = updates[v]
           /\ NoUpdate(u) => OneUpdate(u)'
<1>1. updates[u] \in Seq(0 .. MaxUpdate) /\ 0 \in 0 .. MaxUpdate
  BY TimerAssumption DEF TypeOK
<1>2. Append(updates[u], 0) \in Seq(0 .. MaxUpdate) /\ updates' = [updates EXCEPT ![u] = Append(updates[u], 0)]
  BY <1>1 DEF Spawn
<1>3. updates[u] = <<>> => Len(Append(updates[u], 0)) = 1
  BY <1>1
<1> QED BY <1>2, <1>3 DEF TypeOK, NoUpdate, OneUpdate

LEMMA RunTaskNowOK == ASSUME IInv, RunTaskNow PROVE IInv'
<1>1. TypeOK /\ QueueOK /\ KeyIsQueued
  BY DEF IInv
<1>2. Command("RunNow") /\ Head(commands) \in Commands /\ Head(commands).cmd = "RunNow"
  BY <1>1, Received DEF RunTaskNow
<1>3. PICK u \in Uids : Head(commands).uid = u /\ Head(commands) = RunNow(u)
  BY <1>2, CommandTypes
<1>4. /\ commands' \in Seq(Commands)
      /\ \A v \in Uids : (NoEnd(v) => NoEnd(v)') /\ (OneEnd(v) => OneEnd(v)')
  <2>1. \A v \in Uids : RunNow(u) # TaskFinished(v)
    BY <1>3, CommandTypes DEF RunNow, TaskFinished
  <2>2. ASSUME NEW v \in Uids PROVE (NoEnd(v) => NoEnd(v)') /\ (OneEnd(v) => OneEnd(v)')
    <3>1. Head(commands) # TaskFinished(v)
      BY <1>3, <2>1
    <3> QED BY <1>1, <1>2, <3>1, Received
  <2> QED BY <1>1, <1>2, <2>2, Received
<1>5. CASE u \notin tasks \/ running[u]
  <2>1. UNCHANGED <<items, timer_map, refresh, queue, key, running, updates, tasks, interval, readded>>
    BY <1>3, <1>5 DEF RunTaskNow
  <2>2. QueueOK' /\ KeyIsQueued'
    BY <1>1, <2>1 DEF QueueOK, KeyIsQueued
  <2>3. TypeOK'
    BY <1>1, <1>3, <1>4, <2>1, <2>2, TypesOfTasks DEF TypeOK
  <2>4. \A v \in Uids \ readded : Turn(v)'
    BY <1>3, <1>4, <2>1, TurnKept DEF IInv
  <2> QED BY <2>1, <2>2, <2>3, <2>4 DEF IInv
<1>6. CASE u \in tasks /\ ~running[u]
  <2>1. /\ UNCHANGED <<items, timer_map, refresh, tasks, interval, readded>>
        /\ running' = [running EXCEPT ![u] = TRUE] /\ Spawn(u)
        /\ queue' = Without(queue, {key[u]}) /\ key' = [key EXCEPT ![u] = NoKey]
    BY <1>3, <1>6 DEF RunTaskNow
  <2>2. DOMAIN queue' = DOMAIN queue \ {key[u]} /\ \A k \in DOMAIN queue' : queue'[k] = queue[k]
    BY <2>1 DEF Without
  <2>3. QueueOK'
    BY <1>1, <2>2 DEF QueueOK
  <2>4. KeyIsQueued'
    <3> SUFFICES ASSUME NEW v \in Uids, key'[v] # NoKey
                 PROVE  v \in tasks' /\ key'[v] \in DOMAIN queue' /\ queue'[key'[v]].uid = v
      BY DEF KeyIsQueued
    <3>1. v # u /\ key'[v] = key[v]
      BY <1>1, <1>3, <1>4, <2>1 DEF TypeOK
    <3>2. v \in tasks /\ key[v] \in DOMAIN queue /\ queue[key[v]].uid = v
      BY <1>1, <3>1 DEF KeyIsQueued
    <3>3. key[v] # key[u]
      BY <1>1, <1>3, <1>4, <3>1, <3>2 DEF KeyIsQueued
    <3> QED BY <2>1, <2>2, <3>1, <3>2, <3>3
  <2>5. TypeOK'
    BY <1>1, <1>3, <1>4, <2>1, <2>3, TypesOfTasks, Spawned DEF TypeOK
  <2>6. ASSUME NEW v \in Uids \ readded, v # u PROVE Turn(v)'
    BY <1>1, <1>3, <1>4, <2>1, <2>2, <2>6, TurnKept, Spawned DEF IInv, TypeOK
  <2>7. ASSUME u \notin readded PROVE Runs(u)'
    <3>1. Waits(u)
      BY <1>3, <1>4, <1>6, <2>7 DEF IInv, Turn, Runs, Ends
    <3>2. NoEntry(u)'
      BY <2>2, <3>1 DEF Waits, NoEntry
    <3>3. OneUpdate(u)' /\ NoEnd(u)'
      BY <1>1, <1>3, <1>4, <2>1, <3>1, Spawned DEF Waits
    <3> QED BY <1>1, <1>3, <1>4, <2>1, <3>2, <3>3 DEF Runs, TypeOK
  <2>8. \A v \in Uids \ readded' : Turn(v)'
    BY <1>6, <2>1, <2>6, <2>7 DEF Turn
  <2> QED BY <1>1, <1>6, <2>1, <2>3, <2>4, <2>5, <2>8 DEF IInv, TypeOK
<1> QED BY <1>5, <1>6

LEMMA RunExpiredTaskOK == ASSUME IInv, NEW k \in DOMAIN queue, RunExpiredTask(k) PROVE IInv'
<1>1. TypeOK /\ QueueOK /\ KeyIsQueued
  BY DEF IInv
<1>2. PICK u \in Uids : queue[k].uid = u
  BY <1>1 DEF QueueOK, Entry
<1>3. /\ UNCHANGED <<items, timer_map, refresh, commands, tasks, interval, readded>>
      /\ queue' = Without(queue, {k})
  BY DEF RunExpiredTask
<1>4. DOMAIN queue' = DOMAIN queue \ {k} /\ \A j \in DOMAIN queue' : queue'[j] = queue[j]
  BY <1>3 DEF Without
<1>5. QueueOK'
  BY <1>1, <1>4 DEF QueueOK
<1>6. \A v \in Uids : (NoEnd(v) => NoEnd(v)') /\ (OneEnd(v) => OneEnd(v)')
  BY <1>3 DEF NoEnd, OneEnd
<1>7. /\ key'[u] = NoKey
      /\ key' \in [Uids -> Nat \cup {NoKey}] /\ \A v \in Uids \ {u} : key'[v] = key[v]
  BY <1>1, <1>3, <1>2 DEF RunExpiredTask, TypeOK, KeyIsQueued
<1>8. KeyIsQueued'
  <2> SUFFICES ASSUME NEW v \in Uids, key'[v] # NoKey
               PROVE  v \in tasks' /\ key'[v] \in DOMAIN queue' /\ queue'[key'[v]].uid = v
    BY DEF KeyIsQueued
  <2>1. v # u /\ key'[v] = key[v]
    BY <1>7
  <2>2. v \in tasks /\ key[v] \in DOMAIN queue /\ queue[key[v]].uid = v
    BY <1>1, <2>1 DEF KeyIsQueued
  <2> QED BY <1>2, <1>3, <1>4, <2>1, <2>2
<1>9. CASE u \in tasks /\ ~running[u]
  <2>1. running' = [running EXCEPT ![u] = TRUE] /\ Spawn(u)
    BY <1>2, <1>9 DEF RunExpiredTask
  <2>2. TypeOK'
    BY <1>1, <1>3, <1>5, <1>7, <2>1, TypesOfTasks, Spawned DEF TypeOK
  <2>3. ASSUME NEW v \in Uids \ readded, v # u PROVE Turn(v)'
    BY <1>1, <1>3, <1>4, <1>6, <1>7, <2>1, <2>3, TurnKept, Spawned DEF IInv, TypeOK
  <2>4. ASSUME u \notin readded PROVE Runs(u)'
    <3>1. Waits(u) /\ key[u] = k
      BY <1>2, <2>4, TurnsOfEntry
    <3>2. NoEntry(u)'
      BY <1>4, <3>1 DEF Waits, NoEntry
    <3>3. OneUpdate(u)' /\ NoEnd(u)'
      BY <1>1, <1>3, <1>6, <2>1, <3>1, Spawned DEF Waits
    <3> QED BY <1>1, <1>3, <1>7, <2>1, <3>2, <3>3 DEF Runs, TypeOK
  <2>5. \A v \in Uids \ readded' : Turn(v)'
    BY <1>3, <1>9, <2>3, <2>4 DEF Turn
  <2> QED BY <1>1, <1>3, <1>5, <1>8, <1>9, <2>1, <2>2, <2>5 DEF IInv, TypeOK
<1>10. CASE u \notin tasks \/ running[u]
  <2>1. UNCHANGED <<running, updates>>
    BY <1>2, <1>10 DEF RunExpiredTask
  <2>2. TypeOK'
    BY <1>1, <1>3, <1>5, <1>7, <2>1, TypesOfTasks DEF TypeOK
  <2>3. u \in readded
    BY <1>2, <1>10, TurnsOfEntry DEF Waits
  <2>4. \A v \in Uids \ readded' : Turn(v)'
    BY <1>3, <1>4, <1>6, <1>7, <2>1, <2>3, TurnKept DEF IInv
  <2> QED BY <1>3, <1>5, <1>8, <2>1, <2>2, <2>4 DEF IInv
<1> QED BY <1>9, <1>10

LEMMA FinishTaskOK == ASSUME IInv, FinishTask PROVE IInv'
<1>1. TypeOK /\ QueueOK /\ KeyIsQueued
  BY DEF IInv
<1>2. Command("TaskFinished") /\ Head(commands) \in Commands /\ Head(commands).cmd = "TaskFinished"
  BY <1>1, Received DEF FinishTask
<1>3. PICK u \in Uids : Head(commands).uid = u /\ Head(commands) = TaskFinished(u)
  BY <1>2, CommandTypes
<1>4. UNCHANGED <<items, timer_map, refresh, tasks, interval, updates, readded>>
  BY DEF FinishTask
<1>5. /\ commands' \in Seq(Commands)
      /\ NoEnd(u) => FALSE
      /\ OneEnd(u) => NoEnd(u)'
  BY <1>1, <1>2, <1>3, Received
<1>6. ASSUME NEW v \in Uids, v # u PROVE (NoEnd(v) => NoEnd(v)') /\ (OneEnd(v) => OneEnd(v)')
  <2>1. Head(commands) # TaskFinished(v)
    BY <1>3, <1>6, CommandTypes
  <2> QED BY <1>1, <1>2, <2>1, Received
<1>7. CASE u \notin tasks
  <2>1. UNCHANGED <<queue, key, running>>
    BY <1>3, <1>7 DEF FinishTask
  <2>2. QueueOK' /\ KeyIsQueued'
    BY <1>1, <1>4, <2>1 DEF QueueOK, KeyIsQueued
  <2>3. TypeOK'
    BY <1>1, <1>4, <1>5, <2>1, <2>2, TypesOfTasks DEF TypeOK
  <2>4. ASSUME NEW v \in Uids \ readded, v # u PROVE Turn(v)'
    BY <1>4, <1>6, <2>1, <2>4, TurnKept DEF IInv
  <2>5. ASSUME u \notin readded PROVE Turn(u)'
    BY <1>4, <1>5, <1>7, <2>1, <2>5 DEF IInv, Turn, Rests, NoEntry, NoUpdate
  <2> QED BY <1>4, <2>1, <2>2, <2>3, <2>4, <2>5 DEF IInv
<1>8. CASE u \in tasks
  <2>1. PICK at \in Places(queue, {u}) :
           /\ running' = [running EXCEPT ![u] = FALSE]
           /\ queue' = With(queue, at, interval)
           /\ key' = [key EXCEPT ![u] = at[u]]
    BY <1>3, <1>8 DEF FinishTask
  <2>2. /\ at[u] \in Nat /\ at[u] \in DOMAIN queue' /\ queue'[at[u]].uid = u
        /\ DOMAIN queue' \subseteq Nat /\ \A k \in DOMAIN queue' : queue'[k] \in Entry
        /\ \A k \in DOMAIN queue : k \in DOMAIN queue' /\ queue'[k] = queue[k]
        /\ \A k \in DOMAIN queue' \ DOMAIN queue : queue'[k].uid = u /\ k = at[u]
    <3>1. interval \in Maps /\ {u} \in SUBSET Uids
      BY <1>1 DEF TypeOK
    <3> QED BY <1>1, <2>1, <3>1, Placing DEF QueueOK
  <2>3. QueueOK'
    BY <2>2 DEF QueueOK
  <2>4. KeyIsQueued'
    BY <1>1, <1>4, <1>8, <2>1, <2>2 DEF KeyIsQueued, TypeOK
  <2>5. TypeOK'
    BY <1>1, <1>4, <1>5, <2>1, <2>2, <2>3, TypesOfTasks DEF TypeOK
  <2>6. ASSUME NEW v \in Uids \ readded, v # u PROVE Turn(v)'
    <3>1. key'[v] = key[v] /\ running'[v] = running[v]
      BY <1>1, <2>1, <2>6 DEF TypeOK
    <3>2. \A k \in DOMAIN queue' : queue'[k].uid = v => k \in DOMAIN queue /\ queue[k].uid = v
      BY <2>2, <2>6
    <3> QED BY <1>4, <1>6, <2>6, <3>1, <3>2, TurnKept DEF IInv
  <2>7. ASSUME u \notin readded PROVE Waits(u)'
    <3>1. Ends(u)
      BY <1>5, <1>8, <2>7 DEF IInv, Turn, Waits, Runs
    <3>2. key'[u] = at[u] /\ key'[u] # NoKey /\ ~running'[u]
      BY <1>1, <2>1, <2>2, TimerAssumption DEF TypeOK
    <3>3. \A k \in DOMAIN queue' : queue'[k].uid = u => k = key'[u]
      BY <2>2, <3>1, <3>2 DEF Ends, NoEntry
    <3> QED BY <1>4, <1>5, <3>1, <3>2, <3>3 DEF Ends, Waits, NoUpdate
  <2>8. \A v \in Uids \ readded' : Turn(v)'
    BY <1>4, <1>8, <2>6, <2>7 DEF Turn
  <2>9. \A v \in Uids \ tasks' : ~running'[v]
    BY <1>1, <1>4, <1>8, <2>1 DEF IInv, TypeOK
  <2> QED BY <2>3, <2>4, <2>5, <2>8, <2>9 DEF IInv
<1> QED BY <1>7, <1>8

LEMMA ApplyTimerMapOK == ASSUME IInv, ApplyTimerMap PROVE IInv'
<1>1. TypeOK /\ QueueOK /\ KeyIsQueued
  BY DEF IInv
<1>2. Command("Apply") /\ Head(commands) \in Commands /\ Head(commands).cmd = "Apply"
  BY <1>1, Received DEF ApplyTimerMap
<1> DEFINE map == Head(commands).map
<1>3. map \in Maps /\ Head(commands) = Apply(map)
  BY <1>2, CommandTypes
<1>4. ASSUME NEW v \in Uids PROVE (NoEnd(v) => NoEnd(v)') /\ (OneEnd(v) => OneEnd(v)')
  <2>1. Head(commands) # TaskFinished(v)
    BY <1>3, CommandTypes
  <2> QED BY <1>1, <1>2, <2>1, Received
<1> DEFINE kept == {u \in tasks : map[u] > 0}
           new == {u \in Uids \ tasks : map[u] > 0}
           changed == {u \in kept : interval[u] # map[u]}
           left == Without(queue, {key[u] : u \in tasks \ kept})
           kicked == [k \in DOMAIN left |->
                        IF \E u \in changed : key[u] = k
                        THEN [left[k] EXCEPT !.wait = map[CHOOSE u \in changed : key[u] = k]]
                        ELSE left[k]]
           unscheduled == new \cup {u \in changed : key[u] = NoKey /\ ~running[u]}
<1>5. PICK at \in Places(kicked, unscheduled) :
        /\ queue' = With(kicked, at, map)
        /\ key' = [u \in Uids |-> IF u \in unscheduled THEN at[u]
                                  ELSE IF u \in kept THEN key[u] ELSE NoKey]
        /\ tasks' = kept \cup new
        /\ interval' = map
        /\ running' = [u \in Uids |-> u \in kept /\ running[u]]
        /\ readded' = readded \cup {u \in new : updates[u] # <<>> \/ TaskFinished(u) \in Range(commands)}
  BY DEF ApplyTimerMap
<1>6. UNCHANGED <<items, timer_map, refresh, updates>>
  BY DEF ApplyTimerMap
<1> HIDE DEF map
<1>7. /\ DOMAIN kicked = DOMAIN queue \ {key[u] : u \in tasks \ kept}
      /\ \A k \in DOMAIN kicked : kicked[k] \in Entry /\ kicked[k].uid = queue[k].uid
  <2>1. DOMAIN left = DOMAIN queue \ {key[u] : u \in tasks \ kept} /\ \A k \in DOMAIN left : left[k] = queue[k]
    BY DEF Without
  <2>2. ASSUME NEW k \in DOMAIN left PROVE kicked[k] \in Entry /\ kicked[k].uid = queue[k].uid
    <3>1. left[k] \in Entry /\ left[k] = queue[k]
      BY <1>1, <2>1, <2>2 DEF QueueOK
    <3>2. CASE \E u \in changed : key[u] = k
      <4>1. (CHOOSE u \in changed : key[u] = k) \in Uids
        BY <1>1, <3>2 DEF TypeOK
      <4>2. map[CHOOSE u \in changed : key[u] = k] \in Nat
        BY <1>3, <4>1, MapTypes
      <4>3. [left[k] EXCEPT !.wait = map[CHOOSE u \in changed : key[u] = k]] \in Entry
        BY <3>1, <4>2 DEF Entry
      <4>4. [left[k] EXCEPT !.wait = map[CHOOSE u \in changed : key[u] = k]].uid = left[k].uid
        BY <3>1 DEF Entry
      <4> QED BY <3>1, <3>2, <4>3, <4>4
    <3>3. CASE ~ \E u \in changed : key[u] = k
      BY <3>1, <3>3
    <3> QED BY <3>2, <3>3
  <2> QED BY <2>1, <2>2
<1> HIDE DEF left, kicked
<1>8. /\ at \in [unscheduled -> Nat]
      /\ DOMAIN queue' \subseteq Nat /\ \A k \in DOMAIN queue' : queue'[k] \in Entry
      /\ \A k \in DOMAIN kicked : k \in DOMAIN queue' /\ queue'[k] = kicked[k]
      /\ \A u \in unscheduled : at[u] \in DOMAIN queue' /\ queue'[at[u]].uid = u
      /\ \A k \in DOMAIN queue' \ DOMAIN kicked : queue'[k].uid \in unscheduled /\ k = at[queue'[k].uid]
  <2>1. unscheduled \in SUBSET Uids
    BY <1>1 DEF TypeOK
  <2>2. DOMAIN kicked \subseteq Nat /\ \A k \in DOMAIN kicked : kicked[k] \in Entry
    BY <1>1, <1>7 DEF QueueOK
  <2> HIDE DEF unscheduled
  <2> QED BY <1>3, <1>5, <2>1, <2>2, Placing
<1>9. tasks' \subseteq Uids /\ tasks \subseteq Uids /\ unscheduled \subseteq tasks' /\ kept \subseteq tasks'
  BY <1>1, <1>5 DEF TypeOK
<1>10. QueueOK'
  BY <1>8 DEF QueueOK
<1>11. KeyIsQueued'
  <2> SUFFICES ASSUME NEW v \in Uids, key'[v] # NoKey
               PROVE  v \in tasks' /\ key'[v] \in DOMAIN queue' /\ queue'[key'[v]].uid = v
    BY DEF KeyIsQueued
  <2>1. CASE v \in unscheduled
    BY <1>5, <1>8, <1>9, <2>1
  <2>2. CASE v \notin unscheduled
    <3>1. v \in kept /\ key'[v] = key[v]
      BY <1>5, <2>2
    <3>2. key[v] \in DOMAIN queue /\ queue[key[v]].uid = v
      BY <1>1, <3>1 DEF KeyIsQueued
    <3>3. ASSUME NEW u \in tasks \ kept PROVE key[u] # key[v]
      BY <1>1, <1>9, <3>1, <3>2 DEF KeyIsQueued
    <3>4. key[v] \in DOMAIN kicked
      BY <1>7, <3>2, <3>3
    <3> QED BY <1>7, <1>8, <1>9, <3>1, <3>2, <3>4
  <2> QED BY <2>1, <2>2
<1>12. TypeOK'
  <2>1. key' \in [Uids -> Nat \cup {NoKey}]
    BY <1>1, <1>5, <1>8 DEF TypeOK
  <2>2. running' \in [Uids -> BOOLEAN]
    BY <1>1, <1>5 DEF TypeOK
  <2>3. commands' \in Seq(Commands) /\ updates' \in [Uids -> Seq(0 .. MaxUpdate)] /\ interval' \in Maps
    BY <1>1, <1>2, <1>3, <1>5, <1>6, Received DEF TypeOK
  <2> QED BY <1>1, <1>6, <1>9, <1>10, <2>1, <2>2, <2>3, TypesOfTasks
<1>13. ASSUME NEW v \in Uids, v \notin readded' PROVE Turn(v)'
  <2>1. Turn(v) /\ v \notin readded
    BY <1>5, <1>13 DEF IInv
  <2>2. \A k \in DOMAIN queue' : queue'[k].uid = v =>
           \/ k \in DOMAIN kicked /\ k \in DOMAIN queue /\ queue[k].uid = v
           \/ v \in unscheduled /\ k = at[v]
    BY <1>7, <1>8
  <2>3. CASE v \in kept
    <3>1. v \in tasks /\ v \in tasks' /\ v \notin unscheduled
      BY <1>9, <2>1, <2>3 DEF Turn, Waits, Runs, Ends
    <3>2. key'[v] = key[v] /\ running'[v] = running[v]
      BY <1>1, <1>5, <2>3, <3>1 DEF TypeOK
    <3>3. \A k \in DOMAIN queue' : queue'[k].uid = v => k \in DOMAIN queue /\ queue[k].uid = v
      BY <2>2, <3>1
    <3> HIDE DEF unscheduled, kept
    <3> QED BY <1>4, <1>6, <2>1, <3>1, <3>2, <3>3, TurnKept
  <2>4. CASE v \in new
    <3>1. v \notin tasks /\ v \in tasks' /\ v \in unscheduled /\ v \notin kept
      BY <1>9, <2>4
    <3>2. NoEntry(v) /\ NoUpdate(v) /\ NoEnd(v)
      <4>1. updates[v] = <<>> /\ TaskFinished(v) \notin Range(commands)
        BY <1>5, <1>13, <2>4
      <4>2. NoEnd(v)
        BY <4>1 DEF NoEnd, None, Range
      <4> QED BY <2>1, <3>1, <4>1, <4>2 DEF Turn, Rests, NoUpdate
    <3>3. key'[v] = at[v] /\ key'[v] # NoKey /\ ~running'[v]
      BY <1>5, <1>8, <3>1, TimerAssumption, ZenonT(30)
    <3>4. \A k \in DOMAIN queue' : queue'[k].uid = v => k = key'[v]
      BY <2>2, <3>2, <3>3 DEF NoEntry
    <3> QED BY <1>4, <1>6, <3>1, <3>2, <3>3, <3>4 DEF Turn, Waits, NoUpdate
  <2>5. CASE v \notin kept /\ v \notin new
    <3>1. v \notin tasks' /\ v \notin unscheduled
      BY <1>5, <2>5
    <3>2. \A k \in DOMAIN queue' : queue'[k].uid = v =>
             k \in DOMAIN queue /\ queue[k].uid = v /\ (v \in tasks => k # key[v])
      BY <1>7, <2>2, <2>5, <3>1
    <3>3. NoEntry(v)'
      BY <2>1, <3>2 DEF Turn, Waits, Runs, Ends, Rests, NoEntry
    <3>4. (NoUpdate(v) /\ NoEnd(v)) \/ (OneUpdate(v) /\ NoEnd(v)) \/ (NoUpdate(v) /\ OneEnd(v))
      BY <2>1 DEF Turn, Waits, Runs, Ends, Rests
    <3> QED BY <1>4, <1>6, <3>1, <3>3, <3>4 DEF Turn, Rests, NoUpdate, OneUpdate
  <2> QED BY <2>3, <2>4, <2>5
<1>14. \A v \in Uids \ tasks' : ~running'[v]
  BY <1>5
<1> QED BY <1>10, <1>11, <1>12, <1>13, <1>14 DEF IInv

------------------------------------------------------------------------------
(* The end of an update, and time. *)

LEMMA UpdateEndsOK == ASSUME IInv, NEW u \in Uids, UpdateEnds(u) PROVE IInv'
<1>1. TypeOK /\ QueueOK /\ KeyIsQueued
  BY DEF IInv
<1>2. PICK n \in DOMAIN updates[u] :
        /\ updates' = [updates EXCEPT ![u] = [m \in 1 .. Len(@) - 1 |-> @[IF m < n THEN m ELSE m + 1]]]
        /\ commands' = Append(commands, TaskFinished(u))
        /\ UNCHANGED <<items, timer_map, refresh, queue, tasks, key, interval, running, readded>>
  BY DEF UpdateEnds
<1> DEFINE s == updates[u]
           t == [m \in 1 .. Len(s) - 1 |-> s[IF m < n THEN m ELSE m + 1]]
<1>3. s \in Seq(0 .. MaxUpdate) /\ n \in 1 .. Len(s) /\ Len(s) \in Nat \ {0}
  BY <1>1 DEF TypeOK
<1>4. t \in Seq(0 .. MaxUpdate) /\ Len(t) = Len(s) - 1
  BY <1>3, ShorterSeq
<1>5. updates' = [updates EXCEPT ![u] = t]
  BY <1>2
<1> HIDE DEF s, t
<1>6. TaskFinished(u) \in Commands /\ commands \in Seq(Commands)
  BY <1>1, CommandTypes DEF TypeOK
<1>7. commands' \in Seq(Commands)
  BY <1>2, <1>6
<1>8. ASSUME NEW v \in Uids, v # u PROVE (NoEnd(v) => NoEnd(v)') /\ (OneEnd(v) => OneEnd(v)')
  <2>1. TaskFinished(u) # TaskFinished(v)
    BY <1>8, CommandTypes
  <2>2. /\ None(commands, TaskFinished(v)) => None(commands', TaskFinished(v))
        /\ Once(commands, TaskFinished(v)) => Once(commands', TaskFinished(v))
    BY <1>2, <1>6, <2>1, AppendToChannel
  <2> QED BY <2>2 DEF NoEnd, OneEnd
<1>9. NoEnd(u) => OneEnd(u)'
  <2>1. None(commands, TaskFinished(u)) => Once(commands', TaskFinished(u))
    BY <1>2, <1>6, AppendToChannel
  <2> QED BY <2>1 DEF NoEnd, OneEnd
<1>10. QueueOK' /\ KeyIsQueued'
  BY <1>1, <1>2 DEF QueueOK, KeyIsQueued
<1>11. TypeOK'
  BY <1>1, <1>2, <1>4, <1>5, <1>7, <1>10, TypesOfTasks DEF TypeOK
<1>12. ASSUME NEW v \in Uids \ readded, v # u PROVE Turn(v)'
  <2>1. updates'[v] = updates[v]
    BY <1>1, <1>5, <1>12 DEF TypeOK
  <2> QED BY <1>2, <1>8, <1>12, <2>1, TurnKept DEF IInv
<1>13. ASSUME u \notin readded PROVE Turn(u)'
  <2>1. ~NoUpdate(u)
    BY <1>3 DEF NoUpdate, s
  <2>2. NoUpdate(u)' <=> OneUpdate(u)
    <3>1. updates'[u] = t
      BY <1>1, <1>5 DEF TypeOK
    <3>2. t = <<>> <=> Len(s) = 1
      BY <1>3, <1>4
    <3> QED BY <3>1, <3>2 DEF NoUpdate, OneUpdate, s
  <2>3. CASE u \in tasks
    <3>1. Runs(u)
      BY <1>13, <2>1, <2>3 DEF IInv, Turn, Waits, Ends
    <3>2. Ends(u)'
      BY <1>2, <1>9, <2>2, <3>1 DEF Runs, Ends, NoEntry
    <3> QED BY <1>2, <2>3, <3>2 DEF Turn
  <2>4. CASE u \notin tasks
    <3>1. NoEntry(u) /\ OneUpdate(u) /\ NoEnd(u)
      BY <1>13, <2>1, <2>4 DEF IInv, Turn, Rests
    <3>2. NoEntry(u)' /\ NoUpdate(u)' /\ OneEnd(u)'
      BY <1>2, <1>9, <2>2, <3>1 DEF NoEntry
    <3> QED BY <1>2, <2>4, <3>2 DEF Turn, Rests
  <2> QED BY <2>3, <2>4
<1> QED BY <1>2, <1>10, <1>11, <1>12, <1>13 DEF IInv

LEMMA TickOK == ASSUME IInv, Tick PROVE IInv'
<1>1. TypeOK /\ QueueOK /\ KeyIsQueued
  BY DEF IInv
<1>2. /\ UNCHANGED <<items, timer_map, refresh, commands, tasks, key, interval, running, readded>>
      /\ queue' = [k \in DOMAIN queue |-> [queue[k] EXCEPT !.wait = @ - 1]]
      /\ updates' = [u \in Uids |-> [n \in DOMAIN updates[u] |-> updates[u][n] + 1]]
  BY DEF Tick
<1>3. /\ DOMAIN queue' = DOMAIN queue
      /\ \A k \in DOMAIN queue : queue'[k] \in Entry /\ queue'[k].uid = queue[k].uid
  <2> SUFFICES ASSUME NEW k \in DOMAIN queue PROVE queue'[k] \in Entry /\ queue'[k].uid = queue[k].uid
    BY <1>2
  <2>1. queue[k] \in Entry /\ queue[k].wait > 0
    BY <1>1 DEF QueueOK, Tick
  <2>2. queue'[k] = [queue[k] EXCEPT !.wait = queue[k].wait - 1]
    BY <1>2
  <2> QED BY <2>1, <2>2 DEF Entry
<1>4. ASSUME NEW u \in Uids PROVE updates'[u] \in Seq(0 .. MaxUpdate) /\ Len(updates'[u]) = Len(updates[u])
  <2> DEFINE s == updates[u]
             t == [n \in DOMAIN s |-> s[n] + 1]
  <2>1. s \in Seq(0 .. MaxUpdate) /\ \A n \in DOMAIN s : s[n] < MaxUpdate
    BY <1>1 DEF TypeOK, Tick
  <2>2. DOMAIN s = 1 .. Len(s) /\ Len(s) \in Nat /\ \A n \in DOMAIN s : s[n] \in 0 .. MaxUpdate
    <3> HIDE DEF s
    <3> QED BY <2>1, TimerAssumption
  <2>3. \A n \in DOMAIN s : t[n] \in 0 .. MaxUpdate
    BY <2>1, <2>2, TimerAssumption
  <2>4. t \in [1 .. Len(s) -> 0 .. MaxUpdate]
    BY <2>2, <2>3
  <2>5. t \in Seq(0 .. MaxUpdate) /\ Len(t) = Len(s)
    BY <2>2, <2>4, MappedSeq
  <2> QED BY <1>2, <2>5
<1>5. QueueOK' /\ KeyIsQueued'
  BY <1>1, <1>2, <1>3 DEF QueueOK, KeyIsQueued
<1>6. TypeOK'
  <2>1. updates' \in [Uids -> Seq(0 .. MaxUpdate)]
    BY <1>2, <1>4
  <2> QED BY <1>1, <1>2, <1>5, <2>1, TypesOfTasks DEF TypeOK
<1>7. ASSUME NEW u \in Uids \ readded PROVE Turn(u)'
  <2>1. (NoUpdate(u) <=> NoUpdate(u)') /\ (OneUpdate(u) <=> OneUpdate(u)')
    <3>1. updates[u] \in Seq(0 .. MaxUpdate) /\ updates'[u] \in Seq(0 .. MaxUpdate)
      BY <1>1, <1>4 DEF TypeOK
    <3>2. updates[u] = <<>> <=> updates'[u] = <<>>
      BY <1>4, <3>1
    <3> QED BY <1>4, <3>2 DEF NoUpdate, OneUpdate
  <2>2. (NoEnd(u) <=> NoEnd(u)') /\ (OneEnd(u) <=> OneEnd(u)')
    BY <1>2 DEF NoEnd, OneEnd
  <2>3. Turn(u)
    BY <1>7 DEF IInv
  <2> QED BY <1>2, <1>3, <2>1, <2>2, <2>3 DEF Turn, Waits, Runs, Ends, Rests, NoEntry
<1> QED BY <1>2, <1>5, <1>6, <1>7 DEF IInv

------------------------------------------------------------------------------
(* The theorems. *)

LEMMA StepOK == IInv /\ [Next]_vars => IInv'
<1> SUFFICES ASSUME IInv, [Next]_vars PROVE IInv'
  OBVIOUS
<1>1. CASE UNCHANGED vars
  <2>1. TypeOK'
    BY <1>1 DEF IInv, TypeOK, vars, taskVars
  <2> QED BY <1>1, <2>1, TasksUntouched DEF vars
<1>2. ASSUME NEW c \in Callers, Refresh(c) PROVE IInv'
  BY <1>2, ProfileStepsOK, SendMapOK DEF Refresh
<1>3. CASE Scheduler
  BY <1>3, ApplyTimerMapOK, RunTaskNowOK, FinishTaskOK, RunExpiredTaskOK DEF Scheduler
<1> QED BY <1>1, <1>2, <1>3, ProfileStepsOK, UpdateEndsOK, TickOK DEF Next

\* The state of the timer is always described by the inductive invariant.
THEOREM Inductive == Spec => []IInv
BY InitOK, StepOK, PTL DEF Spec

\* The maps, the channel, the queue and the states of the tasks keep their types:
\* no wait goes below zero and no update outlives the timeout of async_task.
THEOREM TypeCorrect == Spec => []TypeOK
<1>1. IInv => TypeOK
  BY DEF IInv
<1> QED BY <1>1, Inductive, PTL

\* One thing ahead: the three counts of OneTurnAhead, read off a profile's turn.
LEMMA TurnIsOne ==
    ASSUME IInv, NEW u \in Uids \ readded
    PROVE  /\ IF u \in tasks
              THEN Cardinality(Entries(u)) + Len(updates[u]) + Cardinality(Finishing(u)) = 1
              ELSE Entries(u) = {}
           /\ Len(updates[u]) <= 1
<1>1. Turn(u) /\ (key[u] # NoKey => key[u] \in DOMAIN queue /\ queue[key[u]].uid = u)
  BY DEF IInv, KeyIsQueued
<1>2. NoUpdate(u) => Len(updates[u]) = 0
  BY DEF NoUpdate
<1>3. NoEntry(u) => Entries(u) = {}
  BY DEF NoEntry, Entries
<1>4. NoEnd(u) => Finishing(u) = {}
  BY DEF NoEnd, None, Finishing
<1>5. OneEnd(u) => \E n : Finishing(u) = {n}
  BY DEF OneEnd, Once, Finishing
<1>6. Waits(u) => Entries(u) = {key[u]}
  BY <1>1 DEF Waits, Entries
<1>7. Cardinality({}) = 0 /\ \A x : Cardinality({x}) = 1
  BY FS_EmptySet, FS_Singleton
<1> DEFINE E == Cardinality(Entries(u))
           L == Len(updates[u])
           F == Cardinality(Finishing(u))
<1>8. CASE u \in tasks
  <2>1. CASE Waits(u)
    <3>1. E = 1 /\ L = 0 /\ F = 0
      BY <1>2, <1>4, <1>6, <1>7, <2>1 DEF Waits
    <3> HIDE DEF E, L, F
    <3>2. E + L + F = 1 /\ L <= 1
      BY <3>1
    <3> QED BY <1>8, <3>2 DEF E, L, F
  <2>2. CASE Runs(u)
    <3>1. E = 0 /\ L = 1 /\ F = 0
      BY <1>3, <1>4, <1>7, <2>2 DEF Runs, OneUpdate
    <3> HIDE DEF E, L, F
    <3>2. E + L + F = 1 /\ L <= 1
      BY <3>1
    <3> QED BY <1>8, <3>2 DEF E, L, F
  <2>3. CASE Ends(u)
    <3>1. E = 0 /\ L = 0 /\ F = 1
      BY <1>2, <1>3, <1>5, <1>7, <2>3 DEF Ends
    <3> HIDE DEF E, L, F
    <3>2. E + L + F = 1 /\ L <= 1
      BY <3>1
    <3> QED BY <1>8, <3>2 DEF E, L, F
  <2> QED BY <1>1, <1>8, <2>1, <2>2, <2>3 DEF Turn
<1>9. CASE u \notin tasks
  <2>1. Entries(u) = {} /\ (L = 0 \/ L = 1)
    BY <1>1, <1>2, <1>3, <1>9 DEF Turn, Rests, OneUpdate
  <2> HIDE DEF L
  <2>2. L <= 1
    BY <2>1
  <2> QED BY <1>9, <2>1, <2>2 DEF L
<1> QED BY <1>8, <1>9

\* The queue serves the tasks, for any number of profiles, callers and changes:
\* reset and remove never meet a key that is not in the queue, and no profile
\* outside readded loses its next update or is updated twice at a time.
THEOREM QueueServes == Spec => []QueueServesTasks
<1>1. IInv => QueueServesTasks
  <2> SUFFICES ASSUME IInv PROVE QueueServesTasks
    OBVIOUS
  <2>1. KeyIsQueued
    BY DEF IInv
  <2>2. OneTurnAhead
    BY TurnIsOne DEF OneTurnAhead
  <2>3. OneUpdateAtATime
    BY TurnIsOne DEF OneUpdateAtATime
  <2> QED BY <2>1, <2>2, <2>3 DEF QueueServesTasks
<1> QED BY <1>1, Inductive, PTL
------------------------------------------------------------------------------
(* The tasks follow the profiles.  The map of the last refresh is on its   *)
(* way to the tasks: with its caller, in the channel, or applied.          *)

Carries(s, map) == \E n \in DOMAIN s : /\ s[n] = Apply(map)
                                       /\ \A m \in DOMAIN s : m > n => s[m].cmd # "Apply"
Silent(s) == \A n \in DOMAIN s : s[n].cmd # "Apply"

Sending(c) == refresh[c].at = "send"

\* the tasks have timer_map, or get it with the last Apply of the channel
Told == Carries(commands, timer_map) \/ (Silent(commands) /\ interval = timer_map)
\* timer_map is the index's, or a refresh that will store the index's is under way
Known ==
    \/ timer_map = items
    \/ \E c \in Callers : refresh[c].at = "start" \/ (refresh[c].at = "store" /\ refresh[c].map = items)

Follows ==
    /\ tasks = {u \in Uids : interval[u] > 0}
    /\ ~behind => /\ \A c \in Callers : Sending(c) => refresh[c].map = timer_map
                  /\ \A c, d \in Callers : Sending(c) /\ Sending(d) => c = d
                  /\ (\A c \in Callers : ~Sending(c)) => Told
                  /\ Known

\* Sending to the channel and receiving from it, as the last Apply sees it.
LEMMA LastApply ==
    ASSUME NEW s \in Seq(Commands), NEW map
    PROVE  /\ Carries(Append(s, Apply(map)), map)
           /\ \A u \in Uids : /\ Carries(s, map) => Carries(Append(s, TaskFinished(u)), map)
                              /\ Silent(s) => Silent(Append(s, TaskFinished(u)))
           /\ s # <<>> => /\ Silent(s) => Silent(Tail(s)) /\ Head(s).cmd # "Apply"
                          /\ Carries(s, map) => \/ Carries(Tail(s), map)
                                                \/ Silent(Tail(s)) /\ Head(s) = Apply(map)
<1>1. DOMAIN s = 1 .. Len(s) /\ Len(s) \in Nat
  OBVIOUS
<1>2. ASSUME NEW e
      PROVE  /\ DOMAIN Append(s, e) = 1 .. Len(s) + 1 /\ Append(s, e)[Len(s) + 1] = e
             /\ \A n \in DOMAIN s : Append(s, e)[n] = s[n]
  OBVIOUS
<1>3. Carries(Append(s, Apply(map)), map)
  <2> DEFINE t == Append(s, Apply(map))
  <2>1. Len(s) + 1 \in DOMAIN t /\ t[Len(s) + 1] = Apply(map) /\ \A m \in DOMAIN t : ~(m > Len(s) + 1)
    BY <1>1, <1>2
  <2> QED BY <2>1 DEF Carries
<1>4. ASSUME NEW u \in Uids
      PROVE  /\ Carries(s, map) => Carries(Append(s, TaskFinished(u)), map)
             /\ Silent(s) => Silent(Append(s, TaskFinished(u)))
  <2> DEFINE t == Append(s, TaskFinished(u))
  <2>1. /\ DOMAIN t = 1 .. Len(s) + 1 /\ \A n \in DOMAIN s : t[n] = s[n]
        /\ t[Len(s) + 1].cmd # "Apply"
    BY <1>2 DEF TaskFinished
  <2>2. Silent(s) => Silent(t)
    BY <1>1, <2>1 DEF Silent
  <2>3. ASSUME Carries(s, map) PROVE Carries(t, map)
    <3>1. PICK n \in DOMAIN s : s[n] = Apply(map) /\ \A m \in DOMAIN s : m > n => s[m].cmd # "Apply"
      BY <2>3 DEF Carries
    <3>2. n \in DOMAIN t /\ t[n] = Apply(map) /\ \A m \in DOMAIN t : m > n => t[m].cmd # "Apply"
      BY <1>1, <2>1, <3>1
    <3> QED BY <3>2 DEF Carries
  <2> QED BY <2>2, <2>3
<1>5. ASSUME s # <<>>
      PROVE  /\ Silent(s) => Silent(Tail(s)) /\ Head(s).cmd # "Apply"
             /\ Carries(s, map) => Carries(Tail(s), map) \/ (Silent(Tail(s)) /\ Head(s) = Apply(map))
  <2> DEFINE t == Tail(s)
  <2>1. /\ Head(s) = s[1] /\ 1 \in DOMAIN s /\ DOMAIN t = 1 .. Len(s) - 1
        /\ \A n \in DOMAIN t : t[n] = s[n + 1] /\ n + 1 \in DOMAIN s
    BY <1>5
  <2>2. Silent(s) => Silent(t) /\ Head(s).cmd # "Apply"
    BY <2>1 DEF Silent
  <2>3. ASSUME Carries(s, map) PROVE Carries(t, map) \/ (Silent(t) /\ Head(s) = Apply(map))
    <3>1. PICK n \in DOMAIN s : s[n] = Apply(map) /\ \A m \in DOMAIN s : m > n => s[m].cmd # "Apply"
      BY <2>3 DEF Carries
    <3>2. CASE n = 1
      <4>1. \A m \in DOMAIN t : t[m].cmd # "Apply"
        BY <1>1, <2>1, <3>1, <3>2
      <4> QED BY <2>1, <3>1, <3>2, <4>1 DEF Silent
    <3>3. CASE n # 1
      <4>1. n - 1 \in DOMAIN t /\ t[n - 1] = Apply(map)
        BY <1>1, <2>1, <3>1, <3>3
      <4>2. \A m \in DOMAIN t : m > n - 1 => t[m].cmd # "Apply"
        BY <1>1, <2>1, <3>1, <3>3
      <4> QED BY <4>1, <4>2 DEF Carries
    <3> QED BY <3>2, <3>3
  <2> QED BY <2>2, <2>3
<1> QED BY <1>3, <1>4, <1>5

LEMMA FollowsInit == Init => Follows
<1> SUFFICES ASSUME Init PROVE Follows
  OBVIOUS
<1>1. tasks = {u \in Uids : interval[u] > 0}
  BY DEF Init
<1>2. \A c \in Callers : ~Sending(c)
  BY DEF Init, Sending
<1>3. Carries(commands, timer_map)
  <2>1. PICK overdue \in SUBSET {u \in Uids : items[u] > 0} :
           \E order \in Bijection(1 .. Cardinality(overdue), overdue) :
               commands = <<Apply(items)>> \o [n \in DOMAIN order |-> RunNow(order[n])]
    BY DEF Init
  <2>2. PICK order \in Bijection(1 .. Cardinality(overdue), overdue) :
               commands = <<Apply(items)>> \o [n \in DOMAIN order |-> RunNow(order[n])]
    BY <2>1
  <2>3. Cardinality(overdue) \in Nat
    <3>1. overdue \in SUBSET Uids
      OBVIOUS
    <3> QED BY <3>1, TimerAssumption, FS_Subset, FS_CardinalityType
  <2> DEFINE runs == [n \in DOMAIN order |-> RunNow(order[n])]
  <2>4. runs = [n \in 1 .. Cardinality(overdue) |-> RunNow(order[n])]
    BY DEF Bijection, Injection
  <2>5. runs \in [1 .. Cardinality(overdue) -> {RunNow(order[n]) : n \in 1 .. Cardinality(overdue)}]
    BY <2>4
  <2>6. runs \in Seq({RunNow(order[n]) : n \in 1 .. Cardinality(overdue)})
        /\ Len(runs) = Cardinality(overdue)
    BY <2>3, <2>5, MappedSeq
  <2>7. \A n \in DOMAIN runs : runs[n].cmd # "Apply"
    BY <2>4 DEF RunNow
  <2> HIDE DEF runs
  <2>8. /\ 1 \in DOMAIN commands /\ commands[1] = Apply(items)
        /\ \A m \in DOMAIN commands : m > 1 => m - 1 \in DOMAIN runs /\ commands[m] = runs[m - 1]
    BY <2>2, <2>6 DEF runs
  <2>9. \A m \in DOMAIN commands : m > 1 => commands[m].cmd # "Apply"
    BY <2>7, <2>8
  <2> QED BY <2>8, <2>9 DEF Carries, Init
<1> QED BY <1>1, <1>2, <1>3 DEF Init, Follows, Told, Known, Sending

\* Steps of the callers: a change is followed by a refresh, which stores the
\* index's map and sends it, or leaves the profile behind.
LEMMA CallersFollow ==
    ASSUME IInv, Follows,
           \/ \E c \in Callers, u \in Uids, i \in {0} \cup Intervals : PatchProfile(c, u, i)
           \/ \E u \in Uids, i \in Intervals : ImportProfile(u, i)
           \/ \E c \in Callers : Refresh(c)
    PROVE  Follows'
<1>1. commands \in Seq(Commands) /\ refresh = [c \in Callers |-> refresh[c]]
  BY DEF IInv, TypeOK
<1>2. ASSUME NEW c \in Callers, NEW u \in Uids, NEW i \in {0} \cup Intervals, PatchProfile(c, u, i)
      PROVE  Follows'
  <2>1. /\ UNCHANGED <<timer_map, commands, behind, tasks, interval>>
        /\ refresh[c].at = "idle" /\ refresh' = [refresh EXCEPT ![c] = [at |-> "start"]]
    BY <1>2 DEF PatchProfile, taskVars
  <2>2. refresh'[c].at = "start" /\ \A d \in Callers \ {c} : refresh'[d] = refresh[d]
    BY <1>1, <2>1
  <2>3. \A d \in Callers : Sending(d)' <=> Sending(d)
    BY <2>1, <2>2 DEF Sending
  <2>4. Known'
    BY <2>2 DEF Known
  <2>5. \A d \in Callers : Sending(d)' => refresh'[d] = refresh[d]
    BY <2>2 DEF Sending
  <2> QED BY <2>1, <2>3, <2>4, <2>5 DEF Follows, Told
<1>3. ASSUME NEW u \in Uids, NEW i \in Intervals, ImportProfile(u, i) PROVE Follows'
  BY <1>3 DEF ImportProfile, Follows, taskVars
<1>4. ASSUME NEW c \in Callers, GenMap(c) PROVE Follows'
  <2>1. /\ UNCHANGED <<items, timer_map, commands, behind, tasks, interval>>
        /\ refresh[c].at = "start" /\ refresh' = [refresh EXCEPT ![c] = [at |-> "store", map |-> items]]
    BY <1>4 DEF GenMap, taskVars
  <2>2. /\ refresh'[c].at = "store" /\ refresh'[c].map = items'
        /\ \A d \in Callers \ {c} : refresh'[d] = refresh[d]
    BY <1>1, <2>1
  <2>3. \A d \in Callers : Sending(d)' <=> Sending(d)
    BY <2>1, <2>2 DEF Sending
  <2>4. Known'
    BY <2>2 DEF Known
  <2>5. \A d \in Callers : Sending(d)' => refresh'[d] = refresh[d]
    BY <2>2 DEF Sending
  <2> QED BY <2>1, <2>3, <2>4, <2>5 DEF Follows, Told
<1>5. ASSUME NEW c \in Callers, StoreMap(c) PROVE Follows'
  <2>1. UNCHANGED <<items, commands, tasks, interval>> /\ refresh[c].at = "store"
    BY <1>5 DEF StoreMap, taskVars
  <2>2. CASE timer_map = refresh[c].map
    <3>1. refresh' = [refresh EXCEPT ![c] = [at |-> "idle"]] /\ UNCHANGED <<timer_map, behind>>
      BY <1>5, <2>2 DEF StoreMap
    <3>2. refresh'[c].at = "idle" /\ \A d \in Callers \ {c} : refresh'[d] = refresh[d]
      BY <1>1, <3>1
    <3>3. \A d \in Callers : (Sending(d)' <=> Sending(d)) /\ (Sending(d)' => refresh'[d] = refresh[d])
      BY <2>1, <3>2 DEF Sending
    <3>4. Known => Known'
      BY <2>1, <2>2, <3>1, <3>2 DEF Known
    <3> QED BY <2>1, <3>1, <3>3, <3>4 DEF Follows, Told
  <2>3. CASE timer_map # refresh[c].map
    <3>1. /\ timer_map' = refresh[c].map /\ refresh' = [refresh EXCEPT ![c].at = "send"]
          /\ behind' = \/ items # refresh[c].map
                       \/ \E d \in Callers : refresh[d].at = "send"
      BY <1>5, <2>3 DEF StoreMap
    <3>2. refresh[c] \in [at : {"store", "send"}, map : Maps]
      BY <2>1 DEF IInv, TypeOK
    <3>3. /\ refresh'[c].at = "send" /\ refresh'[c].map = refresh[c].map
          /\ \A d \in Callers \ {c} : refresh'[d] = refresh[d]
      BY <1>1, <3>1, <3>2
    <3>4. ~behind' => items' = timer_map' /\ \A d \in Callers : Sending(d)' => d = c
      BY <2>1, <3>1, <3>3 DEF Sending
    <3>5. Sending(c)'
      BY <3>3 DEF Sending
    <3>6. tasks' = {u \in Uids : interval'[u] > 0}
      BY <2>1 DEF Follows
    <3> QED BY <3>1, <3>3, <3>4, <3>5, <3>6 DEF Follows, Known
  <2> QED BY <2>2, <2>3
<1>6. ASSUME NEW c \in Callers, SendMap(c) PROVE Follows'
  <2>1. /\ UNCHANGED <<items, timer_map, behind, tasks, interval>> /\ Sending(c)
        /\ refresh' = [refresh EXCEPT ![c] = [at |-> "idle"]]
        /\ commands' = Append(commands, Apply(refresh[c].map))
    BY <1>6 DEF SendMap, Sending, taskVars
  <2>2. refresh'[c].at = "idle" /\ \A d \in Callers \ {c} : refresh'[d] = refresh[d]
    BY <1>1, <2>1
  <2>3. ~behind => Carries(commands', timer_map')
    <3>1. ~behind => refresh[c].map = timer_map
      BY <2>1 DEF Follows
    <3> QED BY <1>1, <2>1, <3>1, LastApply
  <2>4. \A d \in Callers : Sending(d)' => Sending(d) /\ refresh'[d] = refresh[d]
    BY <2>2 DEF Sending
  <2>5. Known => Known'
    BY <2>1, <2>2 DEF Known, Sending
  <2> QED BY <2>1, <2>3, <2>4, <2>5 DEF Follows, Told
<1> QED BY <1>2, <1>3, <1>4, <1>5, <1>6 DEF Refresh

\* The tasks follow the map that an Apply brings.
LEMMA ApplyFollows == ASSUME IInv, Follows, ApplyTimerMap PROVE Follows'
<1> DEFINE map == Head(commands).map
           kept == {u \in tasks : map[u] > 0}
           new == {u \in Uids \ tasks : map[u] > 0}
<1>1. /\ UNCHANGED <<items, timer_map, refresh, behind>>
      /\ tasks' = kept \cup new /\ interval' = map
  BY DEF ApplyTimerMap
<1>2. commands # <<>> /\ commands' = Tail(commands) /\ Head(commands).cmd = "Apply" /\ commands \in Seq(Commands)
  BY DEF IInv, TypeOK, ApplyTimerMap, Command
<1>3. tasks \subseteq Uids
  BY DEF IInv, TypeOK
<1>4. tasks' = {u \in Uids : interval'[u] > 0}
  BY <1>1, <1>3
<1>5. Told => Told'
  <2>1. ~Silent(commands)
    BY <1>2, LastApply
  <2>2. Carries(commands, timer_map) =>
           Carries(commands', timer_map) \/ (Silent(commands') /\ Head(commands) = Apply(timer_map))
    BY <1>2, LastApply
  <2>3. Head(commands) = Apply(timer_map) => map = timer_map
    BY DEF Apply
  <2> QED BY <1>1, <2>1, <2>2, <2>3 DEF Told
<1>6. (Known => Known') /\ \A c \in Callers : (Sending(c)' <=> Sending(c)) /\ refresh'[c] = refresh[c]
  BY <1>1 DEF Known, Sending
<1> QED BY <1>1, <1>4, <1>5, <1>6 DEF Follows

\* No other step of the scheduler, end of an update or tick changes what the
\* tasks are or will be told.
LEMMA OthersFollow ==
    ASSUME IInv, Follows,
           \/ RunTaskNow \/ FinishTask \/ Tick
           \/ \E k \in DOMAIN queue : RunExpiredTask(k)
           \/ \E u \in Uids : UpdateEnds(u)
    PROVE  Follows'
<1>1. UNCHANGED <<items, timer_map, refresh, behind, tasks, interval>>
  BY DEF RunTaskNow, FinishTask, Tick, RunExpiredTask, UpdateEnds
<1>2. commands \in Seq(Commands)
  BY DEF IInv, TypeOK
<1>3. \/ commands' = commands
      \/ commands # <<>> /\ Head(commands).cmd # "Apply" /\ commands' = Tail(commands)
      \/ \E u \in Uids : commands' = Append(commands, TaskFinished(u))
  BY DEF RunTaskNow, FinishTask, Tick, RunExpiredTask, UpdateEnds, Command
<1>4. Told => Told'
  <2>1. CASE commands' = commands
    BY <1>1, <2>1 DEF Told
  <2>2. CASE commands # <<>> /\ Head(commands).cmd # "Apply" /\ commands' = Tail(commands)
    <3>1. Head(commands) # Apply(timer_map)
      BY <2>2 DEF Apply
    <3>2. /\ Silent(commands) => Silent(Tail(commands))
          /\ Carries(commands, timer_map) => Carries(Tail(commands), timer_map)
      BY <1>2, <2>2, <3>1, LastApply
    <3> QED BY <1>1, <2>2, <3>2 DEF Told
  <2>3. ASSUME NEW u \in Uids, commands' = Append(commands, TaskFinished(u)) PROVE Told => Told'
    <3>1. /\ Silent(commands) => Silent(Append(commands, TaskFinished(u)))
          /\ Carries(commands, timer_map) => Carries(Append(commands, TaskFinished(u)), timer_map)
      BY <1>2, LastApply
    <3> QED BY <1>1, <2>3, <3>1 DEF Told
  <2> QED BY <1>3, <2>1, <2>2, <2>3
<1>5. (Known => Known') /\ \A c \in Callers : (Sending(c)' <=> Sending(c)) /\ refresh'[c] = refresh[c]
  BY <1>1 DEF Known, Sending
<1> QED BY <1>1, <1>4, <1>5 DEF Follows

LEMMA FollowsStep == IInv /\ Follows /\ [Next]_vars => Follows'
<1> SUFFICES ASSUME IInv, Follows, [Next]_vars PROVE Follows'
  OBVIOUS
<1>1. CASE UNCHANGED vars
  BY <1>1 DEF vars, taskVars, Follows, Told, Known, Sending
<1>2. CASE Scheduler
  BY <1>2, ApplyFollows, OthersFollow DEF Scheduler
<1> QED BY <1>1, <1>2, CallersFollow, OthersFollow DEF Next

\* With the refreshes and the commands done, the timer serves the profiles as
\* they are, for any number of them and of callers, unless the history says
\* that a change came without a refresh or one refresh overtook another.
THEOREM TasksFollow == Spec => []TasksFollowProfiles
<1>1. Follows => TasksFollowProfiles
  <2> SUFFICES ASSUME Follows, commands = <<>>, \A c \in Callers : refresh[c] = Idle, ~behind
               PROVE  tasks = {u \in Uids : items[u] > 0} /\ \A u \in tasks : interval[u] = items[u]
    BY DEF TasksFollowProfiles
  <2>1. \A c \in Callers : refresh[c].at = "idle"
    BY DEF Idle
  <2>2. timer_map = items /\ Told
    BY <2>1 DEF Follows, Known, Sending
  <2>3. ~Carries(commands, timer_map)
    BY DEF Carries
  <2> QED BY <2>2, <2>3 DEF Follows, Told
<1> QED BY <1>1, FollowsInit, FollowsStep, Inductive, PTL DEF Spec
==============================================================================
