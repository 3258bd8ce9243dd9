----------------------------- MODULE ProfileStore -----------------------------
(***************************************************************************)
(* The profiles, their index and their files: config/profiles.rs, and the  *)
(* commands over them in cmd/profile.rs, cmd/save_profile.rs and           *)
(* feat/profile.rs.  Every command runs as a task of its own; the steps it *)
(* still has to do are its list `todo`, and between two of them the other  *)
(* tasks may run.  with_data_modify and a switch over a draft are those of *)
(* modules Draft and ConfigSwitch.  A configuration is the profile it was  *)
(* generated from and the content that profile's file had.                 *)
(***************************************************************************)
EXTENDS Integers, Sequences, FiniteSets

CONSTANTS
    Uids,           \* profiles, those still to be created included
    Contents,       \* contents of profile files
    Callers,        \* tasks that run commands
    None,           \* no profile, no file, nobody
    MaxCommands     \* bound: commands begun, and restarts of the application

Index == [items : SUBSET Uids, current : Uids \cup {None}]

ASSUME ProfileAssumption ==
    /\ None \notin Uids \cup Contents \cup Callers \cup Index
    /\ MaxCommands \in Nat

VARIABLES
    memory,         \* committed index: its items and the current profile
    draft,          \* the index as a switch edits it
    saved,          \* the index file
    file,           \* content of the profile files
    core,           \* configuration the core runs
    updating,       \* who holds config_update_in_progress
    permit,         \* who is inside with_data_modify
    copy,           \* its copy of the index
    overtaken,      \* the index was published since it was copied
    task,           \* what each caller is doing
    commands,       \* bound
    created,        \* profiles that ever existed (uids are random)
    removed,        \* profiles whose removal was committed (history)
    excused         \* what is off by a failure that was reported only, or by tasks that crossed (history)

store == <<memory, draft, saved, file>>
locks == <<updating, permit, copy, overtaken>>
history == <<created, removed, excused>>
vars == <<store, core, locks, task, commands, history>>

Latest == IF draft = None THEN memory ELSE draft
NoIndex == [items |-> {}, current |-> None]
NoProfile == [uid |-> None, content |-> None]
Configuration(uid) == [uid |-> uid, content |-> file[uid]]

\* what is left to do, for which profile, with which content; old is the content to restore
Idle == [name |-> "none", todo |-> <<>>, uid |-> None, data |-> None, old |-> None,
         restoring |-> FALSE, reloads |-> FALSE, read |-> None]
Task(name, todo, u, data, old) ==
    [Idle EXCEPT !.name = name, !.todo = todo, !.uid = u, !.data = data, !.old = old]
Modify(steps) == <<"enter">> \o steps \o <<"commit">>
SaveIndex == Modify(<<"save">>)
Reload == <<"generate", "load">>

Init ==
    /\ \E items \in (SUBSET Uids) \ {{}} : \E u \in items, content \in [items -> Contents] :
          /\ memory = [items |-> items, current |-> u] /\ created = items
          /\ file = [v \in Uids |-> IF v \in items THEN content[v] ELSE None]
          /\ core = [uid |-> u, content |-> content[u]]
    /\ saved = memory /\ draft = None
    /\ updating = None /\ permit = None /\ copy = None /\ overtaken = FALSE
    /\ task = [c \in Callers |-> Idle]
    /\ commands = 0 /\ removed = {} /\ excused = {}

------------------------------------------------------------------------------
(* The commands.  Tasks take little notice of each other: a switch publishes *)
(* the index as it was when the switch began; two tasks over one profile     *)
(* overwrite each other's file; a task decides early whether its profile is  *)
(* the current one, and a reload loads whatever the file then holds.         *)

ChangesIndex(t) == t.name \in {"update", "create", "delete", "touch", "reorder"}
Excuses(t, s) ==
    (IF t.name = "switch" /\ ChangesIndex(s) THEN {"core", "index", "removal"} ELSE {})
    \cup (IF t.uid = s.uid THEN {"core", "index"} ELSE {})
    \cup (IF t.name \in {"switch", "delete"} THEN {"core"} ELSE {})

Begin(c, t) ==
    /\ task[c] = Idle /\ commands < MaxCommands /\ commands' = commands + 1
    /\ task' = [task EXCEPT ![c] = t]
    /\ excused' = excused \cup UNION {Excuses(t, task[d]) \cup Excuses(task[d], t) : d \in {d \in Callers \ {c} : task[d] # Idle}}

\* feat::update_profile: what it will restore and whether it reloads is read before the download
UpdateProfile(c, u) ==
    /\ u \in Latest.items /\ file[u] # None
    /\ Begin(c, Task("update", <<"download">> \o Modify(<<"write", "save">>)
                               \o (IF u = Latest.current THEN Reload ELSE <<>>), u, None, file[u]))
    /\ UNCHANGED <<store, core, locks, created, removed>>

\* save_profile_file: the file is written without with_data_modify
SaveProfileFile(c, u, x) ==
    /\ u \in Latest.items /\ file[u] # None
    /\ Begin(c, Task("save", <<"put", "validate">> \o (IF u = Latest.current THEN Reload ELSE <<>>),
                     u, x, file[u]))
    /\ UNCHANGED <<store, core, locks, created, removed>>

\* create_profile, and import_profile after its download
CreateProfile(c, u, x) ==
    /\ u \notin created /\ created' = created \cup {u}
    /\ Begin(c, Task("create", Modify(<<"write", "append">>) \o SaveIndex, u, x, None))
    /\ UNCHANGED <<store, core, locks, removed>>

DeleteProfile(c, u) ==
    /\ u \in Latest.items
    /\ Begin(c, Task("delete", Modify(<<"remove", "save">>) \o SaveIndex, u, None, None))
    /\ UNCHANGED <<store, core, locks, created, removed>>

\* patch_profile, of a field that is no content
PatchProfile(c, u) ==
    /\ u \in Latest.items
    /\ Begin(c, Task("touch", SaveIndex, u, None, None))
    /\ UNCHANGED <<store, core, locks, created, removed>>

ReorderProfile(c, u) ==
    /\ u \in Latest.items
    /\ Begin(c, Task("reorder", Modify(<<"reorder">>), u, None, None))
    /\ UNCHANGED <<store, core, locks, created, removed>>

\* patch_profiles_config; one at a time
PatchProfilesConfig(c, u) ==
    /\ draft = None /\ \A d \in Callers : task[d].name # "switch"
    /\ u \in memory.items /\ u # memory.current
    /\ Begin(c, Task("switch", Reload \o <<"keep", "publish">>, u, None, memory.current))
    /\ draft' = [memory EXCEPT !.current = u]
    /\ UNCHANGED <<memory, saved, file, core, locks, created, removed>>

------------------------------------------------------------------------------
(* Failures.  They drop the permit and the flag the task holds; a failure    *)
(* that nothing is done about, or that of a recovery, is only reported.      *)

Over(t) == IF t.todo = <<>> THEN Idle ELSE t
Saved(t) == t.name = "save" /\ Head(t.todo) # "put"
Appended(t) == t.name = "create" /\ t.uid \in memory.items
SwitchSaves(t) == t.name = "switch" /\ Head(t.todo) = "keep"

\* Mutants of Recovery: an update that failed is not rolled back; a creation that could
\* not be saved stays in memory.
RecoveryNone(t) == IF t.name = "create" /\ Appended(t) /\ ~t.restoring
                   THEN [t EXCEPT !.restoring = TRUE, !.todo = Modify(<<"remove", "save">>)] ELSE Idle
RecoveryKeepsItem(t) ==
    IF t.restoring THEN Idle
    ELSE CASE t.name = "update" -> [t EXCEPT !.restoring = TRUE, !.data = t.old,
                                             !.todo = Modify(<<"write", "save">>) \o <<"again">>]
           [] Saved(t) -> [t EXCEPT !.restoring = TRUE, !.data = t.old, !.todo = <<"put">>]
           [] OTHER -> Idle

\* what a task does in its error branches
Recovery(t) ==
    IF t.restoring
    THEN IF t.name = "switch" /\ t.reloads THEN [t EXCEPT !.todo = Reload, !.reloads = FALSE] ELSE Idle
    ELSE CASE t.name = "update" -> [t EXCEPT !.restoring = TRUE, !.data = t.old,
                                             !.todo = Modify(<<"write", "save">>) \o <<"again">>]
           [] Saved(t) -> [t EXCEPT !.restoring = TRUE, !.data = t.old, !.todo = <<"put">>]
           [] Appended(t) -> [t EXCEPT !.restoring = TRUE, !.todo = Modify(<<"remove", "save">>)]
           [] t.name = "switch" -> [t EXCEPT !.restoring = TRUE, !.reloads = SwitchSaves(t),
                                             !.todo = SaveIndex \o (IF SwitchSaves(t) THEN Reload ELSE <<>>)]
           [] OTHER -> Idle

\* discard, or discard_and_restore: the index the switch edited is dropped
DropsDraft(t) == t.name = "switch" /\ ~t.restoring
Restored(t) ==
    IF SwitchSaves(t) \/ t.old \notin memory.items THEN memory ELSE [memory EXCEPT !.current = t.old]

\* task c gives up what it was doing; reported is what is off from now on
GivesUp(c, reported) ==
    LET t == task[c]
    IN /\ task' = [task EXCEPT ![c] = Recovery(t)]
       /\ excused' = excused \cup reported \cup (IF t.restoring \/ t.name = "delete" THEN {"core", "index"} ELSE {})
       /\ permit' = (IF permit = c THEN None ELSE permit)
       /\ updating' = (IF updating = c THEN None ELSE updating)
       /\ IF DropsDraft(t)
          THEN draft' = None /\ memory' = Restored(t) /\ overtaken' = (overtaken \/ ~SwitchSaves(t))
          ELSE UNCHANGED <<draft, memory, overtaken>>
       /\ UNCHANGED <<copy, core, commands, created, removed>>

Fail(c) == GivesUp(c, {}) /\ UNCHANGED <<saved, file>>

\* the 40 s of the timer's update, at any await
TimeOut(c) ==
    /\ task[c].name = "update"
    /\ task' = [task EXCEPT ![c] = Idle] /\ excused' = excused \cup {"core"}
    /\ permit' = (IF permit = c THEN None ELSE permit)
    /\ updating' = (IF updating = c THEN None ELSE updating)
    /\ UNCHANGED <<store, core, copy, overtaken, commands, created, removed>>

------------------------------------------------------------------------------
(* The steps. *)

At(c, step) == task[c].todo # <<>> /\ Head(task[c].todo) = step
Becomes(c, t) == task' = [task EXCEPT ![c] = Over(t)]
Continue(c) == Becomes(c, [task[c] EXCEPT !.todo = Tail(@)])
Bookkeeping == <<commands, created, excused>>

\* perform_profile_update: one of its three attempts brings content x
Download(c, x) ==
    /\ At(c, "download") /\ Becomes(c, [task[c] EXCEPT !.todo = Tail(@), !.data = x])
    /\ UNCHANGED <<store, core, locks, removed, Bookkeeping>>

\* Mutant of Enter: modifications do not exclude each other.
EnterAnyway(c) ==
    /\ At(c, "enter")
    /\ permit' = c /\ copy' = memory /\ overtaken' = FALSE /\ Continue(c)
    /\ UNCHANGED <<store, core, updating, removed, Bookkeeping>>

Enter(c) ==
    /\ At(c, "enter") /\ permit = None
    /\ permit' = c /\ copy' = memory /\ overtaken' = FALSE /\ Continue(c)
    /\ UNCHANGED <<store, core, updating, removed, Bookkeeping>>

\* append_item and update_item write the file of the item; update_item needs the item
WriteFile(c) ==
    /\ At(c, "write") /\ (task[c].name = "create" \/ task[c].uid \in copy.items)
    /\ file' = [file EXCEPT ![task[c].uid] = task[c].data] /\ Continue(c)
    /\ UNCHANGED <<memory, draft, saved, core, locks, removed, Bookkeeping>>

AppendItem(c) ==
    /\ At(c, "append") /\ Continue(c)
    /\ copy' = [items |-> copy.items \cup {task[c].uid},
                current |-> IF copy.current = None THEN task[c].uid ELSE copy.current]
    /\ UNCHANGED <<store, core, updating, permit, overtaken, removed, Bookkeeping>>

\* delete_item: the file goes first; the next profile of the list becomes the current one.
\* Only delete_profile reloads then, not the end of a creation that failed.
DeleteItem(c) ==
    LET u == task[c].uid
        rest == copy.items \ {u}
        wasCurrent == copy.current \in {u, None}
    IN /\ At(c, "remove") /\ u \in copy.items
       /\ file' = [file EXCEPT ![u] = None]
       /\ \E next \in rest \cup {None} :
             /\ next = None => rest = {}
             /\ copy' = [items |-> rest, current |-> IF wasCurrent THEN next ELSE copy.current]
       /\ Becomes(c, [task[c] EXCEPT !.todo =
                        Tail(@) \o (IF wasCurrent /\ task[c].name = "delete" THEN Reload ELSE <<>>)])
       /\ excused' = excused \cup (IF wasCurrent /\ task[c].name = "create" THEN {"core"} ELSE {})
       /\ UNCHANGED <<memory, draft, saved, core, updating, permit, overtaken, removed, commands, created>>

\* reorder: without both profiles it returns before it puts the items back
Reorder(c) ==
    /\ At(c, "reorder")
    /\ IF task[c].uid \in copy.items
       THEN Becomes(c, [task[c] EXCEPT !.todo = <<"save", "commit">>]) /\ UNCHANGED <<copy, excused>>
       ELSE /\ copy' = [copy EXCEPT !.items = {}] /\ Continue(c)
            /\ excused' = excused \cup {"core", "index"}
    /\ UNCHANGED <<store, core, updating, permit, overtaken, removed, commands, created>>

\* save_file
SaveFile(c) ==
    /\ At(c, "save") /\ saved' = copy /\ Continue(c)
    /\ UNCHANGED <<memory, draft, file, core, locks, removed, Bookkeeping>>

\* the end of with_data_modify, and its optimistic lock
Commit(c) ==
    /\ At(c, "commit") /\ ~overtaken
    /\ memory' = copy /\ permit' = None /\ Continue(c)
    /\ removed' = removed \cup (IF task[c].name \in {"delete", "create"} THEN memory.items \ copy.items ELSE {})
    /\ UNCHANGED <<draft, saved, file, core, updating, copy, overtaken, Bookkeeping>>

\* fs::write of save_profile_file and restore_original
Put(c) ==
    /\ At(c, "put") /\ file' = [file EXCEPT ![task[c].uid] = task[c].data] /\ Continue(c)
    /\ UNCHANGED <<memory, draft, saved, core, locks, removed, Bookkeeping>>

Validate(c) ==
    /\ At(c, "validate") /\ Continue(c)
    /\ UNCHANGED <<store, core, locks, removed, Bookkeeping>>

\* Mutant of Generate: the file is taken to be there.
GenerateAnyway(c) ==
    LET u == Latest.current
    IN /\ At(c, "generate") /\ updating = None /\ updating' = c
       /\ Becomes(c, [task[c] EXCEPT !.todo = Tail(@), !.read = IF u = None THEN NoProfile ELSE Configuration(u)])
       /\ UNCHANGED <<store, core, permit, copy, overtaken, removed, Bookkeeping>>

\* update_config_forced: busy, or the configuration is generated from the file ...
Generate(c) ==
    LET u == Latest.current
    IN /\ At(c, "generate") /\ updating = None /\ (u # None => file[u] # None)
       /\ updating' = c
       /\ Becomes(c, [task[c] EXCEPT !.todo = Tail(@), !.read = IF u = None THEN NoProfile ELSE Configuration(u)])
       /\ UNCHANGED <<store, core, permit, copy, overtaken, removed, Bookkeeping>>

\* ... and the core runs it
Load(c) ==
    /\ At(c, "load") /\ core' = task[c].read /\ updating' = None /\ Continue(c)
    /\ UNCHANGED <<store, permit, copy, overtaken, removed, Bookkeeping>>

\* restore_profile_update reloads if the profile is the current one by now
Again(c) ==
    /\ At(c, "again")
    /\ Becomes(c, [task[c] EXCEPT !.todo = IF Latest.current = task[c].uid THEN Reload ELSE <<>>])
    /\ UNCHANGED <<store, core, locks, removed, Bookkeeping>>

\* handle_success: the edited index is saved, without with_data_modify, and then published
Keep(c) ==
    /\ At(c, "keep") /\ saved' = draft /\ Continue(c)
    /\ UNCHANGED <<memory, draft, file, core, locks, removed, Bookkeeping>>

Publish(c) ==
    /\ At(c, "publish") /\ memory' = draft /\ draft' = None /\ overtaken' = TRUE /\ Continue(c)
    /\ UNCHANGED <<saved, file, core, updating, permit, copy, removed, Bookkeeping>>

\* steps that may fail: input and output, validation, and what these find missing
MayFail(c) ==
    \/ \E step \in {"download", "write", "save", "put", "validate", "generate", "load", "keep"} : At(c, step)
    \/ At(c, "remove") /\ task[c].uid \notin copy.items
    \/ At(c, "commit") /\ overtaken

StepFails(c) == MayFail(c) /\ Fail(c)

\* Files are written in place, so a write that fails may leave a part of what it wrote: another
\* content, or an index that cannot be read.  An update writes the old content again.
WriteTears(c) ==
    /\ At(c, "put") \/ (At(c, "write") /\ (task[c].name = "create" \/ task[c].uid \in copy.items))
    /\ GivesUp(c, IF At(c, "write") /\ task[c].name = "update" THEN {} ELSE {"core", "index"})
    /\ \E x \in Contents : file' = [file EXCEPT ![task[c].uid] = x]
    /\ UNCHANGED saved

SaveTears(c) ==
    /\ At(c, "save") \/ At(c, "keep")
    /\ GivesUp(c, {"core", "index"})
    /\ saved' = NoIndex /\ UNCHANGED file

\* The application ends at any moment and starts again: the index is what its file says, or
\* empty when the file is half written; files that no item names are removed.
Restart ==
    /\ commands < MaxCommands /\ commands' = commands + 1
    /\ \E index \in {saved} \cup {NoIndex : c \in {d \in Callers : At(d, "save") \/ At(d, "keep")}} :
          /\ memory' = index /\ saved' = index
          /\ file' = [u \in Uids |-> IF u \in index.items THEN file[u] ELSE None]
          /\ core' = IF index.current = None \/ file[index.current] = None THEN NoProfile
                     ELSE Configuration(index.current)
          /\ excused' = (excused \cap {"removal"})
                        \cup (IF \E u \in index.items \cup ({index.current} \ {None}) : file'[u] = None THEN {"core", "index"} ELSE {})
    /\ draft' = None /\ updating' = None /\ permit' = None /\ copy' = None /\ overtaken' = FALSE
    /\ task' = [c \in Callers |-> Idle]
    /\ UNCHANGED <<created, removed>>

Command(c) ==
    \/ \E u \in Uids : UpdateProfile(c, u) \/ DeleteProfile(c, u) \/ PatchProfile(c, u)
                       \/ ReorderProfile(c, u) \/ PatchProfilesConfig(c, u)
    \/ \E u \in Uids, x \in Contents : SaveProfileFile(c, u, x) \/ CreateProfile(c, u, x)

Step(c) ==
    \/ \E x \in Contents : Download(c, x)
    \/ Enter(c) \/ WriteFile(c) \/ AppendItem(c) \/ DeleteItem(c) \/ Reorder(c) \/ SaveFile(c) \/ Commit(c)
    \/ Put(c) \/ Validate(c) \/ Generate(c) \/ Load(c) \/ Again(c) \/ Keep(c) \/ Publish(c)
    \/ StepFails(c) \/ WriteTears(c) \/ SaveTears(c)

Next == Restart \/ \E c \in Callers : Command(c) \/ Step(c) \/ TimeOut(c)

Spec == Init /\ [][Next]_vars

------------------------------------------------------------------------------
(* Properties. *)

Configurations == {NoProfile} \cup [uid : Uids, content : Contents]
Steps == {"download", "enter", "write", "append", "remove", "reorder", "save", "commit", "put", "validate",
          "generate", "load", "again", "keep", "publish"}
Tasks == [name : {"none", "update", "save", "create", "delete", "touch", "reorder", "switch"},
          todo : Seq(Steps), uid : Uids \cup {None}, data : Contents \cup {None},
          old : Contents \cup Uids \cup {None}, restoring : BOOLEAN, reloads : BOOLEAN,
          read : Configurations \cup {None}]

\* Type correctness; an index names a profile of its own as the current one unless it has none.
TypeOK ==
    /\ memory \in Index /\ saved \in Index /\ draft \in Index \cup {None}
    /\ file \in [Uids -> Contents \cup {None}] /\ core \in Configurations
    /\ updating \in Callers \cup {None} /\ permit \in Callers \cup {None}
    /\ copy \in Index \cup {None} /\ overtaken \in BOOLEAN
    /\ task \in [Callers -> Tasks]

Quiet == \A c \in Callers : task[c] = Idle

\* When no task is under way, the core runs the current profile with the content
\* its file has, after every success and after every failure that was restored:
\* an edit that the core refused, a download that it could not load.  (The first
\* profile of an empty list becomes current without a reload.)
CoreRunsFile ==
    Quiet /\ "core" \notin excused =>
        \/ core = NoProfile
        \/ memory.current # None /\ core = Configuration(memory.current)

\* When no task is under way, the index in memory is the one on disk, and
\* exactly the profiles it names have a file: a creation that could not be saved leaves
\* nothing, a removal takes the file with it, and no file stays behind.
IndexSettles ==
    Quiet /\ "index" \notin excused =>
        /\ saved = memory /\ draft = None
        /\ \A u \in Uids : u \in memory.items <=> file[u] # None

\* A profile that was removed does not come back into the index, by an update
\* of it that was under way, another task's copy or a restart.
RemovedStaysRemoved == "removal" \notin excused => memory.items \cap removed = {}
================================================================================
