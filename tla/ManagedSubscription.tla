-------------------------- MODULE ManagedSubscription --------------------------
(***************************************************************************)
(* The managed subscription of the home page (pages/home.tsx): the         *)
(* background check and the updates of the profile an access code stands   *)
(* for, the installation of a code with its rollback, the user's edits of  *)
(* the profile, and the credential they all replace.  The page is one      *)
(* thread: an action runs from one await to the next.  What one of them    *)
(* read before an await may have changed after it.  A content is its       *)
(* nodes: the rules of the profile are merged into it whatever happens.    *)
(***************************************************************************)
EXTENDS Integers, FiniteSets

CONSTANTS
    Codes,          \* access codes
    NoCode, NoAuth, NoFile,
    MaxInstalls,    \* bound: installations
    MaxEvents       \* bound: publications, edits, wakes, restarts and faults, together

NoUid == 0
Uids == 1 .. MaxInstalls + 1
Contents == [of : Codes \cup {"user"}, n : Nat]
Auths ==
    [code : Codes, uid : Uids, token : Nat, hash : Contents, detached : BOOLEAN, version : Nat]

ASSUME SubscriptionAssumption ==
    /\ NoCode \notin Codes /\ "user" \notin Codes
    /\ NoAuth \notin Auths /\ NoFile \notin Contents
    /\ MaxInstalls \in Nat /\ MaxEvents \in Nat

VARIABLES
    remote,         \* server: how often each code's nodes were published
    live,           \* server: the device token that is valid for each code
    file,           \* contents of the profiles' files
    current,        \* uid of the current profile
    saved,          \* the credential on disk
    storage,        \* localStorage: code, its profile's uid, version last applied
    ref,            \* managedAuthRef.current
    startupDone,    \* startupRefreshCompletedRef
    busy, apply, entry,     \* busy, refreshApplyInFlightRef, codeEntryActiveRef
    upd,            \* the update under way: updateInFlightRef lets one in
    inst,           \* the installation of each door: a typed code, a link
    edit,           \* the saving of an edit: manualBusy
    installed, events,      \* bounds
    lapses          \* overlap: two writers at once; cut: closed in a transaction;
                    \* undo: an undo failed; link: a link opened while the page
                    \* was busy (history)

server == <<remote, live>>
page == <<ref, startupDone, busy, apply, entry>>
bounds == <<installed, events, lapses>>
vars == <<server, file, current, saved, storage, page, upd, inst, edit, bounds>>

Doors == {"code", "link"}
Idle == [at |-> "idle"]
Account == IF storage.uid = current THEN storage.code ELSE NoCode      \* currentCode
Nodes(of, n) == [of |-> of, n |-> n]
Credential(c, u, t, content) ==
    [code |-> c, uid |-> u, token |-> t, hash |-> content, detached |-> FALSE, version |-> 0]
Larger(m, n) == IF m < n THEN n ELSE m

\* a fault is an event, bounded like the others
Event == events < MaxEvents /\ events' = events + 1
NoEvent == UNCHANGED events
Undone == IF events' > events THEN {"undo"} ELSE {}      \* the undo itself failed

\* with an installed code, or at the first start
Init ==
    /\ remote = [c \in Codes |-> 0] /\ live = [c \in Codes |-> 0]
    /\ \E c \in Codes \cup {NoCode} :
          LET u == IF c = NoCode THEN NoUid ELSE 1
          IN /\ file = [v \in Uids |-> IF v = u THEN Nodes(c, 0) ELSE NoFile]
             /\ current = u
             /\ saved = IF c = NoCode THEN NoAuth ELSE Credential(c, u, 0, Nodes(c, 0))
             /\ storage = [code |-> c, uid |-> u, version |-> 0]
             /\ installed = u
    /\ ref = saved /\ startupDone = FALSE
    /\ busy = FALSE /\ apply = FALSE /\ entry = FALSE
    /\ upd = Idle /\ inst = [d \in Doors |-> Idle] /\ edit = Idle
    /\ events = 0 /\ lapses = {}

Aborted == IF upd = Idle THEN upd ELSE [upd EXCEPT !.aborted = (upd.kind = "check")]
\* the credential was replaced under the update
Overtaken(u) == IF u = Idle THEN u ELSE [u EXCEPT !.same = FALSE]

\* where the update holds the page: it writes
Writing(u) == u.at \in {"write", "assign", "save", "back", "undo"}

\* who holds the page: from its gate to its end, an update while it writes
Writers(u, i, e) ==
    {d \in Doors : i[d] # Idle} \cup (IF Writing(u) THEN {"update"} ELSE {})
                                \cup (IF e # Idle THEN {"edit"} ELSE {})

\* Two hold it at once, or an update begins while another holds it: the link's
\* door does not look at busy, and the first to end clears it for both.
Lapses(others) ==
    lapses' = lapses \cup others
        \cup (IF \/ Cardinality(Writers(upd', inst', edit')) > 1
                 \/ upd = Idle /\ upd' # Idle /\ Writers(upd, inst, edit) # {}
              THEN {"overlap"} ELSE {})

------------------------------------------------------------------------------
(* Updates: checkSubscriptionRecovery, updateCurrentSubscription.  A kind    *)
(* is check (background, may be aborted), auto (after a disconnect) or       *)
(* manual.  Only a check sets apply while it writes.                         *)

Update(kind, at) ==
    [at |-> at, kind |-> kind, forced |-> kind = "manual" \/ (kind = "check" /\ ~startupDone),
     aborted |-> FALSE, code |-> Account, version |-> storage.version,
     auth |-> ref, same |-> TRUE, read |-> NoFile, next |-> NoAuth, then |-> "failed"]

Hold == IF upd.kind = "check" THEN apply' = TRUE /\ busy' = TRUE ELSE UNCHANGED <<apply, busy>>

\* Mutants of UpdateEnds: whatever the result, the version is consumed; a
\* check that did not succeed keeps the page.
UpdateEndsConsuming(result, r) ==
    /\ upd' = Idle
    /\ IF upd.kind = "check"
       THEN IF Writing(upd) THEN apply' = FALSE /\ busy' = FALSE ELSE UNCHANGED <<apply, busy>>
       ELSE busy' = FALSE /\ UNCHANGED apply
    /\ IF upd.kind = "check" /\ Account = upd.code /\ r # NoAuth /\ r.token = upd.auth.token
       THEN storage' = [storage EXCEPT !.version = upd.version] /\ startupDone' = TRUE
       ELSE UNCHANGED <<storage, startupDone>>
UpdateEndsHolding(result, r) ==
    /\ upd' = Idle
    /\ IF upd.kind = "check"
       THEN IF Writing(upd) /\ result # "failed" THEN apply' = FALSE /\ busy' = FALSE ELSE UNCHANGED <<apply, busy>>
       ELSE busy' = FALSE /\ UNCHANGED apply
    /\ IF /\ upd.kind = "check" /\ result \in {"updated", "unchanged"}
          /\ Account = upd.code /\ r # NoAuth /\ r.token = upd.auth.token
       THEN storage' = [storage EXCEPT !.version = upd.version] /\ startupDone' = TRUE
       ELSE UNCHANGED <<storage, startupDone>>

\* The update is over with a result.  A check consumes the version it read
\* when it succeeded under the account it began with.
UpdateEnds(result, r) ==
    /\ upd' = Idle
    /\ IF upd.kind = "check"
       THEN IF Writing(upd) THEN apply' = FALSE /\ busy' = FALSE ELSE UNCHANGED <<apply, busy>>
       ELSE busy' = FALSE /\ UNCHANGED apply
    /\ IF /\ upd.kind = "check" /\ result \in {"updated", "unchanged"}
          /\ Account = upd.code /\ r # NoAuth /\ r.token = upd.auth.token
       THEN storage' = [storage EXCEPT !.version = upd.version] /\ startupDone' = TRUE
       ELSE UNCHANGED <<storage, startupDone>>

\* the update goes on to write a credential, and then ends or downloads
WriteNext(next, then) ==
    /\ upd' = [upd EXCEPT !.at = "write", !.next = next, !.then = then]
    /\ UNCHANGED <<storage, startupDone>>

CheckStart ==
    /\ ~busy /\ edit = Idle /\ upd = Idle /\ ~apply /\ ~entry       \* canRun
    /\ Account # NoCode /\ ref # NoAuth
    /\ upd' = Update("check", "state")
    /\ UNCHANGED <<server, file, current, saved, storage, page, inst, edit, installed, events>> /\ Lapses({})

\* Mutant of Begin: a forced update does not look at the local content.
BeginForced(u) ==
    [u EXCEPT !.at = IF u.forced THEN "load" ELSE "read", !.auth = ref, !.same = TRUE]

\* the first steps of updateManagedProfile, up to its first await
Begin(u) ==
    LET auth == ref
        v == Larger(auth.version, u.version)
    IN IF auth.detached /\ ~u.forced
       THEN IF u.version > auth.version
            THEN [u EXCEPT !.at = "write", !.auth = auth, !.next = [auth EXCEPT !.version = v],
                           !.then = "detached"]
            ELSE Idle
       ELSE [u EXCEPT !.at = "read", !.auth = auth, !.same = TRUE]

UpdateStart(kind) ==
    /\ upd = Idle /\ ~busy /\ (kind = "auto" => ~entry)       \* the button looks at busy only
    /\ ref # NoAuth /\ ref.uid = current /\ ref.code = Account
    /\ upd' = Begin(Update(kind, "state"))
    /\ busy' = (upd' # Idle)
    /\ UNCHANGED <<server, file, current, saved, storage, ref, startupDone, apply, entry,
                   inst, edit, installed, events>> /\ Lapses({})

\* updateState answers a check; a credential of another profile is not managed
StateAnswers ==
    /\ upd.at = "state"
    /\ LET v == remote[upd.code]
           u == [upd EXCEPT !.version = v]
           goesOn == /\ Account = upd.code /\ ref # NoAuth /\ ref.token = upd.auth.token
                     /\ ~upd.aborted /\ ref.uid = current
       IN \/ /\ goesOn /\ (~startupDone \/ v > storage.version) /\ NoEvent
             /\ upd' = Begin(u)
             /\ IF upd'.at = "write" THEN Hold ELSE UNCHANGED <<apply, busy>>
             /\ UNCHANGED <<storage, startupDone>>
          \/ goesOn /\ ~(~startupDone \/ v > storage.version) /\ NoEvent /\ UpdateEnds("current", ref)
          \/ ~goesOn /\ NoEvent /\ UpdateEnds("failed", ref)
          \/ Event /\ UpdateEnds("failed", ref)
    /\ UNCHANGED <<server, file, current, saved, ref, entry, inst, edit,
                   installed>> /\ Lapses({})

\* readProfileFile, and the test for a local edit
ReadLocal ==
    /\ upd.at = "read"
    /\ LET read == file[upd.auth.uid]
       IN IF upd.aborted \/ read = NoFile THEN UpdateEnds("failed", ref)
          ELSE IF ~upd.forced /\ upd.auth.hash # read
          THEN IF upd.same
               THEN Hold /\ WriteNext([upd.auth EXCEPT !.detached = TRUE,
                                          !.version = Larger(@, upd.version)], "detached")
               ELSE UpdateEnds("failed", ref)
          ELSE /\ upd' = [upd EXCEPT !.at = "load", !.read = read]
               /\ UNCHANGED <<storage, startupDone, apply, busy>>
    /\ UNCHANGED <<server, file, current, saved, ref, entry, inst, edit, installed, events>> /\ Lapses({})

\* loadManagedContent: a refused credential is renewed for the user only
Refused ==
    /\ upd.at = "load" /\ upd.auth.token # live[upd.auth.code]
    /\ IF upd.kind = "manual" /\ upd.same
       THEN upd' = [upd EXCEPT !.at = "renew"] /\ UNCHANGED <<storage, startupDone, apply, busy>>
       ELSE UpdateEnds("failed", ref)
    /\ UNCHANGED <<server, file, current, saved, ref, entry, inst, edit, bounds>>

\* the exchange revokes the token before
Renew ==
    /\ upd.at = "renew"
    /\ LET c == upd.auth.code
       IN \/ /\ NoEvent /\ live' = [live EXCEPT ![c] = @ + 1]
             /\ IF upd.same
                THEN WriteNext([upd.auth EXCEPT !.token = live'[c]], "load") /\ UNCHANGED <<apply, busy>>
                ELSE UpdateEnds("failed", ref)
          \/ Event /\ UNCHANGED live /\ UpdateEnds("failed", ref)
    /\ UNCHANGED <<remote, file, current, saved, ref, entry, inst, edit,
                   installed>> /\ Lapses({})

\* Mutant of Download: nobody asks what happened during the download.
DownloadUnasked ==
    /\ upd.at = "load" /\ upd.auth.token = live[upd.auth.code]
    /\ LET content == Nodes(upd.auth.code, remote[upd.auth.code])
           next == [upd.auth EXCEPT !.hash = upd.read, !.detached = FALSE,
                                    !.version = Larger(@, upd.version)]
       IN \/ /\ NoEvent
             /\ IF content # upd.read
                THEN Hold /\ upd' = [upd EXCEPT !.at = "save", !.next = next, !.next.hash = content]
                     /\ UNCHANGED <<storage, startupDone>>
                ELSE IF next # upd.auth THEN Hold /\ WriteNext(next, "unchanged")
                ELSE UpdateEnds("unchanged", ref)
          \/ Event /\ UpdateEnds("failed", ref)
    /\ UNCHANGED <<server, file, current, saved, ref, entry, inst, edit,
                   installed>> /\ Lapses({})

\* the content arrives; the same nodes need no write of the file
Download ==
    /\ upd.at = "load" /\ upd.auth.token = live[upd.auth.code]
    /\ LET content == Nodes(upd.auth.code, remote[upd.auth.code])
           next == [upd.auth EXCEPT !.hash = upd.read, !.detached = FALSE,
                                    !.version = Larger(@, upd.version)]
       IN \/ /\ NoEvent /\ ~upd.aborted /\ upd.same
             /\ IF content # upd.read
                THEN Hold /\ upd' = [upd EXCEPT !.at = "save", !.next = next, !.next.hash = content]
                     /\ UNCHANGED <<storage, startupDone>>
                ELSE IF next # upd.auth THEN Hold /\ WriteNext(next, "unchanged")
                ELSE UpdateEnds("unchanged", ref)
          \/ NoEvent /\ (upd.aborted \/ ~upd.same) /\ UpdateEnds("failed", ref)
          \/ Event /\ UpdateEnds("failed", ref)
    /\ UNCHANGED <<server, file, current, saved, ref, entry, inst, edit,
                   installed>> /\ Lapses({})

\* saveProfileFile: a content the core refuses is undone by the back end
SaveContent ==
    /\ upd.at = "save"
    /\ \/ /\ NoEvent /\ file[upd.auth.uid] # NoFile
          /\ file' = [file EXCEPT ![upd.auth.uid] = upd.next.hash]
          /\ upd' = [upd EXCEPT !.at = "back", !.then = "updated"]
          /\ UNCHANGED <<storage, startupDone, apply, busy>>
       \/ NoEvent /\ file[upd.auth.uid] = NoFile /\ UNCHANGED file /\ UpdateEnds("failed", ref)
       \/ Event /\ UNCHANGED file /\ UpdateEnds("failed", ref)
    /\ UNCHANGED <<server, current, saved, ref, entry, inst, edit, installed>> /\ Lapses({})

\* the file is read back for its hash
ReadBack ==
    /\ upd.at = "back"
    /\ upd' = IF file[upd.auth.uid] = NoFile THEN [upd EXCEPT !.at = "undo"]
              ELSE [upd EXCEPT !.at = "write", !.next.hash = file[upd.auth.uid]]
    /\ UNCHANGED <<server, file, current, saved, storage, page, inst, edit, bounds>>

\* persistManagedAuth: save_managed_auth, and after it the reference
WriteAuth ==
    /\ upd.at = "write"
    /\ \/ /\ NoEvent /\ saved' = upd.next
          /\ upd' = [upd EXCEPT !.at = "assign"]
          /\ UNCHANGED <<storage, startupDone, apply, busy>>
       \/ /\ Event /\ UNCHANGED saved
          /\ IF upd.then = "updated"
             THEN upd' = [upd EXCEPT !.at = "undo"] /\ UNCHANGED <<storage, startupDone, apply, busy>>
             ELSE UpdateEnds("failed", ref)
    /\ UNCHANGED <<server, file, current, ref, entry, inst, edit, installed>> /\ Lapses({})

AssignRef ==
    /\ upd.at = "assign" /\ ref' = upd.next
    /\ IF upd.then = "load"
       THEN /\ upd' = [upd EXCEPT !.at = "load", !.auth = upd.next, !.same = TRUE]
            /\ UNCHANGED <<storage, startupDone, apply, busy>>
       ELSE UpdateEnds(upd.then, upd.next)
    /\ UNCHANGED <<server, file, current, saved, entry, inst, edit, bounds>>

UndoContent ==
    /\ upd.at = "undo" /\ UpdateEnds("failed", ref)
    /\ \/ /\ NoEvent
          /\ file' = IF file[upd.auth.uid] = NoFile THEN file ELSE [file EXCEPT ![upd.auth.uid] = upd.read]
       \/ Event /\ UNCHANGED file
    /\ UNCHANGED <<server, current, saved, ref, entry, inst, edit, installed>> /\ Lapses(Undone)

------------------------------------------------------------------------------
(* Installations: importByCode (door code), importManagedRequest (link).     *)

Inst(d, at) == inst' = [inst EXCEPT ![d].at = at]

\* the native stop and the dialog; old reads are cancelled
OpenCodeImport ==
    /\ ~busy /\ edit = Idle /\ ~apply /\ ~entry
    /\ entry' = TRUE /\ upd' = Aborted
    /\ UNCHANGED <<server, file, current, saved, storage, ref, startupDone, busy, apply, inst, edit, bounds>>

CloseDialog ==
    /\ entry /\ ~busy /\ entry' = FALSE
    /\ UNCHANGED <<server, file, current, saved, storage, ref, startupDone, busy, apply,
                   upd, inst, edit, bounds>>

ImportStart(d, c) ==
    /\ inst[d] = Idle /\ ~apply /\ installed <= MaxInstalls
    /\ d = "code" => ~busy /\ (entry \/ storage.code = NoCode)      \* the button
    /\ upd' = Aborted /\ busy' = TRUE
    /\ entry' = (entry \/ d = "link")
    /\ installed' = installed + 1
    /\ inst' = [inst EXCEPT ![d] = [at |-> "exchange", code |-> c, uid |-> installed']]
    /\ UNCHANGED <<server, file, current, saved, storage, ref, startupDone, apply, edit,
                   events>> /\ Lapses(IF d = "link" /\ busy THEN {"link"} ELSE {})

\* the dialog closes with an error
ImportFails(d) == inst' = [inst EXCEPT ![d] = Idle] /\ busy' = FALSE /\ entry' = FALSE

Exchange(d) ==
    /\ inst[d].at = "exchange"
    /\ LET c == inst[d].code
       IN \/ /\ NoEvent /\ live' = [live EXCEPT ![c] = @ + 1]
             /\ inst' = [inst EXCEPT ![d] = [at |-> "load", code |-> c, uid |-> @.uid, token |-> live'[c]]]
             /\ UNCHANGED <<busy, entry>>
          \/ Event /\ UNCHANGED live /\ ImportFails(d)
    /\ UNCHANGED <<remote, file, current, saved, storage, ref, startupDone, apply, upd, edit,
                   installed>> /\ Lapses({})

\* the content, and what a rollback restores
LoadInstall(d) ==
    /\ inst[d].at = "load"
    /\ \/ /\ NoEvent /\ inst[d].token = live[inst[d].code]
          /\ inst' = [inst EXCEPT ![d] =
                [at |-> "create", uid |-> @.uid,
                 auth |-> Credential(@.code, @.uid, @.token, Nodes(@.code, remote[@.code])),
                 previous |-> [current |-> current, storage |-> storage,
                               auth |-> IF ref # NoAuth THEN ref ELSE saved]]]
          /\ UNCHANGED <<busy, entry>>
       \/ NoEvent /\ inst[d].token # live[inst[d].code] /\ ImportFails(d)
       \/ Event /\ ImportFails(d)
    /\ UNCHANGED <<server, file, current, saved, storage, ref, startupDone, apply, upd, edit,
                   installed>> /\ Lapses({})

CreateProfile(d) ==
    /\ inst[d].at = "create"
    /\ file' = [file EXCEPT ![inst[d].uid] = inst[d].auth.hash]
    /\ Inst(d, "activate")
    /\ UNCHANGED <<server, current, saved, storage, page, upd, edit, bounds>>

\* the switch of the profile; the page of the old one cancels its check
Activate(d) ==
    /\ inst[d].at = "activate" /\ file[inst[d].uid] # NoFile
    /\ current' = inst[d].uid
    /\ upd' = Aborted /\ Inst(d, "write")
    /\ UNCHANGED <<server, file, saved, storage, page, edit, bounds>>

\* commit
CommitWrite(d) ==
    /\ inst[d].at = "write" /\ saved' = inst[d].auth /\ Inst(d, "assign")
    /\ UNCHANGED <<server, file, current, storage, page, upd, edit, bounds>>
CommitAssign(d) ==
    /\ inst[d].at = "assign" /\ ref' = inst[d].auth
    /\ storage' = [code |-> ref'.code, uid |-> ref'.uid, version |-> 0]
    /\ upd' = Overtaken(Aborted) /\ Inst(d, "settle")
    /\ UNCHANGED <<server, file, current, saved, startupDone, busy, apply, entry, edit, bounds>>

\* the page has read everything again; the code's old profile is deleted
Settle(d) ==
    /\ inst[d].at = "settle"
    /\ LET old == inst[d].previous.storage.uid
       IN file' = IF old \in {NoUid, inst[d].uid} THEN file ELSE [file EXCEPT ![old] = NoFile]
    /\ inst' = [inst EXCEPT ![d] = Idle] /\ busy' = FALSE
    /\ startupDone' = (startupDone \/ d = "code")
    /\ UNCHANGED <<server, current, saved, storage, ref, apply, entry, upd, edit, bounds>>

\* a step up to the commit's end fails: restorePrevious
InstallFails(d) ==
    /\ inst[d].at \in {"create", "activate", "write", "settle"} /\ Event
    /\ Inst(d, "back")
    /\ UNCHANGED <<server, file, current, saved, storage, page, upd, edit, installed>> /\ Lapses({})

Gone(u) == u # NoUid /\ file[u] = NoFile

SwitchBack(d) ==
    /\ inst[d].at = "back"
    /\ LET old == inst[d].previous.current
       IN \/ /\ NoEvent /\ ~Gone(old)
             /\ current' = (IF old = NoUid THEN current ELSE old) /\ Inst(d, "drop")
          \/ old # NoUid /\ Event /\ UNCHANGED current /\ Inst(d, "rewrite")
          \/ Gone(old) /\ NoEvent /\ UNCHANGED current /\ Inst(d, "rewrite")
    /\ upd' = IF current' # current THEN Aborted ELSE upd
    /\ UNCHANGED <<server, file, saved, storage, page, edit, installed>> /\ Lapses(Undone)

\* the new profile is deleted; when that fails it stays, and the rest is restored
DropNew(d) ==
    /\ inst[d].at = "drop"
    /\ \/ /\ NoEvent /\ file' = [file EXCEPT ![inst[d].uid] = NoFile]
          /\ current' = IF current = inst[d].uid THEN NoUid ELSE current
       \/ Event /\ UNCHANGED <<file, current>>
    /\ Inst(d, "rewrite")
    /\ UNCHANGED <<server, saved, storage, page, upd, edit, installed, lapses>>

RestoreWrite(d) ==
    /\ inst[d].at = "rewrite"
    /\ \/ NoEvent /\ saved' = inst[d].previous.auth /\ Inst(d, "restore")
       \/ Event /\ UNCHANGED saved /\ Inst(d, "storage")
    /\ UNCHANGED <<server, file, current, storage, page, upd, edit, installed>> /\ Lapses(Undone)

\* Mutant of RestoreAssign: localStorage keeps the new account.
RestoreAssignOnly(d) ==
    /\ inst[d].at \in {"restore", "storage"}
    /\ IF inst[d].at = "restore"
       THEN ref' = inst[d].previous.auth /\ upd' = Overtaken(Aborted)
       ELSE UNCHANGED ref /\ upd' = Aborted
    /\ ImportFails(d)
    /\ UNCHANGED <<server, file, current, saved, storage, startupDone, apply, edit, bounds>>

RestoreAssign(d) ==
    /\ inst[d].at \in {"restore", "storage"}
    /\ IF inst[d].at = "restore"
       THEN ref' = inst[d].previous.auth /\ upd' = Overtaken(Aborted)
       ELSE UNCHANGED ref /\ upd' = Aborted
    /\ storage' = inst[d].previous.storage
    /\ ImportFails(d)
    /\ UNCHANGED <<server, file, current, saved, startupDone, apply, edit, bounds>>

Install(d) ==
    \/ Exchange(d) \/ LoadInstall(d) \/ CreateProfile(d) \/ Activate(d)
    \/ CommitWrite(d) \/ CommitAssign(d) \/ Settle(d)
    \/ SwitchBack(d) \/ DropNew(d) \/ RestoreWrite(d) \/ RestoreAssign(d)

------------------------------------------------------------------------------
(* Edits of the current profile (manualSaveEdit), the server, and the rest.  *)

EditStart ==
    /\ edit = Idle /\ ~busy /\ ~apply /\ current # NoUid /\ Event
    /\ edit' = [at |-> "save", uid |-> current]
    /\ upd' = Aborted
    /\ UNCHANGED <<server, file, current, saved, storage, page, inst,
                   installed>> /\ Lapses({})

EditSaved ==
    /\ edit.at = "save" /\ file[edit.uid] # NoFile
    /\ file' = [file EXCEPT ![edit.uid] = Nodes("user", events)]
    /\ edit' = IF ref = NoAuth \/ ref.uid # edit.uid THEN Idle
               ELSE [at |-> "write", next |-> [ref EXCEPT !.detached = TRUE, !.hash = file'[edit.uid]]]
    /\ UNCHANGED <<server, current, saved, storage, page, upd, inst, bounds>>

EditFails ==
    /\ edit.at \in {"save", "write"} /\ Event /\ edit' = Idle
    /\ UNCHANGED <<server, file, current, saved, storage, page, upd, inst, installed>> /\ Lapses({})

EditWrite ==
    /\ edit.at = "write" /\ saved' = edit.next /\ edit' = [edit EXCEPT !.at = "assign"]
    /\ UNCHANGED <<server, file, current, storage, page, upd, inst, bounds>>
EditAssign ==
    /\ edit.at = "assign" /\ ref' = edit.next /\ edit' = Idle /\ upd' = Overtaken(upd)
    /\ UNCHANGED <<server, file, current, saved, storage, startupDone, busy, apply, entry, inst, bounds>>

Publish(c) ==
    /\ Event /\ remote' = [remote EXCEPT ![c] = @ + 1]
    /\ UNCHANGED <<live, file, current, saved, storage, page, upd, inst, edit, installed, lapses>>

\* focus, online, visible: the next check starts over
Wake ==
    /\ Event /\ startupDone /\ startupDone' = FALSE
    /\ UNCHANGED <<server, file, current, saved, storage, ref, busy, apply, entry, upd, inst, edit,
                   installed, lapses>>

\* the program is closed and started again
Restart ==
    /\ Event
    /\ ref' = saved /\ startupDone' = FALSE /\ busy' = FALSE /\ apply' = FALSE /\ entry' = FALSE
    /\ upd' = Idle /\ inst' = [d \in Doors |-> Idle] /\ edit' = Idle
    /\ lapses' = lapses \cup (IF Writers(upd, inst, edit) = {} THEN {} ELSE {"cut"})
    /\ UNCHANGED <<server, file, current, saved, storage, installed>>

Updates ==
    \/ StateAnswers \/ ReadLocal \/ Refused \/ Renew \/ Download
    \/ SaveContent \/ ReadBack \/ WriteAuth \/ AssignRef \/ UndoContent
Edits == EditSaved \/ EditWrite \/ EditAssign

Next ==
    \/ CheckStart \/ Updates
    \/ \E k \in {"auto", "manual"} : UpdateStart(k)
    \/ OpenCodeImport \/ CloseDialog
    \/ \E d \in Doors, c \in Codes : ImportStart(d, c)
    \/ \E d \in Doors : Install(d) \/ InstallFails(d)
    \/ EditStart \/ Edits \/ EditFails
    \/ \E c \in Codes : Publish(c)
    \/ Wake \/ Restart

Spec == Init /\ [][Next]_vars

\* the awaits return, and the monitor goes on checking
FairSpec ==
    /\ Spec
    /\ WF_vars(CheckStart) /\ WF_vars(Updates) /\ WF_vars(Edits)
    /\ \A d \in Doors : WF_vars(Install(d))

------------------------------------------------------------------------------
(* Properties. *)

\* Type correctness: the credential, the stored code and the files keep their
\* types, and an update that writes or undoes a content has read the one before.
TypeOK ==
    /\ remote \in [Codes -> Nat] /\ live \in [Codes -> Nat]
    /\ \A u \in Uids : file[u] # NoFile => file[u] \in Contents
    /\ current \in {NoUid} \cup Uids
    /\ {saved, ref} \subseteq Auths \cup {NoAuth}
    /\ storage \in [code : Codes \cup {NoCode}, uid : {NoUid} \cup Uids, version : Nat]
    /\ {startupDone, busy, apply, entry} \subseteq BOOLEAN
    /\ upd.at \in {"save", "back", "undo"} => upd.read # NoFile
    /\ lapses \subseteq {"overlap", "cut", "undo", "link"}

ByUser(u) == file[u] # NoFile /\ file[u].of = "user"
Quiet == ~Writing(upd) /\ edit = Idle /\ \A d \in Doors : inst[d] = Idle
Orderly == lapses \subseteq {"link"}

\* Between the writers the page, the disk and localStorage speak of one
\* account: the credential on disk is the page's, it is of the stored code and
\* its profile, and that profile has a file.  An installation that fails at any
\* step brings the old account back whole.  Excluded: two writers at once, a
\* program closed inside one, an undo that fails.
OneAccount ==
    (Quiet /\ Orderly) =>
        /\ ref = saved
        /\ IF ref = NoAuth THEN storage.code = NoCode
           ELSE ref.code = storage.code /\ ref.uid = storage.uid /\ file[ref.uid] # NoFile

\* A subscription is taken for edited by the user, and so left alone by the
\* updates, only when the user edited it.
DetachedMeansEdited ==
    (Quiet /\ Orderly /\ ref # NoAuth /\ ref.detached) => ByUser(ref.uid)

\* The version a check consumed is in the profile's file, or in the user's
\* hands: a failed or cancelled update is tried again.
VersionIsApplied ==
    (Quiet /\ Orderly /\ storage.code # NoCode) =>
        ByUser(storage.uid) \/ file[storage.uid].n >= storage.version

\* Between the writers the account is whole, is called edited only if it was, and
\* has not consumed a version it has not applied.
AccountSettles == OneAccount /\ DetachedMeansEdited /\ VersionIsApplied

\* An update replaces only what it has read, so that an edit saved while its
\* download was under way is not overwritten unseen; and unless it is forced, by the
\* user or as the check of a start or a wake, it leaves what the user edited alone.
NoUnseenOverwrite ==
    [][(upd.at = "save" /\ upd'.at = "back" /\ lapses = {}) =>
          file[upd.auth.uid] = upd.read /\ (ByUser(upd.auth.uid) => upd.forced)]_vars

\* What the user edited is under local management: no check in the background
\* overwrites it, as the message after an edit, HOME-ENTRY-238.md and
\* ACCESS-RECOVERY-256.md promise.
EditsStayLocal ==
    [][(upd.at = "save" /\ upd'.at = "back" /\ upd.kind = "check" /\ lapses = {}) =>
          ~(upd.auth.detached /\ ByUser(upd.auth.uid))]_vars

\* With nothing under way the page is not held: a flag that stayed would refuse
\* every check, edit and import from then on.
PageIsReleased ==
    (upd = Idle /\ \A d \in Doors : inst[d] = Idle) => ~busy /\ ~apply

\* With the dialog closed, a credential the server accepts and no lapse, the
\* checks bring the nodes the server publishes, unless the user edits them.
FollowsServer ==
    (<>[](/\ ~entry /\ Orderly /\ ref # NoAuth
          /\ Account = ref.code /\ ref.token = live[ref.code]))
        => <>[](ref # NoAuth /\ (\/ file[ref.uid] = Nodes(ref.code, remote[ref.code])
                                 \/ ByUser(ref.uid)))
================================================================================
