---------------------- MODULE ManagedSubscriptionProofs ----------------------
(***************************************************************************)
(* Theorems of ManagedSubscription, for any number of codes, installations *)
(* and events.  The properties speak of the moments between the writers;   *)
(* the invariant says what every await of a writer leaves:                 *)
(*   - an update works on the page's credential or was overtaken; what it  *)
(*     has read, and how far it came, follows from its place (Course);     *)
(*   - versions were published, uids were drawn (Versions, Fresh);         *)
(*   - who writes is alone, and at each of its steps the account is whole  *)
(*     in the page, or on the disk, or the writer still holds what makes   *)
(*     it whole again: the content before, the account before (Sound);     *)
(*   - without a lapse an update that is no check has the page to itself,  *)
(*     so what it read is what it overwrites (Held).                       *)
(* The steps of the model are first described once each, by lemmas named   *)
(* after them (...Step); what they do to a part of the invariant follows.  *)
(***************************************************************************)
EXTENDS ManagedSubscription, FiniteSetTheorems, TLAPS

------------------------------------------------------------------------------
(* The inductive invariant. *)

\* what the variables hold
Storages == [code : Codes \cup {NoCode}, uid : {NoUid} \cup Uids, version : Nat]
Places == {"state", "read", "load", "renew", "save", "back", "write", "assign", "undo"}
UpdateRecords ==
    [at : Places, kind : {"check", "auto", "manual"}, forced : BOOLEAN, aborted : BOOLEAN,
     code : Codes \cup {NoCode}, version : Nat, auth : Auths, same : BOOLEAN,
     read : Contents \cup {NoFile}, next : Auths \cup {NoAuth},
     then : {"failed", "detached", "load", "unchanged", "updated"}]
Exchanges == [at : {"exchange"}, code : Codes, uid : Uids]
Loads == [at : {"load"}, code : Codes, uid : Uids, token : Nat]
Installs ==
    [at : {"create", "activate", "write", "assign", "settle", "back", "drop", "rewrite", "restore",
           "storage"},
     uid : Uids, auth : Auths,
     previous : [current : {NoUid} \cup Uids, storage : Storages, auth : Auths \cup {NoAuth}]]
EditRecords == [at : {"save"}, uid : Uids] \cup [at : {"write", "assign"}, next : Auths]

\* the update has read the content it is to replace
Loaded(u) == \/ u.at \in {"load", "renew", "save", "back", "undo"}
             \/ u.at \in {"write", "assign"} /\ u.then \in {"load", "unchanged", "updated"}

\* every variable has its type
Types ==
    /\ remote \in [Codes -> Nat] /\ live \in [Codes -> Nat]
    /\ file \in [Uids -> Contents \cup {NoFile}]
    /\ current \in {NoUid} \cup Uids
    /\ saved \in Auths \cup {NoAuth} /\ ref \in Auths \cup {NoAuth}
    /\ storage \in Storages
    /\ startupDone \in BOOLEAN /\ busy \in BOOLEAN /\ apply \in BOOLEAN /\ entry \in BOOLEAN
    /\ upd \in {Idle} \cup UpdateRecords
    /\ inst \in [Doors -> {Idle} \cup Exchanges \cup Loads \cup Installs]
    /\ edit \in {Idle} \cup EditRecords
    /\ installed \in Nat /\ events \in Nat
    /\ lapses \subseteq {"overlap", "cut", "undo", "link"}

\* where an update is tells what it works on: the page's credential unless it was
\* overtaken; unless it is forced, a credential that is not detached and a content
\* of the hash that was written down
Course ==
    upd # Idle =>
        /\ upd.same => upd.auth = ref
        /\ upd.kind = "check" => upd.code \in Codes
        /\ upd.kind = "manual" => upd.forced
        /\ upd.kind # "check" => ~upd.aborted
        /\ upd.at = "state" => upd.kind = "check"
        /\ upd.at = "renew" \/ (upd.at \in {"write", "assign"} /\ upd.then = "load") => upd.kind = "manual"
        /\ upd.at \in {"save", "back", "write", "assign"} => upd.next # NoAuth
        /\ Loaded(upd) => upd.read # NoFile
        /\ upd.at = "read" /\ ~upd.forced => ~upd.auth.detached
        /\ Loaded(upd) /\ ~upd.forced => ~upd.auth.detached /\ upd.auth.hash = upd.read
        /\ upd.at \in {"write", "assign"} => upd.then # "failed"
        /\ upd.at \in {"write", "assign"} /\ upd.then = "load" =>
              upd.next.hash = upd.auth.hash /\ upd.next.detached = upd.auth.detached
        /\ upd.at \in {"back", "undo"} => upd.then = "updated"

\* who holds the page
Released ==
    /\ apply => upd # Idle /\ upd.kind = "check" /\ Writing(upd)
    /\ busy => \/ upd # Idle /\ (upd.kind # "check" \/ Writing(upd))
               \/ \E d \in Doors : inst[d] # Idle

\* no version is ahead of the server
Versions ==
    /\ storage.code # NoCode => storage.version <= remote[storage.code]
    /\ upd # Idle /\ upd.kind = "check" => upd.version <= remote[upd.code]
    /\ \A d \in Doors : inst[d] \in Installs =>
          LET s == inst[d].previous.storage IN s.code # NoCode => s.version <= remote[s.code]

\* an installation draws a uid above those in use
Fresh ==
    /\ storage.uid <= installed
    /\ \A d \in Doors : inst[d] \in Installs =>
          inst[d].previous.storage.uid <= installed /\ inst[d].auth.uid = inst[d].uid
    /\ \A d \in Doors : inst[d] # Idle => inst[d].uid <= installed

\* one writer at a time
Alone ==
    /\ Writing(upd) => edit = Idle /\ \A d \in Doors : inst[d] = Idle
    /\ edit # Idle => \A d \in Doors : inst[d] = Idle
    /\ \A d, e \in Doors : inst[d] # Idle /\ inst[e] # Idle => d = e
\* a check that was not cancelled has seen no writer since it began
CheckAlone ==
    upd # Idle /\ upd.kind = "check" /\ ~upd.aborted =>
        upd.same /\ edit = Idle /\ \A d \in Doors : inst[d] = Idle

\* a credential a, what is stored s and the content f of its profile are one account
Whole(a, s, f) ==
    IF a = NoAuth THEN s.code = NoCode
    ELSE /\ a.code = s.code /\ a.uid = s.uid
         /\ f # NoFile
         /\ a.hash = f \/ f.of = "user"
         /\ a.detached => f.of = "user"
         /\ a.hash.of = "user" => a.detached
         /\ f.of = "user" \/ f.n >= s.version
File(a) == IF a = NoAuth THEN NoFile ELSE file[a.uid]
WholeNow == Whole(ref, storage, File(ref))

\* the update has replaced the content, and the credential not yet
Ahead == upd.at \in {"back", "undo"} \/ (upd.at \in {"write", "assign"} /\ upd.then = "updated")

\* what the update has read was whole, and is still there or edited by the user
ReadInv ==
    upd # Idle /\ upd.same /\ Loaded(upd) =>
        /\ Whole(upd.auth, storage, upd.read)
        /\ ~Ahead => file[upd.auth.uid] = upd.read \/ file[upd.auth.uid].of = "user"
        /\ ~Ahead /\ upd.kind = "check" /\ ~upd.aborted => file[upd.auth.uid] = upd.read
CodeInv ==
    upd # Idle /\ upd.kind = "check" /\ upd.same /\ upd.at # "state" => upd.auth.code = upd.code

\* an update that writes: the account is whole before its first write, and what it
\* goes on to write makes it whole again
WritingInv ==
    Writing(upd) =>
        /\ upd.same
        /\ upd.at # "assign" => saved = ref
        /\ ~Ahead /\ upd.at # "assign" => WholeNow
        /\ upd.at \in {"save", "back"} => Whole(upd.next, storage, upd.next.hash)
        /\ upd.at = "assign" => saved = upd.next
        /\ upd.at \in {"write", "assign"} => Whole(upd.next, storage, File(upd.next))
        /\ upd.at \in {"save", "back"} => upd.next.hash.of # "user"
        /\ Ahead => file[upd.auth.uid] # NoFile
        /\ upd.at = "back" => file[upd.auth.uid] = upd.next.hash
        /\ upd.kind = "check" /\ upd.at \in {"save", "back"} => upd.next.hash.n >= upd.version
        /\ upd.kind = "check" /\ upd.at \in {"write", "assign"} /\ upd.then \in {"unchanged", "updated"} =>
              File(upd.next) = upd.next.hash /\ upd.next.hash.n >= upd.version
        /\ upd.at # "undo" => upd.next.uid = upd.auth.uid

\* an edit: the same
EditInv ==
    edit # Idle =>
        /\ WholeNow
        /\ edit.at # "assign" => saved = ref
        /\ edit.at = "assign" => saved = edit.next
        /\ edit.at \in {"write", "assign"} =>
              Whole(edit.next, storage, File(edit.next))

\* nobody writes
RestInv == Quiet => WholeNow /\ saved = ref

\* an installation: the account before it is whole and kept in `previous`; the new
\* one is whole when the commit is through
NewStorage(a) == [code |-> a.code, uid |-> a.uid, version |-> 0]
Past(d) ==
    LET p == inst[d].previous
    IN /\ Whole(p.auth, p.storage, File(p.auth))
       /\ p.storage.uid < inst[d].uid
Before(d) == ref = inst[d].previous.auth /\ storage = inst[d].previous.storage
New(d) == LET a == inst[d].auth IN ~a.detached /\ a.hash.of # "user"
Installing(d) ==
    inst[d] # Idle =>
        /\ inst[d].at \in {"exchange", "load"} => WholeNow /\ saved = ref /\ storage.uid < inst[d].uid
        /\ inst[d] \in Installs => Past(d) /\ New(d)
        /\ inst[d].at \in {"create", "activate", "write"} => Before(d) /\ saved = ref
        /\ inst[d].at = "assign" => Before(d) /\ saved = inst[d].auth
        /\ inst[d].at \in {"activate", "write", "assign", "settle"} => file[inst[d].uid] = inst[d].auth.hash
        /\ inst[d].at = "settle" =>
              ref = inst[d].auth /\ saved = ref /\ storage = NewStorage(ref)
        /\ inst[d].at = "settle" => upd = Idle \/ ~upd.same
        /\ inst[d].at \in {"back", "drop", "rewrite", "restore"} =>
              upd = Idle \/ ~upd.same \/ Before(d)
        /\ inst[d].at = "restore" => saved = inst[d].previous.auth
        /\ inst[d].at # "storage"

InstInv == \A d \in Doors : Installing(d)

Sound ==
    Alone /\ CheckAlone /\ ReadInv /\ CodeInv /\ WritingInv /\ EditInv /\ RestInv /\ InstInv

\* the store is sound as long as two writers never met, none was cut off and none
\* failed to undo
Store == Orderly => Sound

\* without a lapse an update has the page to itself, and its file is what it read
Held ==
    lapses = {} /\ upd # Idle =>
        /\ upd.kind # "check" => busy /\ edit = Idle /\ \A d \in Doors : inst[d] = Idle
        /\ upd.kind # "check" => upd.same
        /\ upd.at \in {"load", "renew", "save"} /\ ~upd.aborted => file[upd.auth.uid] = upd.read
        /\ upd.at \in {"write", "assign"} /\ upd.then = "load" => file[upd.auth.uid] = upd.read
        /\ upd.at = "save" => file[upd.auth.uid] = upd.read

IInv == Types /\ Course /\ Released /\ Versions /\ Fresh /\ Store /\ Held

------------------------------------------------------------------------------
(* Updates, step by step. *)

LEMMA Kinds ==
    ASSUME Types
    PROVE  /\ upd = Idle <=> upd.at = "idle"
           /\ upd # Idle => upd \in UpdateRecords /\ upd.at \in Places
           /\ edit = Idle <=> edit.at = "idle"
           /\ edit # Idle => edit \in EditRecords
           /\ edit.at = "save" => edit.uid \in Uids
           /\ edit.at \in {"write", "assign"} => edit.next \in Auths
           /\ \A d \in Doors :
                 /\ inst[d] = Idle <=> inst[d].at = "idle"
                 /\ inst[d].at = "exchange" <=> inst[d] \in Exchanges
                 /\ inst[d].at = "load" <=> inst[d] \in Loads
                 /\ inst[d].at \notin {"idle", "exchange", "load"} <=> inst[d] \in Installs
                 /\ inst[d] \in Installs => inst[d].uid \in Uids /\ inst[d].auth \in Auths
                 /\ inst[d] # Idle => inst[d].uid \in Uids
<1>1. Idle.at = "idle"
  BY DEF Idle
<1>2. upd = Idle <=> upd.at = "idle"
  BY <1>1 DEF Types, UpdateRecords, Places
<1>3. upd # Idle => upd \in UpdateRecords /\ upd.at \in Places
  BY <1>1 DEF Types, UpdateRecords
<1>4. /\ edit = Idle <=> edit.at = "idle"
      /\ edit # Idle => edit \in EditRecords
      /\ edit.at = "save" => edit.uid \in Uids
      /\ edit.at \in {"write", "assign"} => edit.next \in Auths
  BY <1>1 DEF Types, EditRecords
<1>5. ASSUME NEW d \in Doors
      PROVE  /\ inst[d] = Idle <=> inst[d].at = "idle"
             /\ inst[d].at = "exchange" <=> inst[d] \in Exchanges
             /\ inst[d].at = "load" <=> inst[d] \in Loads
             /\ inst[d].at \notin {"idle", "exchange", "load"} <=> inst[d] \in Installs
             /\ inst[d] \in Installs => inst[d].uid \in Uids /\ inst[d].auth \in Auths
             /\ inst[d] # Idle => inst[d].uid \in Uids
  <2>1. inst[d] \in {Idle} \cup Exchanges \cup Loads \cup Installs
    BY DEF Types
  <2> QED BY <1>1, <2>1 DEF Exchanges, Loads, Installs
<1> QED BY <1>2, <1>3, <1>4, <1>5

Consumes(result, r) ==
    /\ upd.kind = "check" /\ result \in {"updated", "unchanged"}
    /\ Account = upd.code /\ r # NoAuth /\ r.token = upd.auth.token

LEMMA Ends ==
    ASSUME Types, NEW result, NEW r, upd \in UpdateRecords, UpdateEnds(result, r)
    PROVE  /\ upd' = Idle
           /\ storage' \in Storages /\ storage'.code = storage.code /\ storage'.uid = storage.uid
           /\ startupDone' \in BOOLEAN /\ busy' \in BOOLEAN /\ apply' \in BOOLEAN
           /\ \/ storage' = storage
              \/ Consumes(result, r) /\ storage'.version = upd.version
<1>1. upd' = Idle /\ busy' \in BOOLEAN /\ apply' \in BOOLEAN
  BY DEF UpdateEnds, Types
<1>2. CASE Consumes(result, r)
  <2>1. storage' = [storage EXCEPT !.version = upd.version] /\ startupDone' = TRUE
    BY <1>2 DEF UpdateEnds, Consumes
  <2>2. upd.version \in Nat /\ storage \in Storages
    BY DEF Types, UpdateRecords
  <2> QED BY <1>1, <1>2, <2>1, <2>2 DEF Storages
<1>3. CASE ~Consumes(result, r)
  BY <1>1, <1>3 DEF UpdateEnds, Consumes, Types
<1> QED BY <1>2, <1>3

\* v is u one step later: what an update does not change on its way
Goes(u, v) ==
    /\ v \in UpdateRecords
    /\ v.kind = u.kind /\ v.forced = u.forced /\ v.aborted = u.aborted /\ v.code = u.code

LEMMA Starts ==
    ASSUME Types, ref # NoAuth, NEW kind \in {"check", "auto", "manual"}
    PROVE  /\ Update(kind, "state") \in UpdateRecords
           /\ Update(kind, "state").kind = kind /\ Update(kind, "state").at = "state"
           /\ Update(kind, "state").auth = ref /\ Update(kind, "state").same
           /\ Update(kind, "state").code = Account /\ Update(kind, "state").version = storage.version
           /\ ~Update(kind, "state").aborted
           /\ kind = "manual" => Update(kind, "state").forced
<1>1. ref \in Auths /\ Account \in Codes \cup {NoCode} /\ storage.version \in Nat
      /\ startupDone \in BOOLEAN
  BY DEF Types, Account, Storages
<1> QED BY <1>1 DEF Update, UpdateRecords, Places

\* v is u further on, with the credential it works on
Keeps(u, v) ==
    Goes(u, v) /\ v.version = u.version /\ v.auth = u.auth /\ v.same = u.same

\* a is b but for what a replacement may change
Alike(a, b) == a \in Auths /\ a.code = b.code /\ a.uid = b.uid

LEMMA Reads ==
    ASSUME Types, NEW u \in Uids
    PROVE  file[u] \in Contents \cup {NoFile}
BY DEF Types

LEMMA NoneIsNothing ==
    /\ NoFile \notin Contents /\ NoAuth \notin Auths /\ "user" \notin Codes /\ NoCode \notin Codes
    /\ \A f \in Contents : f.n \in Nat /\ f.of \in Codes \cup {"user"}
    /\ \A a \in Auths : /\ a.code \in Codes /\ a.uid \in Uids /\ a.hash \in Contents
                        /\ a.detached \in BOOLEAN /\ a.version \in Nat
    /\ \A u \in Uids : u \in Nat /\ u # NoUid
    /\ NoUid = 0
<1>1. \A u \in Uids : u \in Nat /\ u # NoUid
  BY SubscriptionAssumption DEF Uids, NoUid
<1> QED BY <1>1, SubscriptionAssumption DEF Auths, Contents, NoUid

LEMMA CheckStartStep ==
    ASSUME Types, CheckStart
    PROVE  /\ upd = Idle /\ edit = Idle /\ ~busy /\ ~apply
           /\ upd' \in UpdateRecords /\ upd'.at = "state" /\ upd'.kind = "check" /\ ~upd'.aborted
           /\ upd'.auth = ref /\ upd'.same /\ ref \in Auths
           /\ upd'.code = Account /\ upd'.code \in Codes /\ upd'.version = storage.version
           /\ Account = storage.code
           /\ UNCHANGED <<server, file, current, saved, storage, page, inst, edit, installed, events>>
           /\ Lapses({})
<1>1. ref # NoAuth /\ Account # NoCode /\ upd' = Update("check", "state")
  BY DEF CheckStart
<1>2. Account = storage.code /\ Account \in Codes /\ ref \in Auths
  BY <1>1 DEF Account, Types, Storages
<1> QED BY <1>1, <1>2, Starts DEF CheckStart

\* what an update is at its start, and what StateAnswers makes of a check
Begun(u, v) ==
    \/ /\ Goes(u, v) /\ v.at = "write" /\ v.then = "detached"
       /\ v.auth = ref /\ v.same = u.same /\ v.version = u.version
       /\ ref.detached /\ ~u.forced
       /\ Alike(v.next, ref) /\ v.next.hash = ref.hash /\ v.next.detached
    \/ /\ Goes(u, v) /\ v.at = "read"
       /\ v.auth = ref /\ v.same /\ v.version = u.version
       /\ ref.detached => u.forced

LEMMA Begins ==
    ASSUME Types, ref # NoAuth, NEW u \in UpdateRecords
    PROVE  Begin(u) = Idle \/ Begun(u, Begin(u))
<1> DEFINE v == Larger(ref.version, u.version)
           next == [ref EXCEPT !.version = v]
<1>1. ref \in Auths /\ v \in Nat
  BY DEF Types, Auths, UpdateRecords, Larger
<1>2. next \in Auths /\ next.code = ref.code /\ next.uid = ref.uid /\ next.hash = ref.hash
      /\ next.detached = ref.detached
  BY <1>1 DEF Auths
<1>3. CASE ref.detached /\ ~u.forced /\ u.version > ref.version
  <2>1. Begin(u) = [u EXCEPT !.at = "write", !.auth = ref, !.next = next, !.then = "detached"]
    BY <1>3 DEF Begin
  <2> HIDE DEF next
  <2> QED BY <1>1, <1>2, <1>3, <2>1 DEF UpdateRecords, Places, Goes, Begun, Alike
<1>4. CASE ref.detached /\ ~u.forced /\ ~(u.version > ref.version)
  BY <1>4 DEF Begin
<1>5. CASE ~(ref.detached /\ ~u.forced)
  <2>1. Begin(u) = [u EXCEPT !.at = "read", !.auth = ref, !.same = TRUE]
    BY <1>5 DEF Begin
  <2> QED BY <1>1, <1>5, <2>1 DEF UpdateRecords, Places, Goes, Begun
<1> QED BY <1>3, <1>4, <1>5

LEMMA UpdateStartStep ==
    ASSUME Types, NEW k \in {"auto", "manual"}, UpdateStart(k)
    PROVE  /\ upd = Idle /\ ~busy /\ ref \in Auths
           /\ busy' = (upd' # Idle)
           /\ UNCHANGED <<server, file, current, saved, storage, ref, startupDone, apply, entry,
                          inst, edit, installed, events>>
           /\ Lapses({})
           /\ upd' # Idle => \E u \in UpdateRecords :
                 u.kind = k /\ (k = "manual" => u.forced) /\ ~u.aborted /\ u.same /\ Begun(u, upd')
<1> DEFINE u == Update(k, "state")
<1>1. ref # NoAuth /\ upd' = Begin(u) /\ ref \in Auths
  BY DEF UpdateStart, Types
<1>2. u \in UpdateRecords /\ u.kind = k /\ (k = "manual" => u.forced) /\ ~u.aborted /\ u.same
  BY <1>1, Starts
<1> HIDE DEF u
<1>3. upd' # Idle => Begun(u, upd')
  BY <1>1, <1>2, Begins
<1> QED BY <1>1, <1>2, <1>3 DEF UpdateStart

LEMMA StateAnswersStep ==
    ASSUME Types, Course, StateAnswers
    PROVE  /\ upd \in UpdateRecords /\ upd.at = "state" /\ upd.kind = "check" /\ upd.code \in Codes
           /\ UNCHANGED <<server, file, current, saved, ref, entry, inst, edit, installed>>
           /\ events' \in Nat /\ Lapses({})
           /\ \/ UpdateEnds("failed", ref)
              \/ UpdateEnds("current", ref)
              \/ /\ UNCHANGED <<storage, startupDone>>
                 /\ IF upd'.at = "write" THEN Hold ELSE UNCHANGED <<apply, busy>>
                 /\ ref \in Auths /\ ~upd.aborted /\ Account = upd.code
                 /\ \/ upd' = Idle
                    \/ \E u \in UpdateRecords :
                          Goes(upd, u) /\ u.same = upd.same /\ u.version = remote[upd.code] /\ Begun(u, upd')
<1>1. upd \in UpdateRecords /\ upd.at = "state" /\ upd.kind = "check" /\ upd.code \in Codes
  BY Kinds DEF StateAnswers, Course
<1>2. UNCHANGED <<server, file, current, saved, ref, entry, inst, edit, installed>>
      /\ events' \in Nat /\ Lapses({})
  BY DEF StateAnswers, Event, NoEvent, Types
<1>3. ASSUME ~UpdateEnds("failed", ref), ~UpdateEnds("current", ref)
      PROVE  /\ UNCHANGED <<storage, startupDone>>
             /\ IF upd'.at = "write" THEN Hold ELSE UNCHANGED <<apply, busy>>
             /\ ref \in Auths /\ ~upd.aborted /\ Account = upd.code
             /\ \/ upd' = Idle
                \/ \E u \in UpdateRecords :
                      Goes(upd, u) /\ u.same = upd.same /\ u.version = remote[upd.code] /\ Begun(u, upd')
  <2> DEFINE u == [upd EXCEPT !.version = remote[upd.code]]
  <2>1. ref # NoAuth /\ Account = upd.code /\ ~upd.aborted /\ upd' = Begin(u)
        /\ (IF upd'.at = "write" THEN Hold ELSE UNCHANGED <<apply, busy>>)
        /\ UNCHANGED <<storage, startupDone>>
    BY <1>3 DEF StateAnswers
  <2>2. u \in UpdateRecords /\ u.kind = upd.kind /\ u.forced = upd.forced /\ u.aborted = upd.aborted
        /\ u.code = upd.code /\ u.same = upd.same /\ u.version = remote[upd.code]
    BY <1>1 DEF UpdateRecords, Types
  <2> HIDE DEF u
  <2>3. upd' = Idle \/ Begun(u, upd')
    BY <2>1, <2>2, Begins
  <2>4. ref \in Auths
    BY <2>1 DEF Types
  <2> QED BY <2>1, <2>2, <2>3, <2>4 DEF Goes
<1> QED BY <1>1, <1>2, <1>3

\* the update goes on to write a credential
LEMMA Written ==
    ASSUME upd \in UpdateRecords, NEW next \in Auths,
           NEW then \in {"detached", "load", "unchanged", "updated"}, WriteNext(next, then)
    PROVE  /\ Keeps(upd, upd') /\ upd'.at = "write" /\ upd'.then = then
           /\ upd'.next = next /\ upd'.read = upd.read
           /\ UNCHANGED <<storage, startupDone>>
BY DEF WriteNext, UpdateRecords, Places, Keeps, Goes

LEMMA ReadLocalStep ==
    ASSUME Types, ReadLocal
    PROVE  /\ upd \in UpdateRecords /\ upd.at = "read"
           /\ UNCHANGED <<server, file, current, saved, ref, entry, inst, edit, installed, events>>
           /\ Lapses({})
           /\ \/ UpdateEnds("failed", ref)
              \/ /\ Hold /\ UNCHANGED <<storage, startupDone>>
                 /\ upd.same /\ ~upd.forced /\ ~upd.aborted
                 /\ file[upd.auth.uid] \in Contents /\ file[upd.auth.uid] # upd.auth.hash
                 /\ Keeps(upd, upd') /\ upd'.at = "write" /\ upd'.then = "detached"
                 /\ Alike(upd'.next, upd.auth) /\ upd'.next.hash = upd.auth.hash /\ upd'.next.detached
              \/ /\ UNCHANGED <<storage, startupDone, apply, busy>>
                 /\ ~upd.aborted
                 /\ Keeps(upd, upd') /\ upd'.at = "load"
                 /\ upd'.read = file[upd.auth.uid] /\ upd'.read \in Contents
                 /\ ~upd.forced => upd'.read = upd.auth.hash
<1> DEFINE read == file[upd.auth.uid]
           v == Larger(upd.auth.version, upd.version)
           next == [upd.auth EXCEPT !.detached = TRUE, !.version = v]
<1>1. upd \in UpdateRecords /\ upd.at = "read" /\ upd.auth \in Auths /\ upd.auth.uid \in Uids
  BY Kinds DEF ReadLocal, UpdateRecords, Auths
<1>2. UNCHANGED <<server, file, current, saved, ref, entry, inst, edit, installed, events>>
      /\ Lapses({})
  BY DEF ReadLocal
<1>3. read \in Contents \cup {NoFile}
  BY <1>1, Reads
<1>4. v \in Nat
  BY <1>1 DEF Larger, Auths, UpdateRecords
<1>5. next \in Auths /\ Alike(next, upd.auth) /\ next.hash = upd.auth.hash /\ next.detached
  BY <1>1, <1>4 DEF Auths, Alike
<1>6. \/ UpdateEnds("failed", ref)
      \/ /\ ~upd.forced /\ upd.auth.hash # read /\ upd.same /\ read # NoFile /\ ~upd.aborted
         /\ Hold /\ WriteNext(next, "detached")
      \/ /\ upd' = [upd EXCEPT !.at = "load", !.read = read] /\ UNCHANGED <<storage, startupDone, apply, busy>>
         /\ read # NoFile /\ ~upd.aborted /\ (~upd.forced => read = upd.auth.hash)
  BY DEF ReadLocal
<1> HIDE DEF read, next
<1>7. ASSUME upd' = [upd EXCEPT !.at = "load", !.read = read]
      PROVE  Keeps(upd, upd') /\ upd'.at = "load" /\ upd'.read = read
  BY <1>1, <1>3, <1>7 DEF UpdateRecords, Places, Keeps, Goes
<1>8. CASE UpdateEnds("failed", ref)
  BY <1>1, <1>2, <1>8
<1>9. CASE ~UpdateEnds("failed", ref)
  BY <1>1, <1>2, <1>3, <1>5, <1>6, <1>7, <1>9, Written DEF read
<1> QED BY <1>8, <1>9

LEMMA RefusedStep ==
    ASSUME Types, Refused
    PROVE  /\ upd \in UpdateRecords /\ upd.at = "load"
           /\ UNCHANGED <<server, file, current, saved, ref, entry, inst, edit, bounds>>
           /\ \/ UpdateEnds("failed", ref)
              \/ /\ UNCHANGED <<storage, startupDone, apply, busy>>
                 /\ upd.kind = "manual"
                 /\ Keeps(upd, upd') /\ upd'.at = "renew" /\ upd'.read = upd.read
<1>1. upd \in UpdateRecords /\ upd.at = "load"
  BY Kinds DEF Refused
<1>2. CASE upd' = [upd EXCEPT !.at = "renew"]
  BY <1>1, <1>2 DEF Refused, UpdateRecords, Places, Keeps, Goes, UpdateEnds, Idle
<1> QED BY <1>1, <1>2 DEF Refused

LEMMA RenewStep ==
    ASSUME Types, Renew
    PROVE  /\ upd \in UpdateRecords /\ upd.at = "renew"
           /\ UNCHANGED <<remote, file, current, saved, ref, entry, inst, edit, installed>>
           /\ events' \in Nat /\ live' \in [Codes -> Nat] /\ Lapses({})
           /\ \/ UpdateEnds("failed", ref)
              \/ /\ UNCHANGED <<storage, startupDone, apply, busy>>
                 /\ upd.same
                 /\ Keeps(upd, upd') /\ upd'.at = "write" /\ upd'.then = "load" /\ upd'.read = upd.read
                 /\ Alike(upd'.next, upd.auth) /\ upd'.next.hash = upd.auth.hash
                 /\ upd'.next.detached = upd.auth.detached
<1> DEFINE c == upd.auth.code
           next == [upd.auth EXCEPT !.token = live'[c]]
<1>1. upd \in UpdateRecords /\ upd.at = "renew" /\ upd.auth \in Auths /\ c \in Codes
  BY Kinds DEF Renew, UpdateRecords, Auths
<1>2. UNCHANGED <<remote, file, current, saved, ref, entry, inst, edit, installed>>
      /\ events' \in Nat /\ Lapses({})
  BY DEF Renew, Event, NoEvent, Types
<1>3. live' \in [Codes -> Nat]
  BY <1>1 DEF Renew, Types
<1>4. next \in Auths /\ Alike(next, upd.auth) /\ next.hash = upd.auth.hash
      /\ next.detached = upd.auth.detached
  BY <1>1, <1>3 DEF Auths, Alike
<1>5. UpdateEnds("failed", ref) \/ (upd.same /\ WriteNext(next, "load") /\ UNCHANGED <<apply, busy>>)
  BY DEF Renew
<1> HIDE DEF next
<1>6. CASE UpdateEnds("failed", ref)
  BY <1>1, <1>2, <1>3, <1>6
<1>7. CASE ~UpdateEnds("failed", ref)
  BY <1>1, <1>2, <1>3, <1>4, <1>5, <1>7, Written
<1> QED BY <1>6, <1>7

LEMMA DownloadStep ==
    ASSUME Types, Course, Download
    PROVE  /\ upd \in UpdateRecords /\ upd.at = "load" /\ upd.read \in Contents
           /\ UNCHANGED <<server, file, current, saved, ref, entry, inst, edit, installed>>
           /\ events' \in Nat /\ Lapses({})
           /\ \/ UpdateEnds("failed", ref)
              \/ /\ UpdateEnds("unchanged", ref) /\ ~upd.aborted /\ upd.same
                 /\ upd.read = Nodes(upd.auth.code, remote[upd.auth.code])
                 /\ upd.auth.hash = upd.read /\ ~upd.auth.detached
              \/ /\ Hold /\ UNCHANGED <<storage, startupDone>>
                 /\ ~upd.aborted /\ upd.same
                 /\ Keeps(upd, upd') /\ upd'.read = upd.read
                 /\ Alike(upd'.next, upd.auth) /\ ~upd'.next.detached
                 /\ upd'.next.hash = Nodes(upd.auth.code, remote[upd.auth.code])
                 /\ \/ upd'.at = "save"
                    \/ upd'.at = "write" /\ upd'.then = "unchanged" /\ upd'.next.hash = upd.read
<1> DEFINE content == Nodes(upd.auth.code, remote[upd.auth.code])
           v == Larger(upd.auth.version, upd.version)
           next == [upd.auth EXCEPT !.hash = upd.read, !.detached = FALSE, !.version = v]
           new == [next EXCEPT !.hash = content]
<1>1. upd \in UpdateRecords /\ upd.at = "load" /\ upd.auth \in Auths
  BY Kinds DEF Download, UpdateRecords
<1>2. upd.read \in Contents
  BY <1>1, Kinds DEF Course, Loaded, UpdateRecords
<1>3. UNCHANGED <<server, file, current, saved, ref, entry, inst, edit, installed>>
      /\ events' \in Nat /\ Lapses({})
  BY DEF Download, Event, NoEvent, Types
<1>4. content \in Contents
  BY <1>1 DEF Contents, Nodes, Auths, Types
<1>5. v \in Nat
  BY <1>1 DEF Larger, Auths, UpdateRecords
<1>6. /\ next \in Auths /\ Alike(next, upd.auth) /\ next.hash = upd.read /\ ~next.detached
      /\ next = upd.auth => upd.auth.hash = upd.read /\ ~upd.auth.detached
  BY <1>1, <1>2, <1>5 DEF Auths, Alike
<1>7. new \in Auths /\ Alike(new, upd.auth) /\ new.hash = content /\ ~new.detached
  BY <1>4, <1>6 DEF Auths, Alike
<1>8. \/ UpdateEnds("failed", ref)
      \/ ~upd.aborted /\ upd.same /\ content = upd.read /\ next = upd.auth /\ UpdateEnds("unchanged", ref)
      \/ ~upd.aborted /\ upd.same /\ Hold /\ content = upd.read /\ WriteNext(next, "unchanged")
      \/ /\ ~upd.aborted /\ upd.same /\ Hold /\ UNCHANGED <<storage, startupDone>>
         /\ upd' = [upd EXCEPT !.at = "save", !.next = new]
  BY DEF Download
<1> HIDE DEF content, next, new
<1>9. ASSUME upd' = [upd EXCEPT !.at = "save", !.next = new]
      PROVE  Keeps(upd, upd') /\ upd'.at = "save" /\ upd'.next = new /\ upd'.read = upd.read
  BY <1>1, <1>7, <1>9 DEF UpdateRecords, Places, Keeps, Goes
<1>10. CASE UpdateEnds("failed", ref)
  BY <1>1, <1>2, <1>3, <1>10
<1>11. CASE content = upd.read /\ next = upd.auth /\ UpdateEnds("unchanged", ref)
            /\ ~upd.aborted /\ upd.same
  BY <1>1, <1>2, <1>3, <1>6, <1>11 DEF content
<1>12. CASE ~upd.aborted /\ upd.same /\ Hold /\ content = upd.read /\ WriteNext(next, "unchanged")
  BY <1>1, <1>2, <1>3, <1>6, <1>12, Written DEF content
<1>13. CASE /\ ~upd.aborted /\ upd.same /\ Hold /\ UNCHANGED <<storage, startupDone>>
            /\ upd' = [upd EXCEPT !.at = "save", !.next = new]
  BY <1>1, <1>2, <1>3, <1>7, <1>9, <1>13 DEF content
<1> QED BY <1>8, <1>10, <1>11, <1>12, <1>13

LEMMA SaveContentStep ==
    ASSUME Types, Course, SaveContent
    PROVE  /\ upd \in UpdateRecords /\ upd.at = "save" /\ upd.next \in Auths
           /\ UNCHANGED <<server, current, saved, ref, entry, inst, edit, installed>>
           /\ events' \in Nat /\ Lapses({})
           /\ \/ UpdateEnds("failed", ref) /\ UNCHANGED file
              \/ /\ UNCHANGED <<storage, startupDone, apply, busy>>
                 /\ file[upd.auth.uid] # NoFile
                 /\ file' = [file EXCEPT ![upd.auth.uid] = upd.next.hash]
                 /\ Keeps(upd, upd') /\ upd'.at = "back" /\ upd'.then = "updated"
                 /\ upd'.next = upd.next /\ upd'.read = upd.read
<1>1. upd \in UpdateRecords /\ upd.at = "save" /\ upd.next \in Auths
  BY Kinds DEF SaveContent, UpdateRecords, Course
<1>2. UNCHANGED <<server, current, saved, ref, entry, inst, edit, installed>>
      /\ events' \in Nat /\ Lapses({})
  BY DEF SaveContent, Event, NoEvent, Types
<1>3. ASSUME upd' = [upd EXCEPT !.at = "back", !.then = "updated"]
      PROVE  /\ Keeps(upd, upd') /\ upd'.at = "back" /\ upd'.then = "updated"
             /\ upd'.next = upd.next /\ upd'.read = upd.read
  BY <1>1, <1>3 DEF UpdateRecords, Places, Keeps, Goes
<1> QED BY <1>1, <1>2, <1>3 DEF SaveContent

LEMMA ReadBackStep ==
    ASSUME Types, Course, ReadBack
    PROVE  /\ upd \in UpdateRecords /\ upd.at = "back" /\ upd.next \in Auths
           /\ UNCHANGED <<server, file, current, saved, storage, page, inst, edit, bounds>>
           /\ Keeps(upd, upd') /\ upd'.read = upd.read /\ upd'.then = upd.then
           /\ \/ file[upd.auth.uid] = NoFile /\ upd'.at = "undo"
              \/ /\ file[upd.auth.uid] \in Contents /\ upd'.at = "write"
                 /\ Alike(upd'.next, upd.next) /\ upd'.next.hash = file[upd.auth.uid]
                 /\ upd'.next.detached = upd.next.detached
                 /\ upd.next.hash = file[upd.auth.uid] => upd'.next = upd.next
<1> DEFINE f == file[upd.auth.uid]
           new == [upd.next EXCEPT !.hash = f]
<1>1. upd \in UpdateRecords /\ upd.at = "back" /\ upd.next \in Auths /\ upd.auth.uid \in Uids
  BY Kinds DEF ReadBack, UpdateRecords, Course, Auths
<1>2. f \in Contents \cup {NoFile}
  BY <1>1, Reads
<1>3. UNCHANGED <<server, file, current, saved, storage, page, inst, edit, bounds>>
  BY DEF ReadBack
<1>4. CASE f = NoFile
  <2>1. upd' = [upd EXCEPT !.at = "undo"]
    BY <1>4 DEF ReadBack
  <2> QED BY <1>1, <1>3, <1>4, <2>1 DEF UpdateRecords, Places, Keeps, Goes
<1>5. CASE f # NoFile
  <2>1. upd' = [upd EXCEPT !.at = "write", !.next = new]
    BY <1>5 DEF ReadBack
  <2>2. f \in Contents
    BY <1>2, <1>5
  <2>3. /\ new \in Auths /\ Alike(new, upd.next) /\ new.hash = f /\ new.detached = upd.next.detached
        /\ upd.next.hash = f => new = upd.next
    BY <1>1, <2>2 DEF Auths, Alike
  <2> HIDE DEF f, new
  <2>4. /\ Keeps(upd, upd') /\ upd'.read = upd.read /\ upd'.then = upd.then /\ upd'.at = "write"
        /\ upd'.next = new
    BY <1>1, <2>1, <2>3 DEF UpdateRecords, Places, Keeps, Goes
  <2> QED BY <1>1, <1>3, <2>2, <2>3, <2>4 DEF f
<1> QED BY <1>4, <1>5

LEMMA WriteAuthStep ==
    ASSUME Types, Course, WriteAuth
    PROVE  /\ upd \in UpdateRecords /\ upd.at = "write" /\ upd.next \in Auths
           /\ UNCHANGED <<server, file, current, ref, entry, inst, edit, installed>>
           /\ events' \in Nat /\ Lapses({})
           /\ \/ UpdateEnds("failed", ref) /\ UNCHANGED saved /\ upd.then # "updated"
              \/ /\ UNCHANGED <<storage, startupDone, apply, busy>>
                 /\ Keeps(upd, upd') /\ upd'.next = upd.next /\ upd'.read = upd.read /\ upd'.then = upd.then
                 /\ \/ upd'.at = "assign" /\ saved' = upd.next
                    \/ upd'.at = "undo" /\ UNCHANGED saved /\ upd.then = "updated"
<1>1. upd \in UpdateRecords /\ upd.at = "write" /\ upd.next \in Auths
  BY Kinds DEF WriteAuth, UpdateRecords, Course
<1>2. UNCHANGED <<server, file, current, ref, entry, inst, edit, installed>>
      /\ events' \in Nat /\ Lapses({})
  BY DEF WriteAuth, Event, NoEvent, Types
<1>3. ASSUME NEW at \in {"assign", "undo"}, upd' = [upd EXCEPT !.at = at]
      PROVE  /\ Keeps(upd, upd') /\ upd'.at = at
             /\ upd'.next = upd.next /\ upd'.read = upd.read /\ upd'.then = upd.then
  BY <1>1, <1>3 DEF UpdateRecords, Places, Keeps, Goes
<1> QED BY <1>1, <1>2, <1>3 DEF WriteAuth

LEMMA AssignRefStep ==
    ASSUME Types, Course, AssignRef
    PROVE  /\ upd \in UpdateRecords /\ upd.at = "assign" /\ upd.next \in Auths
           /\ UNCHANGED <<server, file, current, saved, entry, inst, edit, bounds>>
           /\ ref' = upd.next
           /\ \/ UpdateEnds(upd.then, upd.next) /\ upd.then # "load"
              \/ /\ UNCHANGED <<storage, startupDone, apply, busy>>
                 /\ upd.then = "load"
                 /\ Goes(upd, upd') /\ upd'.version = upd.version /\ upd'.auth = upd.next /\ upd'.same
                 /\ upd'.at = "load" /\ upd'.read = upd.read
<1>1. upd \in UpdateRecords /\ upd.at = "assign" /\ upd.next \in Auths
  BY Kinds DEF AssignRef, UpdateRecords, Course
<1>2. ASSUME upd' = [upd EXCEPT !.at = "load", !.auth = upd.next, !.same = TRUE]
      PROVE  /\ Goes(upd, upd') /\ upd'.version = upd.version /\ upd'.auth = upd.next /\ upd'.same
             /\ upd'.at = "load" /\ upd'.read = upd.read
  BY <1>1, <1>2 DEF UpdateRecords, Places, Goes
<1> QED BY <1>1, <1>2 DEF AssignRef

LEMMA UndoContentStep ==
    ASSUME Types, Course, UndoContent
    PROVE  /\ upd \in UpdateRecords /\ upd.at = "undo" /\ upd.auth.uid \in Uids /\ upd.read \in Contents
           /\ UNCHANGED <<server, current, saved, ref, entry, inst, edit, installed>>
           /\ events' \in Nat /\ Lapses(Undone)
           /\ UpdateEnds("failed", ref)
           /\ \/ events' = events /\ file' = IF file[upd.auth.uid] = NoFile THEN file
                                             ELSE [file EXCEPT ![upd.auth.uid] = upd.read]
              \/ events' > events /\ UNCHANGED file
<1>1. /\ upd \in UpdateRecords /\ upd.at = "undo" /\ upd.auth.uid \in Uids
  BY Kinds DEF UndoContent, UpdateRecords, Auths
<1>2. upd.read \in Contents
  BY <1>1, Kinds DEF Course, Loaded, UpdateRecords
<1> QED BY <1>1, <1>2 DEF UndoContent, Event, NoEvent, Types

------------------------------------------------------------------------------
(* Installations, edits and the rest, step by step. *)

\* v is u, aborted or overtaken at most
Stopped(u, v) ==
    /\ v \in UpdateRecords
    /\ v.at = u.at /\ v.kind = u.kind /\ v.forced = u.forced /\ v.code = u.code
    /\ v.version = u.version /\ v.auth = u.auth /\ v.read = u.read /\ v.next = u.next
    /\ v.then = u.then
    /\ v.same => u.same
    /\ ~v.aborted => ~u.aborted
    /\ v.aborted => u.aborted \/ u.kind = "check"

LEMMA AbortedStep ==
    ASSUME Types, Course
    PROVE  /\ upd = Idle => Aborted = Idle
           /\ upd # Idle => /\ Stopped(upd, Aborted) /\ Aborted.same = upd.same
                            /\ Aborted.aborted <=> upd.kind = "check"
<1>1. CASE upd = Idle
  BY <1>1 DEF Aborted
<1>2. ASSUME upd # Idle PROVE upd \in UpdateRecords /\ (upd.kind # "check" => ~upd.aborted)
  BY <1>2, Kinds DEF Course
<1>3. CASE upd # Idle /\ upd.kind = "check"
  <2>1. Aborted = [upd EXCEPT !.aborted = TRUE]
    BY <1>3 DEF Aborted
  <2> QED BY <1>2, <1>3, <2>1 DEF Stopped, UpdateRecords
<1>4. CASE upd # Idle /\ upd.kind # "check"
  <2>1. Aborted = [upd EXCEPT !.aborted = FALSE]
    BY <1>4 DEF Aborted
  <2> QED BY <1>2, <1>4, <2>1 DEF Stopped, UpdateRecords
<1> QED BY <1>1, <1>3, <1>4

LEMMA OvertakenStep ==
    ASSUME NEW u \in {Idle} \cup UpdateRecords
    PROVE  /\ u = Idle => Overtaken(u) = Idle
           /\ u # Idle => Stopped(u, Overtaken(u)) /\ ~Overtaken(u).same /\ Overtaken(u).aborted = u.aborted
<1>1. CASE u = Idle
  BY <1>1 DEF Overtaken
<1>2. CASE u # Idle
  BY <1>2 DEF Overtaken, Stopped, UpdateRecords
<1> QED BY <1>1, <1>2

\* what stopping an update comes to, overtaken or not
LEMMA StoppedStep ==
    ASSUME Types, Course
    PROVE  /\ upd = Idle => Overtaken(Aborted) = Idle
           /\ upd # Idle => /\ Stopped(upd, Overtaken(Aborted)) /\ ~Overtaken(Aborted).same
                            /\ upd.kind = "check" => Overtaken(Aborted).aborted
<1>1. CASE upd = Idle
  BY <1>1, AbortedStep, OvertakenStep
<1>2. CASE upd # Idle
  <2>1. Aborted \in UpdateRecords /\ Stopped(upd, Aborted) /\ (upd.kind = "check" => Aborted.aborted)
    BY <1>2, AbortedStep DEF Stopped
  <2>2. Aborted # Idle
    <3>1. upd.at # "idle"
      BY <1>2, Kinds
    <3> QED BY <2>1, <3>1 DEF Stopped, Idle
  <2>3. Stopped(Aborted, Overtaken(Aborted)) /\ ~Overtaken(Aborted).same
        /\ Overtaken(Aborted).aborted = Aborted.aborted
    BY <2>1, <2>2, OvertakenStep
  <2> QED BY <1>2, <2>1, <2>3 DEF Stopped
<1> QED BY <1>1, <1>2

Installations == [Doors -> {Idle} \cup Exchanges \cup Loads \cup Installs]

Moves(d, at) ==
    /\ inst' \in Installations
    /\ inst'[d] \in Installs /\ inst'[d].at = at
    /\ inst'[d].uid = inst[d].uid /\ inst'[d].auth = inst[d].auth /\ inst'[d].previous = inst[d].previous
    /\ \A e \in Doors : e # d => inst'[e] = inst[e]

LEMMA InstMoves ==
    ASSUME Types, NEW d \in Doors, inst[d] \in Installs,
           NEW at \in {"activate", "write", "assign", "settle", "back", "drop", "rewrite", "restore", "storage"},
           Inst(d, at)
    PROVE  Moves(d, at)
<1>1. inst \in Installations /\ inst' = [inst EXCEPT ![d] = [@ EXCEPT !.at = at]]
  BY DEF Inst, Types, Installations
<1>2. /\ [inst[d] EXCEPT !.at = at] \in Installs
      /\ [inst[d] EXCEPT !.at = at].at = at
      /\ [inst[d] EXCEPT !.at = at].uid = inst[d].uid
      /\ [inst[d] EXCEPT !.at = at].auth = inst[d].auth
      /\ [inst[d] EXCEPT !.at = at].previous = inst[d].previous
  BY DEF Installs
<1> QED BY <1>1, <1>2 DEF Installations, Moves

Others(d) == \A e \in Doors : e # d => inst'[e] = inst[e]
Cleared(d) == inst' \in Installations /\ inst'[d] = Idle /\ Others(d)

LEMMA ClearedStep ==
    ASSUME Types, NEW d \in Doors, inst' = [inst EXCEPT ![d] = Idle]
    PROVE  Cleared(d)
<1>1. inst \in Installations
  BY DEF Types, Installations
<1> QED BY <1>1 DEF Installations, Cleared, Others

LEMMA ImportStartStep ==
    ASSUME Types, NEW d \in Doors, NEW c \in Codes, ImportStart(d, c)
    PROVE  /\ inst[d] = Idle /\ ~apply
           /\ d = "code" => ~busy
           /\ installed' = installed + 1 /\ installed' \in Uids
           /\ inst' \in Installations /\ inst'[d] \in Exchanges /\ inst'[d].uid = installed' /\ Others(d)
           /\ upd' = Aborted /\ busy' = TRUE /\ entry' \in BOOLEAN
           /\ UNCHANGED <<server, file, current, saved, storage, ref, startupDone, apply, edit, events>>
           /\ Lapses(IF d = "link" /\ busy THEN {"link"} ELSE {})
<1> DEFINE i == [at |-> "exchange", code |-> c, uid |-> installed']
<1>1. installed' = installed + 1 /\ installed <= MaxInstalls /\ installed \in Nat
  BY DEF ImportStart, Types
<1>2. installed' \in Uids
  BY <1>1, SubscriptionAssumption DEF Uids
<1>3. i \in Exchanges /\ i.uid = installed'
  BY <1>2 DEF Exchanges
<1>4. inst \in Installations /\ inst' = [inst EXCEPT ![d] = i]
  BY DEF ImportStart, Types, Installations
<1> HIDE DEF i
<1>5. inst' \in Installations /\ inst'[d] = i /\ Others(d)
  BY <1>3, <1>4 DEF Installations, Others
<1> QED BY <1>1, <1>2, <1>3, <1>5 DEF ImportStart, Types

LEMMA ExchangeStep ==
    ASSUME Types, NEW d \in Doors, Exchange(d)
    PROVE  /\ inst[d] \in Exchanges
           /\ live' \in [Codes -> Nat] /\ events' \in Nat /\ Lapses({})
           /\ UNCHANGED <<remote, file, current, saved, storage, ref, startupDone, apply, upd, edit,
                          installed>>
           /\ \/ Cleared(d) /\ busy' = FALSE /\ entry' = FALSE
              \/ /\ inst' \in Installations /\ Others(d)
                 /\ inst'[d] \in Loads /\ inst'[d].uid = inst[d].uid
                 /\ UNCHANGED <<busy, entry>>
<1> DEFINE c == inst[d].code
           i == [at |-> "load", code |-> c, uid |-> inst[d].uid, token |-> live'[c]]
<1>1. inst[d] \in Exchanges /\ inst \in Installations /\ c \in Codes /\ inst[d].uid \in Uids
  BY Kinds DEF Exchange, Exchanges, Types, Installations
<1>2. live' \in [Codes -> Nat]
  BY <1>1 DEF Exchange, Types
<1>3. i \in Loads /\ i.uid = inst[d].uid
  BY <1>1, <1>2 DEF Loads
<1>4. \/ inst' = [inst EXCEPT ![d] = Idle] /\ busy' = FALSE /\ entry' = FALSE
      \/ inst' = [inst EXCEPT ![d] = i] /\ UNCHANGED <<busy, entry>>
  BY DEF Exchange, ImportFails
<1> HIDE DEF i
<1>5. ASSUME inst' = [inst EXCEPT ![d] = i]
      PROVE  inst' \in Installations /\ Others(d) /\ inst'[d] = i
  BY <1>1, <1>3, <1>5 DEF Installations, Others
<1>6. /\ events' \in Nat /\ Lapses({})
      /\ UNCHANGED <<remote, file, current, saved, storage, ref, startupDone, apply, upd, edit, installed>>
  BY DEF Exchange, Event, NoEvent, Types
<1> QED BY <1>1, <1>2, <1>3, <1>4, <1>5, <1>6, ClearedStep

LEMMA LoadInstallStep ==
    ASSUME Types, NEW d \in Doors, LoadInstall(d)
    PROVE  /\ inst[d] \in Loads
           /\ events' \in Nat /\ Lapses({})
           /\ UNCHANGED <<server, file, current, saved, storage, ref, startupDone, apply, upd, edit,
                          installed>>
           /\ \/ Cleared(d) /\ busy' = FALSE /\ entry' = FALSE
              \/ /\ inst' \in Installations /\ Others(d)
                 /\ inst'[d] \in Installs /\ inst'[d].at = "create"
                 /\ inst'[d].uid = inst[d].uid /\ inst'[d].auth.uid = inst[d].uid
                 /\ ~inst'[d].auth.detached /\ inst'[d].auth.hash.of \in Codes
                 /\ inst'[d].previous.storage = storage
                 /\ inst'[d].previous.auth = IF ref # NoAuth THEN ref ELSE saved
                 /\ UNCHANGED <<busy, entry>>
<1> DEFINE c == inst[d].code
           content == Nodes(c, remote[c])
           auth == Credential(c, inst[d].uid, inst[d].token, content)
           previous == [current |-> current, storage |-> storage,
                        auth |-> IF ref # NoAuth THEN ref ELSE saved]
           i == [at |-> "create", uid |-> inst[d].uid, auth |-> auth, previous |-> previous]
<1>1. inst[d] \in Loads /\ inst \in Installations /\ c \in Codes /\ inst[d].uid \in Uids
      /\ inst[d].token \in Nat
  BY Kinds DEF LoadInstall, Loads, Types, Installations
<1>2. content \in Contents /\ content.of = c
  BY <1>1 DEF Contents, Nodes, Types
<1>3. auth \in Auths /\ auth.uid = inst[d].uid /\ ~auth.detached /\ auth.hash = content
  BY <1>1, <1>2 DEF Credential, Auths
<1>4. /\ previous \in [current : {NoUid} \cup Uids, storage : Storages, auth : Auths \cup {NoAuth}]
      /\ previous.storage = storage /\ previous.auth = IF ref # NoAuth THEN ref ELSE saved
  BY DEF Types
<1>5. \/ inst' = [inst EXCEPT ![d] = Idle] /\ busy' = FALSE /\ entry' = FALSE
      \/ inst' = [inst EXCEPT ![d] = i] /\ UNCHANGED <<busy, entry>>
  BY DEF LoadInstall, ImportFails
<1>6. i \in Installs /\ i.at = "create" /\ i.uid = inst[d].uid /\ i.auth = auth /\ i.previous = previous
  <2> HIDE DEF auth, previous
  <2> QED BY <1>1, <1>3, <1>4 DEF Installs
<1> HIDE DEF i, auth, previous, content
<1>7. ASSUME inst' = [inst EXCEPT ![d] = i]
      PROVE  inst' \in Installations /\ Others(d) /\ inst'[d] = i
  BY <1>1, <1>6, <1>7 DEF Installations, Others
<1>8. /\ events' \in Nat /\ Lapses({})
      /\ UNCHANGED <<server, file, current, saved, storage, ref, startupDone, apply, upd, edit, installed>>
  BY DEF LoadInstall, Event, NoEvent, Types
<1> QED BY <1>1, <1>2, <1>3, <1>4, <1>5, <1>6, <1>7, <1>8, ClearedStep

\* an installation from its profile's creation on
LEMMA InstallKinds ==
    ASSUME Types, NEW d \in Doors, inst[d] \in Installs
    PROVE  /\ inst[d].uid \in Uids /\ inst[d].auth \in Auths
           /\ inst[d].previous.current \in {NoUid} \cup Uids
           /\ inst[d].previous.storage \in Storages
           /\ inst[d].previous.auth \in Auths \cup {NoAuth}
BY DEF Installs

LEMMA InstallTypes ==
    ASSUME Types, Course, NEW d \in Doors, Install(d) \/ InstallFails(d)
    PROVE  Types'
<1> USE DEF server, page, bounds
<1>1. CASE Exchange(d)
  BY <1>1, ExchangeStep DEF Types, Cleared, Lapses, Installations
<1>2. CASE LoadInstall(d)
  BY <1>2, LoadInstallStep DEF Types, Cleared, Lapses, Installations
<1>3. CASE CreateProfile(d)
  <2>1. Moves(d, "activate") /\ inst[d].auth.hash \in Contents
    BY <1>3, Kinds, InstMoves DEF CreateProfile, Auths
  <2>2. file' \in [Uids -> Contents \cup {NoFile}]
    BY <1>3, <2>1 DEF CreateProfile, Types
  <2> QED BY <1>3, <2>1, <2>2 DEF CreateProfile, Types, Moves, Installations
<1>4. CASE Activate(d)
  <2>1. Moves(d, "write") /\ inst[d].uid \in Uids
    BY <1>4, Kinds, InstMoves DEF Activate
  <2>2. upd' \in {Idle} \cup UpdateRecords
    BY <1>4, AbortedStep DEF Activate, Stopped
  <2> QED BY <1>4, <2>1, <2>2 DEF Activate, Types, Moves, Installations
<1>5. CASE CommitWrite(d)
  <2>1. Moves(d, "assign") /\ inst[d].auth \in Auths
    BY <1>5, Kinds, InstMoves DEF CommitWrite
  <2> QED BY <1>5, <2>1 DEF CommitWrite, Types, Moves, Installations
<1>6. CASE CommitAssign(d)
  <2>1. Moves(d, "settle") /\ inst[d].auth \in Auths
    BY <1>6, Kinds, InstMoves DEF CommitAssign
  <2>2. upd' \in {Idle} \cup UpdateRecords
    BY <1>6, StoppedStep DEF CommitAssign, Stopped
  <2>3. storage' \in Storages
    BY <1>6, <2>1 DEF CommitAssign, Storages, Auths
  <2> QED BY <1>6, <2>1, <2>2, <2>3 DEF CommitAssign, Types, Moves, Installations
<1>7. CASE Settle(d)
  <2>1. Cleared(d)
    BY <1>7, ClearedStep DEF Settle
  <2>2. file' \in [Uids -> Contents \cup {NoFile}]
    BY <1>7 DEF Settle, Types
  <2>3. startupDone' \in BOOLEAN
    BY <1>7 DEF Settle, Types
  <2> QED BY <1>7, <2>1, <2>2, <2>3 DEF Settle, Types, Cleared, Installations
<1>8. CASE SwitchBack(d)
  <2>1. inst[d] \in Installs
    BY <1>8, Kinds DEF SwitchBack
  <2>2. Moves(d, "drop") \/ Moves(d, "rewrite")
    BY <1>8, <2>1, InstMoves DEF SwitchBack
  <2>3. current' \in {NoUid} \cup Uids
    BY <1>8, <2>1, InstallKinds DEF SwitchBack, Types
  <2>4. upd' \in {Idle} \cup UpdateRecords
    BY <1>8, AbortedStep DEF SwitchBack, Stopped, Types
  <2>5. events' \in Nat /\ lapses' \subseteq {"overlap", "cut", "undo", "link"}
    BY <1>8 DEF SwitchBack, Event, NoEvent, Lapses, Undone, Types
  <2> QED BY <1>8, <2>2, <2>3, <2>4, <2>5 DEF SwitchBack, Types, Moves, Installations
<1>9. CASE DropNew(d)
  <2>1. Moves(d, "rewrite")
    BY <1>9, Kinds, InstMoves DEF DropNew
  <2>2. file' \in [Uids -> Contents \cup {NoFile}] /\ current' \in {NoUid} \cup Uids
    BY <1>9 DEF DropNew, Types
  <2>3. events' \in Nat
    BY <1>9 DEF DropNew, Event, NoEvent, Types
  <2> QED BY <1>9, <2>1, <2>2, <2>3 DEF DropNew, Types, Moves, Installations
<1>10. CASE RestoreWrite(d)
  <2>1. inst[d] \in Installs
    BY <1>10, Kinds DEF RestoreWrite
  <2>2. Moves(d, "restore") \/ Moves(d, "storage")
    BY <1>10, <2>1, InstMoves DEF RestoreWrite
  <2>3. saved' \in Auths \cup {NoAuth}
    BY <1>10, <2>1, InstallKinds DEF RestoreWrite, Types
  <2>4. events' \in Nat /\ lapses' \subseteq {"overlap", "cut", "undo", "link"}
    BY <1>10 DEF RestoreWrite, Event, NoEvent, Lapses, Undone, Types
  <2> QED BY <1>10, <2>2, <2>3, <2>4 DEF RestoreWrite, Types, Moves, Installations
<1>11. CASE RestoreAssign(d)
  <2>1. inst[d] \in Installs
    BY <1>11, Kinds DEF RestoreAssign
  <2>2. Cleared(d)
    BY <1>11, ClearedStep DEF RestoreAssign, ImportFails
  <2>3. ref' \in Auths \cup {NoAuth} /\ storage' \in Storages
    BY <1>11, <2>1, InstallKinds DEF RestoreAssign, Types
  <2>4. upd' \in {Idle} \cup UpdateRecords
    BY <1>11, AbortedStep, StoppedStep DEF RestoreAssign, Stopped
  <2> QED BY <1>11, <2>2, <2>3, <2>4 DEF RestoreAssign, ImportFails, Types, Cleared, Installations
<1>12. CASE InstallFails(d)
  <2>1. Moves(d, "back")
    BY <1>12, Kinds, InstMoves DEF InstallFails
  <2> QED BY <1>12, <2>1 DEF InstallFails, Event, Lapses, Types, Moves, Installations
<1> QED
  BY <1>1, <1>2, <1>3, <1>4, <1>5, <1>6, <1>7, <1>8, <1>9, <1>10, <1>11, <1>12 DEF Install

LEMMA HoldTypes == Hold /\ Types => apply' \in BOOLEAN /\ busy' \in BOOLEAN
BY DEF Hold, Types

LEMMA UpdatesTypes ==
    ASSUME Types, Course, Updates \/ CheckStart \/ \E k \in {"auto", "manual"} : UpdateStart(k)
    PROVE  Types'
<1> USE DEF server, page, bounds, Lapses, Keeps, Goes
<1>1. CASE CheckStart
  BY <1>1, CheckStartStep DEF Types
<1>2. ASSUME NEW k \in {"auto", "manual"}, UpdateStart(k) PROVE Types'
  <2>1. upd' \in {Idle} \cup UpdateRecords
    BY <1>2, UpdateStartStep DEF Begun
  <2> QED BY <1>2, <2>1, UpdateStartStep DEF Types
<1>3. CASE StateAnswers
  <2>1. upd \in UpdateRecords
        /\ UNCHANGED <<server, file, current, saved, ref, entry, inst, edit, installed>>
        /\ events' \in Nat /\ lapses' \subseteq {"overlap", "cut", "undo", "link"}
    BY <1>3, StateAnswersStep DEF Types
  <2>2. CASE UpdateEnds("failed", ref) \/ UpdateEnds("current", ref)
    BY <2>1, <2>2, Ends DEF Types
  <2>3. CASE ~(UpdateEnds("failed", ref) \/ UpdateEnds("current", ref))
    <3>1. upd' \in {Idle} \cup UpdateRecords
      BY <1>3, <2>3, StateAnswersStep DEF Begun
    <3>2. apply' \in BOOLEAN /\ busy' \in BOOLEAN /\ UNCHANGED <<storage, startupDone>>
      BY <1>3, <2>3, StateAnswersStep, HoldTypes DEF Types
    <3> QED BY <2>1, <3>1, <3>2 DEF Types
  <2> QED BY <2>2, <2>3
<1>4. CASE ReadLocal
  <2>1. upd \in UpdateRecords
        /\ UNCHANGED <<server, file, current, saved, ref, entry, inst, edit, installed, events>>
        /\ lapses' \subseteq {"overlap", "cut", "undo", "link"}
    BY <1>4, ReadLocalStep DEF Types
  <2>2. CASE UpdateEnds("failed", ref)
    BY <2>1, <2>2, Ends DEF Types
  <2>3. CASE ~UpdateEnds("failed", ref)
    BY <1>4, <2>1, <2>3, ReadLocalStep, HoldTypes DEF Types
  <2> QED BY <2>2, <2>3
<1>5. CASE Refused
  BY <1>5, RefusedStep, Ends DEF Types
<1>6. CASE Renew
  <2>1. upd \in UpdateRecords /\ live' \in [Codes -> Nat]
        /\ UNCHANGED <<remote, file, current, saved, ref, entry, inst, edit, installed>>
        /\ events' \in Nat /\ lapses' \subseteq {"overlap", "cut", "undo", "link"}
    BY <1>6, RenewStep DEF Types
  <2>2. CASE UpdateEnds("failed", ref)
    BY <2>1, <2>2, Ends DEF Types
  <2>3. CASE ~UpdateEnds("failed", ref)
    BY <1>6, <2>1, <2>3, RenewStep DEF Types
  <2> QED BY <2>2, <2>3
<1>7. CASE Download
  <2>1. upd \in UpdateRecords
        /\ UNCHANGED <<server, file, current, saved, ref, entry, inst, edit, installed>>
        /\ events' \in Nat /\ lapses' \subseteq {"overlap", "cut", "undo", "link"}
    BY <1>7, DownloadStep DEF Types
  <2>2. CASE UpdateEnds("failed", ref) \/ UpdateEnds("unchanged", ref)
    BY <2>1, <2>2, Ends DEF Types
  <2>3. CASE ~(UpdateEnds("failed", ref) \/ UpdateEnds("unchanged", ref))
    BY <1>7, <2>1, <2>3, DownloadStep, HoldTypes DEF Types
  <2> QED BY <2>2, <2>3
<1>8. CASE SaveContent
  <2>1. upd \in UpdateRecords
        /\ UNCHANGED <<server, current, saved, ref, entry, inst, edit, installed>>
        /\ events' \in Nat /\ lapses' \subseteq {"overlap", "cut", "undo", "link"}
    BY <1>8, SaveContentStep DEF Types
  <2>2. CASE UpdateEnds("failed", ref)
    BY <1>8, <2>1, <2>2, SaveContentStep, Ends DEF Types, Idle
  <2>3. CASE ~UpdateEnds("failed", ref)
    <3>1. file' \in [Uids -> Contents \cup {NoFile}]
      BY <1>8, <2>3, SaveContentStep, NoneIsNothing DEF Types
    <3> QED BY <1>8, <2>1, <2>3, <3>1, SaveContentStep DEF Types
  <2> QED BY <2>2, <2>3
<1>9. CASE ReadBack
  BY <1>9, ReadBackStep DEF Types
<1>10. CASE WriteAuth
  <2>1. upd \in UpdateRecords /\ saved' \in Auths \cup {NoAuth}
        /\ UNCHANGED <<server, file, current, ref, entry, inst, edit, installed>>
        /\ events' \in Nat /\ lapses' \subseteq {"overlap", "cut", "undo", "link"}
    BY <1>10, WriteAuthStep DEF Types
  <2>2. CASE UpdateEnds("failed", ref)
    BY <2>1, <2>2, Ends DEF Types
  <2>3. CASE ~UpdateEnds("failed", ref)
    BY <1>10, <2>1, <2>3, WriteAuthStep DEF Types
  <2> QED BY <2>2, <2>3
<1>11. CASE AssignRef
  <2>1. upd \in UpdateRecords /\ ref' \in Auths \cup {NoAuth}
        /\ UNCHANGED <<server, file, current, saved, entry, inst, edit, bounds>>
    BY <1>11, AssignRefStep
  <2>2. CASE UpdateEnds(upd.then, upd.next)
    BY <2>1, <2>2, Ends DEF Types
  <2>3. CASE ~UpdateEnds(upd.then, upd.next)
    BY <1>11, <2>1, <2>3, AssignRefStep DEF Types
  <2> QED BY <2>2, <2>3
<1>12. CASE UndoContent
  <2>1. file' \in [Uids -> Contents \cup {NoFile}]
    BY <1>12, UndoContentStep DEF Types
  <2>2. lapses' \subseteq {"overlap", "cut", "undo", "link"}
    BY <1>12, UndoContentStep DEF Undone, Types
  <2> QED BY <1>12, <2>1, <2>2, UndoContentStep, Ends DEF Types
<1> QED
  BY <1>1, <1>2, <1>3, <1>4, <1>5, <1>6, <1>7, <1>8, <1>9, <1>10, <1>11, <1>12 DEF Updates

LEMMA EditStartStep ==
    ASSUME Types, EditStart
    PROVE  /\ edit = Idle /\ ~busy /\ ~apply /\ current \in Uids
           /\ edit' \in EditRecords /\ edit'.at = "save" /\ edit' # Idle /\ edit'.uid = current
           /\ upd' = Aborted /\ events' \in Nat /\ Lapses({})
           /\ UNCHANGED <<server, file, current, saved, storage, page, inst, installed>>
<1>1. current \in Uids
  BY DEF EditStart, Types
<1>2. [at |-> "save", uid |-> current] # Idle
  BY DEF Idle
<1> QED BY <1>1, <1>2 DEF EditStart, EditRecords, Event, Types

LEMMA EditSavedStep ==
    ASSUME Types, EditSaved
    PROVE  /\ edit # Idle /\ edit \in EditRecords /\ edit.at = "save" /\ edit.uid \in Uids
           /\ file[edit.uid] # NoFile
           /\ UNCHANGED <<server, current, saved, storage, page, upd, inst, bounds>>
           /\ file' \in [Uids -> Contents \cup {NoFile}]
           /\ file'[edit.uid] \in Contents /\ file'[edit.uid].of = "user"
           /\ \A u \in Uids : u # edit.uid => file'[u] = file[u]
           /\ \/ edit' = Idle
              \/ /\ ref \in Auths /\ ref.uid = edit.uid
                 /\ edit' \in EditRecords /\ edit'.at = "write"
                 /\ Alike(edit'.next, ref) /\ edit'.next.detached /\ edit'.next.hash = file'[edit.uid]
<1> DEFINE f == Nodes("user", events)
           next == [ref EXCEPT !.detached = TRUE, !.hash = file'[edit.uid]]
<1>1. edit # Idle /\ edit \in EditRecords /\ edit.at = "save" /\ edit.uid \in Uids
  BY Kinds DEF EditSaved
<1>2. f \in Contents /\ f.of = "user"
  BY DEF Nodes, Contents, Types
<1>3. /\ file' \in [Uids -> Contents \cup {NoFile}] /\ file'[edit.uid] = f
      /\ \A u \in Uids : u # edit.uid => file'[u] = file[u]
  BY <1>1, <1>2 DEF EditSaved, Types
<1>4. CASE ref = NoAuth \/ ref.uid # edit.uid
  <2>1. edit' = Idle
    BY <1>4 DEF EditSaved
  <2> HIDE DEF f
  <2> QED BY <1>1, <1>2, <1>3, <2>1 DEF EditSaved
<1>5. CASE ~(ref = NoAuth \/ ref.uid # edit.uid)
  <2>1. ref \in Auths /\ file'[edit.uid] \in Contents
    BY <1>2, <1>3, <1>5 DEF Types
  <2>2. Alike(next, ref) /\ next.detached /\ next.hash = file'[edit.uid]
    BY <2>1 DEF Auths, Alike
  <2>3. edit' = [at |-> "write", next |-> next]
    BY <1>5 DEF EditSaved
  <2> HIDE DEF f, next
  <2>4. edit' \in EditRecords /\ edit'.at = "write" /\ edit'.next = next
    BY <2>2, <2>3 DEF EditRecords, Alike
  <2> QED BY <1>1, <1>2, <1>3, <1>5, <2>1, <2>2, <2>4 DEF EditSaved
<1> QED BY <1>4, <1>5

LEMMA EditWriteStep ==
    ASSUME Types, EditWrite
    PROVE  /\ edit # Idle /\ edit.at = "write" /\ edit.next \in Auths
           /\ edit' \in EditRecords /\ edit'.at = "assign" /\ edit'.next = edit.next
           /\ saved' = edit.next
           /\ UNCHANGED <<server, file, current, storage, page, upd, inst, bounds>>
<1>1. edit # Idle /\ edit \in EditRecords /\ edit.at = "write" /\ edit.next \in Auths
  BY Kinds DEF EditWrite
<1> QED BY <1>1 DEF EditWrite, EditRecords

LEMMA RestTypes ==
    ASSUME Types, Course,
           \/ OpenCodeImport \/ CloseDialog \/ \E d \in Doors, c \in Codes : ImportStart(d, c)
           \/ EditStart \/ Edits \/ EditFails \/ \E c \in Codes : Publish(c)
           \/ Wake \/ Restart \/ UNCHANGED vars
    PROVE  Types'
<1> USE DEF server, page, bounds, Lapses
<1>1. CASE OpenCodeImport
  BY <1>1, AbortedStep DEF OpenCodeImport, Types, Stopped
<1>2. CASE CloseDialog
  BY <1>2 DEF CloseDialog, Types
<1>3. ASSUME NEW d \in Doors, NEW c \in Codes, ImportStart(d, c) PROVE Types'
  <2>1. upd' \in {Idle} \cup UpdateRecords
    BY <1>3, ImportStartStep, AbortedStep DEF Stopped
  <2>2. lapses' \subseteq {"overlap", "cut", "undo", "link"}
    BY <1>3, ImportStartStep DEF Types
  <2>3. installed' \in Nat
    BY <1>3, ImportStartStep, NoneIsNothing
  <2> QED BY <1>3, <2>1, <2>2, <2>3, ImportStartStep DEF Types, Installations
<1>4. CASE EditStart
  BY <1>4, EditStartStep, AbortedStep DEF Types, Stopped
<1>5. CASE EditSaved
  BY <1>5, EditSavedStep DEF Types
<1>6. CASE EditWrite
  BY <1>6, EditWriteStep DEF Types
<1>7. CASE EditAssign
  <2>1. upd' \in {Idle} \cup UpdateRecords
    BY <1>7, OvertakenStep DEF EditAssign, Stopped, Types
  <2>2. ref' \in Auths
    BY <1>7, Kinds DEF EditAssign
  <2> QED BY <1>7, <2>1, <2>2 DEF EditAssign, Types
<1>8. CASE EditFails
  BY <1>8 DEF EditFails, Event, Types
<1>9. ASSUME NEW c \in Codes, Publish(c) PROVE Types'
  <2>1. remote' \in [Codes -> Nat]
    BY <1>9 DEF Publish, Types
  <2> QED BY <1>9, <2>1 DEF Publish, Event, Types
<1>10. CASE Wake
  <2>1. UNCHANGED <<server, file, current, saved, storage, ref, busy, apply, entry, upd, inst, edit,
                    installed, lapses>>
        /\ events' = events + 1 /\ startupDone' = FALSE
    BY <1>10 DEF Wake, Event
  <2>2. startupDone' \in BOOLEAN
    BY <2>1
  <2> QED BY <2>1, <2>2 DEF Types
<1>11. CASE Restart
  <2>1. UNCHANGED <<server, file, current, saved, storage, installed>>
        /\ events' = events + 1 /\ ref' = saved
        /\ startupDone' = FALSE /\ busy' = FALSE /\ apply' = FALSE /\ entry' = FALSE
        /\ upd' = Idle /\ inst' = [d \in Doors |-> Idle] /\ edit' = Idle
    BY <1>11 DEF Restart, Event
  <2>2. lapses' \subseteq {"overlap", "cut", "undo", "link"}
    BY <1>11 DEF Restart, Types
  <2>3. startupDone' \in BOOLEAN /\ busy' \in BOOLEAN /\ apply' \in BOOLEAN /\ entry' \in BOOLEAN
    BY <2>1
  <2> QED BY <2>1, <2>2, <2>3 DEF Types
<1>12. CASE UNCHANGED vars
  BY <1>12 DEF vars, Types
<1> QED
  BY <1>1, <1>2, <1>3, <1>4, <1>5, <1>6, <1>7, <1>8, <1>9, <1>10, <1>11, <1>12 DEF Edits

LEMMA InitTypes == Init => Types
<1> SUFFICES ASSUME Init PROVE Types
  OBVIOUS
<1>1. PICK c \in Codes \cup {NoCode} :
        LET u == IF c = NoCode THEN NoUid ELSE 1
        IN /\ file = [v \in Uids |-> IF v = u THEN Nodes(c, 0) ELSE NoFile]
           /\ current = u
           /\ saved = IF c = NoCode THEN NoAuth ELSE Credential(c, u, 0, Nodes(c, 0))
           /\ storage = [code |-> c, uid |-> u, version |-> 0]
           /\ installed = u
  BY DEF Init
<1>2. 1 \in Uids /\ NoUid = 0
  BY SubscriptionAssumption DEF Uids, NoUid
<1>3. c # NoCode => Nodes(c, 0) \in Contents /\ Credential(c, 1, 0, Nodes(c, 0)) \in Auths
  BY <1>2 DEF Nodes, Contents, Credential, Auths
<1>4. /\ file \in [Uids -> Contents \cup {NoFile}] /\ current \in {NoUid} \cup Uids
      /\ saved \in Auths \cup {NoAuth} /\ storage \in Storages /\ installed \in Nat
  BY <1>1, <1>2, <1>3, NoneIsNothing DEF Storages
<1> QED BY <1>4 DEF Init, Types

------------------------------------------------------------------------------
(* The course of an update. *)

LEMMA CourseStays ==
    ASSUME Types, Course,
           \/ upd = Idle /\ upd' = Idle
           \/ upd # Idle /\ Stopped(upd, upd') /\ (upd'.same => ref' = ref)
    PROVE  Course'
<1>1. CASE upd' = Idle
  BY <1>1 DEF Course
<1>2. CASE upd' # Idle
  <2>1. upd \in UpdateRecords /\ Stopped(upd, upd') /\ (upd'.same => ref' = ref)
    BY <1>2, Kinds
  <2>2. upd # Idle
    BY <1>2
  <2> QED BY <2>1, <2>2 DEF Course, Stopped, Loaded
<1> QED BY <1>1, <1>2

\* an update that has begun: see Begun
LEMMA CourseBegun ==
    ASSUME Types, NEW u \in UpdateRecords, ref \in Auths, ref' = ref, Begun(u, upd'),
           u.same => ref = upd'.auth,
           u.kind = "check" => u.code \in Codes,
           u.kind = "manual" => u.forced,
           u.kind # "check" => ~u.aborted
    PROVE  Course'
<1>1. CASE upd'.at = "read"
  BY <1>1 DEF Course, Begun, Goes, Loaded
<1>2. CASE upd'.at = "write"
  BY <1>2, NoneIsNothing DEF Course, Begun, Goes, Loaded, Alike
<1> QED BY <1>1, <1>2 DEF Begun

LEMMA CourseStep == Types /\ Course /\ [Next]_vars => Course'
<1> SUFFICES ASSUME Types, Course, [Next]_vars PROVE Course'
  OBVIOUS
<1> USE DEF server, page, bounds
<1>1. ASSUME upd' = Idle PROVE Course'
  BY <1>1 DEF Course
<1>2. ASSUME NEW result, NEW r, UpdateEnds(result, r) PROVE Course'
  BY <1>1, <1>2 DEF UpdateEnds
<1>3. ASSUME UNCHANGED <<upd, ref>> PROVE Course'
  BY <1>3 DEF Course, Loaded
<1>4. ASSUME upd' = Aborted, UNCHANGED ref PROVE Course'
  BY <1>4, AbortedStep, CourseStays
<1>5. ASSUME upd' = Overtaken(Aborted) PROVE Course'
  BY <1>5, StoppedStep, CourseStays
<1>6. CASE CheckStart
  <2>1. upd'.at = "state" /\ upd'.kind = "check" /\ ~upd'.aborted /\ upd'.auth = ref /\ ref' = ref
        /\ upd'.code \in Codes
    BY <1>6, CheckStartStep
  <2> QED BY <2>1 DEF Course, Loaded
<1>7. ASSUME NEW k \in {"auto", "manual"}, UpdateStart(k) PROVE Course'
  <2>1. CASE upd' # Idle
    <3>1. PICK u \in UpdateRecords :
            u.kind = k /\ (k = "manual" => u.forced) /\ ~u.aborted /\ u.same /\ Begun(u, upd')
      BY <1>7, <2>1, UpdateStartStep
    <3>2. ref \in Auths /\ ref' = ref /\ upd'.auth = ref
      BY <1>7, <3>1, UpdateStartStep DEF Begun
    <3> QED BY <3>1, <3>2, CourseBegun
  <2> QED BY <1>1, <2>1
<1>8. CASE StateAnswers
  <2>1. CASE upd' # Idle
    <3>1. PICK u \in UpdateRecords :
            Goes(upd, u) /\ u.same = upd.same /\ u.version = remote[upd.code] /\ Begun(u, upd')
      BY <1>8, <2>1, StateAnswersStep DEF UpdateEnds
    <3>2. /\ ref \in Auths /\ ref' = ref /\ upd'.auth = ref
          /\ upd.kind = "check" /\ upd.code \in Codes /\ ~upd.aborted
      BY <1>8, <2>1, <3>1, StateAnswersStep DEF Begun, UpdateEnds
    <3> QED BY <3>1, <3>2, CourseBegun DEF Goes
  <2> QED BY <1>1, <2>1
<1>9. CASE ReadLocal
  <2>1. CASE ~UpdateEnds("failed", ref)
    <3>1. upd # Idle /\ Keeps(upd, upd') /\ ref' = ref /\ upd.at = "read"
      BY <1>9, <2>1, ReadLocalStep DEF Idle
    <3>2. CASE upd'.at = "write"
      BY <1>9, <2>1, <3>1, <3>2, ReadLocalStep, NoneIsNothing DEF Course, Keeps, Goes, Loaded, Alike
    <3>3. CASE upd'.at = "load"
      BY <1>9, <2>1, <3>1, <3>3, ReadLocalStep, NoneIsNothing DEF Course, Keeps, Goes, Loaded
    <3> QED BY <1>9, <2>1, <3>2, <3>3, ReadLocalStep
  <2> QED BY <1>2, <2>1
<1>10. CASE Refused
  <2>1. CASE ~UpdateEnds("failed", ref)
    <3>1. /\ upd # Idle /\ Keeps(upd, upd') /\ ref' = ref /\ upd.at = "load"
          /\ upd'.at = "renew" /\ upd.kind = "manual" /\ upd'.read = upd.read
      BY <1>10, <2>1, RefusedStep DEF Idle
    <3> QED BY <3>1 DEF Course, Keeps, Goes, Loaded
  <2> QED BY <1>2, <2>1
<1>11. CASE Renew
  <2>1. CASE ~UpdateEnds("failed", ref)
    <3>1. /\ upd # Idle /\ Keeps(upd, upd') /\ ref' = ref /\ upd.at = "renew"
          /\ upd'.at = "write" /\ upd'.then = "load" /\ upd'.read = upd.read /\ upd'.next \in Auths
          /\ upd'.next.hash = upd.auth.hash /\ upd'.next.detached = upd.auth.detached
      BY <1>11, <2>1, RenewStep DEF Idle, Alike
    <3> QED BY <3>1, NoneIsNothing DEF Course, Keeps, Goes, Loaded
  <2> QED BY <1>2, <2>1
<1>12. CASE Download
  <2>1. CASE ~UpdateEnds("failed", ref) /\ ~UpdateEnds("unchanged", ref)
    <3>1. /\ upd # Idle /\ Keeps(upd, upd') /\ ref' = ref /\ upd.at = "load"
          /\ upd'.read = upd.read /\ upd'.next \in Auths
          /\ upd'.at = "save" \/ (upd'.at = "write" /\ upd'.then = "unchanged")
      BY <1>12, <2>1, DownloadStep DEF Idle, Alike
    <3> QED BY <3>1, NoneIsNothing DEF Course, Keeps, Goes, Loaded
  <2> QED BY <1>2, <2>1
<1>13. CASE SaveContent
  <2>1. CASE ~UpdateEnds("failed", ref)
    <3>1. /\ upd # Idle /\ Keeps(upd, upd') /\ ref' = ref /\ upd.at = "save"
          /\ upd'.read = upd.read /\ upd'.next = upd.next /\ upd'.at = "back" /\ upd'.then = "updated"
      BY <1>13, <2>1, SaveContentStep DEF Idle
    <3> QED BY <3>1 DEF Course, Keeps, Goes, Loaded
  <2> QED BY <1>2, <2>1
<1>14. CASE ReadBack
  <2>1. /\ upd # Idle /\ Keeps(upd, upd') /\ ref' = ref /\ upd.at = "back"
        /\ upd'.read = upd.read /\ upd'.then = upd.then
        /\ upd'.at = "undo" \/ (upd'.at = "write" /\ upd'.next \in Auths)
    BY <1>14, ReadBackStep DEF Idle, Alike
  <2>2. upd.then = "updated"
    BY <2>1 DEF Course
  <2> QED BY <2>1, <2>2, NoneIsNothing DEF Course, Keeps, Goes, Loaded
<1>15. CASE WriteAuth
  <2>1. CASE ~UpdateEnds("failed", ref)
    <3>1. /\ upd # Idle /\ Keeps(upd, upd') /\ ref' = ref /\ upd.at = "write"
          /\ upd'.read = upd.read /\ upd'.then = upd.then /\ upd'.next = upd.next
          /\ upd'.at = "assign" \/ (upd'.at = "undo" /\ upd.then = "updated")
      BY <1>15, <2>1, WriteAuthStep DEF Idle
    <3> QED BY <3>1 DEF Course, Keeps, Goes, Loaded
  <2> QED BY <1>2, <2>1
<1>16. CASE AssignRef
  <2>1. CASE ~UpdateEnds(upd.then, upd.next)
    <3>1. /\ upd # Idle /\ Goes(upd, upd') /\ ref' = upd.next /\ upd'.auth = upd.next
          /\ upd.at = "assign" /\ upd.then = "load" /\ upd'.at = "load" /\ upd'.read = upd.read
      BY <1>16, <2>1, AssignRefStep DEF Idle
    <3> QED BY <3>1 DEF Course, Goes, Loaded
  <2> QED BY <1>2, <2>1
<1>17. CASE UndoContent
  BY <1>2, <1>17 DEF UndoContent
<1>18. CASE OpenCodeImport \/ CloseDialog \/ EditStart \/ EditSaved \/ EditWrite \/ EditFails
            \/ Wake \/ UNCHANGED vars \/ \E c \in Codes : Publish(c)
  BY <1>3, <1>4, <1>18 DEF OpenCodeImport, CloseDialog, EditStart, EditSaved, EditWrite, EditFails, Wake,
     Publish, vars
<1>19. CASE EditAssign
  <2>1. upd' = Overtaken(upd) /\ upd \in {Idle} \cup UpdateRecords
    BY <1>19 DEF EditAssign, Types
  <2> QED BY <2>1, OvertakenStep, CourseStays
<1>20. CASE Restart
  BY <1>1, <1>20 DEF Restart
<1>21. ASSUME NEW d \in Doors, NEW c \in Codes, ImportStart(d, c) PROVE Course'
  BY <1>4, <1>21 DEF ImportStart
<1>22. ASSUME NEW d \in Doors, Install(d) \/ InstallFails(d) PROVE Course'
  BY <1>3, <1>4, <1>5, <1>22 DEF Install, InstallFails, Exchange, LoadInstall, CreateProfile, Activate,
     CommitWrite, CommitAssign, Settle, SwitchBack, DropNew, RestoreWrite, RestoreAssign
<1> QED
  BY <1>6, <1>7, <1>8, <1>9, <1>10, <1>11, <1>12, <1>13, <1>14, <1>15, <1>16, <1>17, <1>18, <1>19,
     <1>20, <1>21, <1>22 DEF Next, Updates, Edits

------------------------------------------------------------------------------
(* Who holds the page. *)

LEMMA EndsReleased ==
    ASSUME Types, Released, NEW result, NEW r, upd \in UpdateRecords, UpdateEnds(result, r), inst' = inst
    PROVE  Released'
<1>1. upd' = Idle
  BY DEF UpdateEnds
<1>2. CASE upd.kind = "check" /\ Writing(upd)
  BY <1>1, <1>2 DEF UpdateEnds, Released
<1>3. CASE upd.kind = "check" /\ ~Writing(upd)
  <2>1. UNCHANGED <<apply, busy>>
    BY <1>3 DEF UpdateEnds
  <2> QED BY <1>1, <1>3, <2>1 DEF Released
<1>4. CASE upd.kind # "check"
  <2>1. busy' = FALSE /\ apply' = apply
    BY <1>4 DEF UpdateEnds
  <2> QED BY <1>1, <1>4, <2>1 DEF Released
<1> QED BY <1>2, <1>3, <1>4

\* the update goes on, and writes or not as it did
LEMMA GoesReleased ==
    ASSUME Types, Released, UNCHANGED <<apply, busy>>,
           upd # Idle => upd' # Idle /\ upd'.kind = upd.kind /\ (Writing(upd) => Writing(upd')),
           \A d \in Doors : inst[d] # Idle => inst'[d] # Idle
    PROVE  Released'
BY DEF Released

LEMMA ReleasedStep == Types /\ Course /\ Released /\ [Next]_vars => Released'
<1> SUFFICES ASSUME Types, Course, Released, [Next]_vars PROVE Released'
  OBVIOUS
<1> USE DEF server, page, bounds
<1>1. ASSUME NEW d \in Doors PROVE \A i \in Exchanges \cup Loads \cup Installs : i # Idle
  BY DEF Exchanges, Loads, Installs, Idle
<1>2. \A u \in UpdateRecords : u # Idle
  BY DEF UpdateRecords, Idle, Places
<1>3. ASSUME UNCHANGED <<apply, busy, upd>>, \A d \in Doors : inst[d] # Idle => inst'[d] # Idle
      PROVE  Released'
  BY <1>3, GoesReleased
<1>4. ASSUME UNCHANGED <<apply, busy>>, upd' = Aborted, \A d \in Doors : inst[d] # Idle => inst'[d] # Idle
      PROVE  Released'
  <2>1. upd # Idle => upd' # Idle /\ upd'.kind = upd.kind /\ (Writing(upd) => Writing(upd'))
    BY <1>2, <1>4, AbortedStep DEF Stopped, Writing
  <2> QED BY <1>4, <2>1, GoesReleased
<1>5. ASSUME UNCHANGED <<apply, busy>>, upd' = Overtaken(Aborted), \A d \in Doors : inst[d] # Idle => inst'[d] # Idle
      PROVE  Released'
  <2>1. upd # Idle => upd' # Idle /\ upd'.kind = upd.kind /\ (Writing(upd) => Writing(upd'))
    BY <1>2, <1>5, StoppedStep DEF Stopped, Writing
  <2> QED BY <1>5, <2>1, GoesReleased
<1>6. CASE CheckStart
  BY <1>6, CheckStartStep DEF Released
<1>7. ASSUME NEW k \in {"auto", "manual"}, UpdateStart(k) PROVE Released'
  <2>1. /\ upd = Idle /\ ~busy /\ busy' = (upd' # Idle) /\ UNCHANGED <<apply, inst>>
        /\ upd' # Idle => upd'.kind = k
    BY <1>7, UpdateStartStep DEF Begun, Goes
  <2> QED BY <2>1 DEF Released
<1>8. CASE StateAnswers
  <2>1. upd \in UpdateRecords /\ upd.at = "state" /\ upd.kind = "check" /\ inst' = inst
    BY <1>8, StateAnswersStep
  <2>2. CASE UpdateEnds("failed", ref) \/ UpdateEnds("current", ref)
    BY <2>1, <2>2, EndsReleased
  <2>3. CASE ~(UpdateEnds("failed", ref) \/ UpdateEnds("current", ref))
    <3>1. IF upd'.at = "write" THEN Hold ELSE UNCHANGED <<apply, busy>>
      BY <1>8, <2>3, StateAnswersStep
    <3>2. upd' = Idle \/ (upd' # Idle /\ upd'.kind = "check" /\ upd'.at \in {"write", "read"})
      BY <1>2, <1>8, <2>1, <2>3, StateAnswersStep DEF Begun, Goes
    <3>3. CASE upd'.at = "write"
      BY <2>1, <3>1, <3>2, <3>3 DEF Released, Writing, Hold, Idle
    <3>4. CASE upd'.at # "write"
      <4>1. ~Writing(upd) /\ UNCHANGED <<apply, busy>>
        BY <2>1, <3>1, <3>4 DEF Writing
      <4> QED BY <2>1, <3>2, <4>1 DEF Released
    <3> QED BY <3>3, <3>4
  <2> QED BY <2>2, <2>3
<1>9. ASSUME upd \in UpdateRecords, ~Writing(upd), Hold, Keeps(upd, upd'), Writing(upd'), inst' = inst
      PROVE  Released'
  <2>1. CASE upd.kind = "check"
    BY <1>2, <1>9, <2>1 DEF Released, Hold, Keeps, Goes
  <2>2. CASE upd.kind # "check"
    BY <1>2, <1>9, <2>2 DEF Released, Hold, Keeps, Goes
  <2> QED BY <2>1, <2>2
<1>10. ASSUME upd \in UpdateRecords, UNCHANGED <<apply, busy>>, Goes(upd, upd'),
              Writing(upd) => Writing(upd') \/ upd.kind # "check", inst' = inst
       PROVE  Released'
  BY <1>2, <1>10 DEF Released, Goes
<1>11. CASE ReadLocal
  <2>1. upd \in UpdateRecords /\ upd.at = "read" /\ inst' = inst
    BY <1>11, ReadLocalStep
  <2>2. CASE UpdateEnds("failed", ref)
    BY <2>1, <2>2, EndsReleased
  <2>3. CASE ~UpdateEnds("failed", ref)
    BY <1>9, <1>10, <1>11, <2>1, <2>3, ReadLocalStep DEF Writing, Keeps
  <2> QED BY <2>2, <2>3
<1>12. CASE Refused
  <2>1. upd \in UpdateRecords /\ upd.at = "load" /\ inst' = inst
    BY <1>12, RefusedStep
  <2>2. CASE UpdateEnds("failed", ref)
    BY <2>1, <2>2, EndsReleased
  <2>3. CASE ~UpdateEnds("failed", ref)
    BY <1>10, <1>12, <2>1, <2>3, RefusedStep DEF Writing, Keeps
  <2> QED BY <2>2, <2>3
<1>13. CASE Renew
  <2>1. upd \in UpdateRecords /\ upd.at = "renew" /\ inst' = inst
    BY <1>13, RenewStep
  <2>2. CASE UpdateEnds("failed", ref)
    BY <2>1, <2>2, EndsReleased
  <2>3. CASE ~UpdateEnds("failed", ref)
    BY <1>10, <1>13, <2>1, <2>3, RenewStep DEF Writing, Keeps
  <2> QED BY <2>2, <2>3
<1>14. CASE Download
  <2>1. upd \in UpdateRecords /\ upd.at = "load" /\ inst' = inst
    BY <1>14, DownloadStep
  <2>2. CASE UpdateEnds("failed", ref) \/ UpdateEnds("unchanged", ref)
    BY <2>1, <2>2, EndsReleased
  <2>3. CASE ~(UpdateEnds("failed", ref) \/ UpdateEnds("unchanged", ref))
    BY <1>9, <1>14, <2>1, <2>3, DownloadStep DEF Writing
  <2> QED BY <2>2, <2>3
<1>15. CASE SaveContent
  <2>1. upd \in UpdateRecords /\ inst' = inst
    BY <1>15, SaveContentStep
  <2>2. CASE UpdateEnds("failed", ref)
    BY <2>1, <2>2, EndsReleased
  <2>3. CASE ~UpdateEnds("failed", ref)
    BY <1>10, <1>15, <2>1, <2>3, SaveContentStep DEF Writing, Keeps
  <2> QED BY <2>2, <2>3
<1>16. CASE ReadBack
  BY <1>10, <1>16, ReadBackStep DEF Writing, Keeps
<1>17. CASE WriteAuth
  <2>1. upd \in UpdateRecords /\ inst' = inst
    BY <1>17, WriteAuthStep
  <2>2. CASE UpdateEnds("failed", ref)
    BY <2>1, <2>2, EndsReleased
  <2>3. CASE ~UpdateEnds("failed", ref)
    BY <1>10, <1>17, <2>1, <2>3, WriteAuthStep DEF Writing, Keeps
  <2> QED BY <2>2, <2>3
<1>18. CASE AssignRef
  <2>1. upd \in UpdateRecords /\ upd # Idle /\ inst' = inst /\ upd.at = "assign"
    BY <1>2, <1>18, AssignRefStep
  <2>2. CASE UpdateEnds(upd.then, upd.next)
    BY <2>1, <2>2, EndsReleased
  <2>3. CASE ~UpdateEnds(upd.then, upd.next)
    <3>1. upd.then = "load" /\ Goes(upd, upd') /\ UNCHANGED <<apply, busy>>
      BY <1>18, <2>3, AssignRefStep
    <3>2. upd.kind = "manual"
      BY <2>1, <3>1 DEF Course
    <3> QED BY <1>10, <2>1, <3>1, <3>2
  <2> QED BY <2>2, <2>3
<1>19. CASE UndoContent
  BY <1>19, UndoContentStep, EndsReleased
<1>20. CASE OpenCodeImport \/ CloseDialog \/ EditStart \/ EditSaved \/ EditWrite \/ EditFails
            \/ Wake \/ UNCHANGED vars \/ \E c \in Codes : Publish(c)
  BY <1>3, <1>4, <1>20 DEF OpenCodeImport, CloseDialog, EditStart, EditSaved, EditWrite, EditFails, Wake,
     Publish, vars
<1>21. CASE EditAssign
  <2>1. upd' = Overtaken(upd) /\ upd \in {Idle} \cup UpdateRecords /\ UNCHANGED <<apply, busy, inst>>
    BY <1>21 DEF EditAssign, Types
  <2>2. upd # Idle => upd' # Idle /\ upd'.kind = upd.kind /\ (Writing(upd) => Writing(upd'))
    BY <1>2, <2>1, OvertakenStep DEF Stopped, Writing
  <2> QED BY <2>1, <2>2, GoesReleased
<1>22. CASE Restart
  BY <1>22 DEF Restart, Released
<1>23. ASSUME NEW d \in Doors, busy' = FALSE, apply' = apply, \/ upd' = upd
                                                             \/ upd' = Aborted
                                                             \/ upd' = Overtaken(Aborted)
       PROVE  Released'
  <2>1. upd # Idle => upd' # Idle /\ upd'.kind = upd.kind /\ (Writing(upd) => Writing(upd'))
    BY <1>2, <1>23, AbortedStep, StoppedStep DEF Stopped, Writing
  <2> QED BY <1>23, <2>1 DEF Released
<1>24. ASSUME NEW d \in Doors, NEW c \in Codes, ImportStart(d, c) PROVE Released'
  <2>1. /\ inst'[d] # Idle /\ apply = FALSE /\ UNCHANGED apply
    BY <1>1, <1>24, ImportStartStep DEF Types
  <2> QED BY <2>1 DEF Released
<1>25. ASSUME NEW d \in Doors, Install(d) \/ InstallFails(d) PROVE Released'
  <2>1. CASE Exchange(d)
    <3>1. CASE busy' = FALSE
      BY <1>23, <2>1, <3>1, ExchangeStep
    <3>2. CASE busy' # FALSE
      BY <1>1, <1>3, <2>1, <3>2, ExchangeStep DEF Others
    <3> QED BY <3>1, <3>2
  <2>2. CASE LoadInstall(d)
    <3>1. CASE busy' = FALSE
      BY <1>23, <2>2, <3>1, LoadInstallStep
    <3>2. CASE busy' # FALSE
      BY <1>1, <1>3, <2>2, <3>2, LoadInstallStep DEF Others
    <3> QED BY <3>1, <3>2
  <2>3. ASSUME NEW at, Moves(d, at), UNCHANGED <<apply, busy>>,
               upd' = upd \/ upd' = Aborted \/ upd' = Overtaken(Aborted)
        PROVE  Released'
    <3>1. \A e \in Doors : inst[e] # Idle => inst'[e] # Idle
      BY <1>1, <2>3 DEF Moves
    <3> QED BY <1>3, <1>4, <1>5, <2>3, <3>1
  <2>4. inst[d].at \notin {"idle", "exchange", "load"} => inst[d] \in Installs
    BY Kinds
  <2>5. CASE CreateProfile(d)
    BY <2>3, <2>4, <2>5, InstMoves DEF CreateProfile
  <2>6. CASE Activate(d)
    BY <2>3, <2>4, <2>6, InstMoves DEF Activate
  <2>7. CASE CommitWrite(d)
    BY <2>3, <2>4, <2>7, InstMoves DEF CommitWrite
  <2>8. CASE CommitAssign(d)
    BY <2>3, <2>4, <2>8, InstMoves DEF CommitAssign
  <2>9. CASE Settle(d)
    BY <1>23, <2>9 DEF Settle
  <2>10. CASE SwitchBack(d)
    <3>1. Moves(d, "drop") \/ Moves(d, "rewrite")
      BY <2>4, <2>10, InstMoves DEF SwitchBack
    <3> QED BY <2>3, <2>10, <3>1 DEF SwitchBack
  <2>11. CASE DropNew(d)
    BY <2>3, <2>4, <2>11, InstMoves DEF DropNew
  <2>12. CASE RestoreWrite(d)
    <3>1. Moves(d, "restore") \/ Moves(d, "storage")
      BY <2>4, <2>12, InstMoves DEF RestoreWrite
    <3> QED BY <2>3, <2>12, <3>1 DEF RestoreWrite
  <2>13. CASE RestoreAssign(d)
    BY <1>23, <2>13 DEF RestoreAssign, ImportFails
  <2>14. CASE InstallFails(d)
    BY <2>3, <2>4, <2>14, InstMoves DEF InstallFails
  <2> QED
    BY <1>25, <2>1, <2>2, <2>5, <2>6, <2>7, <2>8, <2>9, <2>10, <2>11, <2>12, <2>13, <2>14 DEF Install
<1> QED
  BY <1>6, <1>7, <1>8, <1>11, <1>12, <1>13, <1>14, <1>15, <1>16, <1>17, <1>18, <1>19, <1>20, <1>21, <1>22,
     <1>24, <1>25 DEF Next, Updates, Edits

------------------------------------------------------------------------------
(* What an installation's step leaves of it. *)

LEMMA InstallShape ==
    ASSUME Types, NEW d \in Doors, Install(d) \/ InstallFails(d)
    PROVE  /\ UNCHANGED <<remote, installed, edit, apply>>
           /\ upd' = upd \/ upd' = Aborted \/ upd' = Overtaken(Aborted)
           /\ \/ storage' = storage
              \/ inst[d] \in Installs /\ storage' = NewStorage(inst[d].auth)
              \/ inst[d] \in Installs /\ storage' = inst[d].previous.storage
           /\ inst[d] # Idle /\ inst' \in Installations /\ Others(d)
           /\ \/ inst'[d] = Idle
              \/ inst'[d] \in Loads /\ inst'[d].uid = inst[d].uid
              \/ /\ inst'[d] \in Installs /\ inst'[d].uid = inst[d].uid
                 /\ \/ inst'[d].auth.uid = inst[d].uid /\ inst'[d].previous.storage = storage /\ storage' = storage
                    \/ /\ inst[d] \in Installs
                       /\ inst'[d].auth = inst[d].auth /\ inst'[d].previous = inst[d].previous
<1> USE DEF server, page, bounds
<1>1. inst[d].at \notin {"idle", "exchange", "load"} => inst[d] \in Installs
  BY Kinds
<1>2. ASSUME NEW at, Moves(d, at), inst[d] \in Installs
      PROVE  /\ inst[d] # Idle /\ inst' \in Installations /\ Others(d) /\ inst'[d] \in Installs
             /\ inst'[d].uid = inst[d].uid /\ inst'[d].auth = inst[d].auth
             /\ inst'[d].previous = inst[d].previous
  BY <1>2 DEF Moves, Others, Installs, Idle
<1>3. CASE Exchange(d)
  <2>1. inst[d] # Idle
    BY <1>3, ExchangeStep DEF Exchanges, Idle
  <2> QED BY <1>3, <2>1, ExchangeStep DEF Cleared
<1>4. CASE LoadInstall(d)
  <2>1. inst[d] # Idle
    BY <1>4, Kinds, LoadInstallStep
  <2> QED BY <1>4, <2>1, LoadInstallStep DEF Cleared
<1>5. CASE CreateProfile(d)
  <2>1. inst[d] \in Installs /\ Moves(d, "activate")
    BY <1>1, <1>5, InstMoves DEF CreateProfile
  <2> QED BY <1>2, <1>5, <2>1 DEF CreateProfile
<1>6. CASE Activate(d)
  <2>1. inst[d] \in Installs /\ Moves(d, "write")
    BY <1>1, <1>6, InstMoves DEF Activate
  <2> QED BY <1>2, <1>6, <2>1 DEF Activate
<1>7. CASE CommitWrite(d)
  <2>1. inst[d] \in Installs /\ Moves(d, "assign")
    BY <1>1, <1>7, InstMoves DEF CommitWrite
  <2> QED BY <1>2, <1>7, <2>1 DEF CommitWrite
<1>8. CASE CommitAssign(d)
  <2>1. inst[d] \in Installs /\ Moves(d, "settle")
    BY <1>1, <1>8, InstMoves DEF CommitAssign
  <2>2. storage' = NewStorage(inst[d].auth)
    BY <1>8 DEF CommitAssign, NewStorage
  <2> QED BY <1>2, <1>8, <2>1, <2>2 DEF CommitAssign
<1>9. CASE Settle(d)
  <2>1. inst[d] # Idle /\ Cleared(d)
    BY <1>9, Kinds, ClearedStep DEF Settle
  <2> QED BY <1>9, <2>1 DEF Settle, Cleared
<1>10. CASE SwitchBack(d)
  <2>1. inst[d] \in Installs /\ (Moves(d, "drop") \/ Moves(d, "rewrite"))
    BY <1>1, <1>10, InstMoves DEF SwitchBack
  <2> QED BY <1>2, <1>10, <2>1 DEF SwitchBack
<1>11. CASE DropNew(d)
  <2>1. inst[d] \in Installs /\ Moves(d, "rewrite")
    BY <1>1, <1>11, InstMoves DEF DropNew
  <2> QED BY <1>2, <1>11, <2>1 DEF DropNew
<1>12. CASE RestoreWrite(d)
  <2>1. inst[d] \in Installs /\ (Moves(d, "restore") \/ Moves(d, "storage"))
    BY <1>1, <1>12, InstMoves DEF RestoreWrite
  <2> QED BY <1>2, <1>12, <2>1 DEF RestoreWrite
<1>13. CASE RestoreAssign(d)
  <2>1. inst[d] \in Installs /\ inst[d] # Idle
    BY <1>1, <1>13 DEF RestoreAssign, Idle
  <2>2. Cleared(d)
    BY <1>13, ClearedStep DEF RestoreAssign, ImportFails
  <2> QED BY <1>13, <2>1, <2>2 DEF RestoreAssign, Cleared
<1>14. CASE InstallFails(d)
  <2>1. inst[d] \in Installs /\ Moves(d, "back")
    BY <1>1, <1>14, InstMoves DEF InstallFails
  <2> QED BY <1>2, <1>14, <2>1 DEF InstallFails
<1> QED BY <1>3, <1>4, <1>5, <1>6, <1>7, <1>8, <1>9, <1>10, <1>11, <1>12, <1>13, <1>14 DEF Install

------------------------------------------------------------------------------
(* Versions are published ones, and uids are drawn ones. *)

LEMMA RemoteGrows == Types /\ [Next]_vars => \A c \in Codes : remote[c] <= remote'[c]
<1> SUFFICES ASSUME Types, [Next]_vars PROVE \A c \in Codes : remote[c] <= remote'[c]
  OBVIOUS
<1> USE DEF server
<1>1. ASSUME remote' = remote PROVE \A c \in Codes : remote[c] <= remote'[c]
  BY <1>1 DEF Types
<1>2. ASSUME NEW c \in Codes, Publish(c) PROVE \A e \in Codes : remote[e] <= remote'[e]
  BY <1>2 DEF Types, Publish
<1>3. ASSUME NEW d \in Doors, Install(d) \/ InstallFails(d) PROVE remote' = remote
  BY <1>3, InstallShape
<1>4. CASE CheckStart \/ Updates \/ \E k \in {"auto", "manual"} : UpdateStart(k)
  BY <1>1, <1>4 DEF CheckStart, Updates, UpdateStart, StateAnswers, ReadLocal, Refused, Renew, Download,
     SaveContent, ReadBack, WriteAuth, AssignRef, UndoContent
<1>5. CASE \/ OpenCodeImport \/ CloseDialog \/ EditStart \/ Edits \/ EditFails \/ Wake \/ Restart
           \/ UNCHANGED vars \/ \E d \in Doors, c \in Codes : ImportStart(d, c)
  BY <1>1, <1>5 DEF OpenCodeImport, CloseDialog, EditStart, Edits, EditSaved, EditWrite, EditAssign, EditFails,
     Wake, Restart, vars, ImportStart
<1> QED BY <1>1, <1>2, <1>3, <1>4, <1>5 DEF Next

\* the update's own storage, or none; what the rest keeps
LEMMA VersionsStay ==
    ASSUME Types, Course, Versions, \A c \in Codes : remote[c] <= remote'[c], remote' \in [Codes -> Nat],
           UNCHANGED <<storage, inst>>,
           \/ upd' = Idle \/ upd'.kind # "check"
           \/ upd # Idle /\ upd'.kind = upd.kind /\ upd'.code = upd.code /\ upd'.version = upd.version
    PROVE  Versions'
<1>1. storage \in Storages /\ \A d \in Doors : inst[d] \in Installs => inst[d].previous.storage \in Storages
  BY InstallKinds DEF Types
<1>2. storage.code # NoCode => storage.version <= remote'[storage.code]
  BY <1>1 DEF Versions, Storages, Types
<1>3. upd' # Idle /\ upd'.kind = "check" => upd'.version <= remote'[upd'.code]
  <2> SUFFICES ASSUME upd' # Idle, upd'.kind = "check" PROVE upd'.version <= remote'[upd'.code]
    OBVIOUS
  <2>1. upd # Idle /\ upd.kind = "check" /\ upd'.code = upd.code /\ upd'.version = upd.version
    OBVIOUS
  <2>2. upd \in UpdateRecords /\ upd.code \in Codes /\ upd.version <= remote[upd.code]
    BY <2>1, Kinds DEF Course, Versions
  <2> QED BY <2>1, <2>2 DEF UpdateRecords, Types
<1>4. ASSUME NEW d \in Doors, inst[d] \in Installs, inst[d].previous.storage.code # NoCode
      PROVE  inst[d].previous.storage.version <= remote'[inst[d].previous.storage.code]
  BY <1>1, <1>4 DEF Versions, Storages, Types
<1> QED BY <1>2, <1>3, <1>4 DEF Versions

LEMMA EndsVersions ==
    ASSUME Types, Course, Versions, NEW result, NEW r, upd \in UpdateRecords, UpdateEnds(result, r),
           UNCHANGED <<remote, inst>>
    PROVE  Versions'
<1>1. upd # Idle /\ upd' = Idle
  BY DEF UpdateEnds, UpdateRecords, Idle, Places
<1>2. storage'.code = storage.code /\ (storage' = storage \/ (Consumes(result, r) /\ storage'.version = upd.version))
  BY Ends
<1>3. CASE Consumes(result, r) /\ storage'.version = upd.version
  <2>1. upd.code \in Codes /\ upd.version <= remote[upd.code] /\ Account = upd.code
    BY <1>1, <1>3 DEF Consumes, Course, Versions
  <2>2. upd.code = storage.code
    BY <2>1, NoneIsNothing DEF Account
  <2> QED BY <1>1, <1>2, <1>3, <2>1, <2>2 DEF Versions
<1>4. CASE storage' = storage
  BY <1>1, <1>4 DEF Versions
<1> QED BY <1>2, <1>3, <1>4

LEMMA VersionsStep == Types /\ Course /\ Versions /\ [Next]_vars => Versions'
<1> SUFFICES ASSUME Types, Course, Versions, [Next]_vars PROVE Versions'
  OBVIOUS
<1> USE DEF server, page, bounds
<1>0. \A c \in Codes : remote[c] <= remote'[c]
  BY RemoteGrows
<1>1. ASSUME remote' \in [Codes -> Nat], UNCHANGED <<storage, inst>>,
             upd' = upd \/ upd' = Aborted \/ upd' = Idle \/ upd' = Overtaken(upd)
      PROVE  Versions'
  <2>1. \/ upd' = Idle
        \/ upd # Idle /\ upd'.kind = upd.kind /\ upd'.code = upd.code /\ upd'.version = upd.version
    BY <1>1, AbortedStep, OvertakenStep DEF Stopped, Types
  <2> QED BY <1>0, <1>1, <2>1, VersionsStay
<1>2. remote \in [Codes -> Nat]
  BY DEF Types
<1>3. ASSUME upd \in UpdateRecords, upd # Idle, UNCHANGED <<remote, storage, inst>>, Goes(upd, upd'),
             upd'.version = upd.version
      PROVE  Versions'
  BY <1>0, <1>2, <1>3, VersionsStay DEF Goes
<1>4. CASE CheckStart
  <2>1. /\ UNCHANGED <<remote, storage, inst>> /\ upd'.version = storage.version
        /\ upd'.code = storage.code /\ upd'.code \in Codes
    BY <1>4, CheckStartStep
  <2> QED BY <2>1, NoneIsNothing DEF Versions
<1>5. ASSUME NEW k \in {"auto", "manual"}, UpdateStart(k) PROVE Versions'
  <2>1. UNCHANGED <<remote, storage, inst>> /\ (upd' = Idle \/ upd'.kind # "check")
    BY <1>5, UpdateStartStep DEF Begun, Goes
  <2> QED BY <1>0, <1>2, <2>1, VersionsStay
<1>6. CASE StateAnswers
  <2>1. upd \in UpdateRecords /\ upd.kind = "check" /\ upd.code \in Codes /\ UNCHANGED <<remote, inst>>
    BY <1>6, StateAnswersStep
  <2>2. CASE UpdateEnds("failed", ref) \/ UpdateEnds("current", ref)
    BY <2>1, <2>2, EndsVersions
  <2>3. CASE ~(UpdateEnds("failed", ref) \/ UpdateEnds("current", ref))
    <3>1. storage' = storage
      BY <1>6, <2>3, StateAnswersStep
    <3>2. CASE upd' = Idle
      BY <1>1, <1>2, <2>1, <3>1, <3>2
    <3>3. CASE upd' # Idle
      <4>1. upd'.version = remote[upd.code] /\ upd'.code = upd.code /\ remote[upd.code] \in Nat
        BY <1>2, <1>6, <2>1, <2>3, <3>3, StateAnswersStep DEF Begun, Goes
      <4> QED BY <2>1, <3>1, <4>1 DEF Versions
    <3> QED BY <3>2, <3>3
  <2> QED BY <2>2, <2>3
<1>7. CASE Updates /\ ~StateAnswers
  <2>1. ASSUME NEW result, NEW r, upd \in UpdateRecords, UNCHANGED <<remote, inst>>, UpdateEnds(result, r)
        PROVE  Versions'
    BY <2>1, EndsVersions
  <2>2. upd # Idle /\ upd \in UpdateRecords
    BY <1>7, Kinds DEF Updates, ReadLocal, Refused, Renew, Download, SaveContent, ReadBack, WriteAuth, AssignRef,
       UndoContent, Idle
  <2>3. CASE ReadLocal
    BY <1>3, <2>1, <2>2, <2>3, ReadLocalStep DEF Keeps
  <2>4. CASE Refused
    BY <1>3, <2>1, <2>2, <2>4, RefusedStep DEF Keeps
  <2>5. CASE Renew
    BY <1>3, <2>1, <2>2, <2>5, RenewStep DEF Keeps
  <2>6. CASE Download
    BY <1>3, <2>1, <2>2, <2>6, DownloadStep DEF Keeps
  <2>7. CASE SaveContent
    BY <1>3, <2>1, <2>2, <2>7, SaveContentStep DEF Keeps
  <2>8. CASE ReadBack
    BY <1>3, <2>2, <2>8, ReadBackStep DEF Keeps
  <2>9. CASE WriteAuth
    BY <1>3, <2>1, <2>2, <2>9, WriteAuthStep DEF Keeps
  <2>10. CASE AssignRef
    BY <1>3, <2>1, <2>2, <2>10, AssignRefStep
  <2>11. CASE UndoContent
    BY <2>1, <2>2, <2>11, UndoContentStep
  <2> QED BY <1>7, <2>3, <2>4, <2>5, <2>6, <2>7, <2>8, <2>9, <2>10, <2>11 DEF Updates
<1>8. CASE \/ OpenCodeImport \/ CloseDialog \/ EditStart \/ Edits \/ EditFails \/ Wake \/ UNCHANGED vars
  BY <1>1, <1>2, <1>8 DEF OpenCodeImport, CloseDialog, EditStart, Edits, EditSaved, EditWrite, EditAssign,
     EditFails, Wake, vars
<1>9. ASSUME NEW c \in Codes, Publish(c) PROVE Versions'
  <2>1. remote' \in [Codes -> Nat] /\ UNCHANGED <<storage, inst, upd>>
    BY <1>2, <1>9 DEF Publish
  <2> QED BY <1>1, <2>1
<1>10. CASE Restart
  <2>1. \A d \in Doors : inst'[d] \notin Installs
    BY <1>10 DEF Restart, Installs, Idle
  <2> QED BY <1>10, <2>1 DEF Restart, Versions
<1>11. ASSUME NEW d \in Doors, NEW c \in Codes, ImportStart(d, c) PROVE Versions'
  <2>1. /\ UNCHANGED <<remote, storage>> /\ inst'[d] \in Exchanges /\ Others(d) /\ upd' = Aborted
    BY <1>11, ImportStartStep
  <2>2. inst'[d] \notin Installs
    BY <2>1 DEF Exchanges, Installs
  <2>3. upd' # Idle /\ upd'.kind = "check" =>
           upd # Idle /\ upd.kind = "check" /\ upd'.code = upd.code /\ upd'.version = upd.version
    BY <2>1, AbortedStep DEF Stopped
  <2> QED BY <2>1, <2>2, <2>3 DEF Versions, Others
<1>12. ASSUME NEW d \in Doors, Install(d) \/ InstallFails(d) PROVE Versions'
  <2>1. /\ remote' = remote /\ Others(d)
        /\ \/ storage' = storage
           \/ inst[d] \in Installs /\ storage' = NewStorage(inst[d].auth)
           \/ inst[d] \in Installs /\ storage' = inst[d].previous.storage
    BY <1>12, InstallShape
  <2>2. upd' # Idle /\ upd'.kind = "check" =>
           upd # Idle /\ upd.kind = "check" /\ upd'.code = upd.code /\ upd'.version = upd.version
    BY <1>12, InstallShape, AbortedStep, StoppedStep DEF Stopped
  <2>3. storage'.code # NoCode => storage'.version <= remote[storage'.code]
    <3>1. CASE inst[d] \in Installs /\ storage' = NewStorage(inst[d].auth)
      <4>1. inst[d].auth.code \in Codes
        BY <3>1, InstallKinds, NoneIsNothing
      <4> QED BY <1>2, <3>1, <4>1 DEF NewStorage
    <3> QED BY <2>1, <3>1 DEF Versions
  <2>4. inst'[d] \in Installs =>
          LET s == inst'[d].previous.storage IN s.code # NoCode => s.version <= remote[s.code]
    <3>1. CASE inst'[d] \in Installs
      <4>1. \/ inst'[d].previous.storage = storage
            \/ inst[d] \in Installs /\ inst'[d].previous = inst[d].previous
        BY <1>12, <3>1, InstallShape DEF Loads, Installs, Idle
      <4> QED BY <4>1 DEF Versions
    <3> QED BY <3>1
  <2> QED BY <2>1, <2>2, <2>3, <2>4 DEF Versions, Others
<1> QED BY <1>4, <1>5, <1>6, <1>7, <1>8, <1>9, <1>10, <1>11, <1>12 DEF Next

LEMMA FreshStep == Types /\ Course /\ Fresh /\ [Next]_vars => Fresh'
<1> SUFFICES ASSUME Types, Course, Fresh, [Next]_vars PROVE Fresh'
  OBVIOUS
<1> USE DEF server, page, bounds
<1>0. /\ installed \in Nat /\ storage \in Storages
      /\ \A d \in Doors : inst[d] \in Installs =>
            inst[d].uid \in Uids /\ inst[d].previous.storage \in Storages /\ inst[d] # Idle
  BY InstallKinds DEF Types, Installs, Idle
<1>1. ASSUME UNCHANGED <<inst, installed>>, storage'.uid = storage.uid PROVE Fresh'
  BY <1>1 DEF Fresh
<1>2. CASE CheckStart \/ \E k \in {"auto", "manual"} : UpdateStart(k)
  BY <1>1, <1>2 DEF CheckStart, UpdateStart
<1>3. CASE Updates
  <2>1. upd \in UpdateRecords
    BY <1>3, Kinds DEF Updates, StateAnswers, ReadLocal, Refused, Renew, Download, SaveContent, ReadBack,
       WriteAuth, AssignRef, UndoContent
  <2>2. ASSUME NEW result, NEW r, UpdateEnds(result, r), UNCHANGED <<inst, installed>> PROVE Fresh'
    BY <1>1, <2>1, <2>2, Ends
  <2>3. CASE StateAnswers
    BY <1>1, <2>2, <2>3, StateAnswersStep
  <2>4. CASE ReadLocal
    BY <1>1, <2>2, <2>4, ReadLocalStep
  <2>5. CASE Refused
    BY <1>1, <2>2, <2>5, RefusedStep
  <2>6. CASE Renew
    BY <1>1, <2>2, <2>6, RenewStep
  <2>7. CASE Download
    BY <1>1, <2>2, <2>7, DownloadStep
  <2>8. CASE SaveContent
    BY <1>1, <2>2, <2>8, SaveContentStep
  <2>9. CASE ReadBack
    BY <1>1, <2>9, ReadBackStep
  <2>10. CASE WriteAuth
    BY <1>1, <2>2, <2>10, WriteAuthStep
  <2>11. CASE AssignRef
    BY <1>1, <2>2, <2>11, AssignRefStep
  <2>12. CASE UndoContent
    BY <2>2, <2>12, UndoContentStep
  <2> QED BY <1>3, <2>3, <2>4, <2>5, <2>6, <2>7, <2>8, <2>9, <2>10, <2>11, <2>12 DEF Updates
<1>4. CASE \/ OpenCodeImport \/ CloseDialog \/ EditStart \/ Edits \/ EditFails \/ Wake \/ UNCHANGED vars
           \/ \E c \in Codes : Publish(c)
  BY <1>1, <1>4 DEF OpenCodeImport, CloseDialog, EditStart, Edits, EditSaved, EditWrite, EditAssign,
     EditFails, Wake, vars, Publish
<1>5. CASE Restart
  <2>1. \A d \in Doors : inst'[d] = Idle /\ inst'[d] \notin Installs
    BY <1>5 DEF Restart, Installs, Idle
  <2> QED BY <1>5, <2>1 DEF Restart, Fresh
<1>6. ASSUME NEW d \in Doors, NEW c \in Codes, ImportStart(d, c) PROVE Fresh'
  <2>1. /\ storage' = storage /\ inst'[d] \in Exchanges /\ inst'[d].uid = installed' /\ Others(d)
        /\ installed' = installed + 1
    BY <1>6, ImportStartStep
  <2>2. inst'[d] \notin Installs
    BY <2>1 DEF Exchanges, Installs
  <2>3. ASSUME NEW e \in Doors, inst'[e] # Idle PROVE inst'[e].uid <= installed'
    BY <1>0, <2>1, <2>3, Kinds, NoneIsNothing DEF Fresh, Others
  <2>4. ASSUME NEW e \in Doors, inst'[e] \in Installs
        PROVE  inst'[e].previous.storage.uid <= installed' /\ inst'[e].auth.uid = inst'[e].uid
    BY <1>0, <2>1, <2>2, <2>4, NoneIsNothing DEF Fresh, Others, Storages
  <2> QED BY <1>0, <2>1, <2>3, <2>4, NoneIsNothing DEF Fresh, Storages
<1>7. ASSUME NEW d \in Doors, Install(d) \/ InstallFails(d) PROVE Fresh'
  <2>1. /\ installed' = installed /\ Others(d) /\ inst[d] # Idle
        /\ \/ storage' = storage
           \/ inst[d] \in Installs /\ storage' = NewStorage(inst[d].auth)
           \/ inst[d] \in Installs /\ storage' = inst[d].previous.storage
        /\ inst'[d] = Idle \/ inst'[d].uid = inst[d].uid
    BY <1>7, InstallShape
  <2>2. storage'.uid <= installed
    BY <2>1 DEF Fresh, NewStorage
  <2>3. inst'[d] \in Installs =>
          inst'[d].previous.storage.uid <= installed /\ inst'[d].auth.uid = inst'[d].uid
    <3>1. CASE inst'[d] \in Installs
      <4>1. /\ inst'[d].uid = inst[d].uid
            /\ \/ inst'[d].auth.uid = inst[d].uid /\ inst'[d].previous.storage = storage
               \/ /\ inst[d] \in Installs
                  /\ inst'[d].auth = inst[d].auth /\ inst'[d].previous = inst[d].previous
        BY <1>7, <3>1, InstallShape DEF Loads, Installs, Idle
      <4> QED BY <4>1 DEF Fresh
    <3> QED BY <3>1
  <2> QED BY <2>1, <2>2, <2>3 DEF Fresh, Others
<1> QED BY <1>2, <1>3, <1>4, <1>5, <1>6, <1>7 DEF Next

------------------------------------------------------------------------------
(* Without a lapse there is one writer. *)

LEMMA AtMostOne ==
    ASSUME NEW S, IsFiniteSet(S), Cardinality(S) <= 1, NEW x \in S, NEW y \in S
    PROVE  x = y
<1> SUFFICES ASSUME x # y PROVE FALSE
  OBVIOUS
<1>1. IsFiniteSet({x}) /\ Cardinality({x}) = 1
  BY FS_Singleton
<1>2. Cardinality({x} \cup {y}) = 2
  <2>1. y \notin {x}
    OBVIOUS
  <2>2. Cardinality({x} \cup {y}) = IF y \in {x} THEN Cardinality({x}) ELSE Cardinality({x}) + 1
    BY <1>1, FS_AddElement, Zenon
  <2> QED BY <1>1, <2>1, <2>2
<1>3. Cardinality({x} \cup {y}) <= Cardinality(S) /\ Cardinality(S) \in Nat
  BY FS_Subset, FS_CardinalityType
<1> QED BY <1>2, <1>3

LEMMA FewWriters ==
    ASSUME NEW u, NEW i, NEW e
    PROVE  IsFiniteSet(Writers(u, i, e)) /\ Cardinality(Writers(u, i, e)) \in Nat
<1>1. Writers(u, i, e) \subseteq {"code", "link", "update", "edit"}
  BY DEF Writers, Doors
<1>2. IsFiniteSet({} \cup {"code"} \cup {"link"} \cup {"update"} \cup {"edit"})
  BY FS_EmptySet, FS_AddElement
<1>3. {} \cup {"code"} \cup {"link"} \cup {"update"} \cup {"edit"} = {"code", "link", "update", "edit"}
  OBVIOUS
<1> QED BY <1>1, <1>2, <1>3, FS_Subset, FS_CardinalityType

LEMMA LapsesStep ==
    ASSUME NEW others, Lapses(others), "overlap" \notin lapses'
    PROVE  /\ lapses \subseteq lapses' /\ others \subseteq lapses'
           /\ lapses' = lapses \cup others
           /\ Alone'
           /\ upd = Idle /\ upd' # Idle => Writers(upd, inst, edit) = {}
<1> DEFINE W == Writers(upd', inst', edit')
<1>1. lapses' = lapses \cup others /\ ~(Cardinality(W) > 1)
      /\ ~(upd = Idle /\ upd' # Idle /\ Writers(upd, inst, edit) # {})
  BY DEF Lapses
<1>2. IsFiniteSet(W) /\ Cardinality(W) <= 1
  BY <1>1, FewWriters
<1>3. \A x, y \in W : x = y
  <2> HIDE DEF W
  <2> QED BY <1>2, AtMostOne
<1>4. /\ \A d \in Doors : inst'[d] # Idle => d \in W
      /\ Writing(upd') => "update" \in W
      /\ edit' # Idle => "edit" \in W
  BY DEF Writers
<1>5. Alone'
  <2> HIDE DEF W
  <2>1. "update" \notin Doors /\ "edit" \notin Doors /\ "update" # "edit"
    BY DEF Doors
  <2> QED BY <1>3, <1>4, <2>1 DEF Alone, Writing
<1> QED BY <1>1, <1>5

------------------------------------------------------------------------------
(* The account, the writers and the files. *)

LEMMA IdleIs == Idle.at = "idle" /\ ~Writing(Idle) /\ ~Loaded(Idle)
BY DEF Idle, Writing, Loaded

\* an update that still works on the page's credential finds the account whole
LEMMA SameWhole ==
    ASSUME Types, Sound, upd # Idle, upd.same, ~Writing(upd)
    PROVE  WholeNow
<1>1. CASE edit # Idle
  BY <1>1 DEF Sound, EditInv
<1>2. ASSUME NEW d \in Doors, inst[d] # Idle PROVE WholeNow
  <2>1. CASE inst[d].at \in {"exchange", "load"}
    BY <1>2, <2>1 DEF Sound, InstInv, Installing
  <2>2. CASE inst[d] \in Installs
    <3>1. Past(d) /\ Before(d)
      BY <1>2, <2>2 DEF Sound, InstInv, Installing, Installs
    <3> QED BY <3>1 DEF Past, Before, WholeNow
  <2> QED BY <1>2, <2>1, <2>2, Kinds
<1>3. CASE edit = Idle /\ \A d \in Doors : inst[d] = Idle
  BY <1>3 DEF Sound, RestInv, Quiet
<1> QED BY <1>1, <1>2, <1>3

\* nobody writes, nothing is under way, and the account is whole
LEMMA Rests ==
    ASSUME upd' = Idle, edit' = Idle, \A d \in Doors : inst'[d] = Idle, WholeNow', saved' = ref'
    PROVE  Sound'
<1>1. ~Writing(upd')
  BY IdleIs
<1>2. Alone' /\ CheckAlone' /\ ReadInv' /\ CodeInv'
  BY <1>1 DEF Alone, CheckAlone, ReadInv, CodeInv, Writing
<1>3. WritingInv' /\ EditInv' /\ RestInv' /\ InstInv'
  BY <1>1 DEF WritingInv, EditInv, RestInv, InstInv, Installing, Writing
<1> QED BY <1>2, <1>3 DEF Sound

\* an update that goes on, while nobody writes before or after
LEMMA Waits ==
    ASSUME Types, Sound, UNCHANGED <<file, saved, storage, ref, inst, edit>>,
           ~Writing(upd), ~Writing(upd'), CheckAlone', ReadInv', CodeInv',
           upd' = Idle \/ (upd # Idle /\ (upd'.same => upd.same)) \/ \A d \in Doors : inst[d] = Idle
    PROVE  Sound'
<1>1. Alone' /\ WritingInv'
  BY DEF Sound, Alone, WritingInv, Writing
<1>2. WholeNow' = WholeNow
  BY DEF WholeNow, File
<1>3. EditInv'
  <2> SUFFICES ASSUME edit # Idle PROVE EditInv'
    BY DEF EditInv
  <2>1. EditInv
    BY DEF Sound
  <2> QED BY <1>2, <2>1 DEF EditInv, File
<1>4. RestInv'
  <2>1. RestInv
    BY DEF Sound
  <2> QED BY <1>2, <2>1 DEF RestInv, Quiet, Writing
<1>5. InstInv'
  <2> SUFFICES ASSUME NEW d \in Doors, inst[d] # Idle
               PROVE  Installing(d)'
    BY DEF InstInv, Installing
  <2>1. Installing(d)
    BY DEF Sound, InstInv
  <2>2. Past(d)' = Past(d) /\ New(d)' = New(d) /\ Before(d)' = Before(d)
    BY DEF Past, New, Before, File
  <2> QED BY <1>2, <2>1, <2>2 DEF Installing
<1> QED BY <1>1, <1>3, <1>4, <1>5 DEF Sound

\* what a stopped update has read
LEMMA ReadsStay ==
    ASSUME Types, Course, ReadInv, CodeInv,
           upd = Idle => upd' = Idle,
           upd # Idle => Stopped(upd, upd'),
           upd # Idle /\ upd'.same =>
              /\ storage' = storage
              /\ \/ file'[upd.auth.uid] = file[upd.auth.uid]
                 \/ file'[upd.auth.uid].of = "user" /\ (upd.kind = "check" => upd'.aborted)
    PROVE  ReadInv' /\ CodeInv'
<1>1. CASE upd = Idle
  BY <1>1, IdleIs DEF ReadInv, CodeInv
<1>2. CASE upd # Idle
  <2>1. /\ upd'.at = upd.at /\ upd'.kind = upd.kind /\ upd'.code = upd.code /\ upd'.auth = upd.auth
        /\ upd'.read = upd.read /\ upd'.then = upd.then /\ (upd'.same => upd.same)
        /\ (~upd'.aborted => ~upd.aborted)
    BY <1>2 DEF Stopped
  <2>2. Loaded(upd') = Loaded(upd) /\ Ahead' = Ahead
    BY <2>1 DEF Loaded, Ahead
  <2>3. ReadInv'
    BY <1>2, <2>1, <2>2 DEF ReadInv
  <2>4. CodeInv'
    BY <1>2, <2>1 DEF CodeInv
  <2> QED BY <2>3, <2>4
<1> QED BY <1>1, <1>2

\* a step that only cancels the update
LEMMA Cancels ==
    ASSUME Types, Course, Sound, upd' = Aborted, UNCHANGED <<file, saved, storage, ref, inst, edit>>
    PROVE  Sound'
<1>1. /\ upd = Idle => upd' = Idle
      /\ upd # Idle => Stopped(upd, upd') /\ upd'.same = upd.same /\ (upd.kind = "check" => upd'.aborted)
  BY AbortedStep
<1>2. ReadInv' /\ CodeInv'
  BY <1>1, ReadsStay DEF Sound
<1>3. CheckAlone'
  BY <1>1 DEF CheckAlone, Stopped
<1>4. CASE upd = Idle
  <2>1. ~Writing(upd) /\ ~Writing(upd')
    BY <1>1, <1>4, IdleIs
  <2> QED BY <1>1, <1>2, <1>3, <1>4, <2>1, Waits
<1>5. CASE upd # Idle /\ ~Writing(upd)
  <2>1. ~Writing(upd')
    BY <1>1, <1>5 DEF Stopped, Writing
  <2> QED BY <1>1, <1>2, <1>3, <1>5, <2>1, Waits
<1>6. CASE upd # Idle /\ Writing(upd)
  <2>1. /\ upd'.at = upd.at /\ upd'.kind = upd.kind /\ upd'.version = upd.version /\ upd'.auth = upd.auth
        /\ upd'.next = upd.next /\ upd'.then = upd.then /\ upd'.same = upd.same
    BY <1>1, <1>6 DEF Stopped
  <2>2. Writing(upd') /\ edit = Idle /\ \A d \in Doors : inst[d] = Idle
    BY <1>6, <2>1 DEF Sound, Alone, Writing
  <2>3. Alone' /\ EditInv' /\ RestInv' /\ InstInv'
    BY <2>2 DEF Alone, EditInv, RestInv, Quiet, InstInv, Installing, Writing
  <2>4. WholeNow' = WholeNow /\ Ahead' = Ahead /\ File(upd.next)' = File(upd.next)
    BY <2>1 DEF WholeNow, File, Ahead
  <2>5. WritingInv'
    <3>1. WritingInv
      BY DEF Sound
    <3> QED BY <1>6, <2>1, <2>2, <2>4, <3>1 DEF WritingInv, File
  <2> QED BY <1>2, <1>3, <2>3, <2>5 DEF Sound
<1> QED BY <1>4, <1>5, <1>6

------------------------------------------------------------------------------
(* Updates that wait. *)

\* an update that does not write ends, and consumes nothing
LEMMA Fails ==
    ASSUME Types, Sound, upd' = Idle, ~Writing(upd), UNCHANGED <<file, saved, storage, ref, inst, edit>>
    PROVE  Sound'
<1>1. CheckAlone' /\ ReadInv' /\ CodeInv' /\ ~Writing(upd')
  BY IdleIs DEF CheckAlone, ReadInv, CodeInv
<1> QED BY <1>1, Waits

\* the same, as UpdateEnds says it
LEMMA EndsWaiting ==
    ASSUME Types, Sound, upd \in UpdateRecords, ~Writing(upd), NEW result, NEW r, UpdateEnds(result, r),
           result \in {"failed", "current"}, UNCHANGED <<file, saved, ref, inst, edit>>
    PROVE  Sound'
<1>1. upd' = Idle /\ storage' = storage
  BY DEF UpdateEnds
<1> QED BY <1>1, Fails

\* nobody holds the page when an update begins
LEMMA Free ==
    ASSUME Types, Sound, Writers(upd, inst, edit) = {}
    PROVE  ~Writing(upd) /\ edit = Idle /\ (\A d \in Doors : inst[d] = Idle) /\ WholeNow /\ saved = ref
<1>1. ~Writing(upd) /\ edit = Idle /\ \A d \in Doors : inst[d] = Idle
  BY DEF Writers
<1> QED BY <1>1 DEF Sound, RestInv, Quiet

LEMMA CheckStartSound ==
    ASSUME Types, Sound, CheckStart, "overlap" \notin lapses'
    PROVE  Sound'
<1>1. /\ upd = Idle /\ upd' # Idle /\ upd'.at = "state" /\ upd'.same /\ Lapses({})
      /\ UNCHANGED <<file, saved, storage, ref, inst, edit>>
  BY CheckStartStep, IdleIs DEF page
<1>2. edit = Idle /\ \A d \in Doors : inst[d] = Idle
  BY <1>1, LapsesStep, Free
<1>3. ~Writing(upd) /\ ~Writing(upd') /\ CheckAlone' /\ ReadInv' /\ CodeInv'
  BY <1>1, <1>2, IdleIs DEF Writing, CheckAlone, ReadInv, CodeInv, Loaded
<1> QED BY <1>1, <1>2, <1>3, Waits

\* what a new update may write at once: that the user's copy has seen the version
LEMMA BeginsSound ==
    ASSUME Types, Sound, NEW u \in UpdateRecords, ref \in Auths, Begun(u, upd'), u.same,
           UNCHANGED <<file, saved, storage, ref, inst, edit>>,
           edit = Idle, \A d \in Doors : inst[d] = Idle, ~Writing(upd),
           u.kind = "check" => u.code = ref.code
    PROVE  Sound'
<1>1. WholeNow /\ saved = ref
  BY DEF Sound, RestInv, Quiet
<1>2. /\ upd'.kind = u.kind /\ upd'.code = u.code /\ upd'.same /\ upd'.auth = ref
  BY DEF Begun, Goes
<1>3. CheckAlone' /\ CodeInv'
  BY <1>2 DEF CheckAlone, CodeInv
<1>4. CASE upd'.at = "read"
  <2>1. ~Writing(upd') /\ ReadInv'
    BY <1>4 DEF Writing, ReadInv, Loaded
  <2> QED BY <1>3, <2>1, Waits
<1>5. CASE upd'.at = "write"
  <2>1. /\ upd'.then = "detached" /\ Alike(upd'.next, ref) /\ upd'.next.hash = ref.hash
        /\ upd'.next.detached /\ ref.detached
    BY <1>5 DEF Begun
  <2>2. Writing(upd') /\ ~Loaded(upd') /\ ~Ahead'
    BY <1>5, <2>1 DEF Writing, Loaded, Ahead
  <2>3. Alone' /\ ReadInv' /\ EditInv' /\ RestInv' /\ InstInv'
    BY <2>2 DEF Alone, ReadInv, EditInv, RestInv, Quiet, InstInv, Installing, Writing
  <2>4. WholeNow'
    BY <1>1 DEF WholeNow, File
  <2>5. upd'.next # NoAuth /\ ref # NoAuth
    BY <2>1, NoneIsNothing DEF Alike
  <2>6. Whole(upd'.next, storage', File(upd.next)')
    BY <1>1, <2>1, <2>5 DEF WholeNow, Whole, File, Alike
  <2>7. WritingInv'
    BY <1>1, <1>2, <1>5, <2>1, <2>2, <2>4, <2>6 DEF WritingInv, Alike, File
  <2> QED BY <1>3, <2>3, <2>7 DEF Sound
<1> QED BY <1>4, <1>5 DEF Begun

LEMMA UpdateStartSound ==
    ASSUME Types, Sound, NEW k \in {"auto", "manual"}, UpdateStart(k), "overlap" \notin lapses'
    PROVE  Sound'
<1>1. /\ upd = Idle /\ ref \in Auths /\ Lapses({}) /\ UNCHANGED <<file, saved, storage, ref, inst, edit>>
  BY UpdateStartStep
<1>2. CASE upd' = Idle
  BY <1>1, <1>2, IdleIs, Fails
<1>3. CASE upd' # Idle
  <2>1. ~Writing(upd) /\ edit = Idle /\ \A d \in Doors : inst[d] = Idle
    BY <1>1, <1>3, LapsesStep, Free
  <2>2. PICK u \in UpdateRecords : u.kind = k /\ u.same /\ Begun(u, upd')
    BY <1>3, UpdateStartStep
  <2> QED BY <1>1, <2>1, <2>2, BeginsSound
<1> QED BY <1>2, <1>3

LEMMA StateAnswersSound ==
    ASSUME Types, Course, Sound, StateAnswers
    PROVE  Sound'
<1>1. /\ upd \in UpdateRecords /\ upd # Idle /\ upd.kind = "check" /\ upd.code \in Codes /\ upd.at = "state"
      /\ UNCHANGED <<file, saved, ref, inst, edit>>
  BY StateAnswersStep, IdleIs
<1>2. ~Writing(upd)
  BY <1>1 DEF Writing
<1>3. CASE UpdateEnds("failed", ref) \/ UpdateEnds("current", ref)
  BY <1>1, <1>2, <1>3, EndsWaiting
<1>4. CASE ~(UpdateEnds("failed", ref) \/ UpdateEnds("current", ref))
  <2>1. /\ storage' = storage /\ ref \in Auths /\ ~upd.aborted /\ Account = upd.code
    BY <1>4, StateAnswersStep
  <2>2. CASE upd' = Idle
    BY <1>1, <1>2, <2>1, <2>2, Fails
  <2>3. CASE upd' # Idle
    <3>1. PICK u \in UpdateRecords : Goes(upd, u) /\ u.same = upd.same /\ Begun(u, upd')
      BY <1>4, <2>3, StateAnswersStep
    <3>2. upd.same /\ edit = Idle /\ \A d \in Doors : inst[d] = Idle
      BY <1>1, <2>1 DEF Sound, CheckAlone
    <3>3. WholeNow
      BY <1>2, <3>2 DEF Sound, RestInv, Quiet
    <3>4. u.kind = "check" => u.code = ref.code
      BY <1>1, <2>1, <3>1, <3>3, NoneIsNothing DEF Goes, Account, WholeNow, Whole
    <3> QED BY <1>1, <1>2, <2>1, <3>1, <3>2, <3>4, BeginsSound
  <2> QED BY <2>2, <2>3
<1> QED BY <1>3, <1>4

LEMMA Turns ==
    ASSUME Sound, UNCHANGED <<file, saved, storage, ref, inst, edit>>, ~Writing(upd), Writing(upd'), Alone'
    PROVE  edit = Idle /\ (\A d \in Doors : inst[d] = Idle) /\ WholeNow /\ WholeNow' /\ saved = ref
<1>1. edit = Idle /\ \A d \in Doors : inst[d] = Idle
  BY DEF Alone, Writing
<1>2. WholeNow' = WholeNow
  BY DEF WholeNow, File
<1> QED BY <1>1, <1>2 DEF Sound, RestInv, Quiet

\* an update that holds the page
LEMMA Writes ==
    ASSUME Writing(upd'), edit' = Idle, \A d \in Doors : inst'[d] = Idle, ReadInv', CodeInv', WritingInv'
    PROVE  Sound'
<1>1. upd'.same
  BY DEF WritingInv, Writing
<1>2. Alone' /\ CheckAlone' /\ EditInv' /\ RestInv' /\ InstInv'
  BY <1>1 DEF Alone, CheckAlone, EditInv, RestInv, Quiet, InstInv, Installing, Writing
<1> QED BY <1>2 DEF Sound

LEMMA ReadLocalSound ==
    ASSUME Types, Course, Sound, ReadLocal, "overlap" \notin lapses'
    PROVE  Sound'
<1>1. /\ upd \in UpdateRecords /\ upd # Idle /\ upd.at = "read" /\ UNCHANGED <<file, saved, ref, inst, edit>>
      /\ Lapses({})
  BY ReadLocalStep, IdleIs
<1>2. ~Writing(upd) /\ Alone'
  BY <1>1, LapsesStep DEF Writing
<1>3. CASE UpdateEnds("failed", ref)
  BY <1>1, <1>2, <1>3, EndsWaiting
<1>4. CASE ~UpdateEnds("failed", ref) /\ upd'.at = "write"
  <2>1. /\ storage' = storage /\ upd.same /\ ~upd.forced
        /\ file[upd.auth.uid] \in Contents /\ file[upd.auth.uid] # upd.auth.hash
        /\ Keeps(upd, upd') /\ upd'.then = "detached"
        /\ Alike(upd'.next, upd.auth) /\ upd'.next.hash = upd.auth.hash /\ upd'.next.detached
    BY <1>4, ReadLocalStep
  <2>2. /\ upd'.auth = upd.auth /\ upd'.same /\ upd'.kind = upd.kind /\ upd'.code = upd.code
        /\ upd'.next.code = upd.auth.code /\ upd'.next.uid = upd.auth.uid /\ upd'.next # NoAuth
    BY <2>1, NoneIsNothing DEF Keeps, Goes, Alike
  <2>3. Writing(upd') /\ ~Loaded(upd') /\ ~Ahead'
    BY <1>4, <2>1 DEF Writing, Loaded, Ahead
  <2>4. edit = Idle /\ (\A d \in Doors : inst[d] = Idle) /\ WholeNow /\ WholeNow' /\ saved = ref
    BY <1>1, <1>2, <2>1, <2>3, Turns
  <2>5. upd.auth = ref /\ ref # NoAuth
    BY <1>1, <2>1, NoneIsNothing DEF Course, UpdateRecords
  <2>6. Whole(upd'.next, storage', File(upd.next)')
    BY <1>1, <2>1, <2>2, <2>4, <2>5, NoneIsNothing DEF WholeNow, Whole, File
  <2>7. CodeInv' /\ ReadInv'
    BY <1>1, <2>1, <2>2, <2>3 DEF Sound, CodeInv, ReadInv
  <2>8. WritingInv'
    BY <1>1, <1>4, <2>1, <2>2, <2>3, <2>4, <2>6 DEF WritingInv, File
  <2> QED BY <1>1, <2>3, <2>4, <2>7, <2>8, Writes
<1>5. CASE ~UpdateEnds("failed", ref) /\ upd'.at # "write"
  <2>1. /\ storage' = storage /\ ~upd.aborted /\ Keeps(upd, upd') /\ upd'.at = "load"
        /\ upd'.read = file[upd.auth.uid] /\ upd'.read \in Contents
    BY <1>5, ReadLocalStep
  <2>2. /\ upd'.auth = upd.auth /\ upd'.same = upd.same /\ upd'.kind = upd.kind /\ upd'.code = upd.code
        /\ upd'.aborted = upd.aborted
    BY <2>1 DEF Keeps, Goes
  <2>3. ~Writing(upd') /\ CheckAlone' /\ CodeInv'
    BY <1>1, <2>1, <2>2 DEF Sound, CheckAlone, CodeInv, Writing
  <2>4. ReadInv'
    <3> SUFFICES ASSUME upd.same PROVE ReadInv'
      BY <2>2 DEF ReadInv
    <3>1. upd.auth = ref /\ WholeNow
      BY <1>1, <1>2, SameWhole DEF Course
    <3>2. ref # NoAuth
      BY <1>1, <3>1, NoneIsNothing DEF UpdateRecords
    <3>3. Whole(upd'.auth, storage', upd'.read) /\ ~Ahead'
      BY <1>1, <2>1, <2>2, <3>1, <3>2 DEF WholeNow, File, Ahead
    <3> QED BY <1>1, <2>1, <2>2, <3>3 DEF ReadInv
  <2> QED BY <1>1, <1>2, <2>1, <2>2, <2>3, <2>4, Waits
<1> QED BY <1>3, <1>4, <1>5

LEMMA RefusedSound ==
    ASSUME Types, Course, Sound, Refused
    PROVE  Sound'
<1>1. upd \in UpdateRecords /\ upd # Idle /\ upd.at = "load" /\ UNCHANGED <<file, saved, ref, inst, edit>>
  BY RefusedStep, IdleIs
<1>2. ~Writing(upd)
  BY <1>1 DEF Writing
<1>3. CASE UpdateEnds("failed", ref)
  BY <1>1, <1>2, <1>3, EndsWaiting
<1>4. CASE ~UpdateEnds("failed", ref)
  <2>1. /\ storage' = storage /\ upd.kind = "manual" /\ Keeps(upd, upd') /\ upd'.at = "renew"
        /\ upd'.read = upd.read
    BY <1>4, RefusedStep
  <2>2. upd'.auth = upd.auth /\ upd'.same = upd.same /\ upd'.kind = "manual"
    BY <2>1 DEF Keeps, Goes
  <2>3. ~Writing(upd') /\ CheckAlone' /\ CodeInv'
    BY <2>1, <2>2 DEF CheckAlone, CodeInv, Writing
  <2>4. ReadInv'
    BY <1>1, <2>1, <2>2 DEF Sound, ReadInv, Loaded, Ahead
  <2> QED BY <1>1, <1>2, <2>1, <2>2, <2>3, <2>4, Waits
<1> QED BY <1>3, <1>4

LEMMA RenewSound ==
    ASSUME Types, Course, Sound, Renew, "overlap" \notin lapses'
    PROVE  Sound'
<1>1. /\ upd \in UpdateRecords /\ upd # Idle /\ upd.at = "renew" /\ UNCHANGED <<file, saved, ref, inst, edit>>
      /\ Lapses({})
  BY RenewStep, IdleIs
<1>2. ~Writing(upd) /\ Alone' /\ upd.kind = "manual"
  BY <1>1, LapsesStep DEF Writing, Course
<1>3. CASE UpdateEnds("failed", ref)
  BY <1>1, <1>2, <1>3, EndsWaiting
<1>4. CASE ~UpdateEnds("failed", ref)
  <2>1. /\ storage' = storage /\ upd.same
        /\ Keeps(upd, upd') /\ upd'.at = "write" /\ upd'.then = "load" /\ upd'.read = upd.read
        /\ Alike(upd'.next, upd.auth) /\ upd'.next.hash = upd.auth.hash
        /\ upd'.next.detached = upd.auth.detached
    BY <1>4, RenewStep
  <2>2. /\ upd'.auth = upd.auth /\ upd'.same /\ upd'.kind = "manual"
        /\ upd'.next.code = upd.auth.code /\ upd'.next.uid = upd.auth.uid /\ upd'.next # NoAuth
    BY <1>2, <2>1, NoneIsNothing DEF Keeps, Goes, Alike
  <2>3. Writing(upd') /\ ~Ahead' /\ Loaded(upd) /\ ~Ahead
    BY <1>1, <2>1 DEF Writing, Ahead, Loaded
  <2>4. edit = Idle /\ (\A d \in Doors : inst[d] = Idle) /\ WholeNow /\ WholeNow' /\ saved = ref
    BY <1>1, <1>2, <2>1, <2>3, Turns
  <2>5. upd.auth = ref /\ ref # NoAuth
    BY <1>1, <2>1, NoneIsNothing DEF Course, UpdateRecords
  <2>6. Whole(upd'.next, storage', File(upd.next)')
    BY <1>1, <2>1, <2>2, <2>4, <2>5, NoneIsNothing DEF WholeNow, Whole, File
  <2>7. CodeInv' /\ ReadInv'
    BY <1>1, <2>1, <2>2, <2>3 DEF Sound, CodeInv, ReadInv
  <2>8. WritingInv'
    BY <1>1, <2>1, <2>2, <2>3, <2>4, <2>6 DEF WritingInv, File
  <2> QED BY <1>1, <2>3, <2>4, <2>7, <2>8, Writes
<1> QED BY <1>3, <1>4

\* the nodes that arrive are no older than any version that was read
LEMMA Arrives ==
    ASSUME Types, Versions, upd \in UpdateRecords, upd # Idle, CodeInv, upd.same, upd.at # "state",
           Whole(upd.auth, storage, upd.read)
    PROVE  LET content == Nodes(upd.auth.code, remote[upd.auth.code])
           IN /\ content \in Contents /\ content.of # "user"
              /\ content.n >= storage.version
              /\ upd.kind = "check" => content.n >= upd.version
<1> DEFINE content == Nodes(upd.auth.code, remote[upd.auth.code])
<1>1. upd.auth \in Auths /\ upd.auth # NoAuth /\ upd.auth.code \in Codes /\ upd.version \in Nat
  BY NoneIsNothing DEF UpdateRecords
<1>2. remote[upd.auth.code] \in Nat /\ storage.version \in Nat
  BY <1>1 DEF Types, Storages
<1>3. content \in Contents /\ content.of # "user" /\ content.n = remote[upd.auth.code]
  BY <1>1, <1>2, NoneIsNothing DEF Nodes, Contents
<1>4. storage.code = upd.auth.code /\ storage.code # NoCode
  BY <1>1, NoneIsNothing DEF Whole
<1>5. remote[upd.auth.code] >= storage.version
  BY <1>2, <1>4 DEF Versions
<1>6. upd.kind = "check" => remote[upd.auth.code] >= upd.version
  BY <1>1, <1>2 DEF Versions, CodeInv
<1> QED BY <1>3, <1>5, <1>6

LEMMA DownloadSound ==
    ASSUME Types, Course, Versions, Sound, Download, "overlap" \notin lapses'
    PROVE  Sound'
<1> DEFINE content == Nodes(upd.auth.code, remote[upd.auth.code])
<1>1. /\ upd \in UpdateRecords /\ upd # Idle /\ upd.at = "load" /\ UNCHANGED <<file, saved, ref, inst, edit>>
      /\ Lapses({}) /\ upd.read \in Contents
  BY DownloadStep, IdleIs
<1>2. ~Writing(upd) /\ Alone' /\ Loaded(upd) /\ ~Ahead
  BY <1>1, LapsesStep DEF Writing, Loaded, Ahead
<1>3. CASE UpdateEnds("failed", ref)
  BY <1>1, <1>2, <1>3, EndsWaiting
<1>4. ASSUME upd.same
      PROVE  /\ Whole(upd.auth, storage, upd.read) /\ WholeNow /\ upd.auth = ref /\ ref # NoAuth
             /\ file[upd.auth.uid] = upd.read \/ file[upd.auth.uid].of = "user"
             /\ upd.kind = "check" /\ ~upd.aborted => file[upd.auth.uid] = upd.read
  <2>1. upd.auth = ref /\ WholeNow /\ ref # NoAuth
    BY <1>1, <1>2, <1>4, SameWhole, NoneIsNothing DEF Course, UpdateRecords
  <2> QED BY <1>1, <1>2, <1>4, <2>1 DEF Sound, ReadInv
<1>5. ASSUME upd.same
      PROVE  /\ content \in Contents /\ content.of # "user" /\ content.n >= storage.version
             /\ upd.kind = "check" => content.n >= upd.version
  BY <1>1, <1>4, <1>5, Arrives DEF Sound
<1>6. CASE UpdateEnds("unchanged", ref) /\ ~UpdateEnds("failed", ref)
  <2>1. ~upd.aborted /\ upd.same /\ upd.read = content /\ upd' = Idle
    BY <1>6, DownloadStep DEF UpdateEnds
  <2>2. CASE storage' = storage
    BY <1>1, <1>2, <2>1, <2>2, Fails
  <2>3. CASE storage' # storage
    <3>1. /\ upd.kind = "check" /\ storage'.version = upd.version
          /\ storage'.code = storage.code /\ storage'.uid = storage.uid
      BY <1>1, <1>6, <2>3, Ends DEF Consumes
    <3>2. edit = Idle /\ \A d \in Doors : inst[d] = Idle
      BY <1>1, <2>1, <3>1 DEF Sound, CheckAlone
    <3>3. saved = ref
      BY <1>2, <3>2 DEF Sound, RestInv, Quiet
    <3>4. file[ref.uid] = content /\ content.n >= upd.version
      BY <1>4, <1>5, <2>1, <3>1
    <3>5. WholeNow'
      BY <1>1, <1>4, <2>1, <3>1, <3>4 DEF WholeNow, Whole, File
    <3> QED BY <1>1, <2>1, <3>2, <3>3, <3>5, Rests
  <2> QED BY <2>2, <2>3
<1>7. CASE ~UpdateEnds("failed", ref) /\ ~UpdateEnds("unchanged", ref)
  <2>1. /\ storage' = storage /\ ~upd.aborted /\ upd.same
        /\ Keeps(upd, upd') /\ upd'.read = upd.read
        /\ Alike(upd'.next, upd.auth) /\ ~upd'.next.detached
        /\ upd'.next.hash = content
        /\ \/ upd'.at = "save"
           \/ upd'.at = "write" /\ upd'.then = "unchanged" /\ upd'.next.hash = upd.read
    BY <1>7, DownloadStep
  <2> HIDE DEF content
  <2>2. /\ upd'.auth = upd.auth /\ upd'.same /\ upd'.kind = upd.kind /\ upd'.code = upd.code
        /\ upd'.version = upd.version /\ upd'.aborted = upd.aborted
        /\ upd'.next.code = upd.auth.code /\ upd'.next.uid = upd.auth.uid /\ upd'.next # NoAuth
    BY <2>1, NoneIsNothing DEF Keeps, Goes, Alike
  <2>3. Writing(upd') /\ ~Ahead'
    BY <2>1 DEF Writing, Ahead
  <2>4. edit = Idle /\ (\A d \in Doors : inst[d] = Idle) /\ WholeNow /\ WholeNow' /\ saved = ref
    BY <1>1, <1>2, <2>1, <2>3, Turns
  <2>5. CodeInv' /\ ReadInv'
    BY <1>1, <1>2, <2>1, <2>2, <2>3 DEF Sound, CodeInv, ReadInv
  <2>6. Whole(upd'.next, storage', content)
    BY <1>4, <1>5, <2>1, <2>2, NoneIsNothing DEF Whole
  <2>7. CASE upd'.at = "save"
    BY <1>1, <1>5, <2>1, <2>2, <2>3, <2>4, <2>5, <2>6, <2>7, Writes DEF WritingInv
  <2>8. CASE upd'.at = "write"
    <3>1. Whole(upd'.next, storage', File(upd.next)')
      <4>1. File(upd.next)' = file[upd.auth.uid] /\ upd'.next.hash = upd.read
        BY <1>1, <2>1, <2>2, <2>8 DEF File
      <4>2. CASE file[upd.auth.uid] = upd.read
        BY <2>1, <2>6, <4>1, <4>2
      <4>3. CASE file[upd.auth.uid].of = "user"
        <5>1. file[upd.auth.uid] # NoFile
          BY <1>4, <2>1 DEF WholeNow, Whole, File
        <5> QED BY <2>2, <2>6, <4>1, <4>3, <5>1 DEF Whole
      <4> QED BY <1>4, <2>1, <4>2, <4>3
    <3>2. upd.kind = "check" => File(upd.next)' = upd'.next.hash
      BY <1>1, <1>4, <2>1, <2>2, <2>8 DEF File
    <3>3. WritingInv'
      BY <1>1, <1>5, <2>1, <2>2, <2>3, <2>4, <2>8, <3>1, <3>2 DEF WritingInv
    <3> QED BY <1>1, <2>3, <2>4, <2>5, <3>3, Writes
  <2> QED BY <2>1, <2>7, <2>8
<1> QED BY <1>3, <1>6, <1>7

------------------------------------------------------------------------------
(* Updates that write. *)

\* while an update writes nobody else does
LEMMA Holding ==
    ASSUME Types, Sound, upd # Idle, Writing(upd), Course
    PROVE  /\ edit = Idle /\ \A d \in Doors : inst[d] = Idle
           /\ upd.same /\ upd.auth = ref /\ ref # NoAuth
           /\ upd \in UpdateRecords
<1>1. upd \in UpdateRecords /\ upd.auth \in Auths
  BY Kinds DEF UpdateRecords
<1> QED BY <1>1, NoneIsNothing DEF Sound, Alone, WritingInv, Course

LEMMA SaveContentSound ==
    ASSUME Types, Course, Sound, SaveContent
    PROVE  Sound'
<1>1. upd \in UpdateRecords /\ upd # Idle /\ upd.at = "save" /\ UNCHANGED <<saved, ref, inst, edit>>
  BY SaveContentStep, IdleIs
<1>2. Writing(upd) /\ ~Ahead /\ Loaded(upd)
  BY <1>1 DEF Writing, Ahead, Loaded
<1>3. /\ edit = Idle /\ (\A d \in Doors : inst[d] = Idle) /\ upd.same /\ upd.auth = ref /\ ref # NoAuth
  BY <1>1, <1>2, Holding
<1>4. WholeNow /\ saved = ref
  BY <1>1, <1>2 DEF Sound, WritingInv
<1>5. CASE UpdateEnds("failed", ref) /\ file' = file
  <2>1. upd' = Idle /\ storage' = storage
    BY <1>5 DEF UpdateEnds
  <2>2. WholeNow'
    BY <1>1, <1>4, <1>5, <2>1 DEF WholeNow, File
  <2> QED BY <1>1, <1>3, <1>4, <2>1, <2>2, Rests
<1>6. CASE ~(UpdateEnds("failed", ref) /\ file' = file)
  <2>1. /\ storage' = storage /\ file' = [file EXCEPT ![upd.auth.uid] = upd.next.hash]
        /\ Keeps(upd, upd') /\ upd'.at = "back" /\ upd'.then = "updated"
        /\ upd'.next = upd.next /\ upd'.read = upd.read
    BY <1>6, SaveContentStep
  <2>2. /\ upd'.auth = upd.auth /\ upd'.same = upd.same /\ upd'.kind = upd.kind /\ upd'.code = upd.code
        /\ upd'.version = upd.version
    BY <2>1 DEF Keeps, Goes
  <2>3. Writing(upd') /\ Ahead'
    BY <2>1 DEF Writing, Ahead
  <2>4. file'[upd.auth.uid] = upd.next.hash /\ upd.next.hash # NoFile
    <3>1. upd.auth.uid \in Uids /\ upd.next \in Auths
      BY <1>1, SaveContentStep DEF UpdateRecords, Auths
    <3> QED BY <2>1, <3>1, NoneIsNothing DEF Types
  <2>5. CodeInv' /\ ReadInv'
    BY <1>1, <1>2, <1>3, <2>1, <2>2, <2>3 DEF Sound, CodeInv, ReadInv
  <2>6. WritingInv'
    BY <1>1, <1>2, <1>3, <1>4, <2>1, <2>2, <2>3, <2>4 DEF Sound, WritingInv
  <2> QED BY <1>1, <1>3, <2>3, <2>5, <2>6, Writes
<1> QED BY <1>5, <1>6

LEMMA ReadBackSound ==
    ASSUME Types, Course, Sound, ReadBack
    PROVE  Sound'
<1>1. /\ upd \in UpdateRecords /\ upd # Idle /\ upd.at = "back" /\ upd.next \in Auths
      /\ UNCHANGED <<file, saved, storage, ref, inst, edit>>
      /\ Keeps(upd, upd') /\ upd'.read = upd.read /\ upd'.then = upd.then
  BY ReadBackStep, IdleIs DEF page
<1>2. Writing(upd) /\ Ahead /\ Loaded(upd) /\ upd.then = "updated"
  BY <1>1 DEF Writing, Ahead, Loaded, Course
<1>3. /\ edit = Idle /\ (\A d \in Doors : inst[d] = Idle) /\ upd.same /\ upd.auth = ref /\ ref # NoAuth
  BY <1>1, <1>2, Holding
<1>4. /\ file[upd.auth.uid] = upd.next.hash /\ Whole(upd.next, storage, upd.next.hash) /\ saved = ref
      /\ upd.next.uid = upd.auth.uid
      /\ upd.kind = "check" => upd.next.hash.n >= upd.version
  BY <1>1, <1>2 DEF Sound, WritingInv
<1>5. upd'.at = "write" /\ upd'.next = upd.next
  <2>1. upd.next.hash # NoFile
    BY <1>1, NoneIsNothing
  <2> QED BY <1>4, <2>1, ReadBackStep
<1>6. /\ upd'.auth = upd.auth /\ upd'.same = upd.same /\ upd'.kind = upd.kind /\ upd'.code = upd.code
      /\ upd'.version = upd.version
  BY <1>1 DEF Keeps, Goes
<1>7. Writing(upd') /\ Ahead'
  BY <1>1, <1>2, <1>5 DEF Writing, Ahead
<1>8. CodeInv' /\ ReadInv'
  BY <1>1, <1>2, <1>3, <1>6, <1>7 DEF Sound, CodeInv, ReadInv
<1>9. File(upd.next)' = upd.next.hash /\ upd.next.hash # NoFile
  BY <1>1, <1>4, <1>5, NoneIsNothing DEF File
<1>10. WritingInv'
  BY <1>1, <1>2, <1>3, <1>4, <1>5, <1>6, <1>7, <1>9 DEF WritingInv
<1> QED BY <1>1, <1>3, <1>7, <1>8, <1>10, Writes

LEMMA WriteAuthSound ==
    ASSUME Types, Course, Sound, WriteAuth
    PROVE  Sound'
<1>1. /\ upd \in UpdateRecords /\ upd # Idle /\ upd.at = "write" /\ upd.next \in Auths
      /\ UNCHANGED <<file, ref, inst, edit>>
  BY WriteAuthStep, IdleIs
<1>2. Writing(upd)
  BY <1>1 DEF Writing
<1>3. /\ edit = Idle /\ (\A d \in Doors : inst[d] = Idle) /\ upd.same /\ upd.auth = ref /\ ref # NoAuth
  BY <1>1, <1>2, Holding
<1>4. CASE UpdateEnds("failed", ref) /\ UNCHANGED saved /\ upd.then # "updated"
  <2>1. upd' = Idle /\ storage' = storage
    BY <1>4 DEF UpdateEnds
  <2>2. WholeNow /\ saved = ref
    BY <1>1, <1>2, <1>4 DEF Sound, WritingInv, Ahead
  <2>3. WholeNow'
    BY <1>1, <2>1, <2>2 DEF WholeNow, File
  <2> QED BY <1>1, <1>3, <1>4, <2>1, <2>2, <2>3, Rests
<1>5. CASE ~(UpdateEnds("failed", ref) /\ UNCHANGED saved /\ upd.then # "updated")
  <2>1. /\ storage' = storage
        /\ Keeps(upd, upd') /\ upd'.next = upd.next /\ upd'.read = upd.read /\ upd'.then = upd.then
        /\ \/ upd'.at = "assign" /\ saved' = upd.next
           \/ upd'.at = "undo" /\ saved' = saved /\ upd.then = "updated"
    BY <1>5, WriteAuthStep
  <2>2. /\ upd'.auth = upd.auth /\ upd'.same = upd.same /\ upd'.kind = upd.kind /\ upd'.code = upd.code
        /\ upd'.version = upd.version /\ upd'.aborted = upd.aborted
    BY <2>1 DEF Keeps, Goes
  <2>3. Writing(upd') /\ Ahead' = Ahead /\ Loaded(upd') = Loaded(upd)
    BY <1>1, <2>1 DEF Writing, Ahead, Loaded
  <2>4. CodeInv' /\ ReadInv'
    BY <1>1, <1>3, <2>1, <2>2, <2>3 DEF Sound, CodeInv, ReadInv
  <2>5. WritingInv
    BY DEF Sound
  <2>6. File(upd.next)' = File(upd.next)
    BY <1>1, <2>1 DEF File
  <2>7. CASE upd'.at = "assign"
    <3>1. WritingInv'
      BY <1>1, <1>2, <1>3, <2>1, <2>2, <2>3, <2>5, <2>6, <2>7 DEF WritingInv
    <3> QED BY <1>1, <1>3, <2>3, <2>4, <3>1, Writes
  <2>8. CASE upd'.at = "undo"
    <3>1. Ahead
      BY <1>1, <2>1, <2>8 DEF Ahead
    <3>2. WritingInv'
      BY <1>1, <1>2, <1>3, <2>1, <2>2, <2>3, <2>5, <2>8, <3>1 DEF WritingInv
    <3> QED BY <1>1, <1>3, <2>3, <2>4, <3>2, Writes
  <2> QED BY <2>1, <2>7, <2>8
<1> QED BY <1>4, <1>5

LEMMA AssignRefSound ==
    ASSUME Types, Course, Sound, AssignRef
    PROVE  Sound'
<1>1. /\ upd \in UpdateRecords /\ upd # Idle /\ upd.at = "assign" /\ upd.next \in Auths
      /\ UNCHANGED <<file, saved, inst, edit>> /\ ref' = upd.next /\ upd.next # NoAuth
  BY AssignRefStep, IdleIs, NoneIsNothing
<1>2. Writing(upd)
  BY <1>1 DEF Writing
<1>3. /\ edit = Idle /\ (\A d \in Doors : inst[d] = Idle) /\ upd.same /\ upd.auth = ref /\ ref # NoAuth
  BY <1>1, <1>2, Holding
<1>4. /\ saved = upd.next /\ Whole(upd.next, storage, File(upd.next))
      /\ upd.next.uid = upd.auth.uid
      /\ upd.kind = "check" /\ upd.then \in {"unchanged", "updated"} =>
            File(upd.next) = upd.next.hash /\ upd.next.hash.n >= upd.version
  BY <1>1, <1>2 DEF Sound, WritingInv
<1>5. CASE UpdateEnds(upd.then, upd.next)
  <2>1. upd' = Idle
    BY <1>5 DEF UpdateEnds
  <2>2. WholeNow'
    <3>1. CASE storage' = storage
      BY <1>1, <1>4, <3>1 DEF WholeNow, File
    <3>2. CASE storage' # storage
      <4>1. /\ upd.kind = "check" /\ upd.then \in {"updated", "unchanged"}
            /\ storage'.code = storage.code /\ storage'.uid = storage.uid /\ storage'.version = upd.version
        BY <1>1, <1>5, <3>2, Ends DEF Consumes
      <4> QED BY <1>1, <1>4, <4>1 DEF WholeNow, Whole, File
    <3> QED BY <3>1, <3>2
  <2> QED BY <1>1, <1>3, <1>4, <2>1, <2>2, Rests
<1>6. CASE ~UpdateEnds(upd.then, upd.next)
  <2>1. /\ storage' = storage /\ upd.then = "load" /\ Goes(upd, upd') /\ upd'.auth = upd.next /\ upd'.same
        /\ upd'.at = "load" /\ upd'.read = upd.read
    BY <1>6, AssignRefStep
  <2>2. /\ upd'.kind = "manual" /\ upd.next.hash = upd.auth.hash /\ upd.next.detached = upd.auth.detached
    BY <1>1, <2>1 DEF Course, Goes
  <2>3. /\ ~Writing(upd') /\ Loaded(upd) /\ ~Ahead /\ ~Ahead'
    BY <1>1, <2>1 DEF Writing, Loaded, Ahead
  <2>4. /\ Whole(upd.auth, storage, upd.read) /\ upd.auth # NoAuth
        /\ file[upd.auth.uid] = upd.read \/ file[upd.auth.uid].of = "user"
    BY <1>1, <1>3, <2>3 DEF Sound, ReadInv
  <2>5. Whole(upd.next, storage, upd.read)
    BY <1>1, <1>4, <2>2, <2>4 DEF Whole
  <2>6. CheckAlone' /\ CodeInv' /\ ReadInv'
    BY <1>1, <1>4, <2>1, <2>2, <2>3, <2>4, <2>5 DEF CheckAlone, CodeInv, ReadInv
  <2>7. WholeNow' /\ saved' = ref'
    BY <1>1, <1>4, <2>1 DEF WholeNow, File
  <2>8. Alone' /\ WritingInv' /\ EditInv' /\ RestInv' /\ InstInv'
    BY <1>1, <1>3, <2>3, <2>7 DEF Alone, WritingInv, EditInv, RestInv, InstInv, Installing, Writing
  <2> QED BY <2>6, <2>8 DEF Sound
<1> QED BY <1>5, <1>6

LEMMA UndoContentSound ==
    ASSUME Types, Course, Sound, UndoContent, "undo" \notin lapses'
    PROVE  Sound'
<1>1. /\ upd \in UpdateRecords /\ upd # Idle /\ upd.at = "undo" /\ UNCHANGED <<saved, ref, inst, edit>>
      /\ UpdateEnds("failed", ref)
  BY UndoContentStep, IdleIs
<1>2. Writing(upd) /\ Ahead /\ Loaded(upd)
  BY <1>1 DEF Writing, Ahead, Loaded
<1>3. /\ edit = Idle /\ (\A d \in Doors : inst[d] = Idle) /\ upd.same /\ upd.auth = ref /\ ref # NoAuth
  BY <1>1, <1>2, Holding
<1>4. ~(events' > events)
  BY UndoContentStep DEF Lapses, Undone
<1>5. file' = IF file[upd.auth.uid] = NoFile THEN file ELSE [file EXCEPT ![upd.auth.uid] = upd.read]
  BY <1>4, UndoContentStep
<1>6. file[upd.auth.uid] # NoFile /\ saved = ref
  BY <1>1, <1>2 DEF Sound, WritingInv
<1>7. file'[upd.auth.uid] = upd.read
  BY <1>5, <1>6, UndoContentStep DEF Types
<1>8. upd' = Idle /\ storage' = storage
  BY <1>1 DEF UpdateEnds
<1>9. WholeNow'
  <2>1. Whole(upd.auth, storage, upd.read)
    BY <1>1, <1>2, <1>3 DEF Sound, ReadInv
  <2> QED BY <1>1, <1>3, <1>7, <1>8, <2>1 DEF WholeNow, File
<1> QED BY <1>1, <1>3, <1>6, <1>8, <1>9, Rests

------------------------------------------------------------------------------
(* Edits. *)

LEMMA EditStartSound ==
    ASSUME Types, Course, Sound, EditStart, "overlap" \notin lapses'
    PROVE  Sound'
<1>1. /\ edit = Idle /\ edit' # Idle /\ edit'.at = "save" /\ upd' = Aborted /\ Lapses({})
      /\ UNCHANGED <<file, saved, storage, ref, inst>>
  BY EditStartStep DEF page
<1>2. Alone'
  BY <1>1, LapsesStep
<1>3. /\ upd = Idle => upd' = Idle
      /\ upd # Idle => Stopped(upd, upd') /\ (upd.kind = "check" => upd'.aborted)
  BY <1>1, AbortedStep
<1>4. (\A d \in Doors : inst[d] = Idle) /\ ~Writing(upd') /\ ~Writing(upd)
  BY <1>1, <1>2, <1>3 DEF Alone, Stopped, Writing
<1>5. WholeNow /\ saved = ref
  BY <1>1, <1>4 DEF Sound, RestInv, Quiet
<1>6. WholeNow'
  BY <1>1, <1>5 DEF WholeNow, File
<1>7. ReadInv' /\ CodeInv'
  BY <1>1, <1>3, ReadsStay DEF Sound
<1>8. CheckAlone' /\ WritingInv' /\ EditInv' /\ RestInv' /\ InstInv'
  BY <1>1, <1>3, <1>4, <1>5, <1>6
     DEF CheckAlone, WritingInv, EditInv, RestInv, Quiet, InstInv, Installing, Writing, Stopped
<1> QED BY <1>2, <1>7, <1>8 DEF Sound

\* while an edit is under way nobody else writes, and checks are cancelled
LEMMA Editing ==
    ASSUME Types, Sound, edit # Idle
    PROVE  /\ ~Writing(upd) /\ \A d \in Doors : inst[d] = Idle
           /\ upd # Idle /\ upd.kind = "check" => upd.aborted
           /\ WholeNow
BY DEF Sound, Alone, CheckAlone, EditInv

LEMMA EditSavedSound ==
    ASSUME Types, Course, Sound, EditSaved
    PROVE  Sound'
<1>1. /\ edit # Idle /\ edit.at = "save" /\ UNCHANGED <<saved, storage, ref, upd, inst>>
      /\ file'[edit.uid] # NoFile /\ file'[edit.uid].of = "user"
      /\ \A u \in Uids : u # edit.uid => file'[u] = file[u]
  BY EditSavedStep, NoneIsNothing DEF page
<1>2. /\ ~Writing(upd) /\ (\A d \in Doors : inst[d] = Idle) /\ WholeNow /\ saved = ref
      /\ upd # Idle /\ upd.kind = "check" => upd.aborted
  BY <1>1, Editing DEF Sound, EditInv
<1>3. ref # NoAuth => ref \in Auths /\ ref.uid \in Uids
  BY NoneIsNothing DEF Types
<1>4. WholeNow'
  <2>1. CASE ref = NoAuth
    BY <1>1, <1>2, <2>1 DEF WholeNow, Whole
  <2>2. CASE ref # NoAuth /\ ref.uid # edit.uid
    BY <1>1, <1>2, <1>3, <2>2 DEF WholeNow, File
  <2>3. CASE ref # NoAuth /\ ref.uid = edit.uid
    BY <1>1, <1>2, <2>3 DEF WholeNow, Whole, File
  <2> QED BY <2>1, <2>2, <2>3
<1>5. ReadInv' /\ CodeInv'
  <2>1. CodeInv'
    BY <1>1 DEF Sound, CodeInv
  <2>2. ReadInv'
    <3> SUFFICES ASSUME upd # Idle, upd.same, Loaded(upd) PROVE ReadInv'
      BY <1>1 DEF ReadInv, Loaded
    <3>1. upd.auth.uid \in Uids
      BY Kinds, NoneIsNothing DEF UpdateRecords
    <3>2. file'[upd.auth.uid] = file[upd.auth.uid] \/ file'[upd.auth.uid].of = "user"
      BY <1>1, <3>1
    <3>3. Ahead' = Ahead
      BY <1>1 DEF Ahead
    <3> QED BY <1>1, <1>2, <3>2, <3>3 DEF Sound, ReadInv
  <2> QED BY <2>1, <2>2
<1>6. Alone' /\ CheckAlone' /\ WritingInv' /\ InstInv'
  BY <1>1, <1>2 DEF Alone, CheckAlone, WritingInv, InstInv, Installing, Writing
<1>7. EditInv' /\ RestInv'
  <2>1. CASE edit' = Idle
    BY <1>1, <1>2, <1>4, <2>1 DEF EditInv, RestInv
  <2>2. CASE edit' # Idle
    <3>1. /\ ref \in Auths /\ ref.uid = edit.uid /\ edit'.at = "write"
          /\ Alike(edit'.next, ref) /\ edit'.next.detached /\ edit'.next.hash = file'[edit.uid]
      BY <2>2, EditSavedStep
    <3>2. edit'.next # NoAuth /\ ref # NoAuth
      BY <3>1, NoneIsNothing DEF Alike
    <3>3. Whole(edit'.next, storage', File(edit.next)')
      BY <1>1, <1>2, <3>1, <3>2 DEF WholeNow, Whole, File, Alike
    <3> QED BY <1>1, <1>2, <1>4, <2>2, <3>1, <3>3 DEF EditInv, RestInv, Quiet
  <2> QED BY <2>1, <2>2
<1> QED BY <1>5, <1>6, <1>7 DEF Sound

LEMMA EditWriteSound ==
    ASSUME Types, Course, Sound, EditWrite
    PROVE  Sound'
<1>1. /\ edit # Idle /\ edit.at = "write" /\ edit' # Idle /\ edit'.at = "assign" /\ edit'.next = edit.next
      /\ saved' = edit.next /\ UNCHANGED <<file, storage, ref, upd, inst>>
  BY EditWriteStep, IdleIs DEF page
<1>2. /\ ~Writing(upd) /\ (\A d \in Doors : inst[d] = Idle) /\ WholeNow
      /\ upd # Idle /\ upd.kind = "check" => upd.aborted
  BY <1>1, Editing
<1>3. Whole(edit.next, storage, File(edit.next))
  BY <1>1 DEF Sound, EditInv
<1>4. WholeNow' /\ File(edit.next)' = File(edit.next)
  BY <1>1, <1>2 DEF WholeNow, File
<1>5. ReadInv' /\ CodeInv'
  BY <1>1 DEF Sound, ReadInv, CodeInv, Loaded, Ahead
<1>6. Alone' /\ CheckAlone' /\ WritingInv' /\ InstInv' /\ EditInv' /\ RestInv'
  BY <1>1, <1>2, <1>3, <1>4
     DEF Alone, CheckAlone, WritingInv, InstInv, Installing, Writing, EditInv, RestInv, Quiet
<1> QED BY <1>5, <1>6 DEF Sound

LEMMA EditAssignSound ==
    ASSUME Types, Course, Sound, EditAssign
    PROVE  Sound'
<1>1. /\ edit # Idle /\ edit.at = "assign" /\ edit' = Idle /\ ref' = edit.next /\ upd' = Overtaken(upd)
      /\ UNCHANGED <<file, saved, storage, inst>>
  BY IdleIs DEF EditAssign
<1>2. /\ ~Writing(upd) /\ (\A d \in Doors : inst[d] = Idle)
      /\ upd # Idle /\ upd.kind = "check" => upd.aborted
  BY <1>1, Editing
<1>3. Whole(edit.next, storage, File(edit.next)) /\ saved = edit.next
  BY <1>1 DEF Sound, EditInv
<1>4. WholeNow'
  BY <1>1, <1>3 DEF WholeNow, File
<1>5. /\ upd = Idle => upd' = Idle
      /\ upd # Idle => Stopped(upd, upd') /\ ~upd'.same /\ upd'.aborted = upd.aborted
  BY <1>1, OvertakenStep DEF Types
<1>6. ReadInv' /\ CodeInv' /\ ~Writing(upd')
  BY <1>2, <1>5, IdleIs DEF ReadInv, CodeInv, Stopped, Writing
<1>7. Alone' /\ CheckAlone' /\ WritingInv' /\ InstInv' /\ EditInv' /\ RestInv'
  BY <1>1, <1>2, <1>3, <1>4, <1>5, <1>6
     DEF Alone, CheckAlone, WritingInv, InstInv, Installing, EditInv, RestInv, Quiet, Stopped, Writing
<1> QED BY <1>6, <1>7 DEF Sound

LEMMA EditFailsSound ==
    ASSUME Types, Course, Sound, EditFails
    PROVE  Sound'
<1>1. /\ edit # Idle /\ edit.at \in {"save", "write"} /\ edit' = Idle
      /\ UNCHANGED <<file, saved, storage, ref, upd, inst>>
  BY IdleIs DEF EditFails, page
<1>2. /\ ~Writing(upd) /\ (\A d \in Doors : inst[d] = Idle) /\ WholeNow /\ saved = ref
      /\ upd # Idle /\ upd.kind = "check" => upd.aborted
  BY <1>1, Editing DEF Sound, EditInv
<1>3. WholeNow'
  BY <1>1, <1>2 DEF WholeNow, File
<1>4. ReadInv' /\ CodeInv'
  BY <1>1 DEF Sound, ReadInv, CodeInv, Loaded, Ahead
<1>5. Alone' /\ CheckAlone' /\ WritingInv' /\ InstInv' /\ EditInv' /\ RestInv'
  BY <1>1, <1>2, <1>3 DEF Alone, CheckAlone, WritingInv, InstInv, Installing, Writing, EditInv, RestInv, Quiet
<1> QED BY <1>4, <1>5 DEF Sound

------------------------------------------------------------------------------
(* Installations. *)

\* while an installation is under way nobody else writes, and checks are cancelled
LEMMA InstallsAlone ==
    ASSUME Types, Sound, NEW d \in Doors, inst[d] # Idle
    PROVE  /\ ~Writing(upd) /\ edit = Idle /\ (\A e \in Doors : e # d => inst[e] = Idle)
           /\ upd # Idle /\ upd.kind = "check" => upd.aborted
           /\ Installing(d)
BY DEF Sound, Alone, CheckAlone, InstInv

\* what a step of an installation has to show
LEMMA InstallSound ==
    ASSUME Types, Course, Sound, NEW d \in Doors, inst[d] # Idle, Others(d), edit' = edit,
           upd' = upd \/ upd' = Aborted \/ upd' = Overtaken(Aborted),
           upd # Idle /\ upd'.same =>
              storage' = storage /\ file'[upd.auth.uid] = file[upd.auth.uid],
           Installing(d)',
           inst'[d] = Idle => WholeNow' /\ saved' = ref'
    PROVE  Sound'
<1>1. /\ ~Writing(upd) /\ edit = Idle /\ (\A e \in Doors : e # d => inst[e] = Idle)
      /\ upd # Idle /\ upd.kind = "check" => upd.aborted
  BY InstallsAlone
<1>2. /\ upd = Idle => upd' = Idle
      /\ upd # Idle => Stopped(upd, upd')
  <2>1. CASE upd' = upd
    BY <2>1, Kinds DEF Stopped
  <2>2. CASE upd' = Aborted
    BY <2>2, AbortedStep
  <2>3. CASE upd' = Overtaken(Aborted)
    BY <2>3, StoppedStep
  <2> QED BY <2>1, <2>2, <2>3
<1>3. ReadInv' /\ CodeInv'
  BY <1>2, ReadsStay DEF Sound
<1>4. ~Writing(upd') /\ (upd' # Idle /\ upd'.kind = "check" => upd'.aborted)
  BY <1>1, <1>2, IdleIs DEF Stopped, Writing
<1>5. \A e \in Doors : e # d => inst'[e] = Idle
  BY <1>1 DEF Others
<1>6. Alone' /\ CheckAlone' /\ WritingInv' /\ EditInv'
  BY <1>1, <1>4, <1>5 DEF Alone, CheckAlone, WritingInv, EditInv, Writing
<1>7. RestInv'
  BY DEF RestInv, Quiet
<1>8. InstInv'
  BY <1>5 DEF InstInv, Installing
<1> QED BY <1>3, <1>6, <1>7, <1>8 DEF Sound

LEMMA ImportStartSound ==
    ASSUME Types, Course, Fresh, Sound, NEW d \in Doors, NEW c \in Codes, ImportStart(d, c),
           "overlap" \notin lapses'
    PROVE  Sound'
<1>1. /\ inst[d] = Idle /\ inst' \in Installations /\ inst'[d] \in Exchanges /\ Others(d)
      /\ inst'[d].uid = installed' /\ installed' = installed + 1
      /\ upd' = Aborted /\ UNCHANGED <<file, saved, storage, ref, edit>>
  BY ImportStartStep
<1>2. Alone'
  <2>1. Lapses(IF d = "link" /\ busy THEN {"link"} ELSE {})
    BY ImportStartStep
  <2> QED BY <2>1, LapsesStep
<1>3. inst'[d] # Idle /\ inst'[d].at = "exchange" /\ inst'[d] \notin Installs
  BY <1>1 DEF Exchanges, Installs, Idle
<1>4. /\ upd = Idle => upd' = Idle
      /\ upd # Idle => Stopped(upd, upd') /\ (upd.kind = "check" => upd'.aborted)
  BY <1>1, AbortedStep
<1>5. edit = Idle /\ ~Writing(upd') /\ \A e \in Doors : e # d => inst'[e] = Idle /\ inst[e] = Idle
  BY <1>1, <1>2, <1>3 DEF Alone, Others
<1>6. ~Writing(upd)
  BY <1>4, <1>5, IdleIs DEF Stopped, Writing
<1>7. WholeNow /\ saved = ref
  BY <1>1, <1>5, <1>6 DEF Sound, RestInv, Quiet
<1>8. WholeNow' /\ storage.uid < installed'
  <2>1. storage.uid \in Nat /\ installed \in Nat /\ storage.uid <= installed
    BY NoneIsNothing DEF Types, Storages, Fresh
  <2> QED BY <1>1, <1>7, <2>1 DEF WholeNow, File
<1>9. ReadInv' /\ CodeInv'
  BY <1>1, <1>4, ReadsStay DEF Sound
<1>10. Installing(d)'
  BY <1>1, <1>3, <1>7, <1>8 DEF Installing
<1>11. CheckAlone' /\ WritingInv' /\ EditInv' /\ RestInv' /\ InstInv'
  BY <1>1, <1>3, <1>4, <1>5, <1>10
     DEF CheckAlone, WritingInv, EditInv, RestInv, Quiet, InstInv, Installing, Writing, Stopped
<1> QED BY <1>2, <1>9, <1>11 DEF Sound

LEMMA ExchangeSound ==
    ASSUME Types, Course, Sound, NEW d \in Doors, Exchange(d)
    PROVE  Sound'
<1>1. /\ inst[d] \in Exchanges /\ UNCHANGED <<file, saved, storage, ref, upd, edit>> /\ Others(d)
      /\ inst'[d] = Idle \/ (inst'[d] \in Loads /\ inst'[d].uid = inst[d].uid)
  BY ExchangeStep DEF Cleared
<1>2. inst[d] # Idle /\ inst[d].at = "exchange"
  BY <1>1 DEF Exchanges, Idle
<1>3. WholeNow /\ saved = ref /\ storage.uid < inst[d].uid
  BY <1>2, InstallsAlone DEF Installing
<1>4. WholeNow'
  BY <1>1, <1>3 DEF WholeNow, File
<1>5. Installing(d)'
  <2>1. CASE inst'[d] = Idle
    BY <2>1 DEF Installing
  <2>2. CASE inst'[d] \in Loads
    <3>1. inst'[d].at = "load" /\ inst'[d] \notin Installs
      BY <2>2 DEF Loads, Installs
    <3>2. inst'[d].uid = inst[d].uid
      BY <1>1, <2>2 DEF Loads, Idle
    <3> QED BY <1>1, <1>3, <1>4, <3>1, <3>2 DEF Installing
  <2> QED BY <1>1, <2>1, <2>2
<1> QED BY <1>1, <1>2, <1>3, <1>4, <1>5, InstallSound

LEMMA LoadInstallSound ==
    ASSUME Types, Course, Sound, NEW d \in Doors, LoadInstall(d)
    PROVE  Sound'
<1>1. /\ inst[d] \in Loads /\ UNCHANGED <<file, saved, storage, ref, upd, edit>> /\ Others(d)
  BY LoadInstallStep DEF Cleared
<1>2. inst[d] # Idle /\ inst[d].at = "load"
  BY <1>1 DEF Loads, Idle
<1>3. WholeNow /\ saved = ref /\ storage.uid < inst[d].uid
  BY <1>2, InstallsAlone DEF Installing
<1>4. WholeNow'
  BY <1>1, <1>3 DEF WholeNow, File
<1>5. Installing(d)'
  <2>1. CASE inst'[d] = Idle
    BY <2>1 DEF Installing
  <2>2. CASE inst'[d] # Idle
    <3>1. /\ inst'[d].at = "create" /\ inst'[d].uid = inst[d].uid
          /\ ~inst'[d].auth.detached /\ inst'[d].auth.hash.of \in Codes
          /\ inst'[d].previous.storage = storage
          /\ inst'[d].previous.auth = IF ref # NoAuth THEN ref ELSE saved
      BY <2>2, LoadInstallStep DEF Cleared
    <3>2. inst'[d].previous.auth = ref
      BY <1>3, <3>1
    <3>3. Before(d)'
      BY <1>1, <3>1, <3>2 DEF Before
    <3>4. New(d)'
      BY <3>1, NoneIsNothing DEF New
    <3>5. Past(d)'
      BY <1>1, <1>3, <1>4, <3>1, <3>2 DEF Past, WholeNow, File
    <3> QED BY <1>1, <1>3, <3>1, <3>3, <3>4, <3>5 DEF Installing
  <2> QED BY <2>1, <2>2
<1> QED BY <1>1, <1>2, <1>3, <1>4, <1>5, InstallSound

\* the profile that is installed is newer than the one before it
LEMMA PastStays ==
    ASSUME Types, NEW d \in Doors, inst[d] \in Installs, NEW at, Moves(d, at), Past(d), New(d),
           \A u \in Uids : u # inst[d].uid => file'[u] = file[u]
    PROVE  Past(d)' /\ New(d)'
<1> DEFINE p == inst[d].previous
<1>1. inst'[d].uid = inst[d].uid /\ inst'[d].auth = inst[d].auth /\ inst'[d].previous = p
  BY DEF Moves
<1>2. /\ p.storage.uid < inst[d].uid /\ p.storage.uid \in Nat /\ inst[d].uid \in Nat
      /\ p.auth # NoAuth => p.auth \in Auths /\ p.auth.uid \in Uids
  BY InstallKinds, NoneIsNothing DEF Past, Storages
<1>3. p.auth # NoAuth => p.auth.uid = p.storage.uid
  BY DEF Past, Whole
<1>4. File(inst[d].previous.auth)' = File(p.auth)
  BY <1>1, <1>2, <1>3 DEF File
<1> QED BY <1>1, <1>2, <1>4 DEF Past, New

LEMMA OldUid ==
    ASSUME Types, Course, NEW d \in Doors, inst[d] \in Installs, Past(d), Before(d), upd # Idle, upd.same
    PROVE  upd.auth.uid \in Uids /\ upd.auth.uid # inst[d].uid
<1> DEFINE p == inst[d].previous
<1>1. upd.auth \in Auths /\ upd.auth # NoAuth /\ upd.auth.uid \in Uids
  BY Kinds, NoneIsNothing DEF UpdateRecords
<1>2. upd.auth = p.auth
  BY DEF Course, Before
<1>3. upd.auth.uid = p.storage.uid
  BY <1>1, <1>2 DEF Past, Whole
<1>4. p.storage.uid < inst[d].uid /\ inst[d].uid \in Nat
  BY InstallKinds, NoneIsNothing DEF Past
<1> QED BY <1>1, <1>3, <1>4, NoneIsNothing

\* what an installation that has a profile to make is
LEMMA Midway ==
    ASSUME Types, Sound, NEW d \in Doors, inst[d].at \notin {"idle", "exchange", "load"}
    PROVE  inst[d] # Idle /\ inst[d] \in Installs /\ inst[d].uid \in Uids /\ Past(d) /\ New(d)
BY Kinds, InstallsAlone DEF Installing

\* a step of an installation that goes on and changes no file of another profile
LEMMA GoesOn ==
    ASSUME Types, Course, Sound, NEW d \in Doors, inst[d].at \notin {"idle", "exchange", "load"},
           NEW at, Moves(d, at), edit' = edit,
           \A u \in Uids : u # inst[d].uid => file'[u] = file[u],
           upd' = upd \/ upd' = Aborted \/ upd' = Overtaken(Aborted),
           upd # Idle /\ upd'.same => storage' = storage /\ (file' = file \/ Before(d)),
           Past(d)' /\ New(d)' => Installing(d)'
    PROVE  Sound'
<1>1. inst[d] # Idle /\ inst[d] \in Installs /\ inst[d].uid \in Uids /\ Past(d) /\ New(d)
  BY Midway
<1>2. Installing(d)'
  BY <1>1, PastStays
<1>3. inst'[d] # Idle /\ Others(d)
  BY DEF Moves, Others, Installs, Idle
<1>4. ASSUME upd # Idle, upd'.same PROVE storage' = storage /\ file'[upd.auth.uid] = file[upd.auth.uid]
  <2>1. upd.same
    BY <1>4, Kinds, AbortedStep, StoppedStep DEF Stopped
  <2>2. CASE Before(d)
    BY <1>1, <1>4, <2>1, <2>2, OldUid
  <2> QED BY <1>4, <2>2
<1> QED BY <1>1, <1>2, <1>3, <1>4, InstallSound

LEMMA CreateProfileSound ==
    ASSUME Types, Course, Sound, NEW d \in Doors, CreateProfile(d)
    PROVE  Sound'
<1>1. /\ inst[d].at = "create" /\ file' = [file EXCEPT ![inst[d].uid] = inst[d].auth.hash]
      /\ UNCHANGED <<saved, storage, ref, upd, edit>>
  BY DEF CreateProfile, page
<1>2. inst[d] # Idle /\ inst[d] \in Installs /\ inst[d].uid \in Uids /\ Past(d) /\ New(d)
  BY <1>1, Midway
<1>3. Moves(d, "activate")
  BY <1>1, <1>2, InstMoves DEF CreateProfile
<1>4. Before(d) /\ saved = ref
  BY <1>1, <1>2, InstallsAlone DEF Installing
<1>5. Before(d)'
  BY <1>1, <1>3, <1>4 DEF Before, Moves
<1>6. file'[inst[d].uid] = inst[d].auth.hash /\ \A u \in Uids : u # inst[d].uid => file'[u] = file[u]
  BY <1>1, <1>2 DEF Types
<1>7. Past(d)' /\ New(d)' => Installing(d)'
  BY <1>1, <1>3, <1>4, <1>5, <1>6 DEF Installing, Moves
<1> QED BY <1>1, <1>3, <1>4, <1>6, <1>7, GoesOn

LEMMA ActivateSound ==
    ASSUME Types, Course, Sound, NEW d \in Doors, Activate(d)
    PROVE  Sound'
<1>1. inst[d].at = "activate" /\ upd' = Aborted /\ UNCHANGED <<file, saved, storage, ref, edit>>
  BY DEF Activate, page
<1>2. inst[d] # Idle /\ inst[d] \in Installs
  BY <1>1, Midway
<1>3. Moves(d, "write")
  BY <1>1, <1>2, InstMoves DEF Activate
<1>4. Before(d) /\ saved = ref /\ file[inst[d].uid] = inst[d].auth.hash
  BY <1>1, <1>2, InstallsAlone DEF Installing
<1>5. Before(d)'
  BY <1>1, <1>3, <1>4 DEF Before, Moves
<1>6. Past(d)' /\ New(d)' => Installing(d)'
  BY <1>1, <1>3, <1>4, <1>5 DEF Installing, Moves
<1> QED BY <1>1, <1>3, <1>6, GoesOn

LEMMA CommitWriteSound ==
    ASSUME Types, Course, Sound, NEW d \in Doors, CommitWrite(d)
    PROVE  Sound'
<1>1. inst[d].at = "write" /\ saved' = inst[d].auth /\ UNCHANGED <<file, storage, ref, upd, edit>>
  BY DEF CommitWrite, page
<1>2. inst[d] # Idle /\ inst[d] \in Installs
  BY <1>1, Midway
<1>3. Moves(d, "assign")
  BY <1>1, <1>2, InstMoves DEF CommitWrite
<1>4. Before(d) /\ file[inst[d].uid] = inst[d].auth.hash
  BY <1>1, <1>2, InstallsAlone DEF Installing
<1>5. Before(d)'
  BY <1>1, <1>3, <1>4 DEF Before, Moves
<1>6. Past(d)' /\ New(d)' => Installing(d)'
  BY <1>1, <1>3, <1>4, <1>5 DEF Installing, Moves
<1> QED BY <1>1, <1>3, <1>6, GoesOn

LEMMA CommitAssignSound ==
    ASSUME Types, Course, Sound, NEW d \in Doors, CommitAssign(d)
    PROVE  Sound'
<1>1. /\ inst[d].at = "assign" /\ ref' = inst[d].auth /\ storage' = NewStorage(inst[d].auth)
      /\ upd' = Overtaken(Aborted) /\ UNCHANGED <<file, saved, edit>>
  BY DEF CommitAssign, NewStorage
<1>2. inst[d] # Idle /\ inst[d] \in Installs
  BY <1>1, Midway
<1>3. Moves(d, "settle")
  BY <1>1, <1>2, InstMoves DEF CommitAssign
<1>4. saved = inst[d].auth /\ file[inst[d].uid] = inst[d].auth.hash
  BY <1>1, <1>2, InstallsAlone DEF Installing
<1>5. upd' = Idle \/ ~upd'.same
  BY <1>1, StoppedStep
<1>6. Past(d)' /\ New(d)' => Installing(d)'
  BY <1>1, <1>3, <1>4, <1>5 DEF Installing, Moves
<1>7. upd # Idle => ~upd'.same
  BY <1>1, StoppedStep
<1> QED BY <1>1, <1>3, <1>6, <1>7, GoesOn

LEMMA SettleSound ==
    ASSUME Types, Course, Fresh, Sound, NEW d \in Doors, Settle(d)
    PROVE  Sound'
<1> DEFINE a == inst[d].auth
           old == inst[d].previous.storage.uid
<1>1. /\ inst[d].at = "settle" /\ UNCHANGED <<saved, storage, ref, upd, edit>>
      /\ inst' = [inst EXCEPT ![d] = Idle]
      /\ file' = IF old \in {NoUid, inst[d].uid} THEN file ELSE [file EXCEPT ![old] = NoFile]
  BY DEF Settle
<1>2. inst[d] # Idle /\ inst[d] \in Installs /\ inst[d].uid \in Uids /\ Past(d) /\ New(d)
  BY <1>1, Midway
<1>3. inst'[d] = Idle /\ Others(d)
  BY <1>1, ClearedStep DEF Cleared
<1>4. /\ ref = a /\ saved = ref /\ storage = NewStorage(ref) /\ file[inst[d].uid] = a.hash
      /\ upd = Idle \/ ~upd.same
  BY <1>1, <1>2, InstallsAlone DEF Installing
<1>5. a \in Auths /\ a # NoAuth /\ a.uid = inst[d].uid /\ a.hash \in Contents /\ a.hash # NoFile
      /\ a.hash.n \in Nat
  BY <1>2, InstallKinds, NoneIsNothing DEF Fresh
<1>6. file'[inst[d].uid] = a.hash
  BY <1>1, <1>2, <1>4 DEF Types
<1>7. WholeNow'
  BY <1>1, <1>2, <1>4, <1>5, <1>6 DEF WholeNow, Whole, File, New, NewStorage
<1>8. Installing(d)'
  BY <1>3 DEF Installing
<1> QED BY <1>1, <1>2, <1>3, <1>4, <1>7, <1>8, InstallSound

LEMMA InstallFailsSound ==
    ASSUME Types, Course, Sound, NEW d \in Doors, InstallFails(d)
    PROVE  Sound'
<1>1. /\ inst[d].at \in {"create", "activate", "write", "settle"}
      /\ UNCHANGED <<file, saved, storage, ref, upd, edit>>
  BY DEF InstallFails, page
<1>2. inst[d] # Idle /\ inst[d] \in Installs
  BY <1>1, Midway
<1>3. Moves(d, "back")
  BY <1>1, <1>2, InstMoves DEF InstallFails
<1>4. upd = Idle \/ ~upd.same \/ Before(d)
  BY <1>1, <1>2, InstallsAlone DEF Installing
<1>5. Before(d) => Before(d)'
  BY <1>1, <1>3 DEF Before, Moves
<1>6. Past(d)' /\ New(d)' => Installing(d)'
  BY <1>1, <1>3, <1>4, <1>5 DEF Installing, Moves
<1> QED BY <1>1, <1>3, <1>6, GoesOn

LEMMA SwitchBackSound ==
    ASSUME Types, Course, Sound, NEW d \in Doors, SwitchBack(d)
    PROVE  Sound'
<1>1. /\ inst[d].at = "back" /\ UNCHANGED <<file, saved, storage, ref, edit>>
      /\ upd' = upd \/ upd' = Aborted
  BY DEF SwitchBack, page
<1>2. inst[d] # Idle /\ inst[d] \in Installs
  BY <1>1, Midway
<1>3. PICK at \in {"drop", "rewrite"} : Moves(d, at)
  BY <1>1, <1>2, InstMoves DEF SwitchBack
<1>4. upd = Idle \/ ~upd.same \/ Before(d)
  BY <1>1, <1>2, InstallsAlone DEF Installing
<1>5. Before(d) => Before(d)'
  BY <1>1, <1>3 DEF Before, Moves
<1>6. upd' = Idle \/ ~upd'.same \/ (upd # Idle /\ upd.same)
  BY <1>1, Kinds, AbortedStep DEF Stopped
<1>7. Past(d)' /\ New(d)' => Installing(d)'
  BY <1>1, <1>3, <1>4, <1>5, <1>6 DEF Installing, Moves
<1> QED BY <1>1, <1>3, <1>7, GoesOn

LEMMA DropNewSound ==
    ASSUME Types, Course, Sound, NEW d \in Doors, DropNew(d)
    PROVE  Sound'
<1>1. /\ inst[d].at = "drop" /\ (file' = [file EXCEPT ![inst[d].uid] = NoFile] \/ file' = file)
      /\ UNCHANGED <<saved, storage, ref, upd, edit>>
  BY DEF DropNew, page
<1>2. inst[d] # Idle /\ inst[d] \in Installs /\ inst[d].uid \in Uids
  BY <1>1, Midway
<1>3. Moves(d, "rewrite")
  BY <1>1, <1>2, InstMoves DEF DropNew
<1>4. upd = Idle \/ ~upd.same \/ Before(d)
  BY <1>1, <1>2, InstallsAlone DEF Installing
<1>5. Before(d) => Before(d)'
  BY <1>1, <1>3 DEF Before, Moves
<1>6. \A u \in Uids : u # inst[d].uid => file'[u] = file[u]
  BY <1>1, <1>2 DEF Types
<1>7. Past(d)' /\ New(d)' => Installing(d)'
  BY <1>1, <1>3, <1>4, <1>5 DEF Installing, Moves
<1> QED BY <1>1, <1>3, <1>4, <1>6, <1>7, GoesOn

LEMMA RestoreWriteSound ==
    ASSUME Types, Course, Sound, NEW d \in Doors, RestoreWrite(d), "undo" \notin lapses'
    PROVE  Sound'
<1>1. inst[d].at = "rewrite" /\ UNCHANGED <<file, storage, ref, upd, edit>>
  BY DEF RestoreWrite, page
<1>2. inst[d] # Idle /\ inst[d] \in Installs
  BY <1>1, Midway
<1>3. ~(events' > events)
  BY DEF RestoreWrite, Lapses, Undone
<1>4. saved' = inst[d].previous.auth /\ Moves(d, "restore")
  BY <1>2, <1>3, InstMoves DEF RestoreWrite, Event, Types
<1>5. upd = Idle \/ ~upd.same \/ Before(d)
  BY <1>1, <1>2, InstallsAlone DEF Installing
<1>6. Before(d) => Before(d)'
  BY <1>1, <1>4 DEF Before, Moves
<1>7. Past(d)' /\ New(d)' => Installing(d)'
  BY <1>1, <1>4, <1>5, <1>6 DEF Installing, Moves
<1> QED BY <1>1, <1>4, <1>7, GoesOn

LEMMA RestoreAssignSound ==
    ASSUME Types, Course, Sound, NEW d \in Doors, RestoreAssign(d)
    PROVE  Sound'
<1> DEFINE p == inst[d].previous
<1>1. inst[d].at \in {"restore", "storage"}
  BY DEF RestoreAssign
<1>2. inst[d] # Idle /\ inst[d] \in Installs /\ Past(d)
  BY <1>1, Midway
<1>3. inst[d].at = "restore" /\ saved = p.auth
  BY <1>1, <1>2, InstallsAlone DEF Installing
<1>4. /\ ref' = p.auth /\ storage' = p.storage /\ upd' = Overtaken(Aborted)
      /\ UNCHANGED <<file, saved, edit>> /\ inst' = [inst EXCEPT ![d] = Idle]
  BY <1>3 DEF RestoreAssign, ImportFails
<1>5. inst'[d] = Idle /\ Others(d)
  BY <1>4, ClearedStep DEF Cleared
<1>6. WholeNow'
  BY <1>2, <1>4 DEF Past, WholeNow, File
<1>7. Installing(d)'
  BY <1>5 DEF Installing
<1>8. upd # Idle => ~upd'.same
  BY <1>4, StoppedStep
<1> QED BY <1>2, <1>3, <1>4, <1>5, <1>6, <1>7, <1>8, InstallSound

------------------------------------------------------------------------------
(* The store, step by step. *)

LEMMA LapsesGrow == [Next]_vars => lapses \subseteq lapses'
<1> SUFFICES ASSUME [Next]_vars PROVE lapses \subseteq lapses'
  OBVIOUS
<1>1. ASSUME NEW others, Lapses(others) PROVE lapses \subseteq lapses'
  BY <1>1 DEF Lapses
<1> QED
  BY <1>1 DEF Next, Updates, Edits, Install, vars, bounds, CheckStart, UpdateStart, StateAnswers, ReadLocal,
     Refused, Renew, Download, SaveContent, ReadBack, WriteAuth, AssignRef, UndoContent, OpenCodeImport,
     CloseDialog, ImportStart, Exchange, LoadInstall, CreateProfile, Activate, CommitWrite, CommitAssign, Settle,
     InstallFails, SwitchBack, DropNew, RestoreWrite, RestoreAssign, EditStart, EditSaved, EditFails, EditWrite,
     EditAssign, Publish, Wake, Restart

LEMMA StoreStep == Types /\ Course /\ Versions /\ Fresh /\ Store /\ [Next]_vars => Store'
<1> SUFFICES ASSUME Types, Course, Versions, Fresh, Store, [Next]_vars, Orderly' PROVE Sound'
  BY DEF Store
<1>1. Sound /\ "overlap" \notin lapses' /\ "undo" \notin lapses' /\ "cut" \notin lapses'
  BY LapsesGrow DEF Store, Orderly
<1>2. CASE CheckStart
  BY <1>1, <1>2, CheckStartSound
<1>3. ASSUME NEW k \in {"auto", "manual"}, UpdateStart(k) PROVE Sound'
  BY <1>1, <1>3, UpdateStartSound
<1>4. CASE Updates
  BY <1>1, <1>4, StateAnswersSound, ReadLocalSound, RefusedSound, RenewSound, DownloadSound, SaveContentSound,
     ReadBackSound, WriteAuthSound, AssignRefSound, UndoContentSound DEF Updates
<1>5. CASE OpenCodeImport
  BY <1>1, <1>5, Cancels DEF OpenCodeImport
<1>6. ASSUME UNCHANGED <<file, saved, storage, ref, upd, inst, edit>> PROVE Sound'
  <2>1. WholeNow' = WholeNow /\ Ahead' = Ahead /\ File(upd.next)' = File(upd.next)
        /\ File(edit.next)' = File(edit.next)
    BY <1>6 DEF WholeNow, Ahead, File
  <2>2. Alone' /\ CheckAlone' /\ ReadInv' /\ CodeInv' /\ WritingInv' /\ EditInv' /\ RestInv'
    BY <1>1, <1>6, <2>1 DEF Sound, Alone, CheckAlone, ReadInv, CodeInv, WritingInv, EditInv, RestInv, Quiet,
       Writing, Loaded
  <2>3. ASSUME NEW d \in Doors PROVE Installing(d)'
    <3>1. Past(d)' = Past(d) /\ New(d)' = New(d) /\ Before(d)' = Before(d)
      BY <1>6 DEF Past, New, Before, File
    <3> QED BY <1>1, <1>6, <2>1, <3>1 DEF Sound, InstInv, Installing
  <2> QED BY <2>2, <2>3 DEF Sound, InstInv
<1>7. CASE CloseDialog \/ Wake \/ UNCHANGED vars \/ \E c \in Codes : Publish(c)
  BY <1>6, <1>7 DEF CloseDialog, Wake, Publish, vars, page
<1>8. ASSUME NEW d \in Doors, NEW c \in Codes, ImportStart(d, c) PROVE Sound'
  BY <1>1, <1>8, ImportStartSound
<1>9. ASSUME NEW d \in Doors, Install(d) \/ InstallFails(d) PROVE Sound'
  BY <1>1, <1>9, ExchangeSound, LoadInstallSound, CreateProfileSound, ActivateSound, CommitWriteSound,
     CommitAssignSound, SettleSound, SwitchBackSound, DropNewSound, RestoreWriteSound, RestoreAssignSound,
     InstallFailsSound DEF Install
<1>10. CASE EditStart \/ Edits \/ EditFails
  BY <1>1, <1>10, EditStartSound, EditSavedSound, EditWriteSound, EditAssignSound, EditFailsSound DEF Edits
<1>11. CASE Restart
  <2>1. Writers(upd, inst, edit) = {}
    BY <1>1, <1>11 DEF Restart
  <2>2. WholeNow /\ saved = ref
    BY <1>1, <2>1, Free
  <2>3. /\ ref' = saved /\ saved' = saved /\ upd' = Idle /\ edit' = Idle /\ \A d \in Doors : inst'[d] = Idle
        /\ UNCHANGED <<file, storage>>
    BY <1>11 DEF Restart
  <2>4. WholeNow'
    BY <2>2, <2>3 DEF WholeNow, File
  <2> QED BY <2>2, <2>3, <2>4, Rests
<1> QED BY <1>2, <1>3, <1>4, <1>5, <1>7, <1>8, <1>9, <1>10, <1>11 DEF Next

------------------------------------------------------------------------------
(* Without a lapse an update has the page to itself. *)

LEMMA HeldStops ==
    ASSUME Types, Course, Held, lapses = {},
           upd = Idle => upd' = Idle,
           upd # Idle => /\ Stopped(upd, upd') /\ upd.kind = "check" /\ upd'.aborted
                         /\ ~Writing(upd) \/ file' = file
    PROVE  Held'
<1> SUFFICES ASSUME upd' # Idle PROVE Held'
  BY DEF Held
<1>1. /\ upd # Idle /\ upd'.kind = "check" /\ upd'.at = upd.at /\ upd'.aborted /\ upd'.then = upd.then
      /\ upd'.auth = upd.auth /\ upd'.read = upd.read
  BY DEF Stopped
<1>2. ~(upd.at \in {"write", "assign"} /\ upd.then = "load")
  BY <1>1 DEF Course, Stopped
<1>3. upd.at = "save" => file' = file /\ file[upd.auth.uid] = upd.read
  BY <1>1 DEF Held, Writing
<1> QED BY <1>1, <1>2, <1>3 DEF Held

\* an update that goes on, its page and its file being what they were
LEMMA HeldGoes ==
    ASSUME Held, lapses = {}, upd \in UpdateRecords, upd # Idle, Goes(upd, upd'),
           upd.kind # "check" => busy' = busy /\ (upd.same => upd'.same),
           UNCHANGED <<inst, edit>>,
           upd'.at \in {"load", "renew", "save"} /\ ~upd'.aborted => file'[upd'.auth.uid] = upd'.read,
           upd'.at \in {"write", "assign"} /\ upd'.then = "load" => file'[upd'.auth.uid] = upd'.read,
           upd'.at = "save" => ~upd'.aborted \/ file'[upd'.auth.uid] = upd'.read
    PROVE  Held'
BY DEF Held, Goes

LEMMA HeldStep == Types /\ Course /\ Store /\ Held /\ [Next]_vars => Held'
<1> SUFFICES ASSUME Types, Course, Store, Held, [Next]_vars, lapses' = {} PROVE Held'
  BY DEF Held
<1> USE DEF server, page, bounds
<1>1. lapses = {} /\ Sound
  BY LapsesGrow DEF Store, Orderly
<1>2. ASSUME upd' = Idle PROVE Held'
  BY <1>2 DEF Held
<1>3. ASSUME NEW result, NEW r, UpdateEnds(result, r) PROVE Held'
  BY <1>2, <1>3 DEF UpdateEnds
<1>4. ASSUME UNCHANGED <<upd, file, busy, edit, inst>> PROVE Held'
  BY <1>1, <1>4 DEF Held
<1>5. upd # Idle /\ upd.kind # "check" =>
         busy /\ edit = Idle /\ (\A d \in Doors : inst[d] = Idle) /\ upd.same
  BY <1>1 DEF Held
<1>6. ASSUME upd # Idle => upd.kind = "check", upd' = Aborted, UNCHANGED file PROVE Held'
  BY <1>1, <1>6, AbortedStep, HeldStops
<1>7. CASE CheckStart
  <2>1. upd'.kind = "check" /\ upd'.at = "state"
    BY <1>7, CheckStartStep
  <2> QED BY <2>1 DEF Held
<1>8. ASSUME NEW k \in {"auto", "manual"}, UpdateStart(k) PROVE Held'
  <2> SUFFICES ASSUME upd' # Idle PROVE Held'
    BY <1>2
  <2>1. upd = Idle /\ busy' = TRUE /\ UNCHANGED <<inst, edit>> /\ Lapses({})
    BY <1>8, UpdateStartStep
  <2>2. edit = Idle /\ \A d \in Doors : inst[d] = Idle
    BY <1>1, <2>1, LapsesStep, Free
  <2>3. upd'.same /\ (upd'.at = "read" \/ (upd'.at = "write" /\ upd'.then = "detached"))
    BY <1>8, UpdateStartStep DEF Begun
  <2> QED BY <2>1, <2>2, <2>3 DEF Held
<1>9. CASE StateAnswers
  <2>1. CASE upd' # Idle
    <3>1. upd'.kind = "check" /\ (upd'.at = "read" \/ (upd'.at = "write" /\ upd'.then = "detached"))
      BY <1>9, <2>1, StateAnswersStep DEF UpdateEnds, Begun, Goes
    <3> QED BY <3>1 DEF Held
  <2> QED BY <1>2, <2>1
<1>10. CASE ReadLocal
  <2>1. /\ upd \in UpdateRecords /\ upd # Idle /\ upd.at = "read" /\ UNCHANGED <<file, inst, edit>>
    BY <1>10, ReadLocalStep, IdleIs
  <2>2. CASE UpdateEnds("failed", ref)
    BY <1>3, <2>2
  <2>3. CASE ~UpdateEnds("failed", ref)
    <3>1. /\ Keeps(upd, upd') /\ (upd.kind # "check" => busy' = busy)
          /\ \/ upd'.at = "write" /\ upd'.then = "detached"
             \/ upd'.at = "load" /\ upd'.read = file[upd.auth.uid]
      BY <1>10, <2>3, ReadLocalStep DEF Hold
    <3> QED BY <1>1, <2>1, <3>1, HeldGoes DEF Keeps
  <2> QED BY <2>2, <2>3
<1>11. CASE Refused
  <2>1. /\ upd \in UpdateRecords /\ upd # Idle /\ upd.at = "load" /\ UNCHANGED <<file, inst, edit>>
    BY <1>11, RefusedStep, IdleIs
  <2>2. CASE UpdateEnds("failed", ref)
    BY <1>3, <2>2
  <2>3. CASE ~UpdateEnds("failed", ref)
    <3>1. Keeps(upd, upd') /\ busy' = busy /\ upd'.at = "renew" /\ upd'.read = upd.read
      BY <1>11, <2>3, RefusedStep
    <3>2. ~upd.aborted => file[upd.auth.uid] = upd.read
      BY <1>1, <2>1 DEF Held
    <3> QED BY <1>1, <2>1, <3>1, <3>2, HeldGoes DEF Keeps, Goes
  <2> QED BY <2>2, <2>3
<1>12. CASE Renew
  <2>1. /\ upd \in UpdateRecords /\ upd # Idle /\ upd.at = "renew" /\ UNCHANGED <<file, inst, edit>>
    BY <1>12, RenewStep, IdleIs
  <2>2. CASE UpdateEnds("failed", ref)
    BY <1>3, <2>2
  <2>3. CASE ~UpdateEnds("failed", ref)
    <3>1. /\ Keeps(upd, upd') /\ busy' = busy /\ upd'.at = "write" /\ upd'.read = upd.read
      BY <1>12, <2>3, RenewStep
    <3>2. upd.kind = "manual" /\ ~upd.aborted
      BY <2>1 DEF Course
    <3>3. file[upd.auth.uid] = upd.read
      BY <1>1, <2>1, <3>2 DEF Held
    <3> QED BY <1>1, <2>1, <3>1, <3>3, HeldGoes DEF Keeps
  <2> QED BY <2>2, <2>3
<1>13. CASE Download
  <2>1. /\ upd \in UpdateRecords /\ upd # Idle /\ upd.at = "load" /\ UNCHANGED <<file, inst, edit>>
    BY <1>13, DownloadStep, IdleIs
  <2>2. CASE UpdateEnds("failed", ref) \/ UpdateEnds("unchanged", ref)
    BY <1>3, <2>2
  <2>3. CASE ~(UpdateEnds("failed", ref) \/ UpdateEnds("unchanged", ref))
    <3>1. /\ Keeps(upd, upd') /\ upd'.read = upd.read /\ ~upd.aborted
          /\ upd.kind # "check" => busy' = busy
          /\ upd'.at = "save" \/ (upd'.at = "write" /\ upd'.then = "unchanged")
      BY <1>13, <2>3, DownloadStep DEF Hold
    <3>2. file[upd.auth.uid] = upd.read
      BY <1>1, <2>1, <3>1 DEF Held
    <3> QED BY <1>1, <2>1, <3>1, <3>2, HeldGoes DEF Keeps
  <2> QED BY <2>2, <2>3
<1>14. CASE SaveContent
  <2>1. /\ upd \in UpdateRecords /\ upd # Idle /\ UNCHANGED <<inst, edit>>
    BY <1>14, SaveContentStep, IdleIs
  <2>2. CASE UpdateEnds("failed", ref)
    BY <1>3, <2>2
  <2>3. CASE ~UpdateEnds("failed", ref)
    <3>1. Keeps(upd, upd') /\ busy' = busy /\ upd'.at = "back"
      BY <1>14, <2>3, SaveContentStep
    <3> QED BY <1>1, <2>1, <3>1, HeldGoes DEF Keeps
  <2> QED BY <2>2, <2>3
<1>15. CASE ReadBack
  <2>1. /\ upd \in UpdateRecords /\ upd # Idle /\ upd.at = "back" /\ UNCHANGED <<inst, edit>>
        /\ Keeps(upd, upd') /\ busy' = busy /\ upd'.at \in {"undo", "write"} /\ upd'.then = upd.then
    BY <1>15, ReadBackStep, IdleIs
  <2>2. upd.then = "updated"
    BY <2>1 DEF Course
  <2> QED BY <1>1, <2>1, <2>2, HeldGoes DEF Keeps
<1>16. CASE WriteAuth
  <2>1. /\ upd \in UpdateRecords /\ upd # Idle /\ upd.at = "write" /\ UNCHANGED <<file, inst, edit>>
    BY <1>16, WriteAuthStep, IdleIs
  <2>2. CASE UpdateEnds("failed", ref)
    BY <1>3, <2>2
  <2>3. CASE ~UpdateEnds("failed", ref)
    <3>1. /\ Keeps(upd, upd') /\ busy' = busy /\ upd'.read = upd.read /\ upd'.then = upd.then
          /\ upd'.at \in {"assign", "undo"}
      BY <1>16, <2>3, WriteAuthStep
    <3>2. upd.then = "load" => file[upd.auth.uid] = upd.read
      BY <1>1, <2>1 DEF Held
    <3> QED BY <1>1, <2>1, <3>1, <3>2, HeldGoes DEF Keeps
  <2> QED BY <2>2, <2>3
<1>17. CASE AssignRef
  <2>1. /\ upd \in UpdateRecords /\ upd # Idle /\ upd.at = "assign" /\ UNCHANGED <<file, inst, edit>>
    BY <1>17, AssignRefStep, IdleIs
  <2>2. CASE UpdateEnds(upd.then, upd.next)
    BY <1>3, <2>2
  <2>3. CASE ~UpdateEnds(upd.then, upd.next)
    <3>1. /\ Goes(upd, upd') /\ busy' = busy /\ upd'.at = "load" /\ upd'.read = upd.read /\ upd'.same
          /\ upd.then = "load" /\ upd'.auth = upd.next
      BY <1>17, <2>3, AssignRefStep
    <3>2. file[upd.auth.uid] = upd.read
      BY <1>1, <2>1, <3>1 DEF Held
    <3>3. upd.next.uid = upd.auth.uid
      BY <1>1, <2>1 DEF Sound, WritingInv, Writing
    <3> QED BY <1>1, <2>1, <3>1, <3>2, <3>3, HeldGoes
  <2> QED BY <2>2, <2>3
<1>18. CASE UndoContent
  BY <1>3, <1>18, UndoContentStep
<1>19. CASE OpenCodeImport
  BY <1>5, <1>6, <1>19 DEF OpenCodeImport
<1>20. CASE CloseDialog \/ Wake \/ UNCHANGED vars \/ \E c \in Codes : Publish(c)
  BY <1>4, <1>20 DEF CloseDialog, Wake, Publish, vars
<1>21. ASSUME NEW d \in Doors, NEW c \in Codes, ImportStart(d, c) PROVE Held'
  <2>1. /\ d = "code" => ~busy
        /\ upd' = Aborted /\ file' = file /\ Lapses(IF d = "link" /\ busy THEN {"link"} ELSE {})
    BY <1>21, ImportStartStep
  <2>2. ~busy
    <3>1. (IF d = "link" /\ busy THEN {"link"} ELSE {}) \subseteq lapses'
      BY <2>1, LapsesStep
    <3> QED BY <2>1, <3>1 DEF Doors
  <2> QED BY <1>5, <1>6, <2>1, <2>2
<1>22. ASSUME NEW d \in Doors, Install(d) \/ InstallFails(d) PROVE Held'
  <2>1. inst[d] # Idle /\ (upd' = upd \/ upd' = Aborted \/ upd' = Overtaken(Aborted))
    BY <1>22, InstallShape
  <2>2. ~Writing(upd) /\ (upd # Idle /\ upd.kind = "check" => upd.aborted)
    BY <1>1, <2>1, InstallsAlone
  <2>3. upd # Idle => upd.kind = "check"
    BY <1>5, <2>1
  <2>4. upd = Idle => upd' = Idle
    BY <2>1, AbortedStep, StoppedStep
  <2>5. ASSUME upd # Idle PROVE Stopped(upd, upd') /\ upd'.aborted
    <3>1. CASE upd' = upd
      BY <2>2, <2>3, <2>5, <3>1, Kinds DEF Stopped
    <3>2. CASE upd' = Aborted
      BY <2>3, <2>5, <3>2, AbortedStep
    <3>3. CASE upd' = Overtaken(Aborted)
      BY <2>3, <2>5, <3>3, StoppedStep
    <3> QED BY <2>1, <3>1, <3>2, <3>3
  <2> QED BY <1>1, <2>2, <2>3, <2>4, <2>5, HeldStops
<1>23. CASE EditStart
  BY <1>5, <1>6, <1>23, EditStartStep
<1>24. CASE Edits \/ EditFails
  <2>1. edit # Idle /\ (upd' = upd \/ upd' = Overtaken(upd))
    BY <1>24, Kinds DEF Edits, EditSaved, EditWrite, EditAssign, EditFails
  <2>2. ~Writing(upd) /\ (upd # Idle => upd.kind = "check" /\ upd.aborted)
    BY <1>1, <1>5, <2>1, Editing
  <2>3. upd \in {Idle} \cup UpdateRecords
    BY DEF Types
  <2>4. upd = Idle => upd' = Idle
    BY <2>1, <2>3, OvertakenStep
  <2>5. upd # Idle => Stopped(upd, upd') /\ upd'.aborted
    BY <2>1, <2>2, <2>3, OvertakenStep DEF Stopped
  <2> QED BY <1>1, <2>2, <2>4, <2>5, HeldStops
<1>25. CASE Restart
  BY <1>2, <1>25 DEF Restart
<1> QED
  BY <1>7, <1>8, <1>9, <1>10, <1>11, <1>12, <1>13, <1>14, <1>15, <1>16, <1>17, <1>18, <1>19, <1>20, <1>21,
     <1>22, <1>23, <1>24, <1>25 DEF Next, Updates

------------------------------------------------------------------------------
(* The invariant, and the theorems. *)

LEMMA InitIInv == Init => IInv
<1> SUFFICES ASSUME Init PROVE IInv
  OBVIOUS
<1>1. Types
  BY InitTypes
<1>2. upd = Idle /\ edit = Idle /\ \A d \in Doors : inst[d] = Idle /\ inst[d] \notin Installs
  BY DEF Init, Installs, Idle
<1>3. Course /\ Held
  BY <1>2 DEF Course, Held
<1>4. Released
  BY DEF Init, Released
<1>5. PICK c \in Codes \cup {NoCode} :
        /\ file = [v \in Uids |-> IF v = (IF c = NoCode THEN NoUid ELSE 1) THEN Nodes(c, 0) ELSE NoFile]
        /\ saved = IF c = NoCode THEN NoAuth
                   ELSE Credential(c, IF c = NoCode THEN NoUid ELSE 1, 0, Nodes(c, 0))
        /\ storage = [code |-> c, uid |-> IF c = NoCode THEN NoUid ELSE 1, version |-> 0]
        /\ installed = IF c = NoCode THEN NoUid ELSE 1
        /\ ref = saved /\ remote = [e \in Codes |-> 0]
  BY DEF Init
<1>6. Versions
  <2>1. storage.code = c /\ storage.version = 0
    BY <1>5
  <2>2. c # NoCode => c \in Codes /\ remote[c] = 0
    BY <1>5
  <2>3. storage.code # NoCode => storage.version <= remote[storage.code]
    BY <2>1, <2>2
  <2> QED BY <1>2, <2>3 DEF Versions
<1>7. Fresh
  BY <1>2, <1>5 DEF Fresh, NoUid
<1>8. WholeNow /\ saved = ref
  <2>1. CASE c = NoCode
    BY <1>5, <2>1 DEF WholeNow, Whole
  <2>2. CASE c # NoCode
    <3>1. c \in Codes /\ 1 \in Uids
      BY <2>2, SubscriptionAssumption DEF Uids
    <3>2. Nodes(c, 0) \in Contents /\ Nodes(c, 0).of = c /\ Nodes(c, 0).n = 0
      BY <3>1 DEF Nodes, Contents
    <3> DEFINE a == Credential(c, 1, 0, Nodes(c, 0))
    <3>3. ref = a /\ saved = a /\ storage = [code |-> c, uid |-> 1, version |-> 0]
      BY <1>5, <2>2
    <3>4. a \in Auths /\ a.code = c /\ a.uid = 1 /\ a.hash = Nodes(c, 0) /\ ~a.detached
      BY <3>1, <3>2 DEF Credential, Auths
    <3>5. file[1] = Nodes(c, 0)
      BY <1>5, <2>2, <3>1
    <3> QED BY <3>1, <3>2, <3>3, <3>4, <3>5, NoneIsNothing DEF WholeNow, Whole, File
  <2> QED BY <2>1, <2>2
<1>9. Sound
  <2>1. ~Writing(upd)
    BY <1>2, IdleIs
  <2>2. Alone /\ CheckAlone /\ ReadInv /\ CodeInv /\ WritingInv
    BY <1>2, <2>1 DEF Alone, CheckAlone, ReadInv, CodeInv, WritingInv
  <2>3. EditInv /\ RestInv /\ InstInv
    BY <1>2, <1>8 DEF EditInv, RestInv, InstInv, Installing
  <2> QED BY <2>2, <2>3 DEF Sound
<1> QED BY <1>1, <1>3, <1>4, <1>6, <1>7, <1>9 DEF IInv, Store

LEMMA TypesStep == Types /\ Course /\ [Next]_vars => Types'
<1> SUFFICES ASSUME Types, Course, [Next]_vars PROVE Types'
  OBVIOUS
<1> QED BY UpdatesTypes, RestTypes, InstallTypes DEF Next

LEMMA NextIInv == IInv /\ [Next]_vars => IInv'
BY TypesStep, CourseStep, ReleasedStep, VersionsStep, FreshStep, StoreStep, HeldStep DEF IInv

\* The invariant holds in every state of every behaviour.
THEOREM Invariance == Spec => []IInv
<1>1. Init => IInv
  BY InitIInv
<1>2. IInv /\ [Next]_vars => IInv'
  BY NextIInv
<1> QED BY <1>1, <1>2, PTL DEF Spec

\* Credential, stored code, files and flags keep their types, and an update that
\* writes or undoes a content has read the one before (updateManagedProfile).
THEOREM TypeCorrect == Spec => []TypeOK
<1>1. IInv => TypeOK
  <2> SUFFICES ASSUME IInv PROVE TypeOK
    OBVIOUS
  <2>1. Types /\ Course
    BY DEF IInv
  <2>2. upd.at \in {"save", "back", "undo"} => upd.read # NoFile
    BY <2>1, IdleIs DEF Course, Loaded
  <2>3. \A u \in Uids : file[u] # NoFile => file[u] \in Contents
    BY <2>1, Reads
  <2> QED BY <2>1, <2>2, <2>3 DEF Types, TypeOK, Storages
<1> QED BY <1>1, Invariance, PTL

\* Between the writers the credential on disk is the page's, of the stored code and
\* its profile, and the profile has a file; it is called edited only if the user
\* edited it; the version that was consumed is in the file.  Whichever step of an
\* update, an installation, its rollback or an edit failed (persistManagedAuth,
\* restorePrevious, checkSubscriptionRecovery).
THEOREM WholeAccount == Spec => []AccountSettles
<1>1. IInv => AccountSettles
  <2> SUFFICES ASSUME IInv, Quiet, Orderly PROVE AccountSettles
    BY DEF AccountSettles, OneAccount, DetachedMeansEdited, VersionIsApplied
  <2>1. WholeNow /\ saved = ref
    BY DEF IInv, Store, Sound, RestInv
  <2>2. OneAccount
    BY <2>1 DEF OneAccount, WholeNow, Whole, File
  <2>3. DetachedMeansEdited
    BY <2>1 DEF DetachedMeansEdited, WholeNow, Whole, File, ByUser
  <2>4. VersionIsApplied
    BY <2>1 DEF VersionIsApplied, WholeNow, Whole, File, ByUser
  <2> QED BY <2>2, <2>3, <2>4 DEF AccountSettles
<1> QED BY <1>1, Invariance, PTL

\* With nothing under way neither busy nor refreshApplyInFlightRef is set.
THEOREM PageReleased == Spec => []PageIsReleased
<1>1. IInv => PageIsReleased
  BY DEF IInv, Released, PageIsReleased
<1> QED BY <1>1, Invariance, PTL

\* saveProfileFile in updateManagedProfile overwrites what was read, and unless the
\* update is forced not what the user edited.
THEOREM NothingUnseen == Spec => NoUnseenOverwrite
<1> DEFINE Seen == upd.at = "save" /\ lapses = {} =>
                      file[upd.auth.uid] = upd.read /\ (ByUser(upd.auth.uid) => upd.forced)
<1>1. IInv => Seen
  <2> SUFFICES ASSUME IInv, upd.at = "save", lapses = {}
               PROVE  file[upd.auth.uid] = upd.read /\ (ByUser(upd.auth.uid) => upd.forced)
    OBVIOUS
  <2>1. upd # Idle /\ Writing(upd) /\ Loaded(upd) /\ Sound /\ Course
    BY IdleIs DEF IInv, Store, Orderly, Writing, Loaded
  <2>2. file[upd.auth.uid] = upd.read
    BY <2>1 DEF IInv, Held
  <2>3. upd.same /\ upd.auth # NoAuth /\ Whole(upd.auth, storage, upd.read)
    BY <2>1, Holding DEF IInv, Sound, ReadInv
  <2>4. ASSUME ByUser(upd.auth.uid), ~upd.forced PROVE FALSE
    <3>1. ~upd.auth.detached /\ upd.auth.hash = upd.read
      BY <2>1, <2>4 DEF Course
    <3> QED BY <2>2, <2>3, <2>4, <3>1 DEF Whole, ByUser
  <2>5. upd.forced \in BOOLEAN
    BY <2>1, Kinds DEF IInv, UpdateRecords
  <2> QED BY <2>2, <2>4, <2>5
<1>2. Seen /\ [Next]_vars =>
        [(upd.at = "save" /\ upd'.at = "back" /\ lapses = {}) =>
            file[upd.auth.uid] = upd.read /\ (ByUser(upd.auth.uid) => upd.forced)]_vars
  OBVIOUS
<1>3. Spec => [][Next]_vars
  BY DEF Spec
<1> HIDE DEF Seen
<1> QED BY <1>1, <1>2, <1>3, Invariance, PTL DEF NoUnseenOverwrite
==============================================================================
