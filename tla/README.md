# Verification of the 神仙云 desktop client

TLA+ models of the client (a fork of clash-verge-rev: a Tauri application, Rust
under `src-tauri/src`, a React front end under `src`, and crates under `crates`),
TLC runs of small instances, and TLAPS proofs for every value of the constants.
Paths below are relative to the repository.

## 1. The system

The application starts and stops a proxy core (mihomo), as its own child process
("sidecar") or through an installed service. Configurations (settings, profile
index, generated runtime configuration) live in `Draft<T>` stores and files. The
home page installs a managed subscription, announces the device as online, and
reports the proxied traffic to a billing server. All of it is concurrent: Tokio
tasks on several threads, effects and timers of the web view, the core's exits,
and a server behind an unreliable network.

| Component | State it keeps | Operations | Talks to | Hard behaviour | Module |
|---|---|---|---|---|---|
| Core manager, `core/manager/*` | running mode, tracked child, pid being stopped, last exit, three locks | start, stop, restart, exit task | the OS, the service | exits race with stops; kills fail; unconfirmed exits | `CoreLifecycle` |
| Draft store, `clash-verge-draft` | committed data, draft, a flag with a `Notify` | edit, apply, discard, `with_data_modify` | every configuration | queueing, lost wake-ups, cancellation, optimistic lock | `Draft`, `AtomicDraft` |
| Profile switching, `cmd/profile.rs`, `core/manager/config.rs` | index, runtime configuration, their drafts and files, three flags | switch, update, validate, reload, restore, restart | drafts, core | every step can fail or time out half way | `ConfigSwitch` |
| Traffic accounting, `managed-traffic-counter.ts`, `pages/home.tsx` | counter in memory and in localStorage, frozen packet, readiness | observe, report, acknowledge, rebase, restore | core socket, server, relay | crash, resend, duplicates, core restart | `TrafficAccounting`, `TrafficMeter` |
| Report scheduler, `managed-traffic-scheduler.ts` | timer, failures, attempt in flight, pending activity | start, stop, notify, attempt | the report above | backoff against activity, deadline against late answer | `TrafficScheduler` |
| Settings and system proxy, `feat/config.rs`, `core/sysopt.rs`, `feat/window.rs` | settings draft and file, OS proxy, guard | patch, update, refresh guard, quit | OS, drafts | concurrent patches, failed steps, quit in between | `SystemProxy` |
| Update timer, `core/timer.rs` | delay queue with reused keys, task states, last map sent | change a profile, refresh, apply, run now, finish | profile updates | commands out of order, stale completions, a removal during an update | `UpdateTimer` |
| Profiles and their files, `config/profiles.rs`, `cmd/profile.rs`, `cmd/save_profile.rs`, `feat/profile.rs` | index, its file, the profiles' files, what the core runs | create, update, edit, patch, reorder, remove, switch, restart with cleanup | draft store, core | every step fails; tasks over one profile; crash between file and index | `ProfileStore` |
| Managed subscription, `pages/home.tsx`, `subscription-monitor.ts`, `managed-download-recovery.ts` | credential on disk and in the page, code and version in localStorage, gates | check, update, renew, install by two doors, roll back, edit | server, profiles | awaits between reading and writing; rollback of an installation; stale versions | `ManagedSubscription` |
| Presence, `presence-throttle.ts` | last announcement, backoff | announce | server | state change during backoff | not modelled |
| Relay grants, endpoints, deadlines, `services/*.ts` | grants, endpoint order | prepare, resolve | server | single flight, deadline, cancellation | not modelled |
| Service manager, `core/service.rs` | service status | install, refresh | the service | status against a running operation | not modelled |
| Updater, lightweight mode | download control, mode | download, cancel, enter, leave | network, windows | watchdog against completion | not modelled |

Configuration generation (`enhance/*`), backups, tray, windows, notifications, logging and translation are not modelled:
they transform data sequentially or only have effects that the models treat as
steps that may fail. `PROJECT.json` lists each with its reason.

What makes each modelled component correct:

- core manager: one sidecar at most, none orphaned, a stop that succeeded means it
  is gone, the reported mode is true, every request returns;
- draft store: a modification that spans awaits takes effect in one step, never
  on top of data that changed, and no task waits for ever;
- switching: whatever fails, index, files, runtime configuration and core agree
  when the switch is over, and the core runs what was validated;
- accounting: no byte is billed twice, and observed bytes are billed in the end;
- scheduler: exactly one attempt ahead, no backoff cut short, traffic reported soon;
- settings: OS proxy, guard and file follow the settings, and quit leaves no proxy;
- timer: a key names the task's own entry, every profile with automatic updates has one
  turn ahead, the tasks follow the index, and updates go on;
- profiles: whatever fails, index, files and core agree, and a removed profile stays removed;
- subscription: page, disk and localStorage speak of one account, no update overwrites
  what it has not read, no version is consumed before it is applied, and the page is released.

## 2. Plan

Order: accounting (money), core manager (processes), draft store (under
everything), switching (composes drafts and core), scheduler, system proxy, update
timer, profiles and their files, managed subscription: done. What is left, in order of use:

1. `patch_clash` beside `ConfigSwitch`: the settings patch that edits the runtime draft of
   an update in progress (`feat/config.rs:25`).
2. `Presence`: throttle and announcing effects; promise: the server's view follows
   the device's state in the end.
3. The expiry path of the managed subscription (placeholder profile, `recoverFromExpired`).
4. `RelayGrants` and `RequestDeadline`: single flight, cache, per-path and total
   deadlines.
5. `ServiceManager`, to replace the nondeterministic service of `CoreLifecycle`; then
   the updater and the lightweight mode.

Abstract specifications stated: `TrafficMeter` (what billing promises) and
`AtomicDraft` (what a store promises). `ProfileStore` uses `with_data_modify` as
`AtomicDraft` promises it, a reload as `ConfigSwitch` gives it, and `UpdateTimer` and
`ManagedSubscription` use an update and a switch as `ProfileStore` gives them.

All invariants and action properties of the runs that hold are theorems; what is left is liveness, which stays with TLC.

## 3. Modules

Every module has one action per step between two points where other tasks may run
(an `await`, a lock, an unlock), named after the function it stands for; `map` in
`PROJECT.json` gives the lines. Variables carry the source's names where TLA+ allows it.
Definitions called "Mutant of ..." are altered copies of the definition that follows
them, used to see that a property notices the alteration; no specification uses them.

**TrafficAccounting** The proxy core counts bytes (`Proxy`) and may restart. The page takes
samples (`NewSample`), creates and observes a counter, freezes a packet and sends it
(`BeginReport`). Packets stay on the network for ever: `Deliver` any number of times, in
any order; `RelayStores`, `Refuse` and `ReportFails` are the other answers. `WebViewLost`
drops everything but localStorage; `ManagedReady`, `ManagedLeft`, `BecomeStable` and `BecomeUnstable`
are the page's effects, and each of the two that load a counter may run before the first sample of a page:
the restore effect waits for one (`proxyTrafficReadyRef`), the report effect (`home.tsx:2829`) does not.
History: a sample carries `at`, the bytes ever proxied when
it was read; `sampled` says that this page has had a sample, `blind` which counters were made before that. No guard reads
them. `TrafficMeter` is the refinement target: billed bytes grow and
never exceed proxied ones (`Meter` is the mapping: `BilledBytes` is the sum over all
counters, but for the blind ones, of what the server accepted).

**TrafficScheduler** Time in ticks. `Fire` begins an attempt, `Succeed`, `Retry` and `TimeOut` end
it, `NotifyActivity` brings the timer forward, `Tick` lets time pass unless
something is due. Points in time of the code are differences to now, so the state is finite.
History: `unreported` is the age of traffic that no attempt may include yet, `frozen` says that a packet of before it is
still to be accepted (a retry resends that packet, which does not contain the traffic: `managed-traffic-scheduler.ts:279`), and
`late` that the packet was left by an earlier run of the scheduler or by a report that turned out inactive.

**CoreLifecycle** A caller walks through labels (`lock`, `enter`, `stop`, `take`, `mark`, `kill`,
`wait`, ... `spawn`, `track`, `started`), one per await or lock. Each sidecar has an exit task
(`ReportExit`, `CheckExit`, `ClearExit`) that does not take `lifecycle_lock`. The service's answers are
nondeterministic; the Windows wait for a port is left out.

**Draft / AtomicDraft** Data is the set of changes it contains. `Draft` has the fast path, the
registration with `Notify`, the parked and woken task, the copy, the commit with its check of the
`Arc`, the release and the notification, and cancellation at every await. `AtomicDraft`
has one step per effect.

**ConfigSwitch** A configuration is named by the profile it was generated from. `Switch` to
`Restore` are the steps of `patch_profiles_config`; `BeginUpdate` to `ApplyRuntime` the update with
its fallback to a restart; `Timeout` drops the update at any await; restarts run beside it.
The history variable `astray` names what may keep the core from the current profile: a restoration that failed, which the
code reports (`unrestored`); a reload that acts after its 15 s were over (`late`); a draft that a switch or an update
not through left behind (`left`), which excuses nothing by itself; and a restart that loaded such a draft (`read`). The last ones
include the draft that a failed write leaves (`manager/config.rs:126`) while the index is restored and nothing is reported:
it does no harm until a restart loads it, and the next stop ends that. The draft of the start-up names the current profile, so a
restart that reads it is no exception. STARTUP-REFRESH-243.md:11 describes the timeouts. A
save that repairs the index file may fail and leave a part of it (`disk` is 0); the next successful save ends that.

**SystemProxy** `Edit` to `Save` are the steps of `patch_verge` for the fields that concern the
proxy; the other settings are steps that fail or do not. `Lock`, `Prepare`, `Apply` and `Unlock` are
`update_sysproxy`, `ReadForGuard` and `StartOrStop` are `refresh_guard`, `Enforce` is the guard (external, as are
the writes to the operating system), `Quit` to `Exit` the end of the application. History: `tainted` (a patch or a
write failed), `crossed` (for the guard or the file: settings were read, changed by another patch, then used),
`raced` (a patch ran when the application quit).

**UpdateTimer** The scheduler task owns a `DelayQueue` (a function from keys to entries; a key is a slab
index and is used again, `Places`) and takes commands from a channel: `ApplyTimerMap`, `RunTaskNow`,
`FinishTask`, and `RunExpiredTask` for an entry that is due. `PatchProfile` changes a profile and begins a
refresh (`GenMap`, `StoreMap`, `SendMap`: the map is stored under a lock and sent after it is dropped);
`ImportProfile` is the change that no refresh follows. `UpdateEnds` is the end of an update, by success, failure or
its 40 s; `Tick` is 30 s. History: `behind` (the last refresh missed a change or was overtaken) and `readded` (a profile lost
its automatic updates and got them back while an update of it ran: it then has two entries, and a second change of
that kind can put two updates side by side).

**ProfileStore** A task is the list of steps it still has to do (`todo`); between two steps others run. The
commands (`UpdateProfile`, `SaveProfileFile`, `CreateProfile`, `DeleteProfile`, `PatchProfile`, `ReorderProfile`,
`PatchProfilesConfig`) set the list, `Fail` replaces it by what the error branch does (`Recovery`), `WriteTears` and `SaveTears` do so after a write
in place that left a part of the file (another content, or an index that cannot be read), `TimeOut` is the
timer's 40 s, which drop an update without its rollback. `Restart` ends and starts the application: the index is what its
file says (the file is written in place, so half of it reads as an empty index), and files without an item are
removed. A file is removed before the index is saved; the first profile of an empty list becomes the current one without a reload.
History: `excused` collects, as tasks begin and fail, what the code does not keep in agreement when they cross (a
switch publishes the index as it was up to 30 s before; a reload during a switch loads the profile switched to; two
tasks over one profile overwrite each other's file), when a recovery fails, or when a write leaves a part of a file. An update is held to
its promise even then: it writes the old content again.

**ManagedSubscription** The page is one thread; an action runs from one await to the next. An update (`upd`) is a
background check, an automatic or a manual one: `StateAnswers`, `ReadLocal`, `Refused`, `Renew`, `Download`, `SaveContent`,
`ReadBack`, `WriteAuth`, `AssignRef`, `UndoContent`, `UpdateEnds`. `Install` is the installation of a code by either door
(typed code, link) up to `Settle`, with its rollback (`SwitchBack`, `DropNew`, `RestoreWrite`, `RestoreAssign`);
`EditStart` to `EditAssign` is an edit by the user. A manual update does no state read, so it consumes no version. History: `lapses`
says that two writers overlapped (`importManagedRequest` looks at `refreshApplyInFlight` only, and the button at `busy`
only), that the program was closed inside a writer, that an undo failed, or that a link was opened while `busy` was set (`link`).
The last one excludes `NoUnseenOverwrite` only. What `NoUnseenOverwrite` says is that an update overwrites only
what it has read; that a background check leaves an edited profile alone at all is `EditsStayLocal`, which the first
check after a start or a wake violates (it is forced). A link that fails clears `busy` under a manual update in
progress; an edit then gets in, and if its credential cannot be written the update does not see it and overwrites the file.
This came up when the property was to be proved: it takes more events than the run has.

## 4. Runs

| Run | Result | What it shows |
|---|---|---|
| `accounting` | holds | no byte billed twice, packets keep their identity and the stored counter is what a crash leaves (`PacketsAreKept`), observed totals survive and are billed while their core lives; refines `TrafficMeter`; all of it but for a counter made by a page without a sample |
| `accounting_reload` | **violated** | after a loss of the web view the report effect makes a counter from zero totals over the stored one, and accepted bytes are billed again |
| `core` | holds | one sidecar, no orphan (`SidecarsControlled`), confirmations kept and truthful mode (`KnowledgeIsTrue`), stops confirmed, requests return |
| `draft` | holds | modifications exclude each other, each ends; refines `AtomicDraft` |
| `switch` | holds | index and file settle, the core runs the current, validated profile (196,012 states), a committed runtime configuration was loaded, switches end |
| `scheduler` | holds | no stall, backoff and rate kept (`AttemptsKeepDistance`), traffic reported in the promised time |
| `system_proxy` | holds | OS proxy, guard and file follow the settings when no patch failed (`SettingsTakeEffect`); quit turns the proxy off |
| `quit_after_failed_patch` | **violated** | a failed patch leaves its draft; quit publishes it, takes the proxy for off and leaves it on |
| `timer` | holds | keys stay valid, one turn ahead and no two updates (`QueueServesTasks`), tasks follow the index, updates go on for ever |
| `profiles` | holds | core, index and files agree after successes and restored failures; removed profiles stay removed |
| `subscription` | holds | one account, no edit overwritten unseen, no version consumed unapplied, page released, nodes follow the server |
| `edit_overwritten_at_start` | **violated** | the user edits the managed profile; the forced check after the next start saves the server's content over it |

The violated properties say what a comment or document of the repository says;
`findings` in `PROJECT.json` quotes them. In short:

- `home.tsx:2829`: the report effect creates a counter from `trafficTotalsRef`, zero until the page's first sample, and
  stores it over the one in localStorage;
- `feat/config.rs:277`: the `?` returns from the function, so the `discard` five lines below is unreachable;
- `home.tsx:2933` forces the first check, and the tests that protect an edited profile (`home.tsx:1889`, `1905`) are
  skipped when it is forced.

Other behaviours of the code that the models show, which the properties exclude by a
history variable and no run states as a violation:

- `home.tsx:2347` rebases on the new core's totals after a core restart although only the frozen packet was accepted: bytes
  observed after it was frozen are never billed (`TotalsSurviveWhileCoreLives` and `ObservedBytesAreBilled` end with the first core);
- `manager/mod.rs:129` compares pids and then writes the mode under a lock that a service start does not take: a
  late exit task overwrites the mode of a service core, and the next start runs a sidecar beside it;
- `manager/config.rs:131` discards the only runtime configuration there is after the start-up, if the first
  switch fails: a restart then has nothing to load;
- `config/profiles.rs:196` returns `Ok` with the items taken out when the dragged profile was removed meanwhile, and the
  commit publishes an empty index (`Reorder`; the properties excuse it);
- a save of the editor that fails half-way (`save_profile.rs:61`) is not undone: the current profile's file is no longer
  what the core runs (`WriteTears`);
- a profile whose automatic updates are turned off and on while it updates gets two entries in the timer's queue.

### Bounds, and why they are enough

- `accounting`: 2 bytes, 2 core lives, 2 counters, 2 packets each. Two bytes let one be
  observed after the other was frozen; the second core gives a reset, the second counter what replaces one: by a
  rebase, an answer, or a page without a sample. The proofs do without the bounds. The violation run needs 1 byte.
- `core`: 2 callers, 3 sidecars, 4 requests: enough for a stop that fails,
  a start behind it, and the exit task of the first sidecar arriving during the third.
- `draft`: 3 modifications (one inside, one parked, one overtaking), 2 edits.
- `switch`: 2 switchers, 1 restarter, 2 good profiles and a broken one, 3 switches or restarts.
- `scheduler`: a tick is 5 s; the intervals are the code's in ticks, jitter is every tick of the
  range. `NormalMin`, `NormalMax`, `MaxBackoff` and `MaxDoublings` are scaled down (the order of the
  intervals is kept): backoffs of 3, 6, 12, then 20 ticks. A `Retry-After` of 8 lies between.
- `system_proxy`: 2 callers, 3 patches of one field each: two overlap and one comes after, every
  step may fail, and `PacOffClears` is the Windows case that `proxy_apply_steps` is about.
- `timer`: 2 profiles, 2 callers, 2 changes, intervals of 2 and 3 ticks, updates of at most one tick (the
  code has 45 s against a minute): two refreshes overlap, a removed profile's key is used again by the
  other, an update outlives a change.
- `profiles`: 2 profiles, 2 contents, 2 tasks, 3 commands or restarts: two tasks overlap in every
  order of their steps and a third command or a restart finds what they left; a torn file has any content. Symmetric in profiles and contents.
- `subscription`: 2 codes, one installation besides the first, 3 events (publications, edits, wakes, restarts,
  faults). The constraint `NoOverlap` follows a behaviour up to the first overlap of two writers, behind which the
  code promises nothing. The violation run has one code and 3 events.

`CHECK_DEADLOCK FALSE` is set in `switch`, `system_proxy`, `profiles` and `subscription` (and their violation runs)
only: there the number of requests or events is bounded and the application may be gone, so the end of a
behaviour is no deadlock. The other models never stop.

### Fairness

- `accounting`: the socket pushes samples and the deadline ends an attempt (weak); the scheduler retries for
  ever (strong on `BeginReport` and `Acknowledged`, because the page keeps interrupting them); a packet that is
  retried for ever gets through some day (strong on `Deliver` with its answer). Neither core
  restarts, crashes, refusals nor the page's effects are fair.
- `core`: callers take their steps (every await has a timeout or an answer), the Tokio mutex is
  first come first served (strong on `Lock`), exit tasks are scheduled. Exits and kills that work
  are not assumed.
- `draft`: tasks that run or were woken are scheduled, and the closure ends.
- `switch`: every await has an answer or a timeout. Which answer is free.
- `scheduler`: due timers fire and time passes; answers of the server are free.
- `timer`: Tokio runs the scheduler task, the callers' refreshes and the updates (weak), and time passes (weak),
  but only when the scheduler has nothing to do and no update is over its time. Each entry that is
  due is taken in the end (weak per key). Changes of profiles are not fair.
- `subscription`: awaits return and the monitor goes on checking (weak). Installations begin, edits begin, and the server
  publishes as they like; faults are bounded events.
- `system_proxy` and `profiles` check safety only, without fairness.

## 5. Proofs

All are for every value of the constants that satisfies the module's named assumption.

**ManagedTrafficProofs** (`TrafficAccounting`) `BilledOnce` (`NoByteBilledTwice`), `PacketsKept` (`PacketsAreKept`), `Refinement`
(`ImplementsMeter`), `TotalsSurvive` (`TotalsSurviveWhileCoreLives`), `TypeCorrect`, for every start of the report effect,
early ones included. Argument: between two samples (`Later`) a total grows by at most
the bytes proxied in between, which a restart of the core does not break. So the packets of a counter lie in
the stretch of proxied bytes between its base and its last observation (`GoodCounter`), and a new
counter starts where all packets of older ones end (`GoodPackets`, `EndBefore`), unless it is `blind`: once the page has
had a sample (`sampled`), the sample is later than all it may replace (`ClockOK`). A blind counter is good in itself, so
what it breaks is its distance to older ones only, and what is restored from it afterwards is good again. The property itself is not
inductive: it says nothing of packets in flight and of the counter in localStorage. For `PacketsKept`: the
only packet of the stored counter ahead of what it acknowledged is its frozen one (`SeqOK`), a report sends
that packet, and an answer "ok" means that the server has it (`AckOK`). Every step of the page keeps
the stored counter's identity or makes a new one while no report is under way (`PageKinds`).
`Refinement` maps each billed byte, a pair of a counter and a number, to its place among the proxied bytes
(`Place`). By `NoByteBilledTwice` no two pairs share a place, so there are no more of them than bytes proxied: the
cardinality of the pairs is the meter's `billed`, a sum that needs no recursion; a counter is blind from its start or never,
so making one bills nothing (`BlindBillsNothing`). `TotalsSurvive` adds
what holds while the first core lives (`Live`): the samples and the stored counter never run ahead of the core's total,
and no report finds the total set back; then a counter gives way to another only when its totals are accepted or the
server asked for it (`WhoReplaces`).

**CoreLifecycleProofs** `OneSidecar` (`SidecarsControlled`), `StopIsConfirmed`, `KnowledgeHolds` (`KnowledgeIsTrue`),
`TypeCorrect`. Hypothesis
`FreshPid` (except `TypeCorrect`): pids are not reused; the watch channel keeps the last exit for ever, so a
reused pid would be confirmed dead early. Argument: a caller reaches the steps of a start
only when no sidecar runs (`NoneRuns`); a running sidecar is tracked, being stopped, or in a
caller's hands (`Tracked`); a reported exit is that of a dead process (`Reported`); and exit tasks clear the
state of dead sidecars only (`Clearing`, `MarkInv`). `KnowledgeHolds` adds that sidecars end in the order of their
starts, that what is being stopped is the newest one and that its exit is the last one reported (`InOrder`,
`InHands`, `NewestTaken`, `AllGone`, `ClearsLast`).

**DraftProofs** `Refinement` (`ImplementsAtomicDraft`), `Exclusion`, `TypeCorrect`, without hypotheses. Argument:
an `Arc` identifies its data (`Identity`); a modification that finds its `Arc` still
committed commits its change on top of all that is there.

**ManagedTrafficProofs** (`TrafficScheduler`) `NoStall` (`NeverStalls`), `DistanceIsKept` (`AttemptsKeepDistance`),
`TrafficIsPrompt` (`ReportedSoon`), `SchedulerTypes` (`SchedulerTypeOK`), for all intervals. `PowerAssumption` says that powers of two are natural, which the provers do not know and TLC
evaluates. The properties speak of the moment an attempt begins; the invariant speaks of the
armed timer: it is no earlier than a failure allows (`Waits`) and the last attempt allows
(`Spaced`), and no later than pending traffic needs (`Prompt`). `Prompt` says too where traffic is remembered while a packet
is frozen: in `activityPending`, so that the success that ends the backoff finds it; forgetting it there breaks `ReportedSoon`.

**ConfigSwitchProofs** `IndexIsSettled`, `CoreIsCurrent`, `CommitsAreLoaded`, `TypeCorrect`, for any number of
switches, restarts and profiles. The flags let one switch run, so the invariant says for each place of that
one what index (`IndexAt`), configuration (`ConfigAt`) and core (`SettledAt`) hold: from
validation on, the draft of the runtime configuration is the one of the index. Between two switches (`OfCurrent`) the committed
configuration is that of the current profile unless a restoration failed, its draft is so unless it was `left`, and the core
runs it unless something but `left` is in `astray`. A restart beside it keeps each of these: it loads the draft, which is
the current profile's unless one was `left` or an update is past storing its own, and exactly then the core has `read` it.

**SystemProxyProofs** `SettingsAreUsed` (`SettingsTakeEffect`), `QuitEnds` (`QuitTurnsProxyOff`), `TypeCorrect`. The invariant says, while
the application runs, that the holder of `update_lock` has read the latest settings unless another patch is still to take
the lock (`Effective`), and how far its writes to the operating system are (`Progress`); during a quit that no patch ran
into, how far the reset is (`Ending`).

**UpdateTimerProofs** `QueueServes` (`QueueServesTasks`), `TasksFollow` (`TasksFollowProfiles`), `TypeCorrect`. The property counts, which a prover does not
like; the invariant names instead the one turn each profile has: it waits in the queue (`Waits`), runs (`Runs`), has an end in the
channel (`Ends`) or, without automatic updates, may still finish an old update (`Rests`).
`TasksFollow` needs to know which map will arrive last: the last `Apply` of the channel carries `timer_map`, or there is
none and the tasks have it already (`Told`), unless a refresh is about to send it; and `timer_map` is the index's
or a refresh that will store the index's is under way (`Known`).

**ProfileStoreProofs** `RemovedForGood` (`RemovedStaysRemoved`), `Settled` (`IndexSettles`), `CoreFollows` (`CoreRunsFile`),
`TypeCorrect`, for any number of tasks, profiles and commands. A task is the list of steps it still has to do, so the proof first says which lists there are (`Follows`,
`Shape`): a step that changes the copy of the index is done by the holder of the permit (`StepOK`), and only a switch keeps
and publishes a draft (`SwitchOK`). The property is not inductive: the index file, the draft and the copy of another task
may still hold what is removed. The invariant keeps removed profiles out of all four (`Gone`), wants that what a removal is
about to take out of memory is gone from the file before (`GoneFromFile`, or a restart would bring it back), and that a
profile still to be created is in none of them (`Fresh`).
`Settled` speaks of quiet states only, so its invariant (`SInv`) must say of every moment who is still going to put
things right. It first names each list of steps a task can have (`Form`), which gives for every step what comes before and after
it (`Turns`). As long as the index is not excused (`Steady`): no two tasks work on one profile and no change runs beside a
switch (`Apart`); each task finds its profile as it expects it (`Mine`); the copy inside `with_data_modify` differs
from the memory in that task's profile alone, and says by the step the task is at which files are there (`Holds`); and if the
index file is not the memory, the copy about to be committed, an unsaved creation or a draft about to be published explains it
(`OnDisk`). Failures, timeouts and restarts keep each of these; a write that fails half-way excuses the index and the core, but for an update's, after
which the profile still has a file (`Breaking`, `Torn`).
`CoreFollows` needs a third invariant on top (`RInv`), for the same reason: as long as the core is not excused (`Running`), it runs the
current profile as its file is (`CoreOK`), or some task owes it a reload (`Owes`). A switch and a removal then run beside no
other task (`Alone`), so the current profile stays what a task took it for; a task that writes its file is sure to load it, or to
put the old content back that the core still runs (`Sure`, `CoreMine`); the copy inside `with_data_modify` has
another current profile only if its task reloads, or creates the first profile (`CoreHeld`), and this case needs that an index without a current
profile is empty (`Heads`). TLC checked `SInv`, `Heads` and `Running` on the instance of the runs before they were proved.

**ManagedSubscriptionProofs** `WholeAccount` (`AccountSettles`), `NothingUnseen` (`NoUnseenOverwrite`), `PageReleased`
(`PageIsReleased`), `TypeCorrect`, for any number of codes, installations and events. `AccountSettles` speaks of quiet states,
so the invariant says of each await of a writer who still holds what makes the account whole. `Course`: an update that was not
overtaken works on the page's credential, and its place tells what it has read, and whether the file or the
credential is already new. `Versions` and `Fresh`: a version was published before it is consumed, and the profile
of an installation is no one else's. `Sound`, as long as there was no lapse but `link`: who writes is alone, and the page, the disk and
localStorage agree at each step, or the writer holds the content before or the whole account before. `Held`, without any
lapse: `busy` keeps the edits out of an update that is no check, so what it read is what it overwrites; a check
is aborted by an edit and then writes nothing it has not begun. `Released`: a flag that is set has an owner. TLC checked the
invariant, on the run's instance and on larger ones, before it was proved.

Only model-checked: the liveness properties (`ObservedBytesAreBilled`, `FollowsServer` and those of the runs `core`, `draft`,
`switch` and `timer`; liveness under fairness is beyond the prover). The properties of the runs that expect a violation are false, so there is nothing to prove of them.

## 6. Not modelled, and abstractions to know of

- Upload and download are one total; one access code is active; the unmanaged legacy report is left out.
- A pid is never reused in the runs.
- In `ConfigSwitch` the reload that was given up after 15 s acts at once or not at all (`late`), not later than the update it
  belongs to.
- Timers of the web view are exact. Delays above 2^31-1 ms, which browsers cut to zero, are excluded.
- What validation accepts and generation computes is free (`Broken` names the profiles refused).
- `apply` of a draft cloned before a modification makes the modification disappear; `AtomicDraft` allows it,
  because whether anything is lost depends on the callers.
- In `SystemProxy` a quit during a patch is excluded (`raced`): `reset_sysproxy` does not take
  `update_lock`, and the patch may write last. The same holds for guard and file when settings change between
  their reading and their use (`crossed`).
- In `UpdateTimer` what an update does is left to `ProfileStore`; the profiles due at the start are any.
- In `ProfileStore` a write that fails leaves the file as it was, as it should be, or with any content; an index file written in
  part cannot be read, though a part may by chance be a shorter list. The merge, script, rules, proxies and groups items of a profile, the text of configurations and
  the details of a download are left out; a file is its content.
- In `ManagedSubscription` the expiry of a subscription, profiles without a managed credential, deletion by hand, the
  monitor's backoff and `Retry-After`, `syncExpiresAt`, and leaving the page for another one are left
  out: an unmanaged profile, the answers 403 and 404 and an expired one are all the answer `failed` of `StateAnswers`. A content is the nodes in it; the merge of rules is data.
- The switch's hook in the front end, presence, relay grants, endpoint selection, the service manager, the updater and
  the lightweight mode are not modelled; `components` in `PROJECT.json` gives each one's reason.
