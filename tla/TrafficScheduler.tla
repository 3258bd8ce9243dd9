--------------------------- MODULE TrafficScheduler ---------------------------
(***************************************************************************)
(* When the managed traffic report of module TrafficAccounting is tried:   *)
(* services/managed-traffic-scheduler.ts.  One timer leads to an attempt;  *)
(* its outcome, a failure's backoff or new traffic (an activity) set the   *)
(* timer again.  Time passes in ticks; a due timer fires and an attempt    *)
(* ends at its deadline before the next tick.  What the code keeps as      *)
(* points in time are ticks to go or ticks gone by here.                   *)
(***************************************************************************)
EXTENDS Integers

CONSTANTS                           \* in ticks
    InitialMin, InitialMax,         \* TRAFFIC_REPORT_INITIAL_*
    IdleMin, IdleMax,               \* TRAFFIC_REPORT_IDLE_*
    NormalMin, NormalMax,           \* TRAFFIC_REPORT_INTERVAL_MS and its jitter
    RetryBase, MaxBackoff,          \* TRAFFIC_REPORT_RETRY_BASE_MS, TRAFFIC_REPORT_MAX_BACKOFF_MS
    MaxDoublings,                   \* the 7 of the exponent
    ActivityDelay,                  \* TRAFFIC_REPORT_ACTIVITY_DELAY_MS
    ActiveMinInterval,              \* TRAFFIC_REPORT_ACTIVE_MIN_INTERVAL_MS
    RequestTimeout,                 \* TRAFFIC_REPORT_REQUEST_TIMEOUT_MS
    RetryAfters,                    \* what a server's Retry-After may ask for, 0 for no header
    Off                             \* a timer that is not set

ASSUME SchedulerAssumption ==
    /\ InitialMin \in Nat /\ InitialMax \in Nat /\ IdleMin \in Nat /\ IdleMax \in Nat
    /\ NormalMin \in Nat /\ NormalMax \in Nat /\ RetryBase \in Nat /\ MaxBackoff \in Nat
    /\ MaxDoublings \in Nat /\ ActivityDelay \in Nat /\ ActiveMinInterval \in Nat
    /\ RequestTimeout \in Nat
    /\ InitialMin <= InitialMax /\ IdleMin <= IdleMax /\ NormalMin <= NormalMax
    /\ RetryAfters \subseteq Nat /\ 0 \in RetryAfters
    /\ Off \notin Int

\* arithmetic that the provers do not know
ASSUME PowerAssumption == \A n \in 0 .. MaxDoublings : 2 ^ n \in Nat

Larger(a, b) == IF a < b THEN b ELSE a
Smaller(a, b) == IF a < b THEN a ELSE b
Never == 1 + Larger(ActiveMinInterval, IdleMin)  \* longer ago than any test distinguishes

VARIABLES
    stopped,
    timer,              \* ticks until nextAttemptAt, or Off
    failures,           \* saturates where the backoff does
    inFlight,
    elapsed,            \* ticks since the attempt in flight began
    since,              \* ticks since lastAttemptAt, Never when that is undefined
    activityPending,
    last,               \* how the last attempt ended (history)
    due,                \* ticks that the last failure still asks to wait (history)
    frozen,             \* may the packet of an earlier attempt have to be sent first? (history)
    unreported,         \* ticks since the oldest traffic that no attempt includes, but for
                        \* those while a packet is frozen; Off when there is none (history)
    late                \* was a packet frozen before resent without a failure to wait for,
                        \* that is after a restart or an inactive report? (history)

waiting == <<frozen, unreported, late>>
schedulerVars ==
    <<stopped, timer, failures, inFlight, elapsed, since, activityPending, last, due, waiting>>

SchedulerInit ==
    /\ stopped = TRUE /\ timer = Off /\ failures = 0 /\ inFlight = FALSE /\ elapsed = 0
    /\ since = Never /\ activityPending = FALSE
    /\ last = "none" /\ due = 0
    /\ frozen \in BOOLEAN /\ unreported = Off /\ late = FALSE

------------------------------------------------------------------------------

Start ==
    /\ stopped
    /\ stopped' = FALSE /\ failures' = 0 /\ inFlight' = FALSE
    /\ since' = Never /\ activityPending' = FALSE
    /\ timer' \in InitialMin .. InitialMax
    /\ last' = "none" /\ due' = 0
    /\ UNCHANGED <<elapsed, waiting>>

Stop ==
    /\ ~stopped
    /\ stopped' = TRUE /\ timer' = Off /\ inFlight' = FALSE /\ activityPending' = FALSE
    /\ elapsed' = 0
    /\ frozen' = (frozen \/ inFlight) /\ unreported' = Off /\ late' = FALSE
    /\ UNCHANGED <<failures, since, last, due>>

\* the timer's callback: run(), which does nothing while an attempt is in flight; a
\* frozen packet "might not contain this newer sample"
Fire ==
    /\ ~stopped /\ timer = 0
    /\ timer' = Off
    /\ IF inFlight THEN UNCHANGED <<inFlight, elapsed, since, unreported, late>>
       ELSE /\ inFlight' = TRUE /\ elapsed' = 0 /\ since' = 0
            /\ unreported' = IF frozen THEN unreported ELSE Off
            /\ late' = (frozen /\ (late \/ (failures = 0 /\ unreported # Off)))
    /\ UNCHANGED <<stopped, failures, activityPending, last, due, frozen>>

EndAttempt == inFlight' = FALSE /\ elapsed' = 0

\* the report resolves; "idle" stands for the outcomes inactive and no_delta
Succeed(o, normal) ==
    /\ inFlight
    /\ EndAttempt
    /\ failures' = 0 /\ activityPending' = FALSE
    /\ LET active == Larger(ActivityDelay,
                            IF elapsed < ActiveMinInterval THEN ActiveMinInterval - elapsed ELSE 0)
       IN  timer' = IF activityPending THEN Smaller(normal, active) ELSE normal
    /\ last' = o /\ due' = 0
    /\ frozen' = (frozen /\ o = "idle")
    /\ UNCHANGED <<stopped, since, unreported, late>>

Backoff(f) == Smaller(MaxBackoff, RetryBase * 2 ^ (f - 1))

\* Mutant of Retry: the traffic notified during the attempt is forgotten.
RetryForgets(after) ==
    /\ inFlight
    /\ EndAttempt
    /\ failures' = Smaller(failures + 1, MaxDoublings + 1)
    /\ \E jittered \in (3 * Backoff(failures')) \div 4 .. (5 * Backoff(failures')) \div 4 :
           timer' = Larger(after, jittered)
    /\ last' = "failed" /\ due' = Larger(after, (3 * Backoff(failures')) \div 4)
    /\ frozen' = TRUE /\ unreported' = IF unreported = Off THEN Off ELSE 0
    /\ activityPending' = FALSE
    /\ UNCHANGED <<stopped, since, late>>

\* the catch of run(): exponential backoff of 75% to 125%, at least Retry-After;
\* the packet of the attempt is resent until it is accepted
Retry(after) ==
    /\ inFlight
    /\ EndAttempt
    /\ failures' = Smaller(failures + 1, MaxDoublings + 1)
    /\ \E jittered \in (3 * Backoff(failures')) \div 4 .. (5 * Backoff(failures')) \div 4 :
           timer' = Larger(after, jittered)
    /\ last' = "failed" /\ due' = Larger(after, (3 * Backoff(failures')) \div 4)
    /\ frozen' = TRUE /\ unreported' = IF unreported = Off THEN Off ELSE 0
    /\ UNCHANGED <<stopped, since, activityPending, late>>

\* the deadline rejects the race; what the report does later is ignored, but a
\* Retry-After that was noted before counts
TimeOut == elapsed = RequestTimeout /\ \E r \in RetryAfters : Retry(r)

\* when a notified activity may be reported at the earliest
Earliest ==
    Larger(ActivityDelay, IF since < ActiveMinInterval THEN ActiveMinInterval - since ELSE 0)

Unbegun == IF unreported = Off THEN 0 ELSE unreported

\* Mutants of MustWait: each looks at one of the two only.
MustWaitInFlight == inFlight
MustWaitBackoff == failures > 0

MustWait == inFlight \/ failures > 0

NotifyActivity ==
    /\ ~stopped
    /\ IF MustWait
       THEN activityPending' = TRUE /\ UNCHANGED timer
       ELSE /\ timer' = IF timer # Off /\ timer <= Earliest THEN timer ELSE Earliest
            /\ UNCHANGED activityPending
    /\ unreported' = Unbegun
    /\ UNCHANGED <<stopped, failures, inFlight, elapsed, since, last, due, frozen, late>>

\* Mutant of Tick: the deadline of an attempt is not set.
TickPastDeadline ==
    /\ ~stopped /\ timer # 0
    /\ timer' = IF timer = Off THEN Off ELSE timer - 1
    /\ elapsed' = IF inFlight THEN elapsed + 1 ELSE elapsed
    /\ since' = Smaller(since + 1, Never)
    /\ due' = IF due = 0 THEN 0 ELSE due - 1
    /\ unreported' = IF unreported = Off \/ frozen THEN unreported ELSE unreported + 1
    /\ UNCHANGED <<stopped, failures, inFlight, activityPending, last, frozen, late>>

\* time passes unless a timer or the deadline of the attempt is due
Tick ==
    /\ ~stopped
    /\ timer # 0
    /\ inFlight => elapsed < RequestTimeout
    /\ timer' = IF timer = Off THEN Off ELSE timer - 1
    /\ elapsed' = IF inFlight THEN elapsed + 1 ELSE elapsed
    /\ since' = Smaller(since + 1, Never)
    /\ due' = IF due = 0 THEN 0 ELSE due - 1
    /\ unreported' = IF unreported = Off \/ frozen THEN unreported ELSE unreported + 1
    /\ UNCHANGED <<stopped, failures, inFlight, activityPending, last, frozen, late>>

AttemptEnds ==
    \/ \E n \in IdleMin .. IdleMax : Succeed("idle", n)
    \/ \E n \in NormalMin .. NormalMax : Succeed("sent", n)
    \/ \E r \in RetryAfters : Retry(r)

SchedulerNext == Start \/ Stop \/ Fire \/ AttemptEnds \/ TimeOut \/ NotifyActivity \/ Tick

SchedulerSpec == SchedulerInit /\ [][SchedulerNext]_schedulerVars

\* the event loop runs due timers, and time passes
SchedulerFairSpec ==
    SchedulerSpec /\ WF_schedulerVars(Fire) /\ WF_schedulerVars(TimeOut) /\ WF_schedulerVars(Tick)

------------------------------------------------------------------------------
(* Properties. *)

\* Every variable has its type.
SchedulerTypeOK ==
    /\ stopped \in BOOLEAN /\ inFlight \in BOOLEAN /\ activityPending \in BOOLEAN
    /\ timer \in Nat \cup {Off} /\ failures \in 0 .. MaxDoublings + 1
    /\ elapsed \in 0 .. RequestTimeout /\ since \in 0 .. Never
    /\ last \in {"none", "idle", "sent", "failed"} /\ due \in Nat
    /\ unreported \in Nat \cup {Off} /\ frozen \in BOOLEAN /\ late \in BOOLEAN

\* A running scheduler never stalls and never has two attempts ahead: it has an
\* attempt in flight or a timer that leads to one, and not both.
NeverStalls == IF stopped THEN timer = Off /\ ~inFlight ELSE inFlight <=> timer = Off

Begins == ~inFlight /\ inFlight'

\* "does not let activity bypass failure backoff": whatever traffic is notified, no
\* attempt begins before the wait is over that a failure or Retry-After asked for,
\* nor closer to the last one than the minimum interval of active or idle reports.
AttemptsKeepDistance ==
    [][Begins => /\ due = 0
                 /\ last = "sent" => since >= Smaller(ActiveMinInterval, NormalMin)
                 /\ last = "idle" => since >= Smaller(ActiveMinInterval, IdleMin)]_schedulerVars

Bound == Larger(ActiveMinInterval, RequestTimeout + ActivityDelay)

\* Traffic, notified before or during a backoff, a resend or a success, waits for an
\* attempt that may include it no longer than the active interval, or a request and
\* the activity delay, not counting the time in which an earlier packet is frozen.
\* When that packet was left by a run of the scheduler before, or by a report that
\* turned out inactive, it goes first and the wait may be a normal interval.
ReportedSoon ==
    ~frozen /\ unreported # Off =>
        unreported <= IF late THEN Larger(Bound, NormalMax) ELSE Bound

================================================================================
