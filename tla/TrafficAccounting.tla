-------------------------- MODULE TrafficAccounting --------------------------
(***************************************************************************)
(* Managed traffic accounting of the desktop client: the cumulative        *)
(* idempotency counter of services/managed-traffic-counter.ts, and the     *)
(* effects and the report of pages/home.tsx that keep it in localStorage,  *)
(* freeze a packet, send it (directly or through the relay) and apply the  *)
(* server's answer.  The proxy core, the web view and the server are       *)
(* separate: the core restarts on its own, the web view is torn down (a    *)
(* crash, or lightweight mode) while the core keeps counting, and a packet *)
(* that was sent once may reach the server late, or more than once.        *)
(*                                                                         *)
(* Upload and download move alike, so one total stands for both.  One      *)
(* access code is active.  A total is carried with `at`, the number of     *)
(* bytes the core had ever proxied when the total was read: a history      *)
(* field that no guard reads, and with it `from` and `upto` of a packet.   *)
(***************************************************************************)
EXTENDS Naturals, FiniteSets

CONSTANTS
    MaxBytes,       \* bytes the cores proxy in a behaviour
    MaxCores,       \* lives of the proxy core in a behaviour
    MaxCounters,    \* counters created in a behaviour
    MaxSequence     \* acknowledged packets per counter

ASSUME TrafficAssumption ==
    /\ MaxBytes \in Nat /\ MaxCores \in Nat /\ MaxSequence \in Nat
    /\ MaxCounters \in Nat \ {0}

VARIABLES
    coreTotal,  \* proxyUploadTotal of the running core
    cores,      \* lives of the core so far
    generated,  \* bytes proxied by all cores together (history)
    managed,    \* managedAuthReady, and the managed profile is the current one
    stable,     \* stableRunning
    ready,      \* proxyTrafficReadyRef
    totals,     \* trafficTotalsRef, a sample
    sampled,    \* has the page had a sample? (history)
    counter,    \* trafficCounterRef
    pending,    \* pendingManagedTrafficRef
    stored,     \* the counter in localStorage
    lastId,     \* the newest counter id, each one a fresh UUID in the code
    blind,      \* counters made before the page had a sample (history)
    report,     \* the report that awaits its answer
    packets,    \* every packet ever put on the network
    accepted    \* the server: the last packet accepted of each counter

view == <<managed, stable, ready, totals, sampled>>
books == <<counter, pending, stored, lastId, blind>>
core == <<coreTotal, cores, generated>>
vars == <<core, view, books, report, packets, accepted>>

Ids == 1 .. MaxCounters

Sample == [total : Nat, at : Nat]
Packet == [id : 0 .. MaxCounters, seq : Nat, total : Nat, from : Nat, upto : Nat]
NoPacket == [id |-> 0, seq |-> 0, total |-> 0, from |-> 0, upto |-> 0]
ZeroSample == [total |-> 0, at |-> 0]
NoCounter == [id |-> 0, seq |-> 0, base |-> ZeroSample, observed |-> ZeroSample,
              pending |-> NoPacket]
Counter == [id : 0 .. MaxCounters, seq : Nat, base : Sample, observed : Sample,
            pending : Packet]
Replies == {"none", "ok", "counter_reset", "traffic_limit", "error"}
NoReport == [active |-> FALSE, packet |-> NoPacket, current |-> ZeroSample,
             coreReset |-> FALSE, reply |-> "none"]

------------------------------------------------------------------------------
(* managed-traffic-counter.ts *)

\* mutant: a counter that claims everything the core has proxied so far
NewCounterFromZero(id, sample) ==
    [id |-> id, seq |-> 0, base |-> [sample EXCEPT !.total = 0], observed |-> sample,
     pending |-> NoPacket]

\* createManagedTrafficCounter
NewCounter(id, sample) ==
    [id |-> id, seq |-> 0, base |-> sample, observed |-> sample, pending |-> NoPacket]

\* the test of observeManagedTraffic and of reportClientTraffic
Regressed(c, sample) == sample.total < c.observed.total

\* observeManagedTraffic
Observe(c, sample) == IF Regressed(c, sample) THEN c ELSE [c EXCEPT !.observed = sample]

\* mutant: the frozen packet is forgotten and computed anew
PayloadUnfrozen(c) ==
    [id |-> c.id, seq |-> c.seq + 1, total |-> c.observed.total - c.base.total,
     from |-> c.base.at, upto |-> c.observed.at]

\* managedTrafficPayload
Payload(c) ==
    IF c.pending # NoPacket THEN c.pending
    ELSE [id |-> c.id, seq |-> c.seq + 1,
          total |-> IF c.observed.total < c.base.total THEN 0
                    ELSE c.observed.total - c.base.total,
          from |-> c.base.at, upto |-> c.observed.at]

\* mutant: the sequence stays behind
AcknowledgeSameSequence(c, seq) == [c EXCEPT !.pending = NoPacket]

\* acknowledgeManagedTraffic
Acknowledge(c, seq) == [c EXCEPT !.seq = seq, !.pending = NoPacket]

\* what parseManagedTrafficCounter accepts of a stored counter
Parses(c) ==
    /\ c # NoCounter
    /\ c.pending # NoPacket => /\ c.pending.id = c.id
                               /\ c.pending.seq = c.seq + 1

------------------------------------------------------------------------------
Init ==
    /\ coreTotal = 0 /\ cores = 1 /\ generated = 0
    /\ managed = FALSE /\ stable = FALSE /\ ready = FALSE /\ totals = ZeroSample
    /\ sampled = FALSE /\ blind = {}
    /\ counter = NoCounter /\ pending = NoPacket /\ stored = NoCounter /\ lastId = 0
    /\ report = NoReport /\ packets = {} /\ accepted = [c \in Ids |-> NoPacket]

(* The core. *)

Proxy ==
    /\ generated < MaxBytes
    /\ coreTotal' = coreTotal + 1
    /\ generated' = generated + 1
    /\ UNCHANGED <<cores, view, books, report, packets, accepted>>

CoreRestart ==
    /\ cores < MaxCores
    /\ cores' = cores + 1
    /\ coreTotal' = 0
    /\ UNCHANGED <<generated, view, books, report, packets, accepted>>

------------------------------------------------------------------------------
(* The effects of the home page, in the order they are declared. *)

\* mutant: the stored counter is not looked at
RestoredFresh == IF counter # NoCounter THEN counter ELSE NewCounter(lastId + 1, totals)

\* the restore effect, when proxyTrafficReadyRef is already set
Restored ==
    IF counter # NoCounter THEN counter
    ELSE IF Parses(stored) THEN stored
    ELSE NewCounter(lastId + 1, totals)

CanCreate == lastId < MaxCounters

\* a counter becomes the loaded one, and is stored
Load(c) ==
    /\ c.id > lastId => CanCreate
    /\ counter' = c
    /\ stored' = IF c = NoCounter THEN stored ELSE c
    /\ lastId' = IF c.id > lastId THEN c.id ELSE lastId

\* a new sample of the connections socket: the restore effect still sees the
\* previous sample and runs only when the totals changed, then the observing one
NewSample ==
    /\ LET sample == [total |-> coreTotal, at |-> generated]
           restores == managed /\ ready /\ totals.total # coreTotal
           loaded == IF restores THEN Restored ELSE counter
       IN  /\ Load(IF loaded = NoCounter THEN NoCounter ELSE Observe(loaded, sample))
           /\ totals' = sample
           /\ ready' = TRUE /\ sampled' = TRUE
           /\ pending' = IF restores /\ counter = NoCounter THEN NoPacket ELSE pending
    /\ UNCHANGED <<core, managed, stable, blind, report, packets, accepted>>

\* a message of the socket that has no totals: the restore effect still sees that
\* there were some, then they count as missing
SampleWithoutTotals ==
    /\ ready
    /\ ready' = FALSE
    /\ Load(IF managed THEN Restored ELSE counter)
    /\ pending' = IF managed /\ counter = NoCounter THEN NoPacket ELSE pending
    /\ UNCHANGED <<core, managed, stable, totals, sampled, blind, report, packets, accepted>>

\* the report effect: it keeps a loaded counter, else it creates one from the
\* totals it has, without a look at localStorage
StartScheduler(c) ==
    /\ Load(IF c = NoCounter THEN NewCounter(lastId + 1, totals) ELSE c)
    /\ pending' = NoPacket
    /\ blind' = IF c = NoCounter /\ ~sampled THEN blind \cup {lastId + 1} ELSE blind

\* loadManagedAuth settles, or the profile is selected again: the restore effect runs, then the report effect
ManagedReady ==
    /\ ~managed
    /\ managed' = TRUE
    /\ LET loaded == IF ready THEN Restored ELSE counter
       IN  IF stable THEN StartScheduler(loaded)
           ELSE /\ Load(loaded)
                /\ pending' = IF ready THEN NoPacket ELSE pending
                /\ UNCHANGED blind
    /\ UNCHANGED <<core, stable, ready, totals, sampled, report, packets, accepted>>

\* the debounced running state turns on
BecomeStable ==
    /\ ~stable
    /\ stable' = TRUE
    /\ IF managed THEN StartScheduler(counter) ELSE UNCHANGED books
    /\ UNCHANGED <<core, managed, ready, totals, sampled, report, packets, accepted>>

\* it turns off: the cleanup stops the scheduler, which aborts the report
BecomeUnstable ==
    /\ stable
    /\ stable' = FALSE
    /\ report' = NoReport
    /\ UNCHANGED <<core, managed, ready, totals, sampled, books, packets, accepted>>

\* a crash, or lightweight mode, takes the web view away; localStorage stays
WebViewLost ==
    /\ managed' = FALSE /\ stable' = FALSE /\ ready' = FALSE /\ sampled' = FALSE
    /\ totals' = [total |-> 0, at |-> generated - coreTotal]
    /\ counter' = NoCounter /\ pending' = NoPacket /\ report' = NoReport
    /\ UNCHANGED <<core, stored, lastId, blind, packets, accepted>>

\* the user selects another profile: no current access code any more
ManagedLeft ==
    /\ managed
    /\ managed' = FALSE
    /\ counter' = NoCounter /\ pending' = NoPacket /\ report' = NoReport
    /\ UNCHANGED <<core, stable, ready, totals, sampled, stored, lastId, blind, packets,
                   accepted>>

------------------------------------------------------------------------------
(* reportClientTraffic *)

\* up to the request: observe, freeze a packet, persist it, then send it
BeginReport ==
    /\ managed /\ stable /\ ready /\ ~report.active
    /\ counter # NoCounter /\ counter.seq < MaxSequence
    /\ LET observed == Observe(counter, totals)
           packet == IF pending # NoPacket THEN pending ELSE Payload(observed)
           frozen == [observed EXCEPT !.pending = packet]
       IN  IF packet.total = 0
           THEN /\ counter' = observed /\ stored' = observed
                /\ UNCHANGED <<pending, report, packets>>
           ELSE /\ counter' = frozen /\ stored' = frozen /\ pending' = packet
                /\ packets' = packets \cup {packet}
                /\ report' = [active |-> TRUE, packet |-> packet, current |-> totals,
                              coreReset |-> Regressed(counter, totals),
                              reply |-> "none"]
    /\ UNCHANGED <<core, view, lastId, blind, accepted>>

\* the scheduler's deadline, a lost answer or a transport error
ReportFails ==
    /\ report.active
    /\ report' = NoReport
    /\ UNCHANGED <<core, view, books, packets, accepted>>

\* 409 counter_reset: start again from the total the report began with
CounterReset ==
    /\ report.active /\ report.reply = "counter_reset"
    /\ CanCreate
    /\ LET reset == NewCounter(lastId + 1, report.current)
       IN  counter' = reset /\ stored' = reset
    /\ lastId' = lastId + 1
    /\ pending' = NoPacket /\ report' = NoReport
    /\ UNCHANGED <<core, view, blind, packets, accepted>>

\* traffic_limit drops the ref only; the packet stays in the stored counter
TrafficLimit ==
    /\ report.active /\ report.reply = "traffic_limit"
    /\ pending' = NoPacket /\ report' = NoReport
    /\ UNCHANGED <<core, view, counter, stored, lastId, blind, packets, accepted>>

\* success: acknowledge, or rebase when the core had restarted
Acknowledged ==
    /\ report.active /\ report.reply = "ok"
    /\ report.coreReset => CanCreate
    /\ LET settled == IF report.coreReset THEN NewCounter(lastId + 1, report.current)
                      ELSE Acknowledge(counter, report.packet.seq)
       IN  counter' = settled /\ stored' = settled
    /\ lastId' = IF report.coreReset THEN lastId + 1 ELSE lastId
    /\ pending' = NoPacket /\ report' = NoReport
    /\ UNCHANGED <<core, view, blind, packets, accepted>>

------------------------------------------------------------------------------
(* The server (not in the repository), as the client's branches and the    *)
(* counter's fields use it: a packet is accepted once per counter and      *)
(* sequence number, and an accepted total never goes back.                 *)

ServerReply(p) ==
    IF p.seq <= accepted[p.id].seq THEN "ok"
    ELSE IF p.total < accepted[p.id].total THEN "counter_reset" ELSE "ok"

\* the answer the report sees of a delivery of its own packet
Answer(p, reply) ==
    report' = IF report.active /\ report.packet = p /\ report.reply = "none"
              THEN [report EXCEPT !.reply = reply] ELSE report

\* direct or forwarded by the relay, now or later; the answer arrives or is lost
Deliver(p) ==
    /\ accepted' = IF p.seq > accepted[p.id].seq /\ ServerReply(p) = "ok"
                   THEN [accepted EXCEPT ![p.id] = p] ELSE accepted
    /\ Answer(p, ServerReply(p)) \/ UNCHANGED report
    /\ UNCHANGED <<core, view, books, packets>>

\* mutant: the 202 reaches the page as it is
RelayReplyRaw(state) == IF state = "applied" THEN "ok" ELSE "relay_pending"

\* sendTrafficWithRelay: only a packet the relay saw committed is a success,
\* one it has merely stored (202) becomes a 503
RelayReply(state) == IF state = "applied" THEN "ok" ELSE "error"

RelayStores(p) ==
    /\ Answer(p, RelayReply("stored"))
    /\ UNCHANGED <<core, view, books, packets, accepted>>

\* refused without being accepted: no such counter any more, or no quota left
Refuse(p) ==
    /\ \E reply \in {"counter_reset", "traffic_limit"} : Answer(p, reply)
    /\ UNCHANGED <<core, view, books, packets, accepted>>

Next ==
    \/ Proxy \/ CoreRestart \/ WebViewLost
    \/ NewSample \/ SampleWithoutTotals \/ ManagedReady \/ ManagedLeft \/ BecomeStable \/ BecomeUnstable
    \/ BeginReport \/ ReportFails
    \/ CounterReset \/ TrafficLimit \/ Acknowledged
    \/ \E p \in packets : Deliver(p) \/ RelayStores(p) \/ Refuse(p)

Spec == Init /\ [][Next]_vars

(* The socket pushes samples, the scheduler retries a failed report for    *)
(* ever and each attempt ends at its deadline, and a request that is       *)
(* retried for ever gets through some day.                                 *)
Fairness ==
    /\ WF_vars(NewSample) /\ WF_vars(ReportFails) /\ SF_vars(BeginReport) /\ SF_vars(Acknowledged)
    /\ \A c \in Ids, s \in 1 .. MaxSequence :
         SF_vars(\E p \in packets : p.id = c /\ p.seq = s /\ Deliver(p) /\ report'.reply = "ok")

FairSpec == Spec /\ Fairness

------------------------------------------------------------------------------
(* Properties *)

TypeOK ==
    /\ coreTotal \in Nat /\ cores \in Nat /\ generated \in Nat
    /\ managed \in BOOLEAN /\ stable \in BOOLEAN /\ ready \in BOOLEAN
    /\ totals \in Sample /\ sampled \in BOOLEAN
    /\ counter \in Counter /\ stored \in Counter
    /\ pending \in Packet /\ packets \subseteq Packet
    /\ lastId \in 0 .. MaxCounters /\ blind \subseteq Ids
    /\ accepted \in [Ids -> Packet]
    /\ report \in [active : BOOLEAN, packet : Packet, current : Sample,
                   coreReset : BOOLEAN, reply : Replies]

\* what the server accepted of two counters are two stretches of proxied bytes
Apart(c, d) ==
    accepted[c].seq > 0 /\ accepted[d].seq > 0 => accepted[c].upto <= accepted[d].from

\* No proxied byte is billed twice: what the server accepted of a counter is no
\* more than was proxied between the sample the counter started from and the one
\* it was frozen at, and these stretches of two counters never overlap, whatever
\* was resent, delayed, crashed, overwritten or rebased.  Excepted is the counter
\* that the report effect makes before a page had its first sample: NothingReplayed.
NoByteBilledTwice ==
    /\ \A c \in Ids : LET p == accepted[c] IN
          p.from <= p.upto /\ p.total <= p.upto - p.from /\ p.upto <= generated
    /\ \A c, d \in Ids : c < d /\ d \notin blind => Apart(c, d)

\* README: "The latest observed totals survive an app crash and are retried ...
\* without replaying already accepted bytes": no counter begins before the bytes
\* that the server has accepted of an older one end.
NothingReplayed == \A c, d \in Ids : c < d => Apart(c, d)

\* The idempotency key: a counter and a sequence number name one packet for ever,
\* however often it is resent and across a loss of the web view.
FrozenPacketIsUnique ==
    \A p, q \in packets : p.id = q.id /\ p.seq = q.seq => p = q

\* The client counts a sequence number as acknowledged only when the server has
\* accepted it, and is at most one packet behind the server.
AcknowledgedIsAccepted ==
    stored # NoCounter =>
        accepted[stored.id].seq \in stored.seq .. stored.seq + 1

\* What a crash would leave behind is always the loaded counter, and parses; the
\* packet the page holds in memory is the stored one.
StoredSurvives ==
    /\ stored # NoCounter => Parses(stored)
    /\ counter # NoCounter => stored = counter
    /\ pending # NoPacket => stored.pending = pending

\* A packet is frozen for good: it keeps its identity, the counter's acknowledged
\* sequence follows the server's answers only, and what a crash would leave behind
\* is the counter and the packet that the page works with.
PacketsAreKept == FrozenPacketIsUnique /\ AcknowledgedIsAccepted /\ StoredSurvives

\* what the server has billed, but for the counters made blind: the bytes of the
\* accepted totals, kept apart by counter
BilledBytes == UNION {{c} \X (1 .. accepted[c].total) : c \in Ids \ blind}

Meter == INSTANCE TrafficMeter WITH proxied <- generated, billed <- Cardinality(BilledBytes)

\* The counter, packets and server together implement the meter: the sum of what
\* is accepted over all counters that began with a sample only grows and never
\* exceeds what was proxied.
ImplementsMeter == Meter!Spec

Replaced == stored # NoCounter /\ stored'.id # stored.id
StartsUnread == counter = NoCounter /\ managed' /\ stable' /\ ~(stable /\ ready)
TotalsAccepted ==
    \/ report.reply = "counter_reset"
    \/ accepted[stored.id].total >= stored.observed.total - stored.base.total

\* A counter with a frozen packet is replaced only after the server accepted that
\* packet or answered counter_reset: a relay that merely stored it is not enough.
\* And as long as the core lives on, crashes of the web view, lost answers,
\* duplicates and leaving the managed page lose nothing that was observed.  Excepted
\* is the report effect's start over a counter it has not read.
TotalsSurviveWhileCoreLives ==
    [][Replaced /\ ~StartsUnread =>
          /\ stored.pending # NoPacket
                => \/ report.reply = "counter_reset"
                   \/ accepted[stored.id].seq = stored.pending.seq
          /\ cores = 1 => TotalsAccepted]_vars

\* README: "The latest observed totals ... are retried": while the managed page
\* stays up and the core lives on, every observed byte is accepted in the end unless
\* the server asks for a new counter or the bound on the packets of a counter is
\* reached.
ObservedBytesAreBilled ==
    <>[](managed /\ stable) =>
        \A c \in Ids, n \in 1 .. MaxBytes :
            [](stored.id = c /\ stored.observed.total - stored.base.total >= n
                 => <>(\/ accepted[c].total >= n
                       \/ stored.id # c
                       \/ cores > 1
                       \/ stored.seq = MaxSequence))

==============================================================================
