------------------------- MODULE ManagedTrafficProofs -------------------------
(***************************************************************************)
(* Theorems of the two halves of managed traffic: what is reported (module *)
(* TrafficAccounting) and when (module TrafficScheduler).                  *)
(*                                                                         *)
(* First, why no proxied byte is billed twice, for any number of bytes,    *)
(* cores, counters and packets, but by a counter that the report effect    *)
(* made before the page's first sample (`blind`).  The argument follows    *)
(* the history field of samples: between two samples, a total grows by at  *)
(* most what was proxied in between, so the packets of one counter stay    *)
(* inside the stretch of proxied bytes that the counter observed, and any  *)
(* other counter starts where every packet of the older ones has ended.    *)
(* From that follows that the whole is a TrafficMeter.  The packets have   *)
(* an invariant of their own (PacketsKept), and so has the time in which   *)
(* the core lives (TotalsSurvive).                                         *)
(*                                                                         *)
(* Then the scheduler, for all intervals: its properties follow from what  *)
(* the timer promises while it is armed.  It is no earlier than a failure  *)
(* allows (Waits) and than the last attempt allows (Spaced), and no later  *)
(* than pending traffic needs (Prompt).                                    *)
(***************************************************************************)
EXTENDS TrafficAccounting, TrafficScheduler, FiniteSetTheorems, TLAPS

\* t was read after s: it is no further ahead than the bytes proxied since
Later(s, t) == s.at <= t.at /\ t.total + s.at <= t.at + s.total

Now == [total |-> coreTotal, at |-> generated]

\* the packets of a counter lie inside what it observed, older ones before it
GoodCounter(c, ps) ==
    /\ c.base.total <= c.observed.total /\ Later(c.base, c.observed)
    /\ \A p \in ps : /\ p.id <= c.id
                     /\ p.id = c.id => p.from = c.base.at /\ p.upto <= c.observed.at
                     /\ p.id < c.id /\ c.id \notin blind => p.upto <= c.base.at

GoodPackets(ps) ==
    /\ \A p \in ps : p.id > 0 /\ p.seq > 0 /\ p.from + p.total <= p.upto
    /\ \A p, q \in ps : p.id < q.id /\ q.id \notin blind => p.upto <= q.from

EndBefore(ps, s) == \A p \in ps : p.upto <= s.at

BooksOK ==
    /\ stored.id = lastId /\ (stored # NoCounter => stored.id > 0)
    /\ \A d \in blind : d <= lastId
    /\ counter # NoCounter => counter = stored
    /\ pending \in packets \cup {NoPacket}
    /\ stored.pending \in packets \cup {NoPacket}
    /\ GoodPackets(packets)
    /\ GoodCounter(stored, packets)

ClockOK ==
    /\ coreTotal <= generated
    /\ Later(stored.observed, Now)
    /\ Later(totals, Now)
    /\ EndBefore(packets, Now)
    /\ ready => sampled
    /\ sampled => Later(stored.observed, totals) /\ EndBefore(packets, totals)

ReportOK ==
    report.active => /\ sampled /\ counter # NoCounter
                     /\ report.packet \in packets
                     /\ Later(report.current, totals)
                     /\ EndBefore(packets, report.current)

AcceptedOK == \A c \in Ids : accepted[c] = NoPacket \/ (accepted[c] \in packets /\ accepted[c].id = c)

IInv == TypeOK /\ BooksOK /\ ClockOK /\ ReportOK /\ AcceptedOK

------------------------------------------------------------------------------
(* The operators on counters keep them good. *)

LEMMA ZeroTypes ==
    /\ ZeroSample \in Sample /\ NoPacket \in Packet /\ NoCounter \in Counter
    /\ NoCounter.id = 0 /\ NoCounter.pending = NoPacket
BY TrafficAssumption DEF ZeroSample, Sample, NoPacket, Packet, NoCounter, Counter

LEMMA NoReportTypes ==
    /\ NoReport.active = FALSE
    /\ NoReport \in [active : BOOLEAN, packet : Packet, current : Sample,
                    coreReset : BOOLEAN, reply : Replies]
BY ZeroTypes DEF NoReport, Replies

LEMMA NewCounterGood ==
    ASSUME NEW id \in 1 .. MaxCounters, NEW s \in Sample,
           NEW ps \in SUBSET Packet, EndBefore(ps, s), \A p \in ps : p.id < id
    PROVE  /\ NewCounter(id, s) \in Counter /\ NewCounter(id, s) # NoCounter
           /\ NewCounter(id, s).id = id /\ NewCounter(id, s).observed = s
           /\ NewCounter(id, s).pending = NoPacket
           /\ GoodCounter(NewCounter(id, s), ps)
BY TrafficAssumption, ZeroTypes
   DEF NewCounter, Counter, Sample, Packet, GoodCounter, Later, EndBefore, NoCounter, ZeroSample

LEMMA ObserveGood ==
    ASSUME NEW c \in Counter, NEW s \in Sample, NEW ps \in SUBSET Packet,
           GoodCounter(c, ps), Later(c.observed, s)
    PROVE  /\ Observe(c, s) \in Counter /\ Observe(c, s).id = c.id
           /\ Observe(c, s).pending = c.pending /\ Observe(c, s).seq = c.seq
           /\ Observe(c, s).base = c.base
           /\ GoodCounter(Observe(c, s), ps) /\ Later(Observe(c, s).observed, s)
BY DEF Observe, Regressed, Counter, Sample, Packet, GoodCounter, Later

LEMMA LaterTransitive ==
    ASSUME NEW r \in Sample, NEW s \in Sample, NEW t \in Sample, Later(r, s), Later(s, t)
    PROVE  Later(r, t)
BY DEF Later, Sample

LEMMA AcknowledgeGood ==
    ASSUME NEW c \in Counter, NEW seq \in Nat, NEW ps \in SUBSET Packet, GoodCounter(c, ps)
    PROVE  /\ Acknowledge(c, seq) \in Counter /\ Acknowledge(c, seq).id = c.id
           /\ Acknowledge(c, seq).pending = NoPacket
           /\ Acknowledge(c, seq).observed = c.observed
           /\ GoodCounter(Acknowledge(c, seq), ps)
BY ZeroTypes DEF Acknowledge, Counter, GoodCounter, Later

\* a packet frozen from a good counter fits among the packets sent before
LEMMA PayloadGood ==
    ASSUME NEW c \in Counter, c.id > 0, NEW ps \in SUBSET Packet,
           GoodPackets(ps), GoodCounter(c, ps), c.pending \in ps \cup {NoPacket}
    PROVE  /\ Payload(c) \in Packet /\ Payload(c) # NoPacket
           /\ GoodPackets(ps \cup {Payload(c)}) /\ GoodCounter(c, ps \cup {Payload(c)})
<1>1. CASE c.pending # NoPacket
  <2>1. Payload(c) = c.pending /\ Payload(c) \in ps
    BY <1>1 DEF Payload
  <2>2. ps \cup {Payload(c)} = ps
    BY <2>1
  <2> QED BY <1>1, <2>1, <2>2
<1>2. CASE c.pending = NoPacket
  <2> DEFINE p == Payload(c)
  <2>1. /\ p = [id |-> c.id, seq |-> c.seq + 1,
                total |-> c.observed.total - c.base.total,
                from |-> c.base.at, upto |-> c.observed.at]
        /\ c.observed.total - c.base.total \in Nat
    BY <1>2 DEF Payload, GoodCounter, Counter, Sample
  <2>2. p \in Packet /\ p # NoPacket
    BY <2>1 DEF Packet, Counter, Sample, NoPacket
  <2>3. p.id > 0 /\ p.seq > 0 /\ p.from + p.total <= p.upto
    BY <2>1 DEF GoodCounter, Counter, Sample, Later
  <2>4. \A q \in ps : q.id <= p.id /\ (q.id < p.id /\ p.id \notin blind => q.upto <= p.from)
    BY <2>1 DEF GoodCounter
  <2>5. GoodPackets(ps \cup {p})
    <3>1. \A q \in ps \cup {p} : q.id > 0 /\ q.seq > 0 /\ q.from + q.total <= q.upto
      BY <2>3 DEF GoodPackets
    <3>2. ASSUME NEW q \in ps \cup {p}, NEW r \in ps \cup {p}, q.id < r.id, r.id \notin blind
          PROVE  q.upto <= r.from
      <4>1. q \in ps
        BY <2>2, <2>4, <3>2 DEF Packet
      <4>2. CASE r \in ps
        BY <3>2, <4>1, <4>2 DEF GoodPackets
      <4>3. CASE r = p
        BY <2>4, <3>2, <4>1, <4>3
      <4> QED BY <4>2, <4>3
    <3> QED BY <3>1, <3>2 DEF GoodPackets
  <2>6. GoodCounter(c, ps \cup {p})
    BY <2>1 DEF GoodCounter, Counter, Sample
  <2> QED BY <2>2, <2>5, <2>6
<1> QED BY <1>1, <1>2

------------------------------------------------------------------------------
(* Each step keeps the invariant. *)

LEMMA InitOK == Init => IInv
<1> SUFFICES ASSUME Init PROVE IInv
  OBVIOUS
<1>2. TypeOK
  <2>1. managed \in BOOLEAN /\ stable \in BOOLEAN /\ ready \in BOOLEAN
    BY Zenon DEF Init
  <2>2. accepted \in [Ids -> Packet]
    BY ZeroTypes DEF Init
  <2>3. lastId \in 0 .. MaxCounters /\ coreTotal \in Nat /\ cores \in Nat /\ generated \in Nat
    BY TrafficAssumption DEF Init
  <2> QED BY NoReportTypes, <2>1, <2>2, <2>3, ZeroTypes DEF Init, TypeOK
<1>3. BooksOK
  BY ZeroTypes DEF Init, BooksOK, GoodPackets, GoodCounter, Later, NoCounter, ZeroSample
<1>5. ClockOK
  BY DEF Init, ClockOK, Later, Now, NoCounter, ZeroSample, EndBefore
<1>4. ReportOK /\ AcceptedOK
  BY DEF Init, ReportOK, AcceptedOK, NoReport
<1> QED BY <1>2, <1>3, <1>4, <1>5 DEF IInv

LEMMA ProxyOK == IInv /\ Proxy => IInv'
BY DEF IInv, Proxy, TypeOK, BooksOK, ClockOK, ReportOK, AcceptedOK, Later, Now, Counter,
       Sample, Packet, view, books, GoodCounter, GoodPackets, EndBefore

LEMMA CoreRestartOK == IInv /\ CoreRestart => IInv'
BY DEF IInv, CoreRestart, TypeOK, BooksOK, ClockOK, ReportOK, AcceptedOK, Later, Now, Counter,
       Sample, Packet, view, books, GoodCounter, GoodPackets, EndBefore

\* the sample taken now is later than every one kept, and no packet ends after it
LEMMA NowGood ==
    IInv => /\ Now \in Sample /\ EndBefore(packets, Now)
            /\ Later(stored.observed, Now) /\ Later(totals, Now)
BY DEF IInv, ClockOK, TypeOK, Now, Sample

\* what the effects and the report write, whichever counter they settle on
LEMMA BooksStep ==
    ASSUME IInv, NEW c \in Counter, TypeOK',
           stored' = c, c.id = lastId', c.id > 0, counter' = c \/ counter' = NoCounter,
           packets' = packets, pending' \in packets \cup {NoPacket},
           c.pending \in packets \cup {NoPacket}, GoodCounter(c, packets), blind' = blind,
           lastId' >= lastId
    PROVE  BooksOK'
<1>1. GoodCounter(c, packets)' /\ GoodPackets(packets)'
  BY DEF GoodCounter, GoodPackets, IInv, BooksOK
<1>2. \A d \in blind : d <= lastId'
  BY DEF IInv, BooksOK, TypeOK, Ids
<1> QED BY <1>1, <1>2 DEF IInv, BooksOK

\* a counter that may become the loaded one
Fits(c) ==
    /\ c.id > 0 /\ c.id = (IF c.id > lastId THEN lastId + 1 ELSE lastId)
    /\ c.pending \in packets \cup {NoPacket}
    /\ GoodCounter(c, packets) /\ Later(c.observed, Now)

LEMMA StoredGood ==
    ASSUME IInv, stored # NoCounter
    PROVE  /\ stored \in Counter /\ stored.id > 0 /\ stored.id = lastId /\ lastId \in Nat
           /\ stored.pending \in packets \cup {NoPacket} /\ GoodCounter(stored, packets)
           /\ Later(stored.observed, Now) /\ (sampled => Later(stored.observed, totals))
           /\ Fits(stored)
BY DEF IInv, TypeOK, BooksOK, ClockOK, Fits

\* the counter that is made from the page's sample
LEMMA NewFits ==
    ASSUME IInv, sampled, CanCreate
    PROVE  LET c == NewCounter(lastId + 1, totals)
           IN  c \in Counter /\ c # NoCounter /\ Fits(c) /\ Later(c.observed, totals)
<1> DEFINE c == NewCounter(lastId + 1, totals)
<1>1. lastId \in Nat /\ lastId + 1 \in 1 .. MaxCounters
  BY TrafficAssumption DEF CanCreate, IInv, TypeOK
<1>2. \A p \in packets : p.id < lastId + 1
  BY DEF IInv, TypeOK, BooksOK, GoodCounter, Packet
<1>3. EndBefore(packets, totals) /\ totals \in Sample /\ packets \in SUBSET Packet /\ Later(totals, Now)
  BY DEF IInv, TypeOK, ClockOK
<1>4. Later(totals, totals)
  BY <1>3 DEF Later, Sample
<1>5. /\ c \in Counter /\ c # NoCounter /\ c.id = lastId + 1 /\ c.observed = totals
      /\ c.pending = NoPacket /\ GoodCounter(c, packets)
  BY <1>1, <1>2, <1>3, NewCounterGood
<1> HIDE DEF c
<1>6. Fits(c)
  BY <1>1, <1>3, <1>5 DEF Fits
<1> QED BY <1>4, <1>5, <1>6 DEF c

LEMMA RestoredGood ==
    ASSUME IInv, sampled, Restored.id > lastId => CanCreate
    PROVE  /\ Restored \in Counter /\ Restored # NoCounter
           /\ Fits(Restored) /\ Later(Restored.observed, totals)
<1>1. CASE counter # NoCounter \/ Parses(stored)
  <2>1. Restored = stored /\ stored # NoCounter
    BY <1>1 DEF Restored, IInv, BooksOK, Parses
  <2> QED BY <2>1, StoredGood
<1>2. CASE ~(counter # NoCounter \/ Parses(stored))
  <2>1. Restored = NewCounter(lastId + 1, totals)
    BY <1>2 DEF Restored
  <2>2. lastId \in Nat /\ Restored.id = lastId + 1
    BY <2>1 DEF NewCounter, IInv, TypeOK
  <2>3. CanCreate
    BY <2>2
  <2> QED BY <2>1, <2>3, NewFits
<1> QED BY <1>1, <1>2

\* loading a counter that fits, or none when none is loaded, keeps the invariant,
\* be the page's sample the old one or the one taken now
LEMMA LoadOK ==
    ASSUME IInv, NEW c \in Counter, Load(c),
           IF c = NoCounter THEN counter = NoCounter
           ELSE Fits(c) /\ (sampled' => Later(c.observed, totals')),
           pending' \in {pending, NoPacket}, blind' = blind,
           managed' \in BOOLEAN, stable' \in BOOLEAN, ready' \in BOOLEAN, sampled' \in BOOLEAN,
           \/ totals' = totals /\ sampled' = sampled
           \/ totals' = Now /\ sampled' = TRUE,
           ready' => sampled',
           UNCHANGED <<core, report, packets, accepted>>
    PROVE  IInv'
<1>1. Now' = Now /\ Now \in Sample /\ EndBefore(packets, Now) /\ Later(Now, Now)
  BY NowGood DEF Now, core, Later, Sample
<1>2. /\ totals' \in Sample /\ Later(totals', Now) /\ Later(totals, totals')
      /\ sampled' => EndBefore(packets, totals')
      /\ sampled => sampled'
  BY <1>1, NowGood DEF IInv, ClockOK, TypeOK, Later, Sample
<1>3. lastId \in 0 .. MaxCounters /\ lastId \in Nat /\ MaxCounters \in Nat /\ c.id \in Nat
  BY TrafficAssumption DEF IInv, TypeOK, Counter
<1>4. pending' \in Packet /\ pending' \in packets \cup {NoPacket}
  BY ZeroTypes DEF IInv, TypeOK, BooksOK
<1>5. (ReportOK' /\ AcceptedOK') \/ counter' = NoCounter
  <2>1. report.active => Later(report.current, totals')
    BY <1>2, LaterTransitive DEF IInv, ReportOK, TypeOK
  <2>2. counter' = c
    BY DEF Load
  <2> QED BY <1>2, <2>1, <2>2 DEF IInv, ReportOK, AcceptedOK, EndBefore
<1>6. CASE c = NoCounter
  <2>1. counter = NoCounter /\ counter' = NoCounter /\ stored' = stored /\ lastId' = lastId
    BY <1>3, <1>6, ZeroTypes DEF Load
  <2>2. TypeOK'
    BY <1>2, <1>4, <2>1 DEF IInv, TypeOK, core
  <2>3. BooksOK'
    BY <1>4, <2>1 DEF IInv, BooksOK, GoodCounter, GoodPackets
  <2>4. Later(stored.observed, totals) /\ Later(totals, totals') => Later(stored.observed, totals')
    BY <1>2, LaterTransitive DEF IInv, TypeOK, Counter
  <2>5. ClockOK'
    <3>1. sampled' => Later(stored.observed, totals')
      BY <2>4, <1>2 DEF IInv, ClockOK
    <3> QED BY <1>1, <1>2, <2>1, <3>1 DEF IInv, ClockOK, core, EndBefore
  <2>6. ReportOK' /\ AcceptedOK'
    BY <2>1 DEF IInv, ReportOK, AcceptedOK
  <2> QED BY <2>2, <2>3, <2>5, <2>6 DEF IInv
<1>7. CASE c # NoCounter
  <2>1. counter' = c /\ stored' = c /\ lastId' = c.id /\ (c.id > lastId => CanCreate)
    BY <1>3, <1>7 DEF Load, Fits
  <2>2. lastId' \in 0 .. MaxCounters /\ lastId' >= lastId
    BY <1>3, <1>7, <2>1 DEF Fits, CanCreate
  <2>3. TypeOK'
    BY <1>2, <1>4, <2>1, <2>2 DEF IInv, TypeOK, core
  <2>4. BooksOK'
    BY <1>4, <1>7, <2>1, <2>2, <2>3, BooksStep DEF Fits
  <2>5. ClockOK'
    BY <1>1, <1>2, <1>7, <2>1 DEF IInv, ClockOK, core, EndBefore, Fits
  <2> QED BY <1>5, <1>7, <2>1, <2>3, <2>4, <2>5 DEF IInv
<1> QED BY <1>6, <1>7

LEMMA NewSampleOK == IInv /\ NewSample => IInv'
<1> SUFFICES ASSUME IInv, NewSample PROVE IInv'
  OBVIOUS
<1> DEFINE restores == managed /\ ready /\ totals.total # coreTotal
           loaded == IF restores THEN Restored ELSE counter
           observed == IF loaded = NoCounter THEN NoCounter ELSE Observe(loaded, Now)
<1>1. /\ Load(observed) /\ totals' = Now /\ ready' = TRUE /\ sampled' = TRUE
      /\ pending' = IF restores /\ counter = NoCounter THEN NoPacket ELSE pending
      /\ UNCHANGED <<core, managed, stable, blind, report, packets, accepted>>
  BY DEF NewSample, Now
<1>2. managed' \in BOOLEAN /\ stable' \in BOOLEAN /\ ready' \in BOOLEAN /\ sampled' \in BOOLEAN
  BY <1>1, Zenon DEF IInv, TypeOK
<1>3. observed.id > lastId => CanCreate
  BY <1>1 DEF Load
<1>4. loaded # NoCounter => loaded \in Counter /\ Fits(loaded)
  <2> SUFFICES ASSUME loaded # NoCounter PROVE loaded \in Counter /\ Fits(loaded)
    OBVIOUS
  <2>1. CASE restores
    <3>1. Restored = stored \/ Restored = NewCounter(lastId + 1, totals)
      BY DEF Restored, IInv, BooksOK
    <3>2. stored.id = lastId /\ lastId \in Nat
      BY DEF IInv, TypeOK, BooksOK
    <3>3. Restored.id > lastId => Observe(Restored, Now).id = Restored.id
      BY <3>1, <3>2 DEF NewCounter, Observe
    <3>4. (Restored.id > lastId => CanCreate) /\ sampled
      BY <1>3, <2>1, <3>3 DEF IInv, ClockOK
    <3> QED BY <2>1, <3>4, RestoredGood
  <2>2. CASE ~restores
    <3>1. loaded = stored /\ stored # NoCounter
      BY <2>2 DEF IInv, BooksOK
    <3> QED BY <3>1, StoredGood
  <2> QED BY <2>1, <2>2
<1>5. loaded = NoCounter => counter = NoCounter
  <2>1. Restored = NoCounter => counter = NoCounter
    BY ZeroTypes DEF Restored
  <2> QED BY <2>1
<1> HIDE DEF loaded
<1>6. Now \in Sample /\ packets \in SUBSET Packet
  BY NowGood DEF IInv, TypeOK
<1>7. CASE loaded = NoCounter
  BY <1>1, <1>2, <1>5, <1>7, ZeroTypes, LoadOK
<1>8. CASE loaded # NoCounter
  <2>1. /\ observed \in Counter /\ observed.id = loaded.id /\ observed.pending = loaded.pending
        /\ GoodCounter(observed, packets) /\ Later(observed.observed, Now)
    BY <1>4, <1>6, <1>8, ObserveGood DEF Fits
  <2> HIDE DEF observed
  <2>2. Fits(observed) /\ observed # NoCounter
    BY <1>4, <1>8, <2>1, ZeroTypes DEF Fits
  <2> QED BY <1>1, <1>2, <2>1, <2>2, LoadOK
<1> QED BY <1>7, <1>8

\* the counter that an effect finds loaded, when it may have to restore one first
LEMMA LoadedGood ==
    ASSUME IInv, NEW restores \in BOOLEAN, restores => sampled,
           NEW c, c = (IF restores THEN Restored ELSE counter),
           c.id > lastId => CanCreate
    PROVE  /\ c \in Counter
           /\ IF c = NoCounter THEN counter = NoCounter /\ ~restores
              ELSE Fits(c) /\ (sampled => Later(c.observed, totals))
<1>1. CASE restores
  BY <1>1, RestoredGood
<1>2. CASE ~restores
  <2>1. c = counter /\ (c # NoCounter => c = stored) /\ counter \in Counter
    BY <1>2 DEF IInv, BooksOK, TypeOK
  <2> QED BY <1>2, <2>1, StoredGood
<1> QED BY <1>1, <1>2

LEMMA SampleWithoutTotalsOK == IInv /\ SampleWithoutTotals => IInv'
<1> SUFFICES ASSUME IInv, SampleWithoutTotals PROVE IInv'
  OBVIOUS
<1> DEFINE loaded == IF managed THEN Restored ELSE counter
<1>1. /\ ready /\ ready' = FALSE /\ Load(loaded) /\ pending' \in {pending, NoPacket}
      /\ UNCHANGED <<core, managed, stable, totals, sampled, blind, report, packets, accepted>>
  BY DEF SampleWithoutTotals
<1>2. managed \in BOOLEAN /\ sampled
  BY <1>1 DEF IInv, TypeOK, ClockOK
<1>3. /\ managed' \in BOOLEAN /\ stable' \in BOOLEAN /\ ready' \in BOOLEAN /\ sampled' \in BOOLEAN
      /\ ~ready'
  BY <1>1, Zenon DEF IInv, TypeOK
<1>4. loaded.id > lastId => CanCreate
  BY <1>1 DEF Load
<1> HIDE DEF loaded
<1>5. /\ loaded \in Counter
      /\ IF loaded = NoCounter THEN counter = NoCounter
         ELSE Fits(loaded) /\ Later(loaded.observed, totals)
  BY <1>2, <1>4, LoadedGood DEF loaded
<1> QED BY <1>1, <1>3, <1>5, LoadOK

\* steps that leave the counter where it is, or unload it, and end the report
LEMMA EndReportOK ==
    ASSUME IInv, report' = NoReport, TypeOK',
           UNCHANGED <<coreTotal, generated, stored, lastId, blind, packets, accepted>>,
           counter' \in {counter, NoCounter}, pending' \in {pending, NoPacket},
           \/ UNCHANGED <<ready, sampled, totals>>
           \/ ready' = FALSE /\ sampled' = FALSE /\ Later(totals', Now)
    PROVE  IInv'
<1>1. Now' = Now
  BY DEF Now
<1>2. BooksOK'
  BY DEF IInv, BooksOK, GoodCounter, GoodPackets
<1>3. ClockOK'
  BY <1>1 DEF IInv, ClockOK, EndBefore
<1>4. ReportOK' /\ AcceptedOK'
  BY NoReportTypes DEF IInv, ReportOK, AcceptedOK
<1> QED BY <1>2, <1>3, <1>4 DEF IInv

LEMMA BecomeUnstableOK == IInv /\ BecomeUnstable => IInv'
<1> SUFFICES ASSUME IInv, BecomeUnstable PROVE IInv'
  OBVIOUS
<1>1. TypeOK'
  BY NoReportTypes DEF IInv, BecomeUnstable, TypeOK, books, core
<1> QED BY <1>1, EndReportOK DEF BecomeUnstable, books, core

LEMMA ManagedLeftOK == IInv /\ ManagedLeft => IInv'
<1> SUFFICES ASSUME IInv, ManagedLeft PROVE IInv'
  OBVIOUS
<1>1. TypeOK'
  BY NoReportTypes, ZeroTypes DEF IInv, ManagedLeft, TypeOK, core
<1> QED BY <1>1, EndReportOK DEF ManagedLeft, core

LEMMA ReportFailsOK == IInv /\ ReportFails => IInv'
<1> SUFFICES ASSUME IInv, ReportFails PROVE IInv'
  OBVIOUS
<1>1. TypeOK'
  BY NoReportTypes DEF IInv, ReportFails, TypeOK, books, core, view
<1> QED BY <1>1, EndReportOK DEF ReportFails, books, core, view

LEMMA TrafficLimitOK == IInv /\ TrafficLimit => IInv'
<1> SUFFICES ASSUME IInv, TrafficLimit PROVE IInv'
  OBVIOUS
<1>1. TypeOK'
  BY NoReportTypes, ZeroTypes DEF IInv, TrafficLimit, TypeOK, core, view
<1> QED BY <1>1, EndReportOK DEF TrafficLimit, core, view

LEMMA WebViewLostOK == IInv /\ WebViewLost => IInv'
<1> SUFFICES ASSUME IInv, WebViewLost PROVE IInv'
  OBVIOUS
<1>1. totals' \in Sample /\ Later(totals', Now)
  BY DEF IInv, WebViewLost, TypeOK, ClockOK, Sample, Later, Now
<1>2. managed' \in BOOLEAN /\ stable' \in BOOLEAN /\ ready' \in BOOLEAN /\ sampled' \in BOOLEAN
  BY Zenon DEF WebViewLost
<1>3. TypeOK'
  BY <1>1, <1>2, NoReportTypes, ZeroTypes DEF IInv, WebViewLost, TypeOK, core
<1> QED BY <1>1, <1>3, EndReportOK DEF WebViewLost, core

------------------------------------------------------------------------------
\* steps that settle on a good counter and store it
LEMMA SettleOK ==
    ASSUME IInv, NEW c \in Counter, c.id > 0, GoodCounter(c, packets),
           c.pending \in packets \cup {NoPacket},
           Later(c.observed, Now), sampled => Later(c.observed, totals),
           TypeOK', c.id = lastId', stored' = c, counter' = c, c # NoCounter,
           pending' \in packets \cup {NoPacket},
           lastId' >= lastId,
           UNCHANGED <<coreTotal, generated, ready, sampled, totals, blind, packets, accepted>>,
           report' \in {report, NoReport}
    PROVE  IInv'
<1>1. Now' = Now
  BY DEF Now
<1>2. BooksOK'
  BY BooksStep
<1>3. ClockOK'
  BY <1>1 DEF IInv, ClockOK, EndBefore
<1>4. ReportOK' /\ AcceptedOK'
  BY NoReportTypes DEF IInv, ReportOK, AcceptedOK
<1> QED BY <1>2, <1>3, <1>4 DEF IInv

\* the report effect makes a counter without having read the stored one
LEMMA StartUnreadOK ==
    ASSUME IInv, StartScheduler(NoCounter), counter = NoCounter,
           managed' \in BOOLEAN, stable' \in BOOLEAN,
           UNCHANGED <<core, ready, totals, sampled, report, packets, accepted>>
    PROVE  IInv'
<1> DEFINE c == NewCounter(lastId + 1, totals)
<1>1. /\ Load(c) /\ pending' = NoPacket
      /\ blind' = IF ~sampled THEN blind \cup {lastId + 1} ELSE blind
  BY DEF StartScheduler
<1>2. /\ lastId \in Nat /\ totals \in Sample /\ packets \in SUBSET Packet /\ Now \in Sample
      /\ Later(totals, Now) /\ MaxCounters \in Nat
  BY NowGood, TrafficAssumption DEF IInv, TypeOK
<1>3. c.id = lastId + 1 /\ c.observed = totals /\ c.base = totals /\ c.pending = NoPacket
  BY DEF NewCounter
<1>4. CanCreate
  BY <1>1, <1>2, <1>3 DEF Load
<1>5. managed' \in BOOLEAN /\ stable' \in BOOLEAN /\ ready' \in BOOLEAN /\ sampled' \in BOOLEAN
  BY Zenon DEF IInv, TypeOK
<1>6. CASE sampled
  <2>1. c \in Counter /\ c # NoCounter /\ Fits(c) /\ Later(c.observed, totals)
    BY <1>4, <1>6, NewFits
  <2> HIDE DEF c
  <2> QED BY <1>1, <1>5, <1>6, <2>1, LoadOK DEF IInv, ClockOK
<1>7. CASE ~sampled
  <2>1. lastId + 1 \in 1 .. MaxCounters /\ lastId < MaxCounters
    BY <1>2, <1>4 DEF CanCreate
  <2>2. c \in Counter
    BY <1>2, <2>1, ZeroTypes DEF NewCounter, Counter
  <2>3. c # NoCounter
    BY <1>2, <1>3, ZeroTypes
  <2>4. /\ stored' = c /\ counter' = c /\ lastId' = lastId + 1
        /\ blind' = blind \cup {lastId + 1} /\ packets' = packets
    BY <1>1, <1>2, <1>3, <1>7, <2>3 DEF Load
  <2>5. c.base.total <= c.observed.total /\ Later(c.base, c.observed)
    BY <1>2, <1>3 DEF Later, Sample
  <2> HIDE DEF c
  <2>6. GoodCounter(stored, packets)'
    <3>1. \A p \in packets : p.id \in Nat /\ p.id <= lastId
      BY DEF IInv, TypeOK, BooksOK, GoodCounter, Packet
    <3> QED BY <1>2, <1>3, <2>4, <2>5, <3>1 DEF GoodCounter, Later
  <2>7. GoodPackets(packets)'
    BY <2>4 DEF GoodPackets, IInv, BooksOK
  <2>8. blind' \subseteq Ids /\ \A d \in blind' : d <= lastId'
    BY <1>2, <2>1, <2>4 DEF IInv, TypeOK, BooksOK, Ids
  <2>9. TypeOK'
    BY <1>1, <1>2, <1>5, <2>1, <2>2, <2>4, <2>8, ZeroTypes DEF IInv, TypeOK, core
  <2>10. BooksOK'
    BY <1>1, <1>2, <1>3, <2>4, <2>6, <2>7, <2>8 DEF BooksOK
  <2>11. ClockOK'
    BY <1>2, <1>3, <1>7, <2>4 DEF IInv, ClockOK, core, Now, EndBefore
  <2>12. ReportOK' /\ AcceptedOK'
    BY <1>7 DEF IInv, ReportOK, AcceptedOK
  <2> QED BY <2>9, <2>10, <2>11, <2>12 DEF IInv
<1> QED BY <1>6, <1>7

LEMMA StartSchedulerOK ==
    ASSUME IInv, NEW c \in Counter, StartScheduler(c),
           IF c = NoCounter THEN counter = NoCounter
           ELSE Fits(c) /\ (sampled => Later(c.observed, totals)),
           managed' \in BOOLEAN, stable' \in BOOLEAN,
           UNCHANGED <<core, ready, totals, sampled, report, packets, accepted>>
    PROVE  IInv'
<1>1. CASE c = NoCounter
  BY <1>1, StartUnreadOK
<1>2. CASE c # NoCounter
  <2>1. Load(c) /\ pending' \in {pending, NoPacket} /\ blind' = blind
    BY <1>2 DEF StartScheduler
  <2>2. ready' \in BOOLEAN /\ sampled' \in BOOLEAN /\ (ready' => sampled') /\ pending' = NoPacket
    BY <1>2, Zenon DEF IInv, TypeOK, ClockOK, StartScheduler
  <2> QED BY <1>2, <2>1, <2>2, LoadOK
<1> QED BY <1>1, <1>2

LEMMA BecomeStableOK == IInv /\ BecomeStable => IInv'
<1> SUFFICES ASSUME IInv, BecomeStable PROVE IInv'
  OBVIOUS
<1>1. stable' \in BOOLEAN /\ managed' \in BOOLEAN
  BY Zenon DEF BecomeStable, IInv, TypeOK
<1>2. CASE managed
  <2>1. counter # NoCounter => counter = stored
    BY DEF IInv, BooksOK
  <2>2. StartScheduler(counter) /\ counter \in Counter
    BY <1>2 DEF BecomeStable, IInv, TypeOK
  <2> QED BY <1>1, <2>1, <2>2, StoredGood, StartSchedulerOK DEF BecomeStable
<1>3. CASE ~managed
  BY <1>1, <1>3 DEF BecomeStable, IInv, TypeOK, BooksOK, ClockOK, ReportOK, AcceptedOK, Now,
         books, core, GoodCounter, GoodPackets, EndBefore
<1> QED BY <1>2, <1>3

LEMMA ManagedReadyOK == IInv /\ ManagedReady => IInv'
<1> SUFFICES ASSUME IInv, ManagedReady PROVE IInv'
  OBVIOUS
<1> DEFINE loaded == IF ready THEN Restored ELSE counter
<1>1. /\ stable' \in BOOLEAN /\ managed' \in BOOLEAN /\ ready' \in BOOLEAN /\ sampled' \in BOOLEAN
      /\ ready \in BOOLEAN /\ (ready => sampled)
  BY Zenon DEF ManagedReady, IInv, TypeOK, ClockOK
<1>2. \/ StartScheduler(loaded)
      \/ /\ Load(loaded) /\ pending' = (IF ready THEN NoPacket ELSE pending)
         /\ UNCHANGED blind
  BY DEF ManagedReady
<1>3. UNCHANGED <<core, stable, ready, totals, sampled, report, packets, accepted>>
  BY DEF ManagedReady
<1>4. loaded.id > lastId => CanCreate
  <2>1. loaded.id > lastId => loaded # NoCounter
    BY ZeroTypes DEF IInv, TypeOK
  <2> QED BY <1>2, <2>1 DEF StartScheduler, Load
<1> HIDE DEF loaded
<1>5. /\ loaded \in Counter
      /\ IF loaded = NoCounter THEN counter = NoCounter
         ELSE Fits(loaded) /\ (sampled => Later(loaded.observed, totals))
  BY <1>1, <1>4, LoadedGood DEF loaded
<1>6. CASE StartScheduler(loaded)
  BY <1>1, <1>3, <1>5, <1>6, StartSchedulerOK
<1>7. CASE /\ Load(loaded) /\ pending' = (IF ready THEN NoPacket ELSE pending)
           /\ UNCHANGED blind
  BY <1>1, <1>3, <1>5, <1>7, LoadOK
<1> QED BY <1>2, <1>6, <1>7

\* a counter that starts at the sample the report began with
LEMMA RebaseOK ==
    ASSUME IInv, report.active, CanCreate,
           stored' = NewCounter(lastId + 1, report.current), counter' = stored',
           lastId' = lastId + 1, pending' = NoPacket, report' = NoReport,
           UNCHANGED <<core, view, blind, packets, accepted>>
    PROVE  IInv'
<1> DEFINE c == NewCounter(lastId + 1, report.current)
<1>1. /\ lastId + 1 \in 1 .. MaxCounters /\ lastId + 1 \in 0 .. MaxCounters
      /\ report.current \in Sample /\ packets \in SUBSET Packet
  BY TrafficAssumption DEF IInv, TypeOK, CanCreate
<1>2. EndBefore(packets, report.current) /\ Later(report.current, totals) /\ sampled
  BY DEF IInv, ReportOK
<1>3. \A p \in packets : p.id < lastId + 1
  BY DEF IInv, TypeOK, BooksOK, GoodCounter, Packet
<1>4. /\ c \in Counter /\ c # NoCounter /\ c.id = lastId + 1 /\ c.pending = NoPacket
      /\ c.observed = report.current /\ GoodCounter(c, packets)
  BY <1>1, <1>2, <1>3, NewCounterGood
<1>5. Later(report.current, Now)
  BY <1>1, <1>2, NowGood, LaterTransitive DEF IInv, TypeOK
<1> HIDE DEF c
<1>6. TypeOK'
  BY <1>1, <1>4, NoReportTypes, ZeroTypes DEF c, IInv, TypeOK, core, view
<1>7. stored' = c /\ counter' = c
  BY DEF c
<1>8. c.id > 0 /\ lastId' >= lastId
  BY <1>1, <1>4 DEF IInv, TypeOK
<1> QED BY <1>2, <1>4, <1>5, <1>6, <1>7, <1>8, SettleOK DEF core, view

LEMMA CounterResetOK == IInv /\ CounterReset => IInv'
BY RebaseOK DEF CounterReset

LEMMA AcknowledgedOK == IInv /\ Acknowledged => IInv'
<1> SUFFICES ASSUME IInv, Acknowledged PROVE IInv'
  OBVIOUS
<1>1. CASE report.coreReset
  BY <1>1, RebaseOK DEF Acknowledged
<1>2. CASE ~report.coreReset
  <2> DEFINE c == Acknowledge(counter, report.packet.seq)
  <2>1. counter = stored /\ stored # NoCounter
    BY DEF Acknowledged, IInv, ReportOK, BooksOK
  <2>2. report.packet.seq \in Nat /\ packets \in SUBSET Packet
    BY DEF IInv, TypeOK, Packet
  <2>3. /\ c \in Counter /\ c.id = lastId /\ c.id > 0 /\ c.pending = NoPacket
        /\ c.observed = stored.observed /\ GoodCounter(c, packets)
    BY <2>1, <2>2, StoredGood, AcknowledgeGood
  <2>4. c # NoCounter
    BY <2>3, ZeroTypes
  <2>5. /\ stored' = c /\ counter' = c /\ lastId' = lastId /\ pending' = NoPacket
        /\ report' = NoReport /\ UNCHANGED <<core, view, blind, packets, accepted>>
    BY <1>2 DEF Acknowledged
  <2> HIDE DEF c
  <2>6. TypeOK'
    BY <2>3, <2>5, NoReportTypes, ZeroTypes DEF IInv, TypeOK, core, view
  <2>7. lastId' >= lastId
    BY <2>1, <2>5, StoredGood
  <2> QED BY <2>1, <2>3, <2>4, <2>5, <2>6, <2>7, StoredGood, SettleOK DEF core, view
<1> QED BY <1>1, <1>2

LEMMA DeliverOK == ASSUME NEW p \in packets PROVE IInv /\ Deliver(p) => IInv'
<1> SUFFICES ASSUME IInv, Deliver(p) PROVE IInv'
  OBVIOUS
<1>1. /\ report' \in {report, [report EXCEPT !.reply = ServerReply(p)]}
      /\ ServerReply(p) \in Replies
  BY DEF Deliver, Answer, ServerReply, Replies
<1>2. /\ report' \in [active : BOOLEAN, packet : Packet, current : Sample,
                     coreReset : BOOLEAN, reply : Replies]
      /\ report'.active = report.active /\ report'.packet = report.packet
      /\ report'.current = report.current
  BY <1>1 DEF IInv, TypeOK
<1>3. p \in Packet /\ p.id \in Ids
  BY SMTT(30) DEF IInv, TypeOK, BooksOK, GoodPackets, Packet, Ids
<1>4. accepted' \in [Ids -> Packet] /\ AcceptedOK'
  BY <1>3 DEF Deliver, IInv, TypeOK, AcceptedOK, books
<1>5. TypeOK'
  BY <1>2, <1>4 DEF Deliver, IInv, TypeOK, core, view, books
<1> QED BY <1>2, <1>4, <1>5
        DEF Deliver, IInv, BooksOK, ClockOK, ReportOK, Now, core, view, books,
            GoodCounter, GoodPackets, EndBefore

LEMMA AnswerOK ==
    ASSUME IInv, NEW p \in packets, NEW reply \in Replies, Answer(p, reply),
           UNCHANGED <<core, view, books, packets, accepted>>
    PROVE  IInv'
<1>1. /\ report' \in [active : BOOLEAN, packet : Packet, current : Sample,
                     coreReset : BOOLEAN, reply : Replies]
      /\ report'.active = report.active /\ report'.packet = report.packet
      /\ report'.current = report.current
  BY DEF Answer, IInv, TypeOK
<1>2. TypeOK'
  BY <1>1 DEF IInv, TypeOK, core, view, books
<1> QED BY <1>1, <1>2 DEF IInv, BooksOK, ClockOK, ReportOK, AcceptedOK, Now, core, view, books,
                          GoodCounter, GoodPackets, EndBefore

LEMMA BeginReportOK == IInv /\ BeginReport => IInv'
<1> SUFFICES ASSUME IInv, BeginReport PROVE IInv'
  OBVIOUS
<1> DEFINE observed == Observe(counter, totals)
           packet == IF pending # NoPacket THEN pending ELSE Payload(observed)
           sealed == [observed EXCEPT !.pending = packet]
<1>1. /\ counter = stored /\ stored # NoCounter /\ sampled
      /\ totals \in Sample /\ packets \in SUBSET Packet
  BY DEF BeginReport, IInv, TypeOK, BooksOK, ClockOK
<1>2. /\ observed \in Counter /\ observed.id = lastId /\ observed.id > 0
      /\ observed.pending \in packets \cup {NoPacket}
      /\ GoodCounter(observed, packets) /\ Later(observed.observed, totals)
  BY <1>1, StoredGood, ObserveGood
<1>3. Later(observed.observed, Now)
  BY <1>1, <1>2, NowGood, LaterTransitive DEF Counter
<1>4. /\ packet \in Packet /\ packet # NoPacket
      /\ GoodPackets(packets \cup {packet}) /\ GoodCounter(observed, packets \cup {packet})
  <2>1. CASE pending # NoPacket
    <3>1. packet = pending /\ pending \in packets /\ packets \cup {pending} = packets
      BY <2>1 DEF IInv, BooksOK
    <3> QED BY <1>1, <1>2, <2>1, <3>1 DEF IInv, BooksOK
  <2>2. CASE pending = NoPacket
    BY <1>1, <1>2, <2>2, PayloadGood DEF IInv, BooksOK
  <2> QED BY <2>1, <2>2
<1>5. UNCHANGED <<core, view, lastId, blind, accepted>>
  BY DEF BeginReport
<1>6. observed # NoCounter
  BY <1>2, ZeroTypes
<1>7. CASE packet.total = 0
  <2>1. /\ counter' = observed /\ stored' = observed
        /\ UNCHANGED <<pending, report, packets>>
    BY <1>7 DEF BeginReport
  <2> HIDE DEF observed
  <2>2. TypeOK'
    BY <1>2, <1>5, <2>1 DEF IInv, TypeOK, core, view
  <2>3. pending' \in packets \cup {NoPacket} /\ lastId' >= lastId
    BY <1>2, <1>5, <2>1 DEF IInv, BooksOK, TypeOK
  <2> QED BY <1>2, <1>3, <1>5, <1>6, <2>1, <2>2, <2>3, SettleOK DEF core, view
<1>8. CASE packet.total # 0
  <2>1. /\ counter' = sealed /\ stored' = sealed /\ pending' = packet
        /\ packets' = packets \cup {packet}
        /\ report' = [active |-> TRUE, packet |-> packet, current |-> totals,
                      coreReset |-> Regressed(counter, totals), reply |-> "none"]
    BY <1>8 DEF BeginReport
  <2> HIDE DEF observed, packet
  <2>2. /\ sealed \in Counter /\ sealed.id = observed.id /\ sealed.pending = packet
        /\ sealed.observed = observed.observed /\ sealed.base = observed.base
    BY <1>2, <1>4 DEF Counter
  <2> HIDE DEF sealed
  <2>3. sealed # NoCounter
    BY <1>4, <2>2, ZeroTypes
  <2>4. GoodCounter(sealed, packets')
    BY <1>4, <2>1, <2>2 DEF GoodCounter
  <2>5. Regressed(counter, totals) \in BOOLEAN
    BY DEF Regressed
  <2>6. report' \in [active : BOOLEAN, packet : Packet, current : Sample,
                   coreReset : BOOLEAN, reply : Replies]
    BY <1>1, <1>4, <2>1, <2>5 DEF Replies
  <2>7. TypeOK'
    BY <1>4, <1>5, <2>1, <2>2, <2>6 DEF IInv, TypeOK, core, view
  <2>8. BooksOK'
    <3>1. GoodPackets(packets)'
      BY <1>4, <1>5, <2>1 DEF GoodPackets
    <3>2. GoodCounter(stored, packets)'
      BY <1>5, <2>1, <2>4 DEF GoodCounter
    <3>3. \A d \in blind' : d <= lastId'
      BY <1>5 DEF IInv, BooksOK
    <3> QED BY <1>2, <1>5, <2>1, <2>2, <2>3, <3>1, <3>2, <3>3 DEF BooksOK
  <2>9. EndBefore(packets', totals) /\ EndBefore(packets', Now)
    <3>1. EndBefore(packets, totals) /\ Later(totals, Now) /\ Now \in Sample
      BY <1>1, NowGood DEF IInv, ClockOK
    <3>2. CASE packet \in packets
      <4>1. packets' = packets
        BY <2>1, <3>2
      <4> QED BY <3>1, <4>1, NowGood
    <3>3. CASE packet \notin packets
      <4>1. packet.upto = observed.observed.at
        <5>1. pending = NoPacket /\ packet = Payload(observed)
          BY <3>3 DEF packet, IInv, BooksOK
        <5> QED BY <1>2, <3>3, <5>1 DEF Payload
      <4>2. packet.upto <= totals.at /\ packet.upto <= Now.at
        BY <1>1, <1>2, <3>1, <4>1 DEF Later, Counter, Sample
      <4> QED BY <2>1, <3>1, <4>2, NowGood DEF EndBefore
    <3> QED BY <3>2, <3>3
  <2>10. ClockOK'
    BY <1>2, <1>3, <1>5, <2>1, <2>2, <2>9 DEF IInv, ClockOK, Now, core, view, EndBefore
  <2>11. Later(totals, totals)
    BY <1>1 DEF Later, Sample
  <2>12. ReportOK' /\ AcceptedOK'
    BY <1>1, <1>5, <2>1, <2>3, <2>9, <2>11 DEF IInv, ReportOK, AcceptedOK, view
  <2> QED BY <2>7, <2>8, <2>10, <2>12 DEF IInv
<1> QED BY <1>7, <1>8

------------------------------------------------------------------------------
\* IInv is inductive.
LEMMA StepOK == IInv /\ [Next]_vars => IInv'
<1> SUFFICES ASSUME IInv, [Next]_vars PROVE IInv'
  OBVIOUS
<1>1. ASSUME NEW p \in packets, RelayStores(p) PROVE IInv'
  BY <1>1, AnswerOK DEF RelayStores, RelayReply, Replies
<1>2. ASSUME NEW p \in packets, Refuse(p) PROVE IInv'
  BY <1>2, AnswerOK DEF Refuse, Replies
<1>3. CASE UNCHANGED vars
  BY <1>3 DEF vars, core, view, books, IInv, TypeOK, BooksOK, ClockOK, ReportOK, AcceptedOK, Now,
         GoodCounter, GoodPackets, EndBefore
<1> QED BY <1>1, <1>2, <1>3, ProxyOK, CoreRestartOK, WebViewLostOK, NewSampleOK,
           SampleWithoutTotalsOK, ManagedReadyOK,
           ManagedLeftOK, BecomeStableOK, BecomeUnstableOK, BeginReportOK, ReportFailsOK,
           CounterResetOK, TrafficLimitOK, AcknowledgedOK, DeliverOK DEF Next

LEMMA InvariantBillsOnce == IInv => NoByteBilledTwice
<1> SUFFICES ASSUME IInv PROVE NoByteBilledTwice
  OBVIOUS
<1>1. ASSUME NEW c \in Ids
      PROVE  /\ accepted[c] \in Packet
             /\ accepted[c].from <= accepted[c].upto
             /\ accepted[c].total <= accepted[c].upto - accepted[c].from
             /\ accepted[c].upto <= generated
  <2>1. CASE accepted[c] = NoPacket
    BY <2>1, ZeroTypes DEF NoPacket, IInv, TypeOK
  <2>2. CASE accepted[c] \in packets
    BY <2>2, NowGood DEF IInv, TypeOK, BooksOK, GoodPackets, Packet, EndBefore, Now
  <2> QED BY <2>1, <2>2 DEF IInv, AcceptedOK
<1>2. ASSUME NEW c \in Ids, NEW d \in Ids, c < d, d \notin blind, accepted[c].seq > 0, accepted[d].seq > 0
      PROVE  accepted[c].upto <= accepted[d].from
  BY <1>2 DEF IInv, AcceptedOK, BooksOK, GoodPackets, NoPacket
<1> QED BY <1>1, <1>2 DEF NoByteBilledTwice, Apart

\* The model's variables keep their types in every behaviour.
THEOREM TypeCorrect == Spec => []TypeOK
<1>1. IInv => TypeOK
  BY DEF IInv
<1> QED BY <1>1, InitOK, StepOK, PTL DEF Spec

\* No byte is billed twice (createManagedTrafficCounter, reportClientTraffic and
\* sendTrafficWithRelay together), for all values of the constants, but by a counter
\* that the report effect made before the page's first sample.
THEOREM BilledOnce == Spec => []NoByteBilledTwice
BY InitOK, StepOK, InvariantBillsOnce, PTL DEF Spec

------------------------------------------------------------------------------
(* Packets and acknowledgements. *)

\* the only packet ahead of what the stored counter acknowledged is its frozen one
SeqOK ==
    /\ \A p \in packets : p.id = stored.id =>
          p.seq <= stored.seq + 1 /\ (p.seq = stored.seq + 1 => stored.pending = p)
    /\ stored.pending # NoPacket => stored.pending.id = stored.id /\ stored.pending.seq = stored.seq + 1
    /\ pending # NoPacket => stored.pending = pending
    /\ FrozenPacketIsUnique

\* the report sends that packet, and an answer "ok" means that the server accepted it
AckOK ==
    /\ stored.id > 0 => accepted[stored.id].seq >= stored.seq
    /\ report.active => report.packet = stored.pending
    /\ report.active /\ report.reply = "ok" => accepted[report.packet.id].seq >= report.packet.seq

\* the stored counter is the same but for what it observed, or a new one
SameCounter ==
    /\ stored'.id = stored.id /\ stored'.seq = stored.seq /\ stored'.pending = stored.pending
    /\ pending' \in {pending, NoPacket}
FreshCounter ==
    /\ stored'.id = lastId + 1 /\ stored'.seq = 0 /\ stored'.pending = NoPacket
    /\ pending' = NoPacket /\ ~report'.active
NoNewAnswer ==
    report'.active => report.active /\ report'.packet = report.packet /\ (report'.reply = "ok" => report.reply = "ok")

LEMMA OtherStepsOK ==
    ASSUME IInv, IInv', SeqOK, AckOK, SameCounter \/ FreshCounter, NoNewAnswer, UNCHANGED <<packets, accepted>>
    PROVE  SeqOK' /\ AckOK'
<1>1. /\ stored \in Counter /\ stored' \in Counter /\ stored.id = lastId /\ packets \in SUBSET Packet
      /\ accepted \in [Ids -> Packet] /\ lastId \in Nat
  BY DEF IInv, TypeOK, BooksOK
<1>2. CASE SameCounter
  BY <1>1, <1>2 DEF SameCounter, NoNewAnswer, SeqOK, AckOK, FrozenPacketIsUnique
<1>3. CASE FreshCounter
  <2>1. \A p \in packets : p.id <= lastId /\ p.id \in Nat
    BY <1>1 DEF IInv, BooksOK, GoodCounter, Packet
  <2>2. stored'.id \in Ids
    BY <1>1, <1>3, TrafficAssumption DEF FreshCounter, Counter, Ids
  <2>3. accepted[stored'.id].seq >= 0
    BY <1>1, <2>2 DEF Packet
  <2> QED BY <1>1, <1>3, <2>1, <2>3 DEF FreshCounter, SeqOK, AckOK, FrozenPacketIsUnique
<1> QED BY <1>2, <1>3

LEMMA CounterKinds ==
    /\ \A id, s : NewCounter(id, s).id = id /\ NewCounter(id, s).seq = 0 /\ NewCounter(id, s).pending = NoPacket
    /\ \A c \in Counter : \A s :
          Observe(c, s).id = c.id /\ Observe(c, s).seq = c.seq /\ Observe(c, s).pending = c.pending
BY DEF NewCounter, Observe, Counter

\* Restored is the stored counter or a new one, the latter only when none is loaded.
LEMMA RestoredKinds ==
    ASSUME IInv
    PROVE  \/ Restored = stored
           \/ Restored = NewCounter(lastId + 1, totals) /\ counter = NoCounter
BY DEF Restored, IInv, BooksOK

\* Loading the stored counter, or a new one when none is loaded.
LEMMA LoadKinds ==
    ASSUME IInv, NEW c, stored' = (IF c = NoCounter THEN stored ELSE c),
           pending' \in {pending, NoPacket}, UNCHANGED <<report, packets, accepted>>,
           \/ c = stored \/ c = NoCounter \/ c = Observe(stored, Now)
           \/ /\ counter = NoCounter /\ pending' = NoPacket
              /\ c.id = lastId + 1 /\ c.seq = 0 /\ c.pending = NoPacket
    PROVE  SameCounter \/ FreshCounter
<1>1. /\ stored \in Counter /\ (report.active => counter # NoCounter)
  BY DEF IInv, TypeOK, ReportOK
<1>2. CASE c = stored \/ c = NoCounter \/ c = Observe(stored, Now)
  BY <1>1, <1>2, CounterKinds DEF SameCounter
<1>3. CASE /\ counter = NoCounter /\ pending' = NoPacket
           /\ c.id = lastId + 1 /\ c.seq = 0 /\ c.pending = NoPacket
  <2>1. c # NoCounter
    BY <1>3, ZeroTypes DEF IInv, TypeOK
  <2> QED BY <1>1, <1>3, <2>1 DEF FreshCounter
<1> QED BY <1>2, <1>3

LEMMA PageKinds ==
    ASSUME IInv, NewSample \/ SampleWithoutTotals \/ ManagedReady \/ BecomeStable
    PROVE  (SameCounter \/ FreshCounter) /\ NoNewAnswer /\ UNCHANGED <<packets, accepted>>
<1>1. stored \in Counter /\ (counter # NoCounter => stored = counter)
  BY DEF IInv, TypeOK, BooksOK
<1>2. UNCHANGED <<report, packets, accepted>> /\ NoNewAnswer
  BY DEF NewSample, SampleWithoutTotals, ManagedReady, BecomeStable, NoNewAnswer
<1>3. CASE NewSample
  <2> DEFINE restores == managed /\ ready /\ totals.total # coreTotal
             loaded == IF restores THEN Restored ELSE counter
             observed == IF loaded = NoCounter THEN NoCounter ELSE Observe(loaded, Now)
  <2>1. /\ stored' = IF observed = NoCounter THEN stored ELSE observed
        /\ pending' = IF restores /\ counter = NoCounter THEN NoPacket ELSE pending
    BY <1>3 DEF NewSample, Now, Load
  <2>2. CASE loaded = NoCounter \/ loaded = stored
    <3>1. observed = NoCounter \/ observed = Observe(stored, Now)
      BY <2>2
    <3> HIDE DEF observed
    <3> QED BY <1>2, <2>1, <3>1, LoadKinds
  <2>3. CASE loaded # NoCounter /\ loaded # stored
    <3>1. restores /\ counter = NoCounter /\ loaded = NewCounter(lastId + 1, totals) /\ observed = Observe(loaded, Now)
      BY <1>1, <2>3, RestoredKinds
    <3>2. observed.id = loaded.id /\ observed.seq = loaded.seq /\ observed.pending = loaded.pending
      BY <3>1 DEF Observe, NewCounter
    <3>3. observed.id = lastId + 1 /\ observed.seq = 0 /\ observed.pending = NoPacket /\ pending' = NoPacket
      BY <2>1, <3>1, <3>2, CounterKinds
    <3> HIDE DEF observed
    <3> QED BY <1>2, <2>1, <3>1, <3>3, LoadKinds
  <2> QED BY <2>2, <2>3
<1>4. ASSUME NEW c, stored' = (IF c = NoCounter THEN stored ELSE c), pending' \in {pending, NoPacket},
             c = counter \/ (c = Restored /\ (counter = NoCounter => pending' = NoPacket))
      PROVE  SameCounter \/ FreshCounter
  <2>1. \/ c = stored \/ c = NoCounter
        \/ /\ counter = NoCounter /\ pending' = NoPacket
           /\ c.id = lastId + 1 /\ c.seq = 0 /\ c.pending = NoPacket
    BY <1>1, <1>4, RestoredKinds, CounterKinds
  <2> QED BY <1>2, <1>4, <2>1, LoadKinds
<1>5. ASSUME NEW c, StartScheduler(c), c = counter \/ (c = Restored)
      PROVE  SameCounter \/ FreshCounter
  <2> DEFINE used == IF c = NoCounter THEN NewCounter(lastId + 1, totals) ELSE c
  <2>1. stored' = (IF used = NoCounter THEN stored ELSE used) /\ pending' = NoPacket
    BY <1>5 DEF StartScheduler, Load
  <2>2. c = NoCounter => counter = NoCounter
    BY <1>5 DEF Restored
  <2>3. CASE c = NoCounter
    <3>1. used.id = lastId + 1 /\ used.seq = 0 /\ used.pending = NoPacket
      BY <2>3, CounterKinds
    <3> HIDE DEF used
    <3> QED BY <1>2, <2>1, <2>2, <2>3, <3>1, LoadKinds
  <2>4. CASE c # NoCounter
    BY <1>4, <1>5, <2>1, <2>4
  <2> QED BY <2>3, <2>4
<1>6. CASE SampleWithoutTotals
  <2> DEFINE loaded == IF managed THEN Restored ELSE counter
  <2>1. /\ stored' = IF loaded = NoCounter THEN stored ELSE loaded
        /\ pending' = IF managed /\ counter = NoCounter THEN NoPacket ELSE pending
    BY <1>6 DEF SampleWithoutTotals, Load
  <2>2. loaded = counter \/ (loaded = Restored /\ (counter = NoCounter => pending' = NoPacket))
    BY <2>1
  <2>3. pending' \in {pending, NoPacket}
    BY <2>1
  <2> HIDE DEF loaded
  <2> QED BY <1>2, <1>4, <2>1, <2>2, <2>3
<1>7. CASE ManagedReady
  <2> DEFINE loaded == IF ready THEN Restored ELSE counter
  <2>1. \/ StartScheduler(loaded)
        \/ Load(loaded) /\ pending' = (IF ready THEN NoPacket ELSE pending)
    BY <1>7 DEF ManagedReady
  <2>2. loaded = Restored \/ (loaded = counter /\ ~ready)
    OBVIOUS
  <2>3. loaded = counter \/ (loaded = Restored /\ ready)
    OBVIOUS
  <2> HIDE DEF loaded
  <2>4. CASE StartScheduler(loaded)
    BY <1>2, <1>5, <2>2, <2>4
  <2>5. CASE Load(loaded) /\ pending' = (IF ready THEN NoPacket ELSE pending)
    <3>1. stored' = IF loaded = NoCounter THEN stored ELSE loaded
      BY <2>5 DEF Load
    <3> QED BY <1>2, <1>4, <2>3, <2>5, <3>1
  <2> QED BY <1>2, <2>1, <2>4, <2>5
<1>8. CASE BecomeStable
  <2>1. CASE managed
    <3>1. StartScheduler(counter)
      BY <1>8, <2>1 DEF BecomeStable
    <3> QED BY <1>2, <1>5, <3>1
  <2>2. CASE ~managed
    BY <1>2, <1>8, <2>2 DEF BecomeStable, SameCounter, books
  <2> QED BY <1>2, <2>1, <2>2
<1> QED BY <1>2, <1>3, <1>6, <1>7, <1>8

LEMMA EndKinds ==
    ASSUME IInv, BecomeUnstable \/ WebViewLost \/ ManagedLeft \/ ReportFails \/ TrafficLimit \/ CounterReset
    PROVE  (SameCounter \/ FreshCounter) /\ NoNewAnswer /\ UNCHANGED <<packets, accepted>>
<1>1. report' = NoReport /\ UNCHANGED <<packets, accepted>>
  BY DEF BecomeUnstable, WebViewLost, ManagedLeft, ReportFails, TrafficLimit, CounterReset
<1>2. CASE CounterReset
  BY <1>1, <1>2, CounterKinds, NoReportTypes DEF CounterReset, FreshCounter, NoNewAnswer
<1>3. CASE ~CounterReset
  <2>1. stored' = stored /\ pending' \in {pending, NoPacket}
    BY <1>3 DEF BecomeUnstable, WebViewLost, ManagedLeft, ReportFails, TrafficLimit, books
  <2> QED BY <1>1, <2>1, NoReportTypes DEF SameCounter, NoNewAnswer
<1> QED BY <1>2, <1>3

\* The packet of the report is the one the stored counter keeps frozen.
LEMMA BeginReportKeeps ==
    ASSUME IInv, IInv', SeqOK, AckOK, BeginReport
    PROVE  SeqOK' /\ AckOK'
<1> DEFINE observed == Observe(counter, totals)
           packet == IF pending # NoPacket THEN pending ELSE Payload(observed)
           sealed == [observed EXCEPT !.pending = packet]
<1>1. /\ counter = stored /\ stored # NoCounter /\ stored \in Counter /\ stored.id > 0 /\ stored.id \in Nat
      /\ packets \in SUBSET Packet /\ accepted' = accepted /\ totals \in Sample
  BY DEF BeginReport, IInv, TypeOK, BooksOK, Counter
<1>2. observed.id = stored.id /\ observed.seq = stored.seq /\ observed.pending = stored.pending /\ observed \in Counter
  BY <1>1 DEF Observe, Counter, Sample
<1>3. packet.id = stored.id /\ packet.seq = stored.seq + 1 /\ (stored.pending # NoPacket => packet = stored.pending)
  <2>1. CASE pending # NoPacket
    BY <1>1, <2>1 DEF SeqOK
  <2>2. CASE pending = NoPacket
    BY <1>1, <1>2, <2>2 DEF SeqOK, Payload
  <2> QED BY <2>1, <2>2
<1>4. CASE packet.total = 0
  <2>1. stored' = observed /\ UNCHANGED <<pending, report, packets>>
    BY <1>4 DEF BeginReport
  <2>2. SameCounter /\ NoNewAnswer
    BY <1>2, <2>1 DEF SameCounter, NoNewAnswer
  <2> QED BY <1>1, <2>1, <2>2, OtherStepsOK
<1>5. CASE packet.total # 0
  <2>1. /\ stored' = sealed /\ pending' = packet /\ packets' = packets \cup {packet}
        /\ report' = [active |-> TRUE, packet |-> packet, current |-> totals,
                      coreReset |-> Regressed(counter, totals), reply |-> "none"]
    BY <1>5 DEF BeginReport
  <2> HIDE DEF observed, packet
  <2>2. sealed.id = stored.id /\ sealed.seq = stored.seq /\ sealed.pending = packet
    BY <1>2 DEF Counter
  <2> HIDE DEF sealed
  <2>3. \A p \in packets : p.id = packet.id /\ p.seq = packet.seq => p = packet
    <3> SUFFICES ASSUME NEW p \in packets, p.id = packet.id, p.seq = packet.seq PROVE p = packet
      OBVIOUS
    <3>1. stored.pending = p /\ p.id > 0
      BY <1>3 DEF SeqOK, IInv, BooksOK, GoodPackets
    <3>2. p # NoPacket
      BY <3>1 DEF NoPacket
    <3> QED BY <1>3, <3>1, <3>2
  <2>4. FrozenPacketIsUnique'
    BY <2>1, <2>3 DEF SeqOK, FrozenPacketIsUnique
  <2>5. \A p \in packets' : p.id = stored'.id =>
            p.seq <= stored'.seq + 1 /\ (p.seq = stored'.seq + 1 => stored'.pending = p)
    <3> SUFFICES ASSUME NEW p \in packets', p.id = stored.id
                 PROVE  p.seq <= stored.seq + 1 /\ (p.seq = stored.seq + 1 => packet = p)
      BY <2>1, <2>2
    <3>1. CASE p = packet
      BY <1>1, <1>3, <3>1 DEF Counter
    <3>2. CASE p \in packets
      BY <1>1, <1>3, <2>3, <3>2 DEF SeqOK
    <3> QED BY <2>1, <3>1, <3>2
  <2>6. SeqOK'
    BY <1>3, <2>1, <2>2, <2>4, <2>5 DEF SeqOK
  <2>7. AckOK'
    BY <1>1, <2>1, <2>2 DEF AckOK
  <2> QED BY <2>6, <2>7
<1> QED BY <1>4, <1>5

\* What is acknowledged is the frozen packet, and the server has it.
LEMMA AcknowledgedKeeps ==
    ASSUME IInv, IInv', SeqOK, AckOK, Acknowledged
    PROVE  SeqOK' /\ AckOK'
<1>1. UNCHANGED <<packets, accepted>> /\ pending' = NoPacket /\ report' = NoReport /\ NoReport.active = FALSE
  BY NoReportTypes DEF Acknowledged
<1>2. CASE report.coreReset
  <2>1. FreshCounter /\ NoNewAnswer
    BY <1>1, <1>2, CounterKinds DEF Acknowledged, FreshCounter, NoNewAnswer
  <2> QED BY <1>1, <2>1, OtherStepsOK
<1>3. CASE ~report.coreReset
  <2>1. /\ counter = stored /\ stored \in Counter /\ stored.id > 0 /\ report.packet = stored.pending
        /\ report.packet \in packets /\ accepted[report.packet.id].seq >= report.packet.seq
        /\ stored' = Acknowledge(counter, report.packet.seq)
    BY <1>3 DEF Acknowledged, AckOK, IInv, ReportOK, BooksOK, TypeOK
  <2>2. stored.pending # NoPacket
    BY <2>1 DEF IInv, BooksOK, GoodPackets, NoPacket
  <2>3. report.packet.id = stored.id /\ report.packet.seq = stored.seq + 1
    BY <2>1, <2>2 DEF SeqOK
  <2>4. stored'.id = stored.id /\ stored'.seq = stored.seq + 1 /\ stored'.pending = NoPacket
    BY <2>1, <2>3 DEF Acknowledge, Counter
  <2>5. \A p \in packets : p.id = stored.id => p.seq <= stored.seq + 1 /\ p.seq \in Nat
    BY DEF SeqOK, IInv, TypeOK, Packet
  <2>6. stored.seq \in Nat
    BY <2>1 DEF Counter
  <2> QED BY <1>1, <2>1, <2>3, <2>4, <2>5, <2>6 DEF SeqOK, AckOK, FrozenPacketIsUnique
<1> QED BY <1>2, <1>3

\* The server's numbers only grow, and it answers "ok" for what it has.
LEMMA DeliverKeeps ==
    ASSUME IInv, SeqOK, AckOK, NEW p \in packets, Deliver(p)
    PROVE  SeqOK' /\ AckOK'
<1>1. /\ p \in Packet /\ p.id \in Ids /\ accepted \in [Ids -> Packet] /\ stored \in Counter /\ stored.id \in Nat
      /\ UNCHANGED <<packets, stored, pending>>
      /\ report \in [active : BOOLEAN, packet : Packet, current : Sample, coreReset : BOOLEAN, reply : Replies]
  <2>1. /\ p \in Packet /\ accepted \in [Ids -> Packet] /\ stored \in Counter /\ p.id > 0
        /\ report \in [active : BOOLEAN, packet : Packet, current : Sample, coreReset : BOOLEAN, reply : Replies]
    BY DEF IInv, TypeOK, BooksOK, GoodPackets
  <2>2. p.id \in Ids /\ stored.id \in Nat
    BY <2>1, SMTT(30) DEF Packet, Counter, Ids
  <2> QED BY <2>1, <2>2 DEF Deliver, books
<1>2. SeqOK'
  BY <1>1 DEF SeqOK, FrozenPacketIsUnique
<1>3. \A c \in Ids : accepted'[c].seq >= accepted[c].seq
  BY <1>1 DEF Deliver, Packet
<1>4. ServerReply(p) = "ok" => accepted'[p.id].seq >= p.seq
  BY <1>1 DEF Deliver, ServerReply, Packet
<1>5. \/ report' = report
      \/ report.active /\ report.packet = p /\ report' = [report EXCEPT !.reply = ServerReply(p)]
  BY DEF Deliver, Answer
<1>6. report.active => report.packet.id \in Ids
  BY SMTT(30) DEF IInv, ReportOK, TypeOK, BooksOK, GoodPackets, Packet, Ids
<1>7. \A c \in Ids : accepted'[c] \in Packet
  BY <1>1 DEF Deliver
<1>8. stored.id > 0 => accepted'[stored.id].seq >= stored.seq
  <2>1. stored.id > 0 => stored.id \in Ids
    BY <1>1 DEF Counter, Ids
  <2> QED BY <1>1, <1>3, <1>7, <2>1 DEF AckOK, Packet, Counter
<1>9. report'.active => report.active /\ report'.packet = report.packet
  BY <1>1, <1>5
<1>10. report'.active /\ report'.reply = "ok" => accepted'[report'.packet.id].seq >= report'.packet.seq
  <2>1. CASE report' = report
    <3>1. report.packet.seq \in Nat
      BY <1>1 DEF Packet
    <3> QED BY <1>1, <1>3, <1>6, <1>7, <2>1, <3>1 DEF AckOK, Packet
  <2>2. CASE report.packet = p /\ report' = [report EXCEPT !.reply = ServerReply(p)]
    <3>1. report'.packet = p /\ report'.reply = ServerReply(p)
      BY <1>1, <2>2
    <3> QED BY <1>4, <3>1
  <2> QED BY <1>5, <2>1, <2>2
<1> QED BY <1>1, <1>2, <1>8, <1>9, <1>10 DEF AckOK

LEMMA PacketSteps ==
    IInv /\ IInv' /\ SeqOK /\ AckOK /\ [Next]_vars => SeqOK' /\ AckOK'
<1> SUFFICES ASSUME IInv, IInv', SeqOK, AckOK, [Next]_vars PROVE SeqOK' /\ AckOK'
  OBVIOUS
<1>1. CASE Proxy \/ CoreRestart \/ UNCHANGED vars
  BY <1>1, OtherStepsOK DEF Proxy, CoreRestart, vars, view, books, SameCounter, NoNewAnswer
<1>2. CASE NewSample \/ SampleWithoutTotals \/ ManagedReady \/ BecomeStable
  BY <1>2, PageKinds, OtherStepsOK
<1>3. CASE BecomeUnstable \/ WebViewLost \/ ManagedLeft \/ ReportFails \/ TrafficLimit \/ CounterReset
  BY <1>3, EndKinds, OtherStepsOK
<1>4. ASSUME NEW p \in packets, RelayStores(p) \/ Refuse(p) PROVE SeqOK' /\ AckOK'
  <2>1. PICK reply \in Replies \ {"ok"} : Answer(p, reply) /\ UNCHANGED <<books, packets, accepted>>
    BY <1>4 DEF RelayStores, RelayReply, Refuse, Replies
  <2>2. NoNewAnswer
    BY <2>1 DEF NoNewAnswer, Answer, IInv, TypeOK
  <2> QED BY <2>1, <2>2, OtherStepsOK DEF SameCounter, books
<1> QED BY <1>1, <1>2, <1>3, <1>4, BeginReportKeeps, AcknowledgedKeeps, DeliverKeeps DEF Next

LEMMA PacketInit == Init => SeqOK /\ AckOK
<1> SUFFICES ASSUME Init PROVE SeqOK /\ AckOK
  OBVIOUS
<1>1. stored.id = 0 /\ stored.pending = NoPacket /\ pending = NoPacket /\ packets = {} /\ report.active = FALSE
  BY ZeroTypes, NoReportTypes DEF Init
<1> QED BY <1>1 DEF SeqOK, AckOK, FrozenPacketIsUnique

LEMMA PacketsFollow == IInv /\ SeqOK /\ AckOK => PacketsAreKept
<1> SUFFICES ASSUME IInv, SeqOK, AckOK PROVE PacketsAreKept
  OBVIOUS
<1>1. FrozenPacketIsUnique
  BY DEF SeqOK
<1>2. AcknowledgedIsAccepted
  <2> SUFFICES ASSUME stored # NoCounter PROVE accepted[stored.id].seq \in stored.seq .. stored.seq + 1
    BY DEF AcknowledgedIsAccepted
  <2>1. stored \in Counter /\ stored.id > 0 /\ stored.id \in Ids /\ stored.seq \in Nat
    BY DEF IInv, TypeOK, BooksOK, Counter, Ids
  <2>2. accepted[stored.id].seq \in Nat /\ accepted[stored.id].seq >= stored.seq
    BY <2>1 DEF IInv, TypeOK, AckOK, Packet
  <2>3. accepted[stored.id].seq <= stored.seq + 1
    <3>1. CASE accepted[stored.id] = NoPacket
      BY <2>1, <3>1 DEF NoPacket
    <3>2. CASE accepted[stored.id] \in packets /\ accepted[stored.id].id = stored.id
      BY <3>2 DEF SeqOK
    <3> QED BY <2>1, <3>1, <3>2 DEF IInv, AcceptedOK
  <2> QED BY <2>1, <2>2, <2>3
<1>3. StoredSurvives
  BY DEF StoredSurvives, Parses, SeqOK, IInv, BooksOK
<1> QED BY <1>1, <1>2, <1>3 DEF PacketsAreKept

\* A frozen packet keeps its identity, the counter acknowledges what the server has
\* accepted and nothing else, and localStorage holds the counter and the packet that
\* the page works with, for all values of the constants.
THEOREM PacketsKept == Spec => []PacketsAreKept
<1>1. Init => IInv /\ SeqOK /\ AckOK
  BY InitOK, PacketInit
<1>2. IInv /\ SeqOK /\ AckOK /\ [Next]_vars => (IInv /\ SeqOK /\ AckOK)'
  BY StepOK, PacketSteps
<1> QED BY PacketsFollow, <1>1, <1>2, PTL DEF Spec
------------------------------------------------------------------------------
(* The refinement of TrafficMeter.  The bytes billed are counted by pairs  *)
(* of a counter and a number; a pair's place among the proxied bytes is    *)
(* the number counted from where its counter started, and no two pairs     *)
(* have the same place, as the stretches of two counters do not overlap.   *)

Place(b) == accepted[b[1]].from + b[2]

LEMMA AcceptedTypes ==
    ASSUME IInv, NEW c \in Ids
    PROVE  /\ accepted[c] \in Packet /\ c \in Nat
           /\ accepted[c].total > 0 =>
                /\ accepted[c].seq > 0
                /\ accepted[c].from + accepted[c].total <= accepted[c].upto
                /\ accepted[c].upto <= generated
<1>1. accepted[c] \in Packet /\ c \in Nat
  BY DEF IInv, TypeOK, Ids
<1>2. CASE accepted[c] = NoPacket
  BY <1>1, <1>2 DEF NoPacket
<1>3. CASE accepted[c] \in packets
  BY <1>1, <1>3, NowGood DEF IInv, BooksOK, GoodPackets, EndBefore, Now
<1> QED BY <1>1, <1>2, <1>3 DEF IInv, AcceptedOK

LEMMA BilledPairs ==
    ASSUME IInv, NEW b \in BilledBytes
    PROVE  /\ b[1] \in Ids \ blind /\ b[2] \in 1 .. accepted[b[1]].total /\ b = <<b[1], b[2]>>
           /\ Place(b) \in 1 .. generated
           /\ accepted[b[1]].seq > 0 /\ Place(b) > accepted[b[1]].from /\ Place(b) <= accepted[b[1]].upto
<1>1. PICK c \in Ids \ blind : b \in {c} \X (1 .. accepted[c].total)
  BY DEF BilledBytes
<1>2. b[1] = c /\ b[2] \in 1 .. accepted[c].total /\ b = <<b[1], b[2]>>
  BY <1>1
<1>3. accepted[c] \in Packet /\ generated \in Nat
  BY AcceptedTypes DEF IInv, TypeOK
<1>4. /\ accepted[c].from \in Nat /\ accepted[c].total \in Nat /\ accepted[c].upto \in Nat
      /\ b[2] \in Nat /\ 1 <= b[2] /\ b[2] <= accepted[c].total
  BY <1>2, <1>3 DEF Packet
<1>5. /\ accepted[c].seq > 0 /\ accepted[c].from + accepted[c].total <= accepted[c].upto
      /\ accepted[c].upto <= generated
  BY <1>4, AcceptedTypes
<1>6. accepted[c].from + b[2] \in 1 .. generated /\ accepted[c].from + b[2] > accepted[c].from
      /\ accepted[c].from + b[2] <= accepted[c].upto
  BY <1>3, <1>4, <1>5
<1> QED BY <1>2, <1>5, <1>6 DEF Place

LEMMA PlacesDiffer ==
    ASSUME IInv, NEW a \in BilledBytes, NEW b \in BilledBytes, Place(a) = Place(b)
    PROVE  a = b
<1> DEFINE c == a[1]
           d == b[1]
<1>1. /\ c \in Ids \ blind /\ d \in Ids \ blind /\ c \in Nat /\ d \in Nat /\ a = <<c, a[2]>> /\ b = <<d, b[2]>>
      /\ accepted[c] \in Packet /\ accepted[d] \in Packet /\ a[2] \in Nat /\ b[2] \in Nat
      /\ Place(a) \in Nat /\ Place(b) \in Nat
  <2>1. c \in Ids \ blind /\ d \in Ids \ blind /\ a[2] \in Nat /\ b[2] \in Nat
    BY BilledPairs
  <2>2. Place(a) \in 1 .. generated /\ Place(b) \in 1 .. generated /\ generated \in Nat
    BY BilledPairs DEF IInv, TypeOK
  <2> QED BY <2>1, <2>2, BilledPairs, AcceptedTypes
<1>2. /\ accepted[c].seq > 0 /\ Place(a) > accepted[c].from /\ Place(a) <= accepted[c].upto
      /\ accepted[d].seq > 0 /\ Place(b) > accepted[d].from /\ Place(b) <= accepted[d].upto
  BY BilledPairs
<1>3. ASSUME NEW e \in Ids, NEW f \in Ids, e < f, f \notin blind, accepted[e].seq > 0, accepted[f].seq > 0
      PROVE  accepted[e].upto <= accepted[f].from
  BY <1>3, InvariantBillsOnce DEF NoByteBilledTwice, Apart
<1>4. CASE c < d
  <2>1. accepted[c].upto <= accepted[d].from
    BY <1>1, <1>2, <1>3, <1>4
  <2> HIDE DEF c, d
  <2> QED BY <1>1, <1>2, <2>1 DEF Packet
<1>5. CASE d < c
  <2>1. accepted[d].upto <= accepted[c].from
    BY <1>1, <1>2, <1>3, <1>5
  <2> HIDE DEF c, d
  <2> QED BY <1>1, <1>2, <2>1 DEF Packet
<1>6. CASE c = d
  <2>1. accepted[c].from + a[2] = accepted[c].from + b[2] /\ accepted[c].from \in Nat
    BY <1>1, <1>6 DEF Place, Packet
  <2>2. a[2] = b[2]
    BY <1>1, <2>1
  <2> QED BY <1>1, <1>6, <2>2
<1> QED BY <1>1, <1>4, <1>5, <1>6

\* No more is billed than was proxied.
Bounded == /\ IsFiniteSet(BilledBytes) /\ Cardinality(BilledBytes) \in Nat
           /\ Cardinality(BilledBytes) <= generated /\ generated \in Nat

LEMMA BilledBounded == IInv => Bounded
<1> SUFFICES ASSUME IInv PROVE Bounded
  OBVIOUS
<1> DEFINE f == [b \in BilledBytes |-> Place(b)]
<1>1. generated \in Nat
  BY DEF IInv, TypeOK
<1>2. IsFiniteSet(1 .. generated) /\ Cardinality(1 .. generated) = generated
  BY <1>1, FS_Interval
<1>3. f \in Injection(BilledBytes, 1 .. generated)
  <2>1. f \in [BilledBytes -> 1 .. generated]
    BY BilledPairs
  <2>2. \A a, b \in BilledBytes : f[a] = f[b] => a = b
    BY PlacesDiffer
  <2> QED BY <2>1, <2>2 DEF Injection, IsInjective
<1> HIDE DEF f
<1>4. IsFiniteSet(BilledBytes) /\ Cardinality(BilledBytes) <= Cardinality(1 .. generated)
  BY <1>2, <1>3, FS_Injection
<1> QED BY <1>1, <1>2, <1>4, FS_CardinalityType DEF Bounded

\* A delivery bills more bytes or none, and keeps those that were billed.
LEMMA DeliverBills ==
    ASSUME IInv, NEW p \in packets, Deliver(p)
    PROVE  BilledBytes \subseteq BilledBytes'
<1>1. p \in Packet /\ p.id \in Ids /\ accepted \in [Ids -> Packet] /\ blind' = blind
  BY SMTT(30) DEF IInv, TypeOK, BooksOK, GoodPackets, Packet, Ids, Deliver, books
<1>2. ASSUME NEW c \in Ids PROVE accepted[c].total <= accepted'[c].total
  <2>1. accepted' = accepted \/ (accepted' = [accepted EXCEPT ![p.id] = p] /\ ~(p.total < accepted[p.id].total))
    BY <1>1 DEF Deliver, ServerReply, Packet
  <2>2. accepted[c] \in Packet /\ p.total \in Nat /\ accepted[p.id].total \in Nat
    BY <1>1 DEF Packet
  <2> QED BY <1>1, <2>1, <2>2 DEF Packet
<1>3. ASSUME NEW b \in BilledBytes PROVE b \in BilledBytes'
  <2>1. b[1] \in Ids \ blind' /\ b[1] \in Ids /\ b[2] \in 1 .. accepted[b[1]].total /\ b = <<b[1], b[2]>>
    BY <1>1, BilledPairs
  <2>2. accepted[b[1]].total \in Nat /\ accepted'[b[1]].total \in Nat
    BY <1>1, <2>1 DEF Deliver, Packet
  <2>3. b[2] \in 1 .. accepted'[b[1]].total
    BY <1>2, <2>1, <2>2
  <2> QED BY <2>1, <2>3 DEF BilledBytes
<1> QED BY <1>3

\* a counter that has just been made has nothing accepted
LEMMA BlindBillsNothing ==
    ASSUME IInv, blind' \in {blind, blind \cup {lastId + 1}}, accepted' = accepted
    PROVE  BilledBytes' = BilledBytes
<1>1. \A p \in packets : p.id # lastId + 1
  BY DEF IInv, TypeOK, BooksOK, GoodCounter, Packet
<1>2. ASSUME NEW c \in Ids, c = lastId + 1 PROVE {c} \X (1 .. accepted[c].total) = {}
  <2>1. accepted[c] = NoPacket
    BY <1>1, <1>2 DEF IInv, AcceptedOK
  <2>2. 1 .. accepted[c].total = {}
    BY <2>1 DEF NoPacket
  <2> QED BY <2>2
<1>3. ASSUME NEW b PROVE b \in BilledBytes' <=> b \in BilledBytes
  BY <1>2 DEF BilledBytes
<1> QED BY <1>3

\* which step takes another counter for blind
LEMMA WhoBlinds ==
    ASSUME [Next]_vars
    PROVE  blind' \in {blind, blind \cup {lastId + 1}}
<1>1. CASE ManagedReady
  BY <1>1 DEF ManagedReady, StartScheduler
<1>2. CASE BecomeStable
  BY <1>2 DEF BecomeStable, StartScheduler, books
<1>3. CASE ~ManagedReady /\ ~BecomeStable
  BY <1>3 DEF Next, vars, books, Proxy, CoreRestart, WebViewLost, NewSample, SampleWithoutTotals,
              ManagedLeft, BecomeUnstable, BeginReport, ReportFails, CounterReset, TrafficLimit,
              Acknowledged, Deliver, RelayStores, Refuse
<1> QED BY <1>1, <1>2, <1>3

LEMMA StepRefines ==
    IInv /\ IInv' /\ [Next]_vars => [Meter!Next]_<<generated, Cardinality(BilledBytes)>>
<1> SUFFICES ASSUME IInv, IInv', [Next]_vars
             PROVE  Meter!Next \/ UNCHANGED <<generated, Cardinality(BilledBytes)>>
  BY Zenon DEF Meter!vars
<1>1. CASE Proxy
  <2>1. generated' = generated + 1 /\ BilledBytes' = BilledBytes
    BY <1>1 DEF Proxy, BilledBytes, books
  <2> QED BY <2>1 DEF Meter!Next, Meter!Proxy
<1>2. ASSUME NEW p \in packets, Deliver(p)
      PROVE  Meter!Next \/ UNCHANGED <<generated, Cardinality(BilledBytes)>>
  <2>1. generated' = generated
    BY <1>2 DEF Deliver, core
  <2>2. CASE BilledBytes' = BilledBytes
    BY <2>1, <2>2
  <2>3. CASE BilledBytes' # BilledBytes
    <3> DEFINE now == Cardinality(BilledBytes)
               next == Cardinality(BilledBytes')
    <3>1. /\ IsFiniteSet(BilledBytes') /\ next \in Nat /\ next <= generated' /\ generated' \in Nat
      <4>1. Bounded'
        BY BilledBounded, PTL
      <4> QED BY <4>1 DEF Bounded
    <3>2. now \in Nat
      BY BilledBounded DEF Bounded
    <3>3. now <= next /\ (next = now => BilledBytes' = BilledBytes)
      BY <1>2, <3>1, DeliverBills, FS_Subset
    <3> HIDE DEF now, next
    <3>4. next \in (now + 1) .. generated
      BY <2>1, <2>3, <3>1, <3>2, <3>3
    <3> QED BY <2>1, <3>4 DEF now, next, Meter!Next, Meter!Bill
  <2> QED BY <2>2, <2>3
<1>3. CASE ~Proxy /\ ~(\E p \in packets : Deliver(p))
  <2>1. UNCHANGED <<generated, accepted>>
    BY <1>3 DEF Next, vars, core, CoreRestart, WebViewLost, NewSample, SampleWithoutTotals,
                ManagedReady, ManagedLeft,
                BecomeStable, BecomeUnstable, BeginReport, ReportFails, CounterReset, TrafficLimit,
                Acknowledged, RelayStores, Refuse
  <2>2. BilledBytes' = BilledBytes
    BY <2>1, WhoBlinds, BlindBillsNothing
  <2> QED BY <2>1, <2>2
<1> QED BY <1>1, <1>2, <1>3

\* Seen from outside, counters, packets, crashes, retries and the server are a
\* meter: what is billed, but to a counter made before the page's first sample, only
\* grows, and never runs ahead of what was proxied; for all values of the constants.
THEOREM Refinement == Spec => ImplementsMeter
<1>1. Init => Meter!Init
  <2> SUFFICES ASSUME Init PROVE Cardinality(BilledBytes) = 0
    BY DEF Init, Meter!Init
  <2>1. BilledBytes = {}
    BY DEF Init, BilledBytes, NoPacket
  <2> QED BY <2>1, FS_EmptySet
<1> QED BY <1>1, InitOK, StepOK, StepRefines, PTL DEF Spec, ImplementsMeter, Meter!Spec, Meter!vars

------------------------------------------------------------------------------
(* What was observed survives while the core lives. *)

\* the totals of one core only grow, and no report finds them set back
Live ==
    /\ totals.total <= coreTotal /\ stored.observed.total <= coreTotal
    /\ sampled => stored.observed.total <= totals.total
    /\ report.active => ~report.coreReset /\ report.current.total <= totals.total
LiveOK == cores >= 1 /\ (cores = 1 => Live)

\* The effects of the page keep the stored counter, and make one when none is stored,
\* or, in the report effect, when none has been read.
LEMMA EffectsKeep ==
    ASSUME IInv, SeqOK, ManagedReady \/ BecomeStable \/ SampleWithoutTotals
    PROVE  \/ stored' = stored
           \/ (stored = NoCounter \/ StartsUnread) /\ stored'.observed = totals
<1>1. (counter # NoCounter => stored = counter) /\ managed \in BOOLEAN /\ (ready => sampled)
      /\ stable \in BOOLEAN /\ ready \in BOOLEAN
  BY DEF IInv, BooksOK, TypeOK, ClockOK
<1>2. stored # NoCounter => Parses(stored)
  BY DEF Parses, SeqOK
<1>3. /\ Restored = stored \/ (stored = NoCounter /\ Restored.observed = totals)
      /\ Restored # NoCounter
  <2>1. NewCounter(lastId + 1, totals) # NoCounter
    BY DEF NewCounter, NoCounter, IInv, TypeOK
  <2>2. NewCounter(lastId + 1, totals).observed = totals
    BY DEF NewCounter
  <2> QED BY <1>1, <1>2, <2>1, <2>2 DEF Restored, Parses
<1>4. ASSUME NEW c, Load(c), c = Restored \/ c = counter
      PROVE  stored' = stored \/ (stored = NoCounter /\ stored'.observed = totals)
  BY <1>1, <1>3, <1>4 DEF Load
<1>5. ASSUME StartScheduler(NoCounter) PROVE stored'.observed = totals
  <2>1. NewCounter(lastId + 1, totals) # NoCounter /\ NewCounter(lastId + 1, totals).observed = totals
    BY DEF NewCounter, NoCounter, IInv, TypeOK
  <2> QED BY <1>5, <2>1 DEF StartScheduler, Load
<1>6. CASE SampleWithoutTotals
  BY <1>4, <1>6 DEF SampleWithoutTotals
<1>7. CASE ManagedReady
  <2> DEFINE loaded == IF ready THEN Restored ELSE counter
  <2>1. \/ stable /\ StartScheduler(loaded)
        \/ Load(loaded)
    BY <1>7 DEF ManagedReady
  <2>2. CASE Load(loaded)
    BY <1>4, <2>2
  <2>3. CASE stable /\ StartScheduler(loaded) /\ loaded # NoCounter
    <3>1. Load(loaded)
      BY <2>3 DEF StartScheduler
    <3> QED BY <1>4, <3>1
  <2>4. CASE stable /\ StartScheduler(loaded) /\ loaded = NoCounter
    <3>1. ~ready /\ counter = NoCounter
      BY <1>3, <2>4
    <3>2. managed' /\ stable'
      BY <1>7, <2>4 DEF ManagedReady
    <3> QED BY <1>5, <2>4, <3>1, <3>2 DEF StartsUnread
  <2> QED BY <2>1, <2>2, <2>3, <2>4
<1>8. CASE BecomeStable
  <2>1. ~stable /\ stable' /\ managed' = managed
    BY <1>8 DEF BecomeStable
  <2>2. CASE ~managed
    BY <1>8, <2>2 DEF BecomeStable, books
  <2>3. CASE managed /\ counter # NoCounter
    <3>1. Load(counter)
      BY <1>8, <2>3 DEF BecomeStable, StartScheduler
    <3> QED BY <1>4, <3>1
  <2>4. CASE managed /\ counter = NoCounter
    <3>1. StartScheduler(NoCounter)
      BY <1>8, <2>4 DEF BecomeStable
    <3> QED BY <1>5, <2>1, <2>4, <3>1 DEF StartsUnread
  <2> QED BY <2>2, <2>3, <2>4
<1> QED BY <1>6, <1>7, <1>8

LEMMA SampleKeeps ==
    ASSUME IInv, SeqOK, NewSample
    PROVE  \/ stored' = stored
           \/ stored' = Observe(stored, Now)
           \/ stored = NoCounter /\ stored' = Observe(NewCounter(lastId + 1, totals), Now)
<1> DEFINE restores == managed /\ ready /\ totals.total # coreTotal
           loaded == IF restores THEN Restored ELSE counter
           observed == IF loaded = NoCounter THEN NoCounter ELSE Observe(loaded, Now)
<1>1. stored' = IF observed = NoCounter THEN stored ELSE observed
  BY DEF NewSample, Now, Load
<1>2. counter # NoCounter => stored = counter
  BY DEF IInv, BooksOK
<1>3. stored # NoCounter => Parses(stored)
  BY DEF Parses, SeqOK
<1>4. Restored = stored \/ (stored = NoCounter /\ Restored = NewCounter(lastId + 1, totals))
  BY <1>2, <1>3 DEF Restored
<1>5. CASE loaded = NoCounter
  BY <1>1, <1>5
<1>6. CASE loaded # NoCounter
  BY <1>1, <1>2, <1>4, <1>6
<1> QED BY <1>5, <1>6

LEMMA LiveSteps ==
    ASSUME IInv, SeqOK, LiveOK, [Next]_vars
    PROVE  LiveOK'
<1>1. /\ coreTotal \in Nat /\ cores \in Nat /\ totals \in Sample /\ stored \in Counter /\ Now \in Sample
      /\ report.current \in Sample /\ stored.observed \in Sample
  BY NowGood DEF IInv, TypeOK, Counter
<1>2. (counter # NoCounter => stored = counter) /\ (report.active => sampled) /\ (ready => sampled)
  BY DEF IInv, BooksOK, ReportOK, ClockOK
<1>3. CASE CoreRestart
  BY <1>1, <1>3 DEF CoreRestart, LiveOK
<1>4. CASE ~CoreRestart
  <2>1. cores' = cores
    BY <1>4 DEF Next, vars, core, Proxy, WebViewLost, NewSample, SampleWithoutTotals,
                ManagedReady, ManagedLeft,
                BecomeStable, BecomeUnstable, BeginReport, ReportFails, CounterReset, TrafficLimit,
                Acknowledged, Deliver, RelayStores, Refuse
  <2> SUFFICES ASSUME cores = 1 PROVE Live'
    BY <2>1 DEF LiveOK
  <2>2. /\ totals.total <= coreTotal /\ stored.observed.total <= coreTotal
        /\ sampled => stored.observed.total <= totals.total
        /\ report.active => ~report.coreReset /\ report.current.total <= totals.total
        /\ totals.total \in Nat /\ stored.observed.total \in Nat /\ report.current.total \in Nat
    BY <1>1 DEF LiveOK, Live, Sample
  <2>3. CASE Proxy
    BY <1>1, <2>2, <2>3 DEF Proxy, Live, view, books
  <2>4. CASE WebViewLost
    BY <1>1, <2>2, <2>4, NoReportTypes DEF WebViewLost, Live, core
  <2>5. CASE NewSample
    <3>1. /\ totals' = Now /\ UNCHANGED <<coreTotal, report>> /\ Now.total = coreTotal
      BY <2>5 DEF NewSample, core, Now
    <3>2. stored'.observed.total <= coreTotal
      <4>1. ASSUME NEW c \in Counter, c.observed.total <= coreTotal
            PROVE  Observe(c, Now).observed.total <= coreTotal
        BY <1>1, <3>1, <4>1 DEF Observe, Counter
      <4>2. CASE stored' = stored
        BY <2>2, <4>2
      <4>3. CASE stored' = Observe(stored, Now)
        BY <1>1, <2>2, <4>1, <4>3
      <4>4. CASE stored' = Observe(NewCounter(lastId + 1, totals), Now)
        <5>1. NewCounter(lastId + 1, totals).observed = totals
          BY DEF NewCounter
        <5>2. \/ Observe(NewCounter(lastId + 1, totals), Now) = NewCounter(lastId + 1, totals)
              \/ Observe(NewCounter(lastId + 1, totals), Now).observed = Now
          BY DEF Observe, NewCounter
        <5> QED BY <1>1, <2>2, <3>1, <4>4, <5>1, <5>2
      <4> QED BY <2>5, <4>2, <4>3, <4>4, SampleKeeps
    <3> QED BY <1>1, <2>2, <3>1, <3>2 DEF Live
  <2>6. CASE ManagedReady \/ BecomeStable \/ SampleWithoutTotals
    <3>1. UNCHANGED <<coreTotal, sampled, totals, report>>
      BY <2>6 DEF ManagedReady, BecomeStable, SampleWithoutTotals, core
    <3>2. stored' = stored \/ stored'.observed = totals
      BY <2>6, EffectsKeep
    <3> QED BY <1>1, <2>2, <3>1, <3>2 DEF Live
  <2>7. CASE BeginReport
    <3> DEFINE observed == Observe(counter, totals)
    <3>1. /\ UNCHANGED <<coreTotal, totals, sampled>> /\ sampled /\ counter = stored
      BY <1>2, <2>7 DEF BeginReport, core, view
    <3>2. ~Regressed(stored, totals) /\ observed.observed = totals /\ observed \in Counter
      BY <1>1, <2>2, <3>1 DEF Regressed, Observe, Counter
    <3>3. stored'.observed = totals
      BY <2>7, <3>2 DEF BeginReport, Counter
    <3>4. report' = report \/ (report'.current = totals /\ report'.coreReset = FALSE)
      BY <2>7, <3>1, <3>2 DEF BeginReport
    <3> QED BY <1>1, <2>2, <3>1, <3>3, <3>4 DEF Live
  <2>8. CASE ManagedLeft \/ BecomeUnstable \/ ReportFails \/ TrafficLimit
    <3>1. UNCHANGED <<coreTotal, sampled, totals, stored>> /\ report' = NoReport
      BY <2>8 DEF ManagedLeft, BecomeUnstable, ReportFails, TrafficLimit, core, view, books
    <3> QED BY <2>2, <3>1, NoReportTypes DEF Live
  <2>9. CASE CounterReset \/ Acknowledged
    <3>1. UNCHANGED <<coreTotal, sampled, totals>> /\ report' = NoReport /\ report.active
      BY <2>9 DEF CounterReset, Acknowledged, core, view
    <3>2. stored'.observed \in {stored.observed, report.current}
      <4>1. CASE CounterReset
        BY <4>1 DEF CounterReset, NewCounter
      <4>2. CASE Acknowledged
        <5>1. counter = stored
          BY <4>2 DEF Acknowledged, IInv, ReportOK, BooksOK
        <5>2. Acknowledge(stored, report.packet.seq).observed = stored.observed
          BY <1>1 DEF Acknowledge, Counter
        <5> QED BY <4>2, <5>1, <5>2 DEF Acknowledged, NewCounter
      <4> QED BY <2>9, <4>1, <4>2
    <3> QED BY <1>1, <1>2, <2>2, <3>1, <3>2, NoReportTypes DEF Live
  <2>10. ASSUME NEW p \in packets, Deliver(p) \/ RelayStores(p) \/ Refuse(p) PROVE Live'
    <3>1. UNCHANGED <<coreTotal, sampled, totals, stored>>
      BY <2>10 DEF Deliver, RelayStores, Refuse, core, view, books
    <3>2. /\ report'.active => report.active
          /\ report'.coreReset = report.coreReset /\ report'.current = report.current
      BY <2>10 DEF Deliver, RelayStores, Refuse, Answer, IInv, TypeOK
    <3> QED BY <2>2, <3>1, <3>2 DEF Live
  <2>11. CASE UNCHANGED vars
    BY <2>2, <2>11 DEF vars, core, view, books, Live
  <2> QED BY <1>4, <2>3, <2>4, <2>5, <2>6, <2>7, <2>8, <2>9, <2>10, <2>11 DEF Next
<1> QED BY <1>3, <1>4

\* Which step replaces the stored counter: the answer counter_reset, or the first
\* acknowledgement after a restart of the core.
LEMMA WhoReplaces ==
    ASSUME IInv, SeqOK, [Next]_vars, Replaced, ~StartsUnread
    PROVE  CounterReset \/ (Acknowledged /\ report.coreReset)
<1>1. stored \in Counter /\ stored # NoCounter /\ stored'.id # stored.id
  BY DEF IInv, TypeOK, Replaced
<1>2. ~NewSample
  BY <1>1, SampleKeeps, CounterKinds
<1>3. ~(ManagedReady \/ BecomeStable \/ SampleWithoutTotals)
  BY <1>1, EffectsKeep
<1>4. ~BeginReport
  <2> SUFFICES ASSUME BeginReport PROVE FALSE
    OBVIOUS
  <2>1. counter = stored
    BY DEF BeginReport, IInv, BooksOK
  <2>2. Observe(stored, totals).id = stored.id /\ Observe(stored, totals) \in Counter
    BY <1>1 DEF Observe, Counter, IInv, TypeOK
  <2>3. stored'.id = stored.id
    BY <2>1, <2>2 DEF BeginReport, Counter
  <2> QED BY <1>1, <2>3
<1>5. Acknowledged => report.coreReset
  <2> SUFFICES ASSUME Acknowledged, ~report.coreReset PROVE FALSE
    OBVIOUS
  <2>1. counter = stored /\ stored' = Acknowledge(counter, report.packet.seq)
    BY DEF Acknowledged, IInv, ReportOK, BooksOK
  <2> QED BY <1>1, <2>1 DEF Acknowledge, Counter
<1>6. CASE UNCHANGED stored
  BY <1>1, <1>6
<1> QED BY <1>2, <1>3, <1>4, <1>5, <1>6
        DEF Next, vars, books, Proxy, CoreRestart, WebViewLost, ManagedLeft, BecomeUnstable,
            ReportFails, TrafficLimit, Deliver, RelayStores, Refuse

\* While the core lives, nothing that was observed is dropped but on the server's own
\* counter_reset, and a frozen packet is dropped only when the server has it, but when
\* the report effect starts over a counter it has not read; for all values of the
\* constants.
THEOREM TotalsSurvive == Spec => TotalsSurviveWhileCoreLives
<1> DEFINE Kept == Replaced /\ ~StartsUnread =>
                      /\ stored.pending # NoPacket
                           => \/ report.reply = "counter_reset"
                              \/ accepted[stored.id].seq = stored.pending.seq
                      /\ cores = 1 => TotalsAccepted
           J == IInv /\ SeqOK /\ AckOK /\ LiveOK
<1>1. J /\ [Next]_vars => Kept
  <2> SUFFICES ASSUME IInv, SeqOK, AckOK, LiveOK, [Next]_vars, Replaced, ~StartsUnread PROVE Kept
    OBVIOUS
  <2>1. CASE CounterReset
    BY <2>1 DEF CounterReset, TotalsAccepted
  <2>2. CASE Acknowledged /\ report.coreReset
    <3>1. report.packet = stored.pending /\ accepted[report.packet.id].seq >= report.packet.seq
      BY <2>2 DEF Acknowledged, AckOK
    <3>2. ASSUME stored.pending # NoPacket PROVE accepted[stored.id].seq = stored.pending.seq
      <4>1. stored.pending.id = stored.id /\ stored.pending.seq = stored.seq + 1
        BY <3>2 DEF SeqOK
      <4>2. stored # NoCounter /\ AcknowledgedIsAccepted
        BY PacketsFollow DEF Replaced, PacketsAreKept
      <4>3. accepted[stored.id].seq \in stored.seq .. stored.seq + 1
        BY <4>2 DEF AcknowledgedIsAccepted
      <4>4. stored.seq \in Nat
        BY DEF IInv, TypeOK, Counter
      <4> QED BY <3>1, <4>1, <4>3, <4>4
    <3>3. cores # 1
      BY <2>2 DEF Acknowledged, LiveOK, Live
    <3> QED BY <3>2, <3>3
  <2> QED BY <2>1, <2>2, WhoReplaces
<1>2. Init => J
  <2>1. Init => LiveOK
    BY NoReportTypes DEF Init, LiveOK, Live, ZeroSample, NoCounter
  <2> QED BY <2>1, InitOK, PacketInit
<1>3. J /\ [Next]_vars => J'
  BY StepOK, PacketSteps, LiveSteps
<1>4. Spec => [][Kept]_vars
  BY <1>1, <1>2, <1>3, PTL DEF Spec
<1> QED BY <1>4 DEF TotalsSurviveWhileCoreLives
------------------------------------------------------------------------------
(* The scheduler. *)

USE SchedulerAssumption

\* what the failures so far still ask to wait
Waits ==
    /\ failures = 0 \/ inFlight => due = 0
    /\ ~stopped /\ ~inFlight => due <= timer

\* how far the next attempt is from the last one
Clocked == inFlight => since = Smaller(elapsed, Never)
Spaced ==
    ~stopped /\ ~inFlight =>
        /\ last = "sent" => since + timer >= Smaller(ActiveMinInterval, NormalMin)
        /\ last = "idle" => since + timer >= Smaller(ActiveMinInterval, IdleMin)
        /\ failures > 0 => last = "failed"

\* how long notified traffic waits; while a packet is frozen it is remembered, in
\* activityPending where the failure would let it be forgotten
Prompt ==
    /\ failures > 0 => frozen
    /\ inFlight /\ ~frozen => ~late
    /\ unreported # Off =>
        /\ ~stopped
        /\ frozen => unreported = 0
        /\ frozen /\ ~late /\ (inFlight \/ failures > 0) => activityPending
        /\ inFlight /\ ~frozen => activityPending /\ unreported <= elapsed
        /\ ~inFlight /\ ~frozen => unreported + timer <= IF late THEN Larger(Bound, NormalMax) ELSE Bound

SchedulerInv == SchedulerTypeOK /\ NeverStalls /\ Waits /\ Clocked /\ Spaced /\ Prompt

------------------------------------------------------------------------------

LEMMA LargerFacts ==
    ASSUME NEW a \in Int, NEW b \in Int
    PROVE  /\ Larger(a, b) \in Int /\ Larger(a, b) >= a /\ Larger(a, b) >= b
           /\ Larger(a, b) \in {a, b}
BY DEF Larger

LEMMA SmallerFacts ==
    ASSUME NEW a \in Int, NEW b \in Int
    PROVE  /\ Smaller(a, b) \in Int /\ Smaller(a, b) <= a /\ Smaller(a, b) <= b
           /\ Smaller(a, b) \in {a, b}
BY DEF Smaller

LEMMA NeverFacts == Never \in Nat /\ Never > ActiveMinInterval /\ Never > IdleMin
BY DEF Never, Larger

LEMMA BackoffFacts ==
    ASSUME NEW f \in 1 .. MaxDoublings + 1
    PROVE  Backoff(f) \in Nat
<1>1. 2 ^ (f - 1) \in Nat
  <2>1. f - 1 \in 0 .. MaxDoublings
    OBVIOUS
  <2> QED BY <2>1, PowerAssumption
<1>2. RetryBase * 2 ^ (f - 1) \in Nat
  <2> DEFINE p == 2 ^ (f - 1)
  <2> HIDE DEF p
  <2>1. p \in Nat => RetryBase * p \in Nat
    OBVIOUS
  <2> QED BY <1>1, <2>1 DEF p
<1>3. \A q \in Nat : Smaller(MaxBackoff, q) \in Nat
  BY DEF Smaller
<1> QED BY <1>2, <1>3 DEF Backoff

LEMMA EarliestFacts ==
    ASSUME since \in Nat
    PROVE  /\ Earliest \in Nat /\ since + Earliest >= ActiveMinInterval
           /\ Earliest <= Larger(ActivityDelay, ActiveMinInterval)
BY DEF Earliest, Larger

------------------------------------------------------------------------------

LEMMA OffFacts == Off \in Nat \cup {Off}
OBVIOUS

LEMMA InitIInv == SchedulerInit => SchedulerInv
<1> SUFFICES ASSUME SchedulerInit PROVE SchedulerInv
  OBVIOUS
<1>1. SchedulerTypeOK
  <2>1. timer \in Nat \cup {Off}
    BY OffFacts DEF SchedulerInit
  <2>2. unreported \in Nat \cup {Off}
    BY OffFacts DEF SchedulerInit
  <2>3. /\ stopped \in BOOLEAN /\ inFlight \in BOOLEAN /\ activityPending \in BOOLEAN
        /\ frozen \in BOOLEAN /\ late \in BOOLEAN
    BY DEF SchedulerInit
  <2>4. failures \in 0 .. MaxDoublings + 1 /\ elapsed \in 0 .. RequestTimeout /\ due \in Nat
    BY DEF SchedulerInit
  <2>5. since \in 0 .. Never
    BY NeverFacts DEF SchedulerInit
  <2>6. last \in {"none", "idle", "sent", "failed"}
    BY DEF SchedulerInit
  <2> QED BY <2>1, <2>2, <2>3, <2>4, <2>5, <2>6 DEF SchedulerTypeOK
<1>2. NeverStalls
  BY DEF SchedulerInit, NeverStalls
<1>3. Waits
  BY DEF SchedulerInit, Waits
<1>4. Clocked
  BY DEF SchedulerInit, Clocked
<1>5. Spaced
  BY DEF SchedulerInit, Spaced
<1>6. Prompt
  BY DEF SchedulerInit, Prompt
<1> QED BY <1>1, <1>2, <1>3, <1>4, <1>5, <1>6 DEF SchedulerInv

LEMMA StartIInv == SchedulerInv /\ Start => SchedulerInv'
BY NeverFacts DEF Start, waiting, SchedulerInv, SchedulerTypeOK, NeverStalls, Waits, Clocked, Spaced, Prompt

LEMMA StopIInv == SchedulerInv /\ Stop => SchedulerInv'
<1> SUFFICES ASSUME SchedulerInv, Stop PROVE SchedulerInv'
  OBVIOUS
<1>1. SchedulerTypeOK'
  <2>1. timer' \in Nat \cup {Off}
    BY OffFacts DEF Stop, SchedulerInv, SchedulerTypeOK, NeverStalls
  <2>2. unreported' \in Nat \cup {Off}
    BY OffFacts DEF Stop, SchedulerInv, SchedulerTypeOK, NeverStalls
  <2>3. /\ stopped' \in BOOLEAN /\ inFlight' \in BOOLEAN /\ activityPending' \in BOOLEAN
        /\ frozen' \in BOOLEAN /\ late' \in BOOLEAN
    BY DEF Stop, SchedulerInv, SchedulerTypeOK, NeverStalls
  <2>4. failures' \in 0 .. MaxDoublings + 1 /\ elapsed' \in 0 .. RequestTimeout /\ due' \in Nat
    BY DEF Stop, SchedulerInv, SchedulerTypeOK, NeverStalls
  <2>5. since' \in 0 .. Never
    BY NeverFacts DEF Stop, SchedulerInv, SchedulerTypeOK, NeverStalls
  <2>6. last' \in {"none", "idle", "sent", "failed"}
    BY DEF Stop, SchedulerInv, SchedulerTypeOK, NeverStalls
  <2> QED BY <2>1, <2>2, <2>3, <2>4, <2>5, <2>6 DEF SchedulerTypeOK
<1>2. NeverStalls'
  BY DEF Stop, SchedulerInv, NeverStalls
<1>3. Waits'
  BY DEF Stop, SchedulerInv, SchedulerTypeOK, NeverStalls, Waits
<1>4. Clocked'
  BY DEF Stop, SchedulerInv, Clocked
<1>5. Spaced'
  BY DEF Stop, SchedulerInv, Spaced
<1>6. Prompt'
  BY DEF Stop, SchedulerInv, SchedulerTypeOK, NeverStalls, Prompt
<1> QED BY <1>1, <1>2, <1>3, <1>4, <1>5, <1>6 DEF SchedulerInv

LEMMA FireIInv == SchedulerInv /\ Fire => SchedulerInv'
<1> SUFFICES ASSUME SchedulerInv, Fire PROVE SchedulerInv'
  OBVIOUS
<1>1. SchedulerTypeOK'
  <2>1. timer' \in Nat \cup {Off}
    BY OffFacts DEF Fire, SchedulerInv, SchedulerTypeOK, NeverStalls
  <2>2. unreported' \in Nat \cup {Off}
    BY OffFacts DEF Fire, SchedulerInv, SchedulerTypeOK, NeverStalls
  <2>3. /\ stopped' \in BOOLEAN /\ inFlight' \in BOOLEAN /\ activityPending' \in BOOLEAN
        /\ frozen' \in BOOLEAN /\ late' \in BOOLEAN
    BY DEF Fire, SchedulerInv, SchedulerTypeOK, NeverStalls
  <2>4. failures' \in 0 .. MaxDoublings + 1 /\ elapsed' \in 0 .. RequestTimeout /\ due' \in Nat
    BY DEF Fire, SchedulerInv, SchedulerTypeOK, NeverStalls
  <2>5. since' \in 0 .. Never
    BY NeverFacts DEF Fire, SchedulerInv, SchedulerTypeOK, NeverStalls
  <2>6. last' \in {"none", "idle", "sent", "failed"}
    BY DEF Fire, SchedulerInv, SchedulerTypeOK, NeverStalls
  <2> QED BY <2>1, <2>2, <2>3, <2>4, <2>5, <2>6 DEF SchedulerTypeOK
<1>2. NeverStalls'
  BY DEF Fire, SchedulerInv, NeverStalls
<1>3. Waits'
  BY DEF Fire, SchedulerInv, SchedulerTypeOK, NeverStalls, Waits
<1>4. Clocked'
  <2>1. ~inFlight
    BY DEF Fire, SchedulerInv, NeverStalls
  <2>2. since' = 0 /\ elapsed' = 0
    BY <2>1 DEF Fire
  <2>3. Smaller(0, Never) = 0
    BY NeverFacts DEF Smaller
  <2> QED BY <2>2, <2>3 DEF Clocked, Fire
<1>5. Spaced'
  BY DEF Fire, SchedulerInv, Spaced
<1>6. Prompt'
  BY DEF Fire, SchedulerInv, SchedulerTypeOK, NeverStalls, Prompt
<1> QED BY <1>1, <1>2, <1>3, <1>4, <1>5, <1>6 DEF SchedulerInv

LEMMA SucceedIInv ==
    ASSUME NEW o, NEW n \in Nat, SchedulerInv, Succeed(o, n),
           \/ o = "sent" /\ n >= NormalMin /\ n <= NormalMax
           \/ o = "idle" /\ n >= IdleMin
    PROVE  SchedulerInv'
BY NeverFacts DEF Succeed, EndAttempt, SchedulerInv, SchedulerTypeOK, NeverStalls, Waits, Clocked,
    Spaced, Prompt, Smaller, Larger, Bound

LEMMA RetryIInv ==
    ASSUME NEW after \in Nat, SchedulerInv, Retry(after)
    PROVE  SchedulerInv'
<1> DEFINE f == Smaller(failures + 1, MaxDoublings + 1)
<1>1. f \in 1 .. MaxDoublings + 1
  BY DEF Smaller, SchedulerInv, SchedulerTypeOK
<1>2. PICK b \in Nat : b = Backoff(f)
  BY <1>1, BackoffFacts
<1>3. failures' = f
  BY DEF Retry
<1>4. PICK jittered \in (3 * b) \div 4 .. (5 * b) \div 4 : timer' = Larger(after, jittered)
  BY <1>2, <1>3 DEF Retry
<1>5. due' = Larger(after, (3 * b) \div 4)
  BY <1>2, <1>3 DEF Retry
<1>6. due' \in Nat /\ timer' \in Nat /\ due' <= timer'
  BY <1>4, <1>5 DEF Larger
<1> HIDE DEF f
<1> QED
  BY <1>1, <1>3, <1>6
    DEF Retry, EndAttempt, SchedulerInv, SchedulerTypeOK, NeverStalls, Waits, Clocked, Spaced, Prompt

LEMMA NotifyIInv == SchedulerInv /\ NotifyActivity => SchedulerInv'
<1> SUFFICES ASSUME SchedulerInv, NotifyActivity PROVE SchedulerInv'
  OBVIOUS
<1>0. /\ Earliest \in Nat /\ since + Earliest >= ActiveMinInterval
      /\ Earliest <= Larger(ActivityDelay, ActiveMinInterval)
  BY EarliestFacts, NeverFacts DEF SchedulerInv, SchedulerTypeOK
<1>1. SchedulerTypeOK'
  BY <1>0, OffFacts, NeverFacts
  DEF NotifyActivity, SchedulerInv, SchedulerTypeOK, NeverStalls, Waits, Clocked, Spaced, Prompt,
      MustWait, Unbegun, Smaller, Larger, Bound
<1>2. NeverStalls'
  BY <1>0, NeverFacts
  DEF NotifyActivity, SchedulerInv, SchedulerTypeOK, NeverStalls, Waits, Clocked, Spaced, Prompt,
      MustWait, Unbegun, Smaller, Larger, Bound
<1>3. Waits'
  BY <1>0, NeverFacts
  DEF NotifyActivity, SchedulerInv, SchedulerTypeOK, NeverStalls, Waits, Clocked, Spaced, Prompt,
      MustWait, Unbegun, Smaller, Larger, Bound
<1>4. Clocked'
  BY <1>0, NeverFacts
  DEF NotifyActivity, SchedulerInv, SchedulerTypeOK, NeverStalls, Waits, Clocked, Spaced, Prompt,
      MustWait, Unbegun, Smaller, Larger, Bound
<1>5. Spaced'
  BY <1>0, NeverFacts
  DEF NotifyActivity, SchedulerInv, SchedulerTypeOK, NeverStalls, Waits, Clocked, Spaced, Prompt,
      MustWait, Unbegun, Smaller, Larger, Bound
<1>6. Prompt'
  BY <1>0, NeverFacts
  DEF NotifyActivity, SchedulerInv, SchedulerTypeOK, NeverStalls, Waits, Clocked, Spaced, Prompt,
      MustWait, Unbegun, Smaller, Larger, Bound
<1> QED BY <1>1, <1>2, <1>3, <1>4, <1>5, <1>6 DEF SchedulerInv

LEMMA TickIInv == SchedulerInv /\ Tick => SchedulerInv'
BY NeverFacts DEF Tick, SchedulerInv, SchedulerTypeOK, NeverStalls, Waits, Clocked, Spaced, Prompt, Smaller

LEMMA StepIInv == SchedulerInv /\ [SchedulerNext]_schedulerVars => SchedulerInv'
<1> SUFFICES ASSUME SchedulerInv, [SchedulerNext]_schedulerVars PROVE SchedulerInv'
  OBVIOUS
<1>1. CASE Start BY <1>1, StartIInv
<1>2. CASE Stop BY <1>2, StopIInv
<1>3. CASE Fire BY <1>3, FireIInv
<1>4. CASE AttemptEnds
  <2>1. CASE \E n \in IdleMin .. IdleMax : Succeed("idle", n)
    BY <2>1, SucceedIInv
  <2>2. CASE \E n \in NormalMin .. NormalMax : Succeed("sent", n)
    BY <2>2, SucceedIInv
  <2>3. CASE \E r \in RetryAfters : Retry(r)
    BY <2>3, RetryIInv
  <2> QED BY <1>4, <2>1, <2>2, <2>3 DEF AttemptEnds
<1>5. CASE TimeOut BY <1>5, RetryIInv DEF TimeOut
<1>6. CASE NotifyActivity BY <1>6, NotifyIInv
<1>7. CASE Tick BY <1>7, TickIInv
<1>8. CASE UNCHANGED schedulerVars
  BY <1>8 DEF schedulerVars, waiting, SchedulerInv, SchedulerTypeOK, NeverStalls, Waits, Clocked, Spaced, Prompt
<1> QED BY <1>1, <1>2, <1>3, <1>4, <1>5, <1>6, <1>7, <1>8 DEF SchedulerNext

LEMMA Inductive == SchedulerSpec => []SchedulerInv
BY InitIInv, StepIInv, PTL DEF SchedulerSpec

------------------------------------------------------------------------------

\* Type correctness, for all intervals.
THEOREM SchedulerTypes == SchedulerSpec => []SchedulerTypeOK
<1>1. SchedulerInv => SchedulerTypeOK
  BY DEF SchedulerInv
<1> QED BY <1>1, Inductive, PTL

\* schedule() and run(): a running scheduler has exactly one attempt ahead, whatever
\* the order of timers, deadlines, outcomes, activities, start and stop.
THEOREM NoStall == SchedulerSpec => []NeverStalls
<1>1. SchedulerInv => NeverStalls
  BY DEF SchedulerInv
<1> QED BY <1>1, Inductive, PTL

\* notifyActivity(): no activity cuts a backoff or a Retry-After short, nor brings
\* attempts closer than the minimum intervals.
THEOREM DistanceIsKept == SchedulerSpec => AttemptsKeepDistance
<1> DEFINE Far == /\ due = 0
                  /\ last = "sent" => since >= Smaller(ActiveMinInterval, NormalMin)
                  /\ last = "idle" => since >= Smaller(ActiveMinInterval, IdleMin)
<1>1. SchedulerInv /\ [SchedulerNext]_schedulerVars => [Begins => Far]_schedulerVars
  <2> SUFFICES ASSUME SchedulerInv, SchedulerNext, Begins PROVE Far
    BY DEF schedulerVars, waiting, Begins
  <2>1. Fire
    BY DEF SchedulerNext, Begins, Start, Stop, AttemptEnds, Succeed, Retry, TimeOut,
      EndAttempt, NotifyActivity, Tick
  <2>2. due = 0
    BY <2>1 DEF Fire, Begins, SchedulerInv, SchedulerTypeOK, Waits, NeverStalls
  <2> QED BY <2>1, <2>2, NeverFacts DEF Fire, Begins, SchedulerInv, SchedulerTypeOK, Spaced, NeverStalls, Smaller
<1> QED BY <1>1, Inductive, PTL DEF SchedulerSpec, AttemptsKeepDistance

\* While the server answers, notified traffic is in an attempt within the bound.
THEOREM TrafficIsPrompt == SchedulerSpec => []ReportedSoon
<1>1. SchedulerInv => ReportedSoon
  BY DEF SchedulerInv, ReportedSoon, Prompt, SchedulerTypeOK, NeverStalls, Bound, Larger
<1> QED BY <1>1, Inductive, PTL
================================================================================
