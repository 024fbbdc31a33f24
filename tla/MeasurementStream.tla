-------------------------- MODULE MeasurementStream --------------------------
(***************************************************************************)
(* The MeasurementStream of measurement/stream.py: the coordinator of one  *)
(* actual contract.  One on_trade call closes the bars that are due, feeds *)
(* them to the indicators, publishes an Auction snapshot per fast bar,     *)
(* finalizes the Profile at a session change, and ingests the trade; it is *)
(* one step here, written as the composition of the stages of the code.    *)
(*                                                                         *)
(* A stage that raises leaves its reason in .raised and the stages after   *)
(* it do nothing: the exception leaves on_trade, and the host stops.       *)
(*                                                                         *)
(* Prices are left out: what a bar, a histogram or a snapshot holds is the *)
(* set of trades it was computed from.  Of the indicators the stream keeps *)
(* what can stop it or make a snapshot ready: the strictly increasing bar  *)
(* clocks of ATR/IAE and IMSI/ICM, and the warm-up count of the ATR.       *)
(***************************************************************************)
EXTENDS VolumeProfile

CONSTANTS
    FastBar,    \* MEASUREMENT_CLOCK_POLICY.fast_bar_minutes, 5 in the code
    MediumBar,  \* MEASUREMENT_CLOCK_POLICY.medium_state_bar_minutes, 30 in the code
    AtrWindow,  \* true ranges a warm ATR needs, 24 in the code
    Sessions    \* the calendar: [id, type, start, end] records

ASSUME ClockAssumption ==
    /\ FastBar \in Nat \ {0}
    /\ AtrWindow \in Nat
    /\ MediumBar \in Nat \ {0}
    /\ FastBar < MediumBar /\ MediumBar % FastBar = 0

(* session_bounds and session_id: a calendar of disjoint sessions *)
ASSUME CalendarAssumption ==
    /\ \A s \in Sessions : s.id \in Nat \ {0} /\ s.start \in Nat /\ s.end \in Nat /\ s.start < s.end
    /\ \A s, r \in Sessions : s # r => s.id # r.id /\ (s.end <= r.start \/ r.end <= s.start)

Types == {s.type : s \in Sessions}

(* Python's None, one per type of value *)
NoSession == [id |-> 0, type |-> "none", start |-> 0, end |-> 0]
NoBar     == [session |-> NoSession, end |-> None, trades |-> {}]
NoFinal   == [session |-> NoSession, trades |-> {}, flags |-> {}]

Quiet == "none"   \* no exception so far

EmptyStream ==
    [profile   |-> EmptyProfile,               \* _profile, when session # NoSession
     session   |-> NoSession,                  \* _session_id, _session_end_utc
     five      |-> NoBar,                      \* _five._builder
     thirty    |-> NoBar,                      \* _thirty._builder
     bars      |-> {},                         \* completed_bars
     fiveEnd   |-> None,                       \* ATR5m24 and IAEEngine._last_bar_end
     fiveCount |-> 0,                          \* bars ATR5m24 has seen
     thirtyEnd |-> None,                       \* IMSIStateCore and ICMEngine._last_bar_end
     auctions  |-> <<>>,                       \* auction_snapshots, profile_snapshots
     finals    |-> [type \in Types |-> NoFinal], \* _final_profiles_by_session_type
     finalTakes |-> <<>>,                      \* sessions of the FINAL profile_snapshots
     lastTrade |-> None,                       \* _last_trade_time
     normal    |-> FALSE,                      \* _last_roll_state is RollState.NORMAL
     raised    |-> Quiet]

Raise(s, reason) == [s EXCEPT !.raised = reason]
Stopped(s)       == s.raised # Quiet

(* SessionEngine.session_bounds at a clock inside a session *)
SessionAt(time) == CHOOSE s \in Sessions : s.start <= time /\ time < s.end

-----------------------------------------------------------------------------
(* _TradeBarAggregator *)

DueStrictly(builder, clock) == builder.end # None /\ builder.end < clock
Due(builder, clock) == builder.end # None /\ builder.end <= clock

(* The end of the bar of a period a trade of a session falls in. *)
BucketEnd(session, time, period) ==
    session.start + period * ((time - session.start) \div period + 1)

InTail(session, time, period) == BucketEnd(session, time, period) > session.end

(* The raises of ingest: the builder holds another bucket. *)
BarStillOpen(builder, session, time, period) ==
    /\ ~ InTail(session, time, period)
    /\ builder # NoBar
    /\ builder.session # session \/ builder.end # BucketEnd(session, time, period)

TakeIntoNewBar(builder, session, t, period) ==
    IF InTail(session, t.time, period) THEN builder
    ELSE [session |-> session, end |-> BucketEnd(session, t.time, period), trades |-> {t}]
TakeIntoBar(builder, session, t, period) ==
    IF InTail(session, t.time, period) THEN builder
    ELSE [session |-> session,
          end     |-> BucketEnd(session, t.time, period),
          trades  |-> builder.trades \cup {t}]

-----------------------------------------------------------------------------
(* The stages of on_trade and finalize *)

(* Profile.finalize_minutes_through, when there is a Profile. *)
FinalizeProfileMinutes(s, asOf) ==
    IF Stopped(s) \/ s.session = NoSession THEN s
    ELSE IF MinuteClockBackward(s.profile, asOf) THEN Raise(s, "minute clock")
    ELSE IF MemoryOverflows(s.profile, asOf) THEN Raise(s, "minute memory")
    ELSE [s EXCEPT !.profile = FinalizeMinutes(@, asOf)]

(* _publish_auction.  A rolling window with no trade is the warm-up branch *)
(* of the code, and is {} here.                                            *)
PublicationOwnFlags(s, bar) ==
    LET reference == s.finals[bar.session.type]
    IN  [asOf       |-> bar.end,
         session    |-> bar.session,
         developing |-> s.profile.admitted,
         rolling    |-> [w \in Windows |-> Rolling(s.profile, w, bar.end)],
         reference  |-> reference,
         ready      |-> reference # NoFinal /\ s.fiveCount > AtrWindow /\ s.profile.flags = {} /\ s.normal]
Publication(s, bar) ==
    LET reference == s.finals[bar.session.type]
    IN  [asOf       |-> bar.end,
         session    |-> bar.session,
         developing |-> s.profile.admitted,
         rolling    |-> [w \in Windows |-> Rolling(s.profile, w, bar.end)],
         reference  |-> reference,
         ready      |-> /\ reference # NoFinal
                        /\ s.fiveCount > AtrWindow
                        /\ s.profile.flags \cup reference.flags = {}
                        /\ s.normal]

PublishAuction(s, bar) ==
    IF Stopped(s) THEN s
    ELSE IF SnapshotBackdated(s.profile, bar.end) THEN Raise(s, "backdated snapshot")
    ELSE IF SnapshotEmpty(s.profile) THEN Raise(s, "empty profile")
    ELSE [s EXCEPT !.auctions = Append(@, Publication(s, bar))]

(* atr.on_bar and iae.on_bar; imsi.on_bar and icm.on_bar *)
FeedFive(s, bar) ==
    IF bar.end <= s.fiveEnd THEN Raise(s, "bar order")
    ELSE [s EXCEPT !.fiveEnd = bar.end, !.fiveCount = @ + 1]

FeedThirty(s, bar) ==
    IF Stopped(s) THEN s
    ELSE IF bar.end <= s.thirtyEnd THEN Raise(s, "bar order")
    ELSE [s EXCEPT !.thirtyEnd = bar.end]

(* One boundary of _process_due_bars, with the bars that end there. *)
PublishBeforeMinutes(s, five, thirty, boundary) ==
    IF Stopped(s) THEN s
    ELSE LET s1 == IF five.end = boundary THEN FeedFive(s, five) ELSE s
             s2 == IF thirty.end = boundary THEN FeedThirty(s1, thirty) ELSE s1
             s3 == IF five.end = boundary THEN PublishAuction(s2, five) ELSE s2
         IN  FinalizeProfileMinutes(s3, boundary)
ProcessBoundary(s, five, thirty, boundary) ==
    IF Stopped(s) THEN s
    ELSE LET s1 == IF five.end = boundary THEN FeedFive(s, five) ELSE s
             s2 == IF thirty.end = boundary THEN FeedThirty(s1, thirty) ELSE s1
             s3 == FinalizeProfileMinutes(s2, boundary)
         IN  IF five.end = boundary THEN PublishAuction(s3, five) ELSE s3

Completed(bar, period) ==
    [period |-> period, session |-> bar.session, end |-> bar.end, trades |-> bar.trades]

(* close_due on both aggregators, then _process_due_bars. *)
CloseDueBarsLatestOnly(s, clock) ==
    LET five   == IF Due(s.five, clock) THEN s.five ELSE NoBar
        thirty == IF Due(s.thirty, clock) THEN s.thirty ELSE NoBar
        ends   == {five.end, thirty.end} \ {None}
        done   == (IF five = NoBar THEN {} ELSE {Completed(five, FastBar)})
                    \cup (IF thirty = NoBar THEN {} ELSE {Completed(thirty, MediumBar)})
        closed == [s EXCEPT !.five   = IF five = NoBar THEN @ ELSE NoBar,
                            !.thirty = IF thirty = NoBar THEN @ ELSE NoBar,
                            !.bars   = @ \cup done]
    IN  IF ends = {} THEN s ELSE ProcessBoundary(closed, five, thirty, Max(ends))
CloseDueBars(s, clock) ==
    LET five   == IF Due(s.five, clock) THEN s.five ELSE NoBar
        thirty == IF Due(s.thirty, clock) THEN s.thirty ELSE NoBar
        ends   == {five.end, thirty.end} \ {None}
        done   == (IF five = NoBar THEN {} ELSE {Completed(five, FastBar)})
                    \cup (IF thirty = NoBar THEN {} ELSE {Completed(thirty, MediumBar)})
        closed == [s EXCEPT !.five   = IF five = NoBar THEN @ ELSE NoBar,
                            !.thirty = IF thirty = NoBar THEN @ ELSE NoBar,
                            !.bars   = @ \cup done]
    IN  IF ends = {} THEN s
        ELSE LET first == ProcessBoundary(closed, five, thirty, Min(ends))
             IN  IF Cardinality(ends) = 1 THEN first
                 ELSE ProcessBoundary(first, five, thirty, Max(ends))

(* _finalize_current_profile.  A Profile already frozen returns the final  *)
(* snapshot it has.                                                        *)
FinalizeCurrentProfile(s, asOf) ==
    IF Stopped(s) \/ s.session = NoSession \/ s.lastTrade = None THEN s
    ELSE LET finalAsOf == IF s.lastTrade > asOf THEN s.lastTrade ELSE asOf
             ready     == FinalizeProfileMinutes(s, finalAsOf)
             p         == ready.profile
         IN  IF Stopped(ready) THEN ready
             ELSE IF SnapshotBackdated(p, finalAsOf) THEN Raise(ready, "backdated snapshot")
             ELSE IF SnapshotEmpty(p) THEN Raise(ready, "empty profile")
             ELSE [ready EXCEPT
                     !.profile    = TakeFinal(@),
                     !.finals     = IF p.frozen THEN @
                                    ELSE [@ EXCEPT ![s.session.type] =
                                            [session |-> s.session, trades |-> p.admitted,
                                             flags |-> p.flags]],
                     !.finalTakes = Append(@, s.session)]

(* The end of one session and the first trade delivered of the next. *)
OpenSessionFirst(s, session) ==
    IF Stopped(s) \/ s.session = session THEN s
    ELSE LET left == IF s.session = NoSession THEN s
                     ELSE FinalizeCurrentProfile([s EXCEPT !.session = session], s.session.end)
         IN  IF Stopped(left) THEN left
             ELSE [left EXCEPT !.profile = EmptyProfile, !.session = session]
OpenSessionUnfinalized(s, session) ==
    IF Stopped(s) \/ s.session = session THEN s
    ELSE [s EXCEPT !.profile = EmptyProfile, !.session = session]
OpenSession(s, session) ==
    IF Stopped(s) \/ s.session = session THEN s
    ELSE LET left == FinalizeCurrentProfile(s, s.session.end)
         IN  IF Stopped(left) THEN left
             ELSE [left EXCEPT !.profile = EmptyProfile, !.session = session]

(* profile.ingest_trade, then the bars and the clocks of an admitted trade *)
IngestIntoStream(s, t, session, normal) ==
    LET p == s.profile
    IN  IF Stopped(s) THEN s
        ELSE IF ~ Admissible(p, t) THEN [s EXCEPT !.profile = IngestTrade(p, t)]
        ELSE IF MinuteStillOpen(p, t) THEN Raise(s, "open minute")
        ELSE IF \/ BarStillOpen(s.five, session, t.time, FastBar)
                \/ BarStillOpen(s.thirty, session, t.time, MediumBar)
             THEN Raise(s, "open bar")
        ELSE [s EXCEPT !.profile   = IngestTrade(p, t),
                       !.five      = TakeIntoBar(@, session, t, FastBar),
                       !.thirty    = TakeIntoBar(@, session, t, MediumBar),
                       !.lastTrade = t.time,
                       !.normal    = normal]

-----------------------------------------------------------------------------
(* The public methods *)

OnTrade(s, t, normal) ==
    LET session == SessionAt(t.time)
    IN  IF t.time < s.lastTrade THEN Raise(s, "chronology")
        ELSE IngestIntoStream(
               OpenSession(
                 FinalizeProfileMinutes(CloseDueBars(s, t.time), t.time), session),
               t, session, normal)

Finalize(s, asOf) == FinalizeCurrentProfile(CloseDueBars(s, asOf), asOf)
=============================================================================
