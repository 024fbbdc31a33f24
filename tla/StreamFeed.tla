------------------------------ MODULE StreamFeed ------------------------------
(***************************************************************************)
(* A MeasurementStream and the host that drives it, as Lift2Runtime does:  *)
(* on_trade for every trade tick of a slice, and one finalize when the     *)
(* contract is left or the algorithm ends, after which the stream is only  *)
(* read.  The feed is ordered when no trade is older than one delivered    *)
(* before it; nothing in the code makes a feed ordered, so a run says      *)
(* which feed it assumes.                                                  *)
(***************************************************************************)
EXTENDS MeasurementStream

CONSTANTS
    Kinds,      \* kinds of trade: [quality, identified, normal] records
    SourceIds,  \* sequence of the source identities of identified trades
    MaxTrades,  \* bound: trades delivered
    Ordered     \* whether the feed is ordered

ASSUME FeedAssumption ==
    /\ \A k \in Kinds : k.quality \in Qualities /\ k.identified \in BOOLEAN /\ k.normal \in BOOLEAN
    /\ MaxTrades \in Nat
    /\ SourceIds \in Seq(Sources) /\ Len(SourceIds) >= MaxTrades
    /\ Ordered \in BOOLEAN

VARIABLES
    stream,     \* the MeasurementStream
    finished,   \* the host has finalized the stream
    delivered,  \* history: every trade given to on_trade
    admitted,   \* history: every trade on_trade admitted
    clock       \* history: the latest exchange time or finalization clock given

vars == <<stream, finished, delivered, admitted, clock>>

Times == UNION {s.start .. (s.end - 1) : s \in Sessions}

Init ==
    /\ stream = EmptyStream
    /\ finished = FALSE
    /\ delivered = {} /\ admitted = {}
    /\ clock = None

Deliver(time, kind) ==
    LET n == Cardinality(delivered)
        t == [n |-> n, time |-> time, quality |-> kind.quality,
              source |-> IF kind.identified THEN SourceIds[n + 1] ELSE NoSource]
    IN  /\ n < MaxTrades
        /\ ~ finished
        /\ ~ Stopped(stream)
        /\ Ordered => clock <= time
        /\ stream' = OnTrade(stream, t, kind.normal)
        /\ delivered' = delivered \cup {t}
        /\ admitted' = admitted \cup stream'.profile.admitted
        /\ clock' = IF clock < time THEN time ELSE clock
        /\ UNCHANGED finished

Finish(asOf) ==
    /\ ~ finished
    /\ ~ Stopped(stream)
    /\ clock <= asOf
    /\ stream' = Finalize(stream, asOf)
    /\ finished' = TRUE
    /\ clock' = asOf
    /\ UNCHANGED <<delivered, admitted>>

Next ==
    \/ \E time \in Times, kind \in Kinds : Deliver(time, kind)
    \/ \E asOf \in Times \cup {s.end : s \in Sessions} : Finish(asOf)

Spec == Init /\ [][Next]_vars

-----------------------------------------------------------------------------
(* Properties *)

SessionTrades(trades, session) ==
    {t \in trades : session.start <= t.time /\ t.time < session.end}

BucketTrades(session, end, period) ==
    {t \in SessionTrades(admitted, session) :
        BucketEnd(session, t.time, period) = end}

(* A completed bar holds every trade ever admitted into its bucket: no     *)
(* trade is admitted into a bar already completed.  A trade that is in no  *)
(* completed bar is in the builder of its period, or in the session's tail *)
(* that is shorter than a bar.                                             *)
BarsPartitionTrades ==
    /\ \A bar \in stream.bars :
         bar.trades = BucketTrades(bar.session, bar.end, bar.period)
    /\ \A period \in {FastBar, MediumBar}, t \in admitted :
         LET session == SessionAt(t.time)
             builder == IF period = FastBar THEN stream.five ELSE stream.thirty
         IN  \/ InTail(session, t.time, period)
             \/ t \in builder.trades
             \/ \E bar \in stream.bars : bar.period = period /\ t \in bar.trades

(* Every Auction snapshot is point-in-time: its developing Profile is all  *)
(* the trades of its session before its clock and none after, its rolling  *)
(* Profiles are those of their windows, and trades admitted later never    *)
(* make it stale.                                                          *)
PublicationsArePointInTime ==
    \A i \in 1..Len(stream.auctions) :
        LET a      == stream.auctions[i]
            before == {t \in SessionTrades(admitted, a.session) : t.time < a.asOf}
        IN  /\ a.developing = before
            /\ \A w \in Windows :
                 a.rolling[w] = {t \in before : a.asOf - w < MinuteEnd(t.time)}

(* Each completed fast bar has exactly one Auction snapshot, and snapshots *)
(* are published in the order of their clocks.                             *)
OnePublicationPerBar ==
    ~ Stopped(stream) =>
        /\ \A i, j \in 1..Len(stream.auctions) :
             i < j => stream.auctions[i].asOf < stream.auctions[j].asOf
        /\ {[session |-> stream.auctions[i].session, end |-> stream.auctions[i].asOf] :
              i \in 1..Len(stream.auctions)}
             = {[session |-> bar.session, end |-> bar.end] :
                  bar \in {b \in stream.bars : b.period = FastBar}}

(* The reference of a snapshot is causal: the final Profile of the latest  *)
(* earlier session of the same type in which a trade was admitted, whole.  *)
ReferenceIsPriorFinal ==
    \A i \in 1..Len(stream.auctions) :
        LET a     == stream.auctions[i]
            prior == {s \in Sessions : /\ s.type = a.session.type
                                       /\ s.end <= a.session.start
                                       /\ SessionTrades(admitted, s) # {}}
        IN  IF prior = {} THEN a.reference = NoFinal
            ELSE /\ a.reference.session \in prior
                 /\ \A s \in prior : s.end <= a.reference.session.end
                 /\ a.reference.trades = SessionTrades(admitted, a.reference.session)

(* A session that has been left or finalized has one final Profile, and no *)
(* session has two.                                                        *)
OneFinalPerSession ==
    /\ \A i, j \in 1..Len(stream.finalTakes) :
         i # j => stream.finalTakes[i] # stream.finalTakes[j]
    /\ ~ Stopped(stream) =>
         \A s \in Sessions :
           (SessionTrades(admitted, s) # {} /\ (finished \/ s # stream.session)) =>
              \E i \in 1..Len(stream.finalTakes) : stream.finalTakes[i] = s

(* measurement_ready vouches for the data: every trade delivered so far in *)
(* the session, and every trade of the reference session, was clean, on    *)
(* time and of known identity, and the ATR has seen its window.            *)
ReadyMeansClean ==
    \A i \in 1..Len(stream.auctions) :
        LET a    == stream.auctions[i]
            seen == {t \in delivered : /\ t.time < a.asOf
                                       /\ SessionAt(t.time) \in {a.session, a.reference.session}}
        IN  a.ready =>
              /\ \A t \in seen : t.quality = "clean" /\ t.source # NoSource /\ t \in admitted
              /\ Cardinality({j \in 1..i : stream.auctions[j].asOf <= a.asOf}) > AtrWindow

(* On an ordered feed the guards of the stream's components never fire:    *)
(* the order of the stages keeps every minute, bar and snapshot clock      *)
(* moving forward.  The one exception is the Profile of a session in which *)
(* no trade was admitted.                                                  *)
OnlyEmptyProfileRaises == stream.raised \in {Quiet, "empty profile"}

(* docs/LIFT_2_MATH_RECONCILIATION.md: admission quarantines suspicious    *)
(* and off-grid ticks, and finalize calls an empty stream a no-op: on an   *)
(* ordered feed no trade and no finalization raises.                       *)
OrderedFeedNeverStops == Ordered => ~ Stopped(stream)
=============================================================================
