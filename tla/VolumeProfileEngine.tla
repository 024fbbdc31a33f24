------------------------- MODULE VolumeProfileEngine -------------------------
(***************************************************************************)
(* One VolumeProfileEngine driven by every order of calls its public       *)
(* methods allow, not only the order MeasurementStream uses.  A trade that *)
(* makes ingest_trade raise may leave its flags behind; the other calls    *)
(* that raise leave the engine as it was and are not steps.  Its names are *)
(* its own, so that the proofs on a stream can use those on its engine.    *)
(***************************************************************************)
EXTENDS VolumeProfile

CONSTANTS
    MaxTime,     \* bound: the last minute a call may name
    MaxIngested  \* bound: calls of ingest_trade

ASSUME BoundAssumption == MaxTime \in Nat /\ MaxIngested \in Nat

VARIABLES
    profile,    \* the engine
    ingested,   \* history: calls of ingest_trade, the n of the next trade
    horizon     \* history: the latest clock finalize_minutes_through was given

engineVars == <<profile, ingested, horizon>>

EngineInit ==
    /\ profile = EmptyProfile
    /\ ingested = 0
    /\ horizon = None

Ingest(time, quality, source) ==
    LET t == [n |-> ingested, time |-> time, quality |-> quality, source |-> source]
    IN  /\ ingested < MaxIngested
        /\ profile' = IngestTrade(profile, t)
        /\ ingested' = ingested + 1
        /\ UNCHANGED horizon

FinalizeMinutesThrough(asOf) ==
    /\ ~ MinuteClockBackward(profile, asOf)
    /\ ~ MemoryOverflows(profile, asOf)
    /\ profile' = FinalizeMinutes(profile, asOf)
    /\ horizon' = IF asOf > horizon THEN asOf ELSE horizon
    /\ UNCHANGED ingested

SnapshotFinal(asOf) ==
    /\ ~ SnapshotBackdated(profile, asOf)
    /\ ~ SnapshotEmpty(profile)
    /\ profile' = TakeFinal(profile)
    /\ UNCHANGED <<ingested, horizon>>

EngineNext ==
    \/ \E time \in 0..MaxTime, quality \in Qualities, source \in Sources \cup {NoSource} :
          Ingest(time, quality, source)
    \/ \E asOf \in 0..MaxTime : FinalizeMinutesThrough(asOf)
    \/ \E asOf \in 0..MaxTime : SnapshotFinal(asOf)

EngineSpec == EngineInit /\ [][EngineNext]_engineVars

-----------------------------------------------------------------------------
(* Properties *)

(* Every field keeps its type; the deliveries are numbered in order.       *)
EngineTypeOK ==
    /\ profile \in Profile
    /\ ingested \in Nat
    /\ horizon \in Nat \cup {None}

(* p's admitted trades are split over its open minute and its buckets,     *)
(* minute by minute; only minutes out of every window at clock h are gone. *)
Partitioned(p, h) ==
    /\ p.open = {t \in p.admitted : MinuteEnd(t.time) = p.minuteEnd}
    /\ \A i \in 1..Len(p.buckets) :
         /\ p.buckets[i].end <= p.lastFinalized
         /\ p.buckets[i].trades = {t \in p.admitted : MinuteEnd(t.time) = p.buckets[i].end}
    /\ \A t \in p.admitted \ p.open :
         \/ \E i \in 1..Len(p.buckets) : t \in p.buckets[i].trades
         \/ MinuteEnd(t.time) <= h - RollingMax

(* Volume is conserved minute by minute: the trades of a minute still open *)
(* are in the minute histogram, those of a finalized minute are in the one *)
(* bucket of that minute unless it has left the longest rolling window,    *)
(* and no trade is in two places.                                          *)
MinutesPartitionTrades == Partitioned(profile, horizon)

(* A rolling snapshot taken at a clock no earlier than the last            *)
(* finalization, once the minutes due by then are closed, holds exactly    *)
(* the admitted trades of its window, each one once.                       *)
RollingIsExact ==
    \A asOf \in 0..MaxTime, w \in Windows :
        (asOf >= horizon /\ ~ MinuteDue(profile, asOf)) =>
            Rolling(profile, w, asOf) =
                {t \in profile.admitted : /\ asOf - w < MinuteEnd(t.time)
                                          /\ MinuteEnd(t.time) <= asOf}

(* The bounded memory is bounded: no finalization that the minute clock    *)
(* allows can meet the raise "rolling minute profile memory exceeded its   *)
(* bound", and the deque never holds more minutes than the longest window. *)
MemoryNeverOverflows ==
    /\ Len(profile.buckets) <= RollingMax
    /\ \A asOf \in 0..MaxTime :
         ~ MinuteClockBackward(profile, asOf) => ~ MemoryOverflows(profile, asOf)

(* The final Profile of a session is taken once: afterwards no step        *)
(* changes it or the session's volume, whatever trades still arrive.       *)
FinalProfileIsFrozen ==
    [][profile.frozen =>
          /\ profile'.frozen
          /\ profile'.final = profile.final
          /\ profile'.final = profile'.admitted]_engineVars
=============================================================================
