---------------------------- MODULE VolumeProfile ----------------------------
(***************************************************************************)
(* The VolumeProfileEngine of measurement/volume_profile.py as a value: a  *)
(* record holding the engine's fields, and one operator per method.  The   *)
(* engine is a value and not a set of variables because MeasurementStream  *)
(* calls it several times within one on_trade call.                        *)
(*                                                                         *)
(* A histogram is abstracted to the set of admitted trades whose quantity  *)
(* went into it.  Every trade carries the number n of its delivery, so two *)
(* trades alike in every other respect stay two trades, and "volume is     *)
(* counted exactly once" is a statement about these sets.  Clocks count    *)
(* minutes; trades of one minute have equal clocks.                        *)
(***************************************************************************)
EXTENDS Integers, Sequences, FiniteSets, FiniteSetsExt

CONSTANTS
    RollingMax,  \* max(definition.rolling_windows_minutes), 120 in the code
    Windows,     \* definition.rolling_windows_minutes, {30, 60, 120} in the code
    Sources      \* source event identities a trade may carry

ASSUME WindowAssumption ==
    /\ RollingMax \in Nat \ {0}
    /\ Windows \subseteq 1..RollingMax

(* Python's None for a clock: earlier than every clock, so the guards of   *)
(* the form "x is not None and t < x" read t < x.                          *)
None == -1
NoSource == "no source identity"

Qualities == {"clean",    \* nothing to report
              "noted",    \* carries a source flag that does not quarantine it
              "suspect",  \* SOURCE_SUSPICIOUS, or price or quantity not positive
              "offgrid"}  \* price off the minimum-tick lattice

Trade == [n : Nat, time : Nat, quality : Qualities, source : Sources \cup {NoSource}]

Bucket == [end : Nat, trades : SUBSET Trade]

(* The reasons for which ingest_trade returns False, and the flags it sets *)
(* without rejecting.  Each one is a DATA: flag of the code.               *)
Reasons == {"SUSPECT", "DUPLICATE", "LATE", "OUT_OF_ORDER", "OFF_TICK"}
Flags   == Reasons \cup {"NOTED", "UNVERIFIABLE"}

Profile ==
    [open          : SUBSET Trade,     \* _minute_histogram
     minuteEnd     : Nat \cup {None},  \* _minute_end_utc
     buckets       : Seq(Bucket),      \* _minute_buckets
     admitted      : SUBSET Trade,     \* _session_histogram, _admitted_volume
     lastTrade     : Nat \cup {None},  \* _last_trade_time_utc
     lastFinalized : Nat \cup {None},  \* _last_finalized_minute_end
     frozen        : BOOLEAN,          \* _final_snapshot is not None
     final         : SUBSET Trade,     \* _final_snapshot.volume_by_tick
     flags         : SUBSET Flags,     \* _quality_flags
     seen          : SUBSET Sources]   \* _seen_source_event_ids, _seen_source_sequences

EmptyProfile ==
    [open |-> {}, minuteEnd |-> None, buckets |-> <<>>, admitted |-> {},
     lastTrade |-> None, lastFinalized |-> None, frozen |-> FALSE, final |-> {},
     flags |-> {}, seen |-> {}]

(* The end of the minute a clock falls in. *)
MinuteEnd(time) == time + 1

-----------------------------------------------------------------------------
(* ingest_trade *)

Duplicate(p, t)  == t.source \in p.seen

LateAfterFinalOnly(p, t) == p.frozen
Late(p, t) == p.frozen \/ t.time < p.lastFinalized

OutOfOrder(p, t) == t.time < p.lastTrade

AdmittedEvenFrozen(p, t) == ~ (t.quality \in {"suspect", "offgrid"} \/ Duplicate(p, t))
Admissible(p, t) ==
    /\ t.quality \notin {"suspect", "offgrid"}
    /\ ~ Duplicate(p, t)
    /\ ~ Late(p, t)
    /\ ~ OutOfOrder(p, t)

(* The first check that fails, in the order ingest_trade makes them. *)
Reason(p, t) ==
    IF t.quality = "suspect" THEN "SUSPECT"
    ELSE IF Duplicate(p, t) THEN "DUPLICATE"
    ELSE IF Late(p, t) THEN "LATE"
    ELSE IF OutOfOrder(p, t) THEN "OUT_OF_ORDER"
    ELSE "OFF_TICK"

(* DEDUPLICATION_UNVERIFIABLE is set once the duplicate checks are passed, *)
(* so a late trade sets it too and a suspect one does not.                 *)
NotedFlags(p, t) ==
    (IF t.quality = "noted" THEN {"NOTED"} ELSE {})
        \cup (IF t.source = NoSource /\ t.quality # "suspect" THEN {"UNVERIFIABLE"} ELSE {})

(* An admissible trade of another minute than the open one raises. *)
MinuteStillOpen(p, t) == Admissible(p, t) /\ p.minuteEnd \notin {None, MinuteEnd(t.time)}

Reject(p, t) == [p EXCEPT !.flags = @ \cup NotedFlags(p, t) \cup {Reason(p, t)}]

Admit(p, t) ==
    [p EXCEPT !.open      = @ \cup {t},
              !.minuteEnd = MinuteEnd(t.time),
              !.admitted  = @ \cup {t},
              !.lastTrade = t.time,
              !.flags     = @ \cup NotedFlags(p, t),
              !.seen      = @ \cup ({t.source} \ {NoSource})]

(* The raise comes after the flags are set and before anything is counted. *)
IngestTrade(p, t) ==
    IF ~ Admissible(p, t) THEN Reject(p, t)
    ELSE IF MinuteStillOpen(p, t) THEN [p EXCEPT !.flags = @ \cup NotedFlags(p, t)]
    ELSE Admit(p, t)

-----------------------------------------------------------------------------
(* finalize_minutes_through *)

MinuteClockBackward(p, asOf) == asOf < p.lastFinalized

MinuteDue(p, asOf) == p.minuteEnd # None /\ p.minuteEnd <= asOf

(* popleft while the leftmost bucket ends at or before the horizon *)
ExpireNever(buckets, horizon) == buckets
ExpireOneTooMany(buckets, horizon) ==
    LET live == {i \in 1..Len(buckets) : buckets[i].end > horizon + 1}
    IN  IF live = {} THEN <<>> ELSE SubSeq(buckets, Min(live), Len(buckets))
Expire(buckets, horizon) ==
    LET live == {i \in 1..Len(buckets) : buckets[i].end > horizon}
    IN  IF live = {} THEN <<>> ELSE SubSeq(buckets, Min(live), Len(buckets))

CloseMinute(p) ==
    [p EXCEPT !.buckets       = Append(@, [end |-> p.minuteEnd, trades |-> p.open]),
              !.lastFinalized = p.minuteEnd,
              !.open          = {},
              !.minuteEnd     = None]

CloseMinuteKeepingOpen(p) ==
    [p EXCEPT !.buckets       = Append(@, [end |-> p.minuteEnd, trades |-> p.open]),
              !.lastFinalized = p.minuteEnd,
              !.minuteEnd     = None]

CloseDueMinuteKeepingOpen(p, asOf) ==
    IF MinuteDue(p, asOf) THEN CloseMinuteKeepingOpen(p) ELSE p
CloseDueMinute(p, asOf) == IF MinuteDue(p, asOf) THEN CloseMinute(p) ELSE p

FinalizeMinutes(p, asOf) ==
    LET closed == CloseDueMinute(p, asOf)
    IN  [closed EXCEPT !.buckets = Expire(@, asOf - RollingMax)]

(* The raise "rolling minute profile memory exceeded its bound". *)
MemoryOverflows(p, asOf) == Len(FinalizeMinutes(p, asOf).buckets) > RollingMax

-----------------------------------------------------------------------------
(* snapshot *)

SnapshotBackdated(p, asOf) == asOf < p.lastTrade
SnapshotEmpty(p)           == p.lastTrade = None

(* _rolling_histogram: the completed minutes of the window ending at asOf *)
Rolling(p, window, asOf) ==
    UNION {p.buckets[i].trades :
             i \in {j \in 1..Len(p.buckets) :
                      asOf - window < p.buckets[j].end /\ p.buckets[j].end <= asOf}}

(* snapshot(FINAL_SESSION): built once, then returned as it is *)
TakeFinal(p) == IF p.frozen THEN p ELSE [p EXCEPT !.frozen = TRUE, !.final = p.admitted]
=============================================================================
