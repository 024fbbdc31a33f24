------------------------------- MODULE IAEEngine -------------------------------
(***************************************************************************)
(* The lifecycle of structural gaps: IAEEngine.on_bar (measurement/iae.py) *)
(* and the recording of its snapshots by MeasurementStream                 *)
(* (_record_iae_snapshot).  A fast bar is numbered by its end; the bar     *)
(* that ends at t starts at t - 1, and any bar may be missing.  A session  *)
(* is one segment, or several when the calendar closes it in between       *)
(* (SessionEngine.session_bounds): segments of one id and type.            *)
(*                                                                         *)
(* Prices are small integers and the minimum tick is 1.  What depends on   *)
(* averages is free: whether the volumes of a slot vary, whether a         *)
(* formation passes its gates, and which scores pass the threshold.        *)
(***************************************************************************)
EXTENDS Integers, Sequences, FiniteSets, SequencesExt, FiniteSetsExt

CONSTANTS
    MaxAge,     \* _MAX_GAP_AGE_BARS, 48 in the code
    MinTod,     \* _MIN_TOD_OBSERVATIONS, 20 in the code
    MaxTod,     \* _MAX_TOD_SESSIONS, 30 in the code
    AtrWindow,  \* true ranges of the shared ATR, 24 in the code
    Segments,   \* <<[id, type, start, end], ...>>, in order: the segments of sessions
    Ends,       \* bound: the ends of the bars that may come
    Bars        \* bound: the bars of the feed, a set of [open, high, low, close]

ASSUME IAEAssumption ==
    /\ Ends \subseteq Nat /\ MaxAge \in Nat /\ MinTod \in Nat /\ MaxTod \in Nat \ {0} /\ AtrWindow \in Nat
    /\ \A b \in Bars : /\ b.low <= b.open /\ b.open <= b.high
                       /\ b.low <= b.close /\ b.close <= b.high
    /\ DOMAIN Segments \subseteq Nat
    /\ \A i \in DOMAIN Segments :
         /\ Segments[i].start \in Nat /\ Segments[i].end \in Nat
         /\ Segments[i].start < Segments[i].end
         /\ \A j \in DOMAIN Segments : i < j =>
              IF Segments[i].id = Segments[j].id THEN Segments[i].end < Segments[j].start
              ELSE Segments[i].end <= Segments[j].start

None == 0    \* Python's None; every bar ends after 0

VARIABLES
    lastEnd,   \* _last_bar_end
    session,   \* _session_id
    window,    \* _bars but the one the next bar pushes out: the last two at most
    gaps,      \* _gaps: a gap is named by the end of the bar that formed it, so
               \* the order of the list is the order of the names
    seasonal,  \* _seasonal: the sessions in the bucket of <<session type, slot>>
    seen,      \* bars the shared ATR has seen, at most AtrWindow + 1
    stopped,   \* the exception that stopped the engine, "none" while it runs
    update,    \* the IAEUpdate of the last bar: the snapshots of its retests, its own
    reported   \* history: the gaps whose first retest was reported

vars == <<lastEnd, session, window, gaps, seasonal, seen, stopped, update, reported>>

-----------------------------------------------------------------------------
(* Geometry *)

Invalidates(bar, gap) ==
    IF gap.direction = "BULLISH" THEN bar.close < gap.bot ELSE bar.close > gap.top

Retests(bar, gap) ==
    IF gap.direction = "BULLISH" THEN bar.low <= gap.top /\ bar.close >= gap.bot
    ELSE bar.high >= gap.bot /\ bar.close <= gap.top

(* a close in the gap's direction after a wick of more than half the body *)
Confirms(bar, gap) ==
    LET body  == {bar.open, bar.close}
        small == CHOOSE x \in body : \A y \in body : x <= y
        large == CHOOSE x \in body : \A y \in body : x >= y
    IN  IF gap.direction = "BULLISH"
        THEN bar.close > bar.open /\ 2 * (small - bar.low) > large - small
        ELSE bar.close < bar.open /\ 2 * (bar.high - large) > large - small

NewGap(end, direction, bot, top) ==
    [id |-> end, direction |-> direction, bot |-> bot, top |-> top,
     age |-> 0, retests |-> 0, state |-> "OPEN"]

NoGap == NewGap(None, "none", 0, 0)

(* the gap three consecutive bars shape, when the first and the last are   *)
(* at least a tick apart                                                   *)
Shaped(bars, end) ==
    LET first == bars[1]  impulse == bars[2]  current == bars[3]
    IN  IF current.low > first.high /\ impulse.close > first.high
        THEN NewGap(end, "BULLISH", first.high, current.low)
        ELSE IF first.low > current.high /\ impulse.close < first.low
        THEN NewGap(end, "BEARISH", current.high, first.low)
        ELSE NoGap

(* the gap formed and the flag raised, when the gates are passed or not *)
Formation(bars, end, ready, eligible) ==
    IF Len(bars) < 3 \/ ~ready THEN [formed |-> NoGap, flags |-> {}]
    ELSE LET shaped == Shaped(bars, end)
         IN  IF shaped = NoGap THEN [formed |-> NoGap, flags |-> {}]
             ELSE IF bars[2].high = bars[2].low
             THEN [formed |-> NoGap, flags |-> {"IAE_FORMATION_DEGENERATE"}]
             ELSE IF ~eligible THEN [formed |-> NoGap, flags |-> {"IAE_FORMATION_GATED"}]
             ELSE [formed |-> shaped, flags |-> {}]

-----------------------------------------------------------------------------
(* Snapshots.  The metrics of a retest are named by their guard, "score"   *)
(* when none applies; a snapshot of no retest has metrics "none".          *)

Alive(gap) == gap.state \in {"OPEN", "TESTED"}
ActiveCount(list) == Cardinality({t \in DOMAIN list : Alive(list[t])})

Snapshot(end, gap, metrics, active, flags, ready) ==
    [asOf |-> end, gap |-> gap, metrics |-> metrics, active |-> active, flags |-> flags,
     ready |-> gap # NoGap /\ ready]

(* The fields the identity of a snapshot is hashed from: its score (None   *)
(* or the one value of gap and bar) is all it keeps of the metrics.        *)
SnapshotIdWithoutCount(s) ==
    <<s.asOf, s.gap.id, s.gap.state, s.flags, s.metrics = "score">>
SnapshotId(s) ==
    <<s.active, s.asOf, s.gap.id, s.gap.state, s.flags, s.metrics = "score">>

(* Two snapshots of one bar that differ and share an identity:             *)
(* _record_iae_snapshot refuses the second.                                *)
Collides(u) ==
    \E r, s \in u.retests \cup u.bar : r # s /\ SnapshotId(r) = SnapshotId(s)

-----------------------------------------------------------------------------
(* One turn of the loop over the gaps, for the gap t.  walk.gaps is the    *)
(* list, the earlier gaps already as this bar leaves them; in.strong holds *)
(* the gaps whose score would pass the threshold.                          *)

Guard(bar, in) ==
    IF bar.open = bar.close THEN "IAE_DEGENERATE_BODY"
    ELSE IF in.tod # "none" THEN "IAE_SCORE_TOD_UNAVAILABLE" ELSE "score"

Terminate(walk, t, state) ==
    LET ended == [walk.gaps[t] EXCEPT !.age = @ + 1, !.state = state]
    IN  [walk EXCEPT !.gaps[t] = ended, !.selected = ended, !.metrics = "none"]

(* A retest and, when the gap has that many now, its exact snapshot: the   *)
(* count of live gaps and the flags are those of the moment.  The code     *)
(* reports the first.                                                      *)
TestReporting(walk, t, in, counts) ==
    LET gap    == walk.gaps[t]
        guard  == Guard(in.bar, in)
        absorb == guard = "score" /\ gap.id \in in.strong /\ Confirms(in.bar, gap)
        tested == [gap EXCEPT !.age = @ + 1, !.retests = @ + 1,
                              !.state = IF absorb THEN "ABSORBED" ELSE "TESTED"]
        list   == [walk.gaps EXCEPT ![t] = tested]
        flags  == walk.flags \cup ({guard} \ {"score"})
        exact  == Snapshot(in.end, tested, guard, ActiveCount(list), flags, in.ready)
    IN  [walk EXCEPT !.gaps = list, !.selected = tested, !.metrics = guard, !.flags = flags,
                     !.snapshots = IF tested.retests \in counts THEN @ \cup {exact} ELSE @]
TestAnew(walk, t, in) == TestReporting(walk, t, in, Nat)
Test(walk, t, in) == TestReporting(walk, t, in, {1})

Turn(walk, t, in) ==
    IF walk.gaps[t].age + 1 > MaxAge THEN Terminate(walk, t, "EXPIRED")
    ELSE IF Invalidates(in.bar, walk.gaps[t]) THEN Terminate(walk, t, "INVALIDATED")
    ELSE IF Retests(in.bar, walk.gaps[t]) THEN Test(walk, t, in)
    ELSE [walk EXCEPT !.gaps[t].age = @ + 1]

(* the loop, over the gaps that formed by each bar *)
Walk(list, flags, in) ==
    LET walk[t \in 0..in.end] ==
          IF t = 0 THEN [gaps |-> list, selected |-> NoGap, metrics |-> "none",
                         flags |-> flags, snapshots |-> {}]
          ELSE IF t \in DOMAIN list THEN Turn(walk[t - 1], t, in) ELSE walk[t - 1]
    IN  walk
AllTurns(list, flags, in) == Walk(list, flags, in)[in.end]

-----------------------------------------------------------------------------
Init ==
    /\ lastEnd = None
    /\ session = None
    /\ window = <<>>
    /\ gaps = [t \in {} |-> NoGap]
    /\ seasonal = [key \in {} |-> {}]
    /\ seen = 0
    /\ stopped = "none"
    /\ update = [retests |-> {}, bar |-> {}]
    /\ reported = {}

(* What a bar of session `id` that ends at `end` finds left of the window  *)
(* and the gaps: a new session and a missing bar clear them.               *)
ResetKeepingGaps(id, end) ==
    IF id # session THEN [window |-> <<>>, gaps |-> [t \in {} |-> NoGap], flags |-> {}]
    ELSE IF lastEnd # end - 1
    THEN [window |-> <<>>, gaps |-> gaps, flags |-> {"IAE_BAR_GAP_RESET"}]
    ELSE [window |-> window, gaps |-> gaps, flags |-> {}]
Reset(id, end) ==
    IF id # session THEN [window |-> <<>>, gaps |-> [t \in {} |-> NoGap], flags |-> {}]
    ELSE IF lastEnd # end - 1
    THEN [window |-> <<>>, gaps |-> [t \in {} |-> NoGap], flags |-> {"IAE_BAR_GAP_RESET"}]
    ELSE [window |-> window, gaps |-> gaps, flags |-> {}]

Bucket(key) == IF key \in DOMAIN seasonal THEN seasonal[key] ELSE <<>>
Latest(bucket) == IF Len(bucket) > MaxTod THEN Tail(bucket) ELSE bucket

TodGuard(prior, varied) ==
    IF Len(prior) < MinTod THEN "IAE_TOD_WARMUP"
    ELSE IF ~varied THEN "IAE_TOD_DEGENERATE" ELSE "none"

(* on_bar past the guards of its input, from what the reset left *)
Advance(bar, end, left, prior, varied, eligible, strong) ==
    LET tod   == TodGuard(prior, varied)
        ready == seen' > AtrWindow
        in    == [bar |-> bar, end |-> end, tod |-> tod, ready |-> ready, strong |-> strong]
        early == left.flags \cup ({tod} \ {"none"})
                            \cup (IF ready THEN {} ELSE {"IAE_ATR_WARMUP"})
        walk  == AllTurns(left.gaps, early, in)
        bars  == Append(left.window, bar)
        form  == Formation(bars, end, ready, eligible)
        kept  == {t \in DOMAIN walk.gaps : Alive(walk.gaps[t])}
        live  == [t \in kept \cup ({form.formed.id} \ {None}) |->
                    IF t \in kept THEN walk.gaps[t] ELSE form.formed]
        shown == IF walk.selected # NoGap \/ DOMAIN live = {} THEN walk.selected
                 ELSE live[Max(DOMAIN live)]
        whole == Snapshot(end, shown, walk.metrics, Cardinality(DOMAIN live),
                          walk.flags \cup form.flags, ready)
        new   == [retests |-> walk.snapshots, bar |-> {whole}]
    IN  /\ window' = IF Len(bars) > 2 THEN Tail(bars) ELSE bars
        /\ gaps' = live
        /\ update' = new
        /\ reported' = reported \cup {s.gap.id : s \in new.retests}
        /\ stopped' = IF Collides(new) THEN "IAE snapshot ID collision" ELSE "none"

(* the outcomes of a test on averages, none when the code does not make it *)
Undecided(made) == IF made THEN BOOLEAN ELSE {FALSE}

Learn(key, bucket) ==
    seasonal' = [k \in DOMAIN seasonal \cup {key} |-> IF k = key THEN bucket ELSE seasonal[k]]

(* _process_due_bars hands a completed bar to the shared ATR and to the    *)
(* engine, and records the snapshots of its update.  varied, eligible and  *)
(* strong are what the averages decide.                                    *)
OnBar(bar, segment, end) ==
    LET key   == <<segment.type, end - segment.start>>
        prior == Bucket(key)
        left  == Reset(segment.id, end)
        twice == segment.id \in ToSet(prior)
    IN  /\ stopped = "none"
        /\ end > lastEnd
        /\ lastEnd' = end
        /\ session' = segment.id
        /\ seen' = IF seen > AtrWindow THEN seen ELSE seen + 1
        /\ \/ /\ twice
              /\ window' = left.window /\ gaps' = left.gaps
              /\ stopped' = "IAE TOD bucket already contains the current session"
              /\ Learn(key, prior)
              /\ UNCHANGED <<update, reported>>
           \/ /\ ~twice
              /\ \E varied \in Undecided(Len(prior) >= MinTod),
                    eligible \in Undecided(Len(left.window) = 2) :
                   \E strong \in SUBSET DOMAIN left.gaps :
                     Advance(bar, end, left, prior, varied, eligible, strong)
              /\ Learn(key, Latest(Append(prior, segment.id)))

Next == \E i \in DOMAIN Segments : \E end \in Ends \cap ((Segments[i].start + 1)..Segments[i].end) :
          \E bar \in Bars : OnBar(bar, Segments[i], end)

Spec == Init /\ [][Next]_vars

-----------------------------------------------------------------------------
(* Properties *)

(* The integrity guards never stop the stream: the snapshots of a bar that *)
(* differ (the exact ones of its first retests, and its own after a gap    *)
(* formed or ended) have different identities, and a time-of-day bucket    *)
(* meets a session twice only after the calendar closed it in between      *)
(* (_record_iae_snapshot, prior_bucket).                                   *)
GuardsNeverStop ==
    /\ stopped # "IAE snapshot ID collision"
    /\ stopped # "none" =>
         \E i, j \in DOMAIN Segments :
           i < j /\ Segments[i].id = session /\ Segments[j].id = session

(* While the engine runs, a live gap is as old as the bars since it        *)
(* formed, all of its session and none missing, and at most MaxAge: a      *)
(* missing bar, a new session and age take it away, so no retest joins     *)
(* bars that do not follow each other (continuity_reset, EXPIRED).         *)
LiveGapsAreContiguous ==
    stopped = "none" => \A t \in DOMAIN gaps :
      /\ gaps[t].age = lastEnd - t
      /\ gaps[t].age <= MaxAge
      /\ \E k \in DOMAIN Segments : /\ Segments[k].id = session
                                   /\ Segments[k].start + 3 <= t
                                   /\ lastEnd <= Segments[k].end

(* A first retest is reported once in the life of a gap, by a bar after    *)
(* the one that formed it, and its exact snapshot shows the gap tested or  *)
(* absorbed by that bar and never counts fewer live gaps than it leaves of *)
(* those there were (IAEUpdate.retests, retest_snapshots).                 *)
FirstRetestOnce ==
    [][\A s \in update'.retests :
         lastEnd' # lastEnd /\ stopped' = "none" =>
           /\ s.gap.id \notin reported
           /\ s.gap.id \in DOMAIN gaps
           /\ s.asOf = lastEnd'
           /\ s.gap.state = IF s.gap.id \in DOMAIN gaps' THEN "TESTED" ELSE "ABSORBED"
           /\ s.active >= Cardinality((DOMAIN gaps') \ {lastEnd'})]_vars

=============================================================================
