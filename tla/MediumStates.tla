----------------------------- MODULE MediumStates -----------------------------
(***************************************************************************)
(* The two engines of the medium clock: IMSIStateCore.on_bar               *)
(* (measurement/imsi.py) and ICMEngine.on_bar (measurement/icm.py), called *)
(* in this order by _process_due_bars, and what their snapshots must pass  *)
(* when they are built (measurement_snapshots.py).  A bar is named by its  *)
(* end, the bar that ends at t starts at t - 1, and any bar may be         *)
(* missing.                                                                *)
(*                                                                         *)
(* An average, a state or a distance stands for the bars it was computed   *)
(* from.  What the arithmetic decides is free: the outcome of the          *)
(* covariance, the residual scales of the fit, the local price scale.      *)
(***************************************************************************)
EXTENDS Integers, FiniteSets, Sequences, SequencesExt, FiniteSetsExt

CONSTANTS
    MinPrior,       \* _MIN_TOD_OBSERVATIONS, 30 in the code
    MaxPrior,       \* _MAX_TOD_SESSIONS, 30
    MaxStates,      \* _MAX_PRIOR_STATES, 300, of states and of distances
    MinStates,      \* _MIN_COVARIANCE_STATES, 30
    MinDistances,   \* _MIN_RARITY_DISTANCES, 30
    MaxNeighbors,   \* _MAX_NEIGHBORS, 15
    Embargo,        \* _NEIGHBOR_EMBARGO_BARS, 7
    FitWindow,      \* the ICM window of the root (ICM_WINDOWS)
    MediumSegments, \* <<[id, type, start, end], ...>>: the segments of sessions
    MediumEnds      \* bound: the ends of the bars that may come

ASSUME MediumAssumption ==
    /\ {MinPrior, MaxPrior, MaxStates, MinStates, MinDistances, MaxNeighbors, Embargo, FitWindow}
         \subseteq Nat \ {0}
    /\ MinPrior <= MaxPrior    \* a bucket can hold the bars a baseline needs
    /\ MediumEnds \subseteq Nat \ {0}
    /\ DOMAIN MediumSegments \subseteq Nat
    /\ \A i \in DOMAIN MediumSegments :
         /\ MediumSegments[i].start \in Nat /\ MediumSegments[i].end \in Nat
         /\ MediumSegments[i].start < MediumSegments[i].end
         /\ \A j \in DOMAIN MediumSegments :
              i < j => MediumSegments[i].end <= MediumSegments[j].start
    \* a session is one window of one day: no other session lies between its segments
    /\ \A i, j, k \in DOMAIN MediumSegments :
         i < k /\ k < j /\ MediumSegments[i].id = MediumSegments[j].id
           => MediumSegments[k].id = MediumSegments[i].id

VARIABLES
    delivered,   \* history: the bars of the stream, in order; the last is _last_bar_end,
                 \* their number _bar_sequence, and none means no _previous_close
    measured,    \* history: the bars whose distance entered _distances
    vwap,        \* the bars in _session_price_volume and _session_volume
    buckets,     \* _seasonal: the <<session, bar>> of each <<session type, slot>>
    states,      \* _states: <<sequence, bar>>
    distances,   \* _distances, as bars
    fit,         \* ICM's _bars
    halted,      \* the exception that stopped the stream, "none" while it runs
    imsi,        \* the last IMSI snapshot, or NoSnapshot
    icm          \* the last ICM snapshot, or NoSnapshot

mediumVars == <<delivered, measured, vwap, buckets, states, distances, fit, halted, imsi, icm>>

NoSnapshot == [bar |-> 0]

Bounded(list, size) == IF Len(list) > size THEN Tail(list) ELSE list    \* deque(maxlen)

SegmentOf(bar) ==
    CHOOSE i \in DOMAIN MediumSegments :
      MediumSegments[i].start < bar /\ bar <= MediumSegments[i].end
SessionOfBar(bar) == MediumSegments[SegmentOf(bar)].id
KeyOf(bar) ==
    <<MediumSegments[SegmentOf(bar)].type, bar - 1 - MediumSegments[SegmentOf(bar)].start>>
LastBar == IF delivered = <<>> THEN 0 ELSE Last(delivered)
BucketOf(key) == IF key \in DOMAIN buckets THEN buckets[key] ELSE <<>>

-----------------------------------------------------------------------------
(* The IMSI snapshot of a bar, from the memories before it *)

(* the bars old enough to be neighbors of a bar of this sequence number *)
NeighborsUnembargoed(sequence) == {i \in DOMAIN states : states[i][1] < sequence}
Neighbors(sequence) ==
    {i \in DOMAIN states : states[i][1] < sequence /\ states[i][1] <= sequence - Embargo}

(* ok: the covariance is positive definite and well conditioned; unstable: *)
(* its condition number is above the bound; degenerate: the estimator      *)
(* raises, and the raise is caught; none: it is not asked.                 *)
Covariance(adjusted) ==
    IF adjusted /\ Len(states) >= MinStates THEN {"ok", "unstable", "degenerate"} ELSE {"none"}

ImsiSnapshot(bar, sequence, prior, covariance) ==
    LET adjusted == Len(prior) >= MinPrior
        distance == covariance = "ok"
        support  == IF distance THEN Min({MaxNeighbors, Cardinality(Neighbors(sequence))}) ELSE 0
        rarity   == distance /\ Len(distances) >= MinDistances
    IN  [bar |-> bar, adjusted |-> IF adjusted THEN ToSet(prior) ELSE {},
         vwap |-> vwap',
         diagnostics |-> covariance \in {"ok", "unstable"},
         distance |-> distance,
         estimated |-> IF covariance = "none" THEN {} ELSE {states[i][2] : i \in DOMAIN states},
         neighbors |-> distance /\ Neighbors(sequence) # {},
         support |-> support,
         rarity |-> IF rarity THEN ToSet(distances) ELSE {},
         ready |-> distance /\ rarity]

(* IMSIStateSnapshot.__post_init__ raises *)
ImsiRefused(s) ==
    \/ (s.support = 0) # ~s.neighbors
    \/ s.distance /\ ~s.diagnostics
    \/ s.ready # (s.distance /\ s.rarity # {})
    \/ s.support \notin 0..MaxNeighbors

-----------------------------------------------------------------------------
(* The ICM snapshot of a full window.  blend: whether the blended residual *)
(* scale is zero, positive but at most _EPSILON, or larger; regime: the    *)
(* ratio of the two scales is beyond the bound.  The fields no guard reads *)
(* are left out.                                                           *)

IcmSnapshotAboveEpsilon(bar, blend, regime) ==
    [bar |-> bar, blend |-> blend, normalized |-> blend = "normal", z |-> blend = "normal",
     effective |-> blend = "normal" /\ ~regime, ready |-> blend = "normal" /\ ~regime]
IcmSnapshot(bar, blend, regime) ==
    [bar |-> bar, blend |-> blend, normalized |-> blend # "zero", z |-> blend = "normal",
     effective |-> blend = "normal" /\ ~regime, ready |-> blend = "normal" /\ ~regime]

(* ICMStateSnapshot.__post_init__ raises; raw and capped Z come together *)
IcmRefused(s) ==
    \/ s.effective /\ ~s.z
    \/ (s.blend # "zero") # s.normalized
    \/ s.ready # s.effective

-----------------------------------------------------------------------------
MediumInit ==
    /\ delivered = <<>> /\ measured = <<>>
    /\ vwap = {}
    /\ buckets = [key \in {} |-> <<>>]
    /\ states = <<>> /\ distances = <<>> /\ fit = <<>>
    /\ halted = "none"
    /\ imsi = NoSnapshot /\ icm = NoSnapshot

(* the session's VWAP restarts with the session, not with its segments *)
VwapWithin(bar) ==
    IF delivered # <<>> /\ SessionOfBar(Last(delivered)) = SessionOfBar(bar)
    THEN vwap \cup {bar} ELSE {bar}

LearnBar(bar) ==
    buckets' = [k \in DOMAIN buckets \cup {KeyOf(bar)} |->
                  IF k = KeyOf(bar)
                  THEN Bounded(Append(BucketOf(k), <<SessionOfBar(bar), bar>>), MaxPrior)
                  ELSE buckets[k]]

(* past the first bar and the check of the bucket: the memories learn the  *)
(* bar once its snapshot is computed; a refused snapshot raises after that *)
MeasureState(bar, prior, covariance) ==
    LET sequence == Len(delivered) + 1
        snapshot == ImsiSnapshot(bar, sequence, prior, covariance)
    IN  /\ states' = IF Len(prior) >= MinPrior
                     THEN Bounded(Append(states, <<sequence, bar>>), MaxStates) ELSE states
        /\ distances' = IF snapshot.distance THEN Bounded(Append(distances, bar), MaxStates)
                        ELSE distances
        /\ measured' = IF snapshot.distance THEN Append(measured, bar) ELSE measured
        /\ LearnBar(bar)
        /\ imsi' = snapshot

FitGeometry(bar) ==
    /\ fit' = Bounded(Append(fit, bar), FitWindow)
    /\ \/ Len(fit') < FitWindow /\ icm' = NoSnapshot
       \/ /\ Len(fit') = FitWindow
          /\ \E blend \in {"zero", "tiny", "normal"} :
               \E regime \in IF blend = "zero" THEN {FALSE} ELSE BOOLEAN :
                 icm' = IcmSnapshot(bar, blend, regime)

StreamStops(exception) ==
    /\ halted' = exception
    /\ UNCHANGED <<fit, icm>>

OnMediumBar(bar) ==
    LET prior == BucketOf(KeyOf(bar))
        first == delivered = <<>>
        twice == ~first /\ \E i \in DOMAIN prior : prior[i][1] = SessionOfBar(bar)
    IN  /\ halted = "none"
        /\ bar > LastBar
        /\ delivered' = Append(delivered, bar)
        /\ vwap' = VwapWithin(bar)
        /\ \/ /\ first
              /\ UNCHANGED <<measured, buckets, states, distances, imsi, halted>>
              /\ FitGeometry(bar)
           \/ /\ twice
              /\ UNCHANGED <<measured, buckets, states, distances, imsi>>
              /\ StreamStops("IMSI TOD bucket already contains the current session")
           \/ /\ ~first /\ ~twice
              /\ \E covariance \in Covariance(Len(prior) >= MinPrior) :
                   MeasureState(bar, prior, covariance)
              /\ IF ImsiRefused(imsi') THEN StreamStops("IMSI snapshot refused")
                 ELSE /\ FitGeometry(bar)
                      /\ halted' = IF icm' # NoSnapshot /\ IcmRefused(icm')
                                   THEN "ICM snapshot refused" ELSE "none"

MediumNext ==
    \E bar \in MediumEnds :
      /\ \E i \in DOMAIN MediumSegments :
           MediumSegments[i].start < bar /\ bar <= MediumSegments[i].end
      /\ OnMediumBar(bar)

MediumSpec == MediumInit /\ [][MediumNext]_mediumVars

-----------------------------------------------------------------------------
(* Properties *)

(* the latest of a set of bars, `size` of them when there are that many *)
LatestOf(S, size) == {bar \in S : Cardinality({later \in S : bar < later}) < size}

(* the list holds the latest of these bars, in their order *)
HoldsLatest(list, S, size) ==
    /\ \A i, j \in DOMAIN list : i < j => list[i] < list[j]
    /\ ToSet(list) = LatestOf(S, size)
BarsOf(list) == [i \in DOMAIN list |-> list[i][2]]

(* the bars of the contract but its first, which opens no bucket *)
Opened == {delivered[n] : n \in 2..Len(delivered)}
SameSlot(S, key) == {bar \in S : KeyOf(bar) = key}
WithState(S) ==
    {bar \in S : Cardinality({b \in SameSlot(Opened, KeyOf(bar)) : b < bar}) >= MinPrior}
Place(bar) == CHOOSE n \in DOMAIN delivered : delivered[n] = bar

(* Every memory holds the latest bars that belong in it, and the snapshot  *)
(* of a bar was computed from the bars before it alone: its time-of-day    *)
(* baseline from its slot in earlier sessions, its covariance from earlier *)
(* states, its neighbors from states at least the embargo older, counted   *)
(* in all bars of the contract, its VWAP from its session up to it         *)
(* ("prior-only baselines", IMSIStateCore.on_bar).                         *)
BaselinesArePriorOnly ==
    halted = "none" /\ delivered # <<>> =>
      LET now    == Last(delivered)
          prior  == Opened \ {now}
          old    == LatestOf(WithState(prior), MaxStates)
      IN  /\ \A key \in DOMAIN buckets :
               HoldsLatest(BarsOf(buckets[key]), SameSlot(Opened, key), MaxPrior)
          /\ HoldsLatest(BarsOf(states), WithState(Opened), MaxStates)
          /\ HoldsLatest(distances, ToSet(measured), MaxStates)
          /\ vwap = {bar \in ToSet(delivered) : SessionOfBar(bar) = SessionOfBar(now)}
          /\ imsi # NoSnapshot =>
               /\ imsi.bar = now /\ imsi.vwap = vwap
               /\ imsi.adjusted # {} => {pair[2] : pair \in imsi.adjusted}
                                          = LatestOf(SameSlot(prior, KeyOf(now)), MaxPrior)
               /\ imsi.estimated # {} => imsi.estimated = old
               /\ imsi.distance =>
                    imsi.support = Min({MaxNeighbors, Cardinality(
                      {bar \in old : Place(bar) + Embargo <= Len(delivered)})})

(* Whatever the arithmetic decides, the snapshots the engines build pass   *)
(* their own validation, and a bucket meets a session twice only after a   *)
(* closure cut that session: nothing else stops the stream                 *)
(* (IMSIStateSnapshot, ICMStateSnapshot, prior_bucket).                    *)
MediumStopsOnlyAfterClosure ==
    halted # "none" =>
      /\ halted = "IMSI TOD bucket already contains the current session"
      /\ \E i, j \in DOMAIN MediumSegments :
           /\ i < j /\ MediumSegments[i].id = MediumSegments[j].id
           /\ MediumSegments[j].id = SessionOfBar(Last(delivered))

=============================================================================
