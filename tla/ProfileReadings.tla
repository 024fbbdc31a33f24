---------------------------- MODULE ProfileReadings ----------------------------
(***************************************************************************)
(* What measurement/volume_profile.py reads off a histogram of volume by   *)
(* tick: the point of control, the value area around it, where a close     *)
(* lies relative to a prior value area, and the Auction features.  A       *)
(* histogram is a function from the occupied ticks to positive quantities. *)
(*                                                                         *)
(* Quantities are whole contracts, so the sums and products of the code    *)
(* are exact in its floating-point numbers, and a ratio is a pair of       *)
(* integers; two orders it takes from quotients are taken from products.   *)
(* A value that may be None is a set of at most one value.                 *)
(***************************************************************************)
EXTENDS Integers, Sequences, FiniteSets, FiniteSetsExt

CONSTANT
    EntropyRoundsUp  \* numbers of equal bins whose entropy is rounded above 1

(* _validated_histogram: what is a histogram *)
Histogram(h) ==
    /\ IsFiniteSet(DOMAIN h) /\ DOMAIN h # {} /\ DOMAIN h \subseteq Int
    /\ h \in [DOMAIN h -> Nat \ {0}]

Volume(h, ticks) == MapThenSumSet(LAMBDA t : h[t], ticks \cap DOMAIN h)
Total(h) == Volume(h, DOMAIN h)
At(h, tick) == IF tick \in DOMAIN h THEN h[tick] ELSE 0

Absolute(n) == IF n < 0 THEN - n ELSE n

-----------------------------------------------------------------------------
(* select_poc: the largest volume, then the nearest to the weighted mean,  *)
(* then the lower tick.  The distance is multiplied by the total.          *)

MeanDistance(h, tick) ==
    Absolute(tick * Total(h) - MapThenSumSet(LAMBDA t : t * h[t], DOMAIN h))

Largest(h) == {t \in DOMAIN h : \A u \in DOMAIN h : h[u] <= h[t]}

SelectPoc(h) ==
    Min({t \in Largest(h) : \A u \in Largest(h) : MeanDistance(h, t) <= MeanDistance(h, u)})

-----------------------------------------------------------------------------
(* select_value_area: from the POC outwards, one step of the loop growing  *)
(* the side with more volume next to it, or both when they tie, until 70 % *)
(* of the volume is held.                                                  *)

Short(h, held) == 10 * held < 7 * Total(h)

GrowsDownAlone(h, lower, upper) ==
    /\ lower > Min(DOMAIN h)
    /\ upper = Max(DOMAIN h) \/ At(h, lower - 1) > At(h, upper + 1)
GrowsDown(h, lower, upper) ==
    /\ lower > Min(DOMAIN h)
    /\ upper = Max(DOMAIN h) \/ At(h, lower - 1) >= At(h, upper + 1)
GrowsUp(h, lower, upper) ==
    /\ upper < Max(DOMAIN h)
    /\ lower = Min(DOMAIN h) \/ At(h, upper + 1) >= At(h, lower - 1)

(* One turn of the loop; it leaves alone an area at which the loop ends.   *)
Grown(h, area) ==
    LET low   == IF GrowsDown(h, area.val, area.vah) THEN area.val - 1 ELSE area.val
        high  == IF GrowsUp(h, area.val, area.vah) THEN area.vah + 1 ELSE area.vah
        gains == (low..high) \ (area.val..area.vah)
    IN  IF Short(h, area.held)
        THEN [val |-> low, vah |-> high, held |-> area.held + Volume(h, gains)]
        ELSE area

(* Every turn takes a level, so there are no more turns than levels.       *)
Levels(h) == Max(DOMAIN h) - Min(DOMAIN h)
Areas(h, poc) ==
    LET area[n \in 0..Levels(h)] ==
            IF n = 0 THEN [val |-> poc, vah |-> poc, held |-> h[poc]]
            ELSE Grown(h, area[n - 1])
    IN  area

ValueArea(h, poc) ==
    LET area == Areas(h, poc)[Levels(h)] IN [val |-> area.val, vah |-> area.vah]

-----------------------------------------------------------------------------
(* build_profile_snapshot, taken at bar number asOf with the last price,   *)
(* and what VolumeProfileSnapshot refuses                                  *)

Snapshot(h, price, asOf) ==
    LET poc  == SelectPoc(h)
        area == ValueArea(h, poc)
    IN  [volume |-> h, price |-> price, asOf |-> asOf,
         poc |-> poc, val |-> area.val, vah |-> area.vah]

SnapshotRefused(p) ==
    \/ p.volume = << >>
    \/ p.poc \notin DOMAIN p.volume
    \/ ~ (p.val <= p.poc /\ p.poc <= p.vah)

(* auction_location, and the place advance gives the developing POC *)
Place(tick, area) == IF tick > area.vah THEN 1 ELSE IF tick < area.val THEN -1 ELSE 0

-----------------------------------------------------------------------------
(* auction_features of the developing profile p against the prior one, if  *)
(* any, and the closes of the session's bars.  Distances are in ticks; the *)
(* code divides them by the local price scale once that is warm, and has   *)
(* None before.                                                            *)

OverlapUnclipped(p, r) ==
    <<Min({p.vah, r.vah}) - Max({p.val, r.val}) + 1,
      Max({p.vah, r.vah}) - Min({p.val, r.val}) + 1>>
OverlapRatio(p, r) ==
    LET shared == Min({p.vah, r.vah}) - Max({p.val, r.val}) + 1
        hull   == Max({p.vah, r.vah}) - Min({p.val, r.val}) + 1
    IN  <<IF shared < 0 THEN 0 ELSE shared, hull>>
Features(p, prior, closes, warm) ==
    LET total  == Total(p.volume)
        scaled == IF warm THEN prior ELSE {}
        out(r) == {t \in DOMAIN p.volume : Place(t, r) # 0}
    IN  [currentPoc   |-> IF warm THEN {p.price - p.poc} ELSE {},
         priorPoc     |-> {p.price - r.poc : r \in scaled},
         fromVah      |-> {p.price - r.vah : r \in scaled},
         fromVal      |-> {p.price - r.val : r \in scaled},
         width        |-> {p.vah - p.val : r \in scaled},
         pocMigration |-> {p.poc - r.poc : r \in scaled},
         midMigration |-> {(p.vah + p.val) - (r.vah + r.val) : r \in scaled},  \* halves
         above        |-> <<Volume(p.volume, {t \in DOMAIN p.volume : t > p.poc}), total>>,
         volumeOutside |-> {<<Volume(p.volume, out(r)), total>> : r \in prior},
         closesOutside |->
            {<<Cardinality({i \in DOMAIN closes : Place(closes[i], r) # 0}), Len(closes)>> :
                r \in {q \in prior : closes # << >>}},
         overlap      |-> {OverlapRatio(p, r) : r \in prior}]

(* the identity and clock guards of auction_features *)
FeaturesRefuseInputs(p, prior) == \E r \in prior : r.asOf >= p.asOf

InUnit(ratio) == 0 <= ratio[1] /\ ratio[1] <= ratio[2]

(* _profile_moments divides an entropy by that of as many equal bins.  For *)
(* equal bins the quotient is 1 up to the rounding of the logarithms and   *)
(* sums, which depends on their number alone; for others it is below 1 by  *)
(* far more than the rounding.                                             *)
EntropyAboveOne(h) ==
    /\ \A t, u \in DOMAIN h : h[t] = h[u]
    /\ Cardinality(DOMAIN h) \in EntropyRoundsUp

(* what AuctionFeatureVector refuses *)
FeaturesRefused(p, f) ==
    \/ \E ratio \in {f.above} \cup f.volumeOutside \cup f.closesOutside \cup f.overlap :
          ~ InUnit(ratio)
    \/ EntropyAboveOne(p.volume)
=============================================================================
