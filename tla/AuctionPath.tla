------------------------------ MODULE AuctionPath ------------------------------
(***************************************************************************)
(* The publication path of measurement/stream.py from trades to events:    *)
(* the completed bars of successive sessions of one type build the session *)
(* histogram; at each bar the developing Profile is read off it, the close *)
(* and the POC are placed against the final Profile of the session before, *)
(* the AuctionTransitionEngine advances, and the features are computed.    *)
(* Places are inputs of AuctionTransition and are results here.            *)
(***************************************************************************)
EXTENDS AuctionTransition, ProfileReadings

CONSTANTS
    Openings,   \* histograms the first bar of the first session may hold
    Bars,       \* [volume, close]: the volume a later bar adds, its close
    AtrWindow,  \* bars after which the local price scale is warm, 24 in the code
    SessionBars \* bound: bars of each session

ASSUME PathAssumption ==
    /\ AtrWindow \in Nat
    /\ SessionBars \in Seq(Nat) /\ Len(SessionBars) = MaxSessions
    /\ \A h \in Openings : Histogram(h)
    /\ \A bar \in Bars : Histogram(bar.volume) /\ bar.close \in DOMAIN bar.volume

VARIABLES
    volume,     \* _session_histogram of the session's Profile
    closes,     \* closes of the session's bars in _five_bars
    reference,  \* the final Profile of the session before, if any
    raised      \* a record or a reading was refused and the algorithm has ended

pathVars == <<vars, volume, closes, reference, raised>>

PathInit ==
    /\ Init
    /\ volume = << >>
    /\ closes = << >>
    /\ reference = {}
    /\ raised = FALSE

Merge(h, g) == [t \in DOMAIN h \cup DOMAIN g |-> At(h, t) + At(g, t)]

(* _finalize_current_profile at a session change; what the next sessions   *)
(* read of a final Profile is its POC and value area.                      *)
FinalProfile ==
    LET final == Snapshot(volume, closes[Len(closes)], time)
    IN  [poc |-> final.poc, val |-> final.val, vah |-> final.vah, asOf |-> final.asOf]

(* _publish_auction raises after the trades are in the histogram and       *)
(* before an event is created; the engines are not read any more.          *)
Refused(p, prior_, closes_) ==
    \/ SnapshotRefused(p)
    \/ FeaturesRefuseInputs(p, prior_)
    \/ FeaturesRefused(p, Features(p, prior_, closes_, time + 1 > AtrWindow))

RaiseAtPublication ==
    /\ raised' = TRUE
    /\ UNCHANGED <<vars, closes, reference>>

(* the bars of the session among those kept, when its first one closes *)
FirstClosesOfAnySession(bar) == Append(closes, bar.close)
FirstCloses(bar) == <<bar.close>>

(* the first bar of a session, the final Profile of the last taken before *)
OpenSession(bar) ==
    LET prior_ == IF session = 0 THEN {} ELSE {FinalProfile}
        p      == Snapshot(bar.volume, bar.close, time + 1)
    IN  /\ ~ raised /\ session < MaxSessions
        /\ session > 0 => Len(closes) = SessionBars[session]
        /\ volume' = bar.volume
        /\ IF Refused(p, prior_, FirstCloses(bar))
           THEN RaiseAtPublication
           ELSE /\ closes' = FirstCloses(bar)
                /\ reference' = prior_
                /\ IF prior_ = {} THEN FirstBar(FALSE, NoReference, 0)
                   ELSE FirstBar(TRUE, Place(bar.close, FinalProfile), Place(p.poc, FinalProfile))
                /\ UNCHANGED raised

(* a later bar of the session *)
AddBar(bar) ==
    LET p == Snapshot(Merge(volume, bar.volume), bar.close, time + 1)
    IN  /\ ~ raised /\ session > 0 /\ Len(closes) < SessionBars[session]
        /\ volume' = p.volume
        /\ IF Refused(p, reference, Append(closes, bar.close))
           THEN RaiseAtPublication
           ELSE /\ closes' = Append(closes, bar.close)
                /\ IF reference = {} THEN NextBar(NoReference, 0)
                   ELSE \E r \in reference : NextBar(Place(bar.close, r), Place(p.poc, r))
                /\ UNCHANGED <<reference, raised>>

PathNext ==
    \/ /\ session = 0
       /\ \E h \in Openings : \E close \in DOMAIN h : OpenSession([volume |-> h, close |-> close])
    \/ /\ session > 0
       /\ \E bar \in Bars : OpenSession(bar)
    \/ \E bar \in Bars : AddBar(bar)

PathSpec == PathInit /\ [][PathNext]_pathVars

-----------------------------------------------------------------------------
(* Properties *)

Held(h, area) == Volume(h, area.val..area.vah)

(* h falls away from its POC on both sides. *)
Unimodal(h, poc) ==
    \A t \in Min(DOMAIN h)..Max(DOMAIN h) :
        /\ t < poc => At(h, t) <= At(h, t + 1)
        /\ t > poc => At(h, t) <= At(h, t - 1)

Mirror(h) == [t \in {- u : u \in DOMAIN h} |-> h[- t]]

(* The value area of every histogram a session may have holds the POC and  *)
(* 70 % of the volume, and what it was before its last growth did not.  On *)
(* a histogram that falls away from the POC no interval that holds 70 % is *)
(* shorter by more than the level a tie adds.  Ties grow both sides, so it *)
(* has no preferred direction: mirrored volume has the mirrored area.      *)
ValueAreaIsTight ==
    volume # << >> =>
        LET poc  == SelectPoc(volume)
            area == ValueArea(volume, poc)
            back == ValueArea(Mirror(volume), - poc)
            smaller == {inner \in [val : {area.val, area.val + 1}, vah : {area.vah - 1, area.vah}] :
                           inner # area /\ inner.val <= poc /\ poc <= inner.vah}
        IN  /\ area.val <= poc /\ poc <= area.vah
            /\ ~ Short(volume, Held(volume, area))
            /\ area.val < area.vah => \E inner \in smaller : Short(volume, Held(volume, inner))
            /\ Unimodal(volume, poc) =>
                 \A low, high \in Min(DOMAIN volume)..Max(DOMAIN volume) :
                    (low <= poc /\ poc <= high /\ high - low + 1 < area.vah - area.val) =>
                        Short(volume, Held(volume, [val |-> low, vah |-> high]))
            /\ back = [val |-> - area.vah, vah |-> - area.val]

(* Nothing the records refuse is ever computed, with one exception: the    *)
(* entropy of equal bins, which rounding may put above 1.                  *)
OnlyEqualBinsRaise == raised => EntropyAboveOne(volume)

(* The engine and the features count over the same bars: the engine's      *)
(* number of consecutive bars outside value is the length of the run of    *)
(* outside closes that ends the session so far.                            *)
OutsideBarsAgree ==
    \A r \in reference :
        LET last  == Len(closes)
            out   == {i \in DOMAIN closes : Place(closes[i], r) # 0}
            inner == {0} \cup (DOMAIN closes \ out)
        IN  outsideBars = last - Max(inner)
===============================================================================
