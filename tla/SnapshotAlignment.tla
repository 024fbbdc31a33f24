--------------------------- MODULE SnapshotAlignment ---------------------------
(***************************************************************************)
(* The SnapshotAligner of measurement/events.py, with the part of          *)
(* MeasurementStream._process_due_bars that feeds it and the candidate     *)
(* events made from its answers.  A closing trade completes a fast bar, a  *)
(* medium bar, or both; the bars of one closing share its availability.    *)
(*                                                                         *)
(* A snapshot is abstracted to its clocks, its session, its readiness, and *)
(* the gap whose first retest an IAE snapshot is.  Which gaps a bar        *)
(* retests and which inputs are ready is free.                             *)
(***************************************************************************)
EXTENDS Integers, Sequences, FiniteSets, SequencesExt

CONSTANTS
    MediumBars,   \* fast bars in a medium bar, 6 in the code
    SessionEnds,  \* ends of the sessions; a session starts at the end of the last
    MaxTime,      \* bound: the latest availability
    MaxLag,       \* bound: the delay from the end of a bar to the trade that closes it
    Gaps,         \* gaps a bar may retest, numbered as they formed
    Faulty,       \* the inputs that may be unready: components and "Auction"
    MaxHistory,   \* _MAX_ALIGNMENT_HISTORY, 512 in the code
    IcmWindow,    \* medium bars ICM needs before its first snapshot, 70 in the code
    Distinct      \* whether two closings never share one availability

ASSUME AlignmentAssumption ==
    /\ MediumBars \in Nat \ {0} /\ MaxTime \in Nat /\ MaxLag \in Nat
    /\ SessionEnds \subseteq Nat \ {0}
    /\ \E e \in SessionEnds : \A f \in SessionEnds : f <= e
    /\ MaxHistory \in Nat \ {0} /\ IcmWindow \in Nat
    \* one bar retests no more gaps than can be alive, 48 in the code: at most
    \* one forms per bar and each lives 48 bars
    /\ Gaps \subseteq Nat \ {0} /\ IsFiniteSet(Gaps) /\ Cardinality(Gaps) < MaxHistory
    /\ Distinct \in BOOLEAN

Components == {"IMSI", "ICM", "IAE"}

None  == 0          \* Python's None for a clock; a bar ends after 0
NoGap == 0
NoSnapshot == [asOf |-> None, available |-> None, session |-> None, ready |-> FALSE,
               gap |-> NoGap, bar |-> FALSE]

VARIABLES
    deques,     \* _imsi, _icm, _iae: per component, the retained snapshots
    closed,     \* the latest end of a bar closed; the trades that follow are no
                \* earlier (a rejected one may be: see MeasurementStream)
    openMedium, \* the end of the medium bar still open; None when there is none
    mediums,    \* number of medium bars so far
    available,  \* the availability of the last closing
    retested,   \* gaps a bar has retested: each is reported once
    aligned,    \* the alignments the last closing published
    events,     \* what the candidate events of the last closing are bound to: one
                \* per first retest, and one, without a parent, for its triggers
    recorded    \* history: per component, the clocks of every snapshot ever added

vars == <<deques, closed, openMedium, mediums, available, retested, aligned,
          events, recorded>>

-----------------------------------------------------------------------------
(* Clocks: fast bars are numbered by their ends. *)

LastEnd == CHOOSE e \in SessionEnds : \A f \in SessionEnds : f <= e

(* the session of a bar, named by its end *)
SessionOf(end) == CHOOSE s \in SessionEnds : end <= s /\ \A r \in SessionEnds : end <= r => s <= r

SessionStart(session) ==
    CHOOSE s \in SessionEnds \cup {0} :
        s < session /\ \A r \in SessionEnds : r < session => r <= s

(* the end of the medium bar a fast bar is in, None in the session's tail *)
MediumEnd(end) ==
    LET start == SessionStart(SessionOf(end))
        last  == start + MediumBars * ((end - start - 1) \div MediumBars + 1)
    IN  IF last > SessionOf(end) THEN None ELSE last

-----------------------------------------------------------------------------
(* SnapshotAligner *)

(* append to a deque of bounded length *)
Retain(deque, snapshots) ==
    LET all == deque \o snapshots
    IN  IF Len(all) <= MaxHistory THEN all
        ELSE SubSeq(all, Len(all) - MaxHistory + 1, Len(all))

EligibleAnySession(snapshot, session, at) == snapshot.available <= at
Eligible(snapshot, session, at) ==
    /\ snapshot.session = session
    /\ snapshot.available <= at

(* max(eligible, key=available_at): Python returns the first of the maxima *)
LatestEligible(deque, session, at) ==
    LET eligible == {i \in 1..Len(deque) : Eligible(deque[i], session, at)}
        newest == {i \in eligible : \A j \in eligible : deque[j].available <= deque[i].available}
    IN  IF eligible = {} THEN NoSnapshot
        ELSE deque[CHOOSE i \in newest : \A j \in newest : i <= j]

MaximumAge(component) == IF component = "IAE" THEN 1 ELSE MediumBars

FreshEver(snapshot, asOf, component) == snapshot # NoSnapshot
Fresh(snapshot, asOf, component) ==
    /\ snapshot # NoSnapshot
    /\ asOf - snapshot.asOf \in 0..MaximumAge(component)

(* align; override is the IAE snapshot the caller names, or NoSnapshot *)
Align(seen, asOf, at, auctionReady, override) ==
    LET session == SessionOf(asOf)
        chosen  == [c \in Components |->
                      IF c = "IAE" /\ override # NoSnapshot THEN override
                      ELSE LatestEligible(seen[c], session, at)]
    IN  [asOf |-> asOf, at |-> at, session |-> session, chosen |-> chosen,
         named |-> override # NoSnapshot,
         ready |-> /\ auctionReady
                   /\ \A c \in Components : Fresh(chosen[c], asOf, c) /\ chosen[c].ready]

-----------------------------------------------------------------------------
(* _process_due_bars and _publish_auction *)

Init ==
    /\ deques = [c \in Components |-> <<>>]
    /\ closed = None /\ openMedium = None /\ mediums = 0
    /\ available = None
    /\ retested = {} /\ aligned = {} /\ events = {}
    /\ recorded = [c \in Components |-> {}]

(* The IAE snapshots of a bar in the order they are recorded: the bar's,   *)
(* then one per first retest.  The last of these is the bar's own snapshot *)
(* when the gap is the selected one and nothing else changed.              *)
IaeSnapshots(end, at, ready, gaps, settled) ==
    LET Snapshot(gap, bar) == [asOf |-> end, available |-> at, session |-> SessionOf(end),
                               ready |-> ready, gap |-> gap, bar |-> bar]
        others == IF settled THEN SubSeq(gaps, 1, Len(gaps) - 1) ELSE gaps
    IN  <<Snapshot(IF settled THEN Last(gaps) ELSE NoGap, TRUE)>>
          \o [i \in 1..Len(others) |-> Snapshot(others[i], FALSE)]

(* IMSI needs the close of an earlier bar, ICM a full window. *)
MediumSnapshots(component, end, at, ready) ==
    IF mediums < (IF component = "IMSI" THEN 1 ELSE IcmWindow - 1) THEN <<>>
    ELSE <<[asOf |-> end, available |-> at, session |-> SessionOf(end), ready |-> ready,
            gap |-> NoGap, bar |-> TRUE]>>

AddMedium(before, end, at, unready) ==
    [c \in Components |->
       IF c = "IAE" THEN before[c]
       ELSE Retain(before[c], MediumSnapshots(c, end, at, c \notin unready))]

(* what the aligner holds when the Auction snapshot of a bar is published: *)
(* boundaries are taken in order, so a medium bar is fed before the fast   *)
(* bar it ends with is published, and after a fast bar that ends earlier   *)
SeenAfterFast(withFast, withMedium, end) == withFast
SeenWhenPublished(withFast, withMedium, end) ==
    IF MediumEnd(end) = end THEN withMedium ELSE withFast

(* the snapshot a first retest refers to by its identity *)
BarSnapshot(iae, gap) == iae[1]
ExactSnapshot(iae, gap) ==
    iae[CHOOSE i \in 1..Len(iae) : iae[i].gap = gap]

Publish(seen, end, at, auctionReady, iae, gaps) ==
    LET plain == Align(seen, end, at, auctionReady, NoSnapshot)
        own(gap) == Align(seen, end, at, auctionReady, ExactSnapshot(iae, gap))
    IN  /\ aligned' = {plain} \cup {own(gap) : gap \in Range(gaps)}
        /\ events' =
             {[time |-> end, parent |-> gap, synergy |-> own(gap)] : gap \in Range(gaps)}
               \cup {[time |-> end, parent |-> NoGap, synergy |-> plain]}

Clocks(deque) == {[asOf |-> s.asOf, available |-> s.available] : s \in Range(deque)}

(* A trade available at `at` closes the fast bar that ends at `end`, and   *)
(* the medium bar it is in when the trade is past that one too.            *)
FastBarCloses(end, at, unready, gaps, settled, both) ==
    LET iae        == IaeSnapshots(end, at, "IAE" \notin unready, gaps, settled)
        withFast   == [deques EXCEPT !["IAE"] = Retain(@, iae)]
        withMedium == IF both THEN AddMedium(withFast, MediumEnd(end), at, unready) ELSE withFast
    IN  /\ closed < end /\ at \in end..(end + MaxLag)
        /\ IF Distinct THEN available < at ELSE available <= at
        /\ openMedium \in {None, MediumEnd(end)}
        /\ both => MediumEnd(end) \in 1..at
        /\ MediumEnd(end) = end => both
        /\ Range(gaps) \cap retested = {}
        /\ settled => gaps # <<>>
        /\ Publish(SeenWhenPublished(withFast, withMedium, end), end, at,
                   "Auction" \notin unready, iae, gaps)
        /\ deques' = withMedium
        /\ recorded' = [c \in Components |-> recorded[c] \cup Clocks(withMedium[c])]
        /\ mediums' = IF both THEN mediums + 1 ELSE mediums
        /\ openMedium' = IF both THEN None ELSE MediumEnd(end)
        /\ closed' = IF both THEN MediumEnd(end) ELSE end
        /\ available' = at
        /\ retested' = retested \cup Range(gaps)

(* The medium bar closes after the last fast bar in it; nothing is published. *)
MediumBarCloses(at, unready) ==
    /\ openMedium # None /\ at \in openMedium..(openMedium + MaxLag)
    /\ IF Distinct THEN available < at ELSE available <= at
    /\ deques' = AddMedium(deques, openMedium, at, unready)
    /\ recorded' = [c \in Components |-> recorded[c] \cup Clocks(deques'[c])]
    /\ mediums' = mediums + 1
    /\ openMedium' = None
    /\ closed' = openMedium
    /\ available' = at
    /\ aligned' = {} /\ events' = {}
    /\ UNCHANGED retested

(* the gaps a bar retests for the first time, in the order they formed *)
Retests ==
    {gaps \in UNION {[1..n -> Gaps] : n \in 0..Cardinality(Gaps)} :
        \A i, j \in DOMAIN gaps : i < j => gaps[i] < gaps[j]}

Next ==
    \E at \in 1..MaxTime, unready \in SUBSET Faulty :
        \/ \E end \in 1..LastEnd, gaps \in Retests, settled, both \in BOOLEAN :
              FastBarCloses(end, at, unready, gaps, settled, both)
        \/ MediumBarCloses(at, unready)

Spec == Init /\ [][Next]_vars

-----------------------------------------------------------------------------
(* Properties *)

(* "the latest component snapshots available by time T": an alignment uses *)
(* a snapshot of its own session that was available by its time, none of   *)
(* those ever recorded is about a later bar, and it goes without one only  *)
(* when there was none: what the bounded deque dropped never counted.      *)
AlignsLatest ==
    \A y \in aligned : \A c \in Components :
        LET known == {s \in recorded[c] : SessionOf(s.asOf) = y.session
                                             /\ s.available <= y.at /\ s.asOf <= y.asOf}
        IN  IF known = {} THEN y.chosen[c] = NoSnapshot
            ELSE /\ y.chosen[c].asOf \in {s.asOf : s \in known}
                 /\ \A s \in known : s.asOf <= y.chosen[c].asOf

(* An alignment that is ready is current: it used the IAE snapshot of its  *)
(* own bar, and the IMSI and the ICM snapshot of one medium bar, the last  *)
(* one of the session that had ended by the end of its bar.                *)
ReadyIsCurrent ==
    \A y \in aligned :
        y.ready =>
            /\ y.chosen["IAE"].asOf = y.asOf
            /\ y.chosen["IMSI"].asOf = y.chosen["ICM"].asOf
            /\ y.asOf - y.chosen["IMSI"].asOf = (y.asOf - SessionStart(y.session)) % MediumBars

(* However many gaps one bar retests, every first retest is bound to the   *)
(* snapshot of its own gap at its own bar, and every other event of the    *)
(* bar to the snapshot of the whole bar.                                   *)
EventsNameTheirOwnSnapshot ==
    \A e \in events :
        LET iae == e.synergy.chosen["IAE"]
        IN  /\ iae.asOf = e.time
            /\ IF e.parent = NoGap THEN iae.bar ELSE iae.gap = e.parent
=============================================================================
