---------------------------- MODULE AvailabilityGate ----------------------------
(***************************************************************************)
(* The point-in-time path of an external dataset: the CFTC release timing  *)
(* policy (data/policies.py) decides from when a raw record may be used,   *)
(* PointInTimeNormalizer.normalize (data/point_in_time.py) checks its      *)
(* clocks, and AvailabilityGate (data/availability_gate.py) withholds it   *)
(* until then.  The caller names the time of every call: nothing makes     *)
(* those times increase, and a record may be submitted long after it       *)
(* became usable.                                                          *)
(*                                                                         *)
(* The loop of release is one step per datum, with the call's time in now. *)
(***************************************************************************)
EXTENDS Integers, Sequences

CONSTANTS
    Raw,      \* the raw records the sources may offer
    Schedule, \* release_schedule: observation date -> official release and exception
    MaxTime   \* bound: the latest time of a call

Time == 0..MaxTime
None == -1    \* Python's None

(* A raw record: its identity (market, date, content stand for the fields  *)
(* of the tie key, numbered in their order) and its clocks.  The manual    *)
(* exception of a schedule entry and the receipt by a vendor may be None.  *)
RawRecord ==
    [market : Nat, date : Nat, content : Nat, release : Nat,
     vendor : Nat \cup {None}, delivery : Nat]

ASSUME GateAssumption ==
    /\ Raw \subseteq RawRecord
    /\ MaxTime \in Nat
    /\ \A d \in DOMAIN Schedule :
          Schedule[d] \in [release : Nat, manual : Nat \cup {None}]

VARIABLES
    pending,        \* _pending: the withheld data
    lineageHashes,  \* _lineage_hashes
    releasedHashes, \* _released_hashes
    events,         \* the events of all releases, in their order
    now             \* the time of the release that is running, or None

vars == <<pending, lineageHashes, releasedHashes, events, now>>

-----------------------------------------------------------------------------
(* the policy and the normalizer *)

LatestOf(times) == CHOOSE t \in times : \A u \in times : u <= t

(* The clocks that hold a record back: its release, its delivery, its      *)
(* vendor receipt when it has one, and a documented exception.             *)
Clocks(r) == {r.release, r.delivery, r.vendor, Schedule[r.date].manual} \ {None}

UsableFromWithoutException(r) == LatestOf({r.release, r.delivery, r.vendor} \ {None})
UsableFrom(r) == LatestOf(Clocks(r))

Scheduled(r) == r.date \in DOMAIN Schedule /\ r.release = Schedule[r.date].release

TimingOrdered(r, retrieved) ==
    /\ {r.delivery, r.release, r.vendor} \subseteq {t \in Int : t <= UsableFrom(r)}
    /\ r.delivery <= retrieved

(* The lineage hash covers neither the market nor the clocks. *)
Lineage(r) == <<r.date, r.content>>

-----------------------------------------------------------------------------
(* the gate *)

(* the order of the heap: usable time, then the tie key *)
Before(d, e) ==
    \/ d.usable < e.usable
    \/ /\ d.usable = e.usable
       /\ \/ d.raw.market < e.raw.market
          \/ d.raw.market = e.raw.market /\ d.raw.date < e.raw.date
          \/ d.raw.market = e.raw.market /\ d.raw.date = e.raw.date
               /\ d.raw.content < e.raw.content

Init ==
    /\ pending = {} /\ lineageHashes = {} /\ releasedHashes = {}
    /\ events = <<>>
    /\ now = None

(* normalize and submit; after is history: the events already released *)
Datum(r) == [raw |-> r, usable |-> UsableFrom(r), after |-> Len(events)]

(* a refused record raises and changes nothing *)
AcceptableAgain(r, retrieved) == Scheduled(r) /\ TimingOrdered(r, retrieved)
Acceptable(r, retrieved) ==
    /\ Scheduled(r) /\ TimingOrdered(r, retrieved)
    /\ Lineage(r) \notin lineageHashes

Submit(r, retrieved) ==
    /\ now = None
    /\ Acceptable(r, retrieved)
    /\ pending' = pending \cup {Datum(r)}
    /\ lineageHashes' = lineageHashes \cup {Lineage(r)}
    /\ UNCHANGED <<releasedHashes, events, now>>

StartRelease(t) ==
    /\ now = None
    /\ now' = t
    /\ UNCHANGED <<pending, lineageHashes, releasedHashes, events>>

DueStrictly(d) == d.usable < now
Due(d) == d.usable <= now

FirstByDate(d) == \A e \in pending \ {d} : d.raw.date <= e.raw.date
First(d) == \A e \in pending \ {d} : Before(d, e)

(* One turn of the loop.  It raises, and loses the datum, when the lineage *)
(* was released before: NeverReleasedTwice shows that it never does.       *)
PopDue(d) ==
    /\ now # None
    /\ Due(d) /\ First(d)
    /\ Lineage(d.raw) \notin releasedHashes
    /\ pending' = pending \ {d}
    /\ releasedHashes' = releasedHashes \cup {Lineage(d.raw)}
    /\ events' = Append(events, [datum |-> d, released |-> now])
    /\ UNCHANGED <<lineageHashes, now>>

EndRelease ==
    /\ now # None
    /\ \A d \in pending : ~Due(d)
    /\ now' = None
    /\ UNCHANGED <<pending, lineageHashes, releasedHashes, events>>

Next ==
    \/ \E r \in Raw, t \in Time : Submit(r, t)
    \/ \E t \in Time : StartRelease(t)
    \/ \E d \in pending : PopDue(d)
    \/ EndRelease

Spec == Init /\ [][Next]_vars

(* A call of release is one loop on the caller's thread: once entered it   *)
(* runs to its end.  Nothing obliges a caller to submit or to release.     *)
FairSpec == Spec /\ WF_vars(\E d \in pending : PopDue(d)) /\ WF_vars(EndRelease)

-----------------------------------------------------------------------------
(* Properties *)

DatumType == [raw : Raw, usable : Nat, after : Nat]

(* The withheld data and the events are normalised records of the sources. *)
TypeOK ==
    /\ pending \subseteq DatumType
    /\ lineageHashes \subseteq {Lineage(r) : r \in Raw}
    /\ releasedHashes \subseteq lineageHashes
    /\ events \in Seq([datum : DatumType, released : Time])
    /\ now \in Time \cup {None}

(* "may be used" means every clock has passed: no event is released before *)
(* the official release of its report, its delivery, its vendor receipt or *)
(* the documented exception of its schedule entry.                         *)
NeverEarly ==
    \A i \in DOMAIN events :
        LET r == events[i].datum.raw
        IN  /\ r.date \in DOMAIN Schedule
            /\ \A t \in {r.release, r.delivery, r.vendor, Schedule[r.date].release,
                         Schedule[r.date].manual} : t <= events[i].released

(* Every accepted datum is withheld or released, exactly one of the two,   *)
(* and released once: the raise inside the loop of release is unreachable. *)
NeverReleasedTwice ==
    /\ \A i, j \in DOMAIN events :
          Lineage(events[i].datum.raw) = Lineage(events[j].datum.raw) => i = j
    /\ \A d, e \in pending : Lineage(d.raw) = Lineage(e.raw) => d = e
    /\ \A d \in pending : Lineage(d.raw) \notin releasedHashes
    /\ lineageHashes = releasedHashes \cup {Lineage(d.raw) : d \in pending}

(* The order of the events is that of usable times and then of tie keys,   *)
(* whatever the order of the submissions and however the releases split    *)
(* them, except that a datum submitted after an event was released comes   *)
(* after it.                                                               *)
ReleasedInOrder ==
    \A i, j \in DOMAIN events :
        (i < j /\ events[j].datum.after < i) => Before(events[i].datum, events[j].datum)

Released(r) == \E i \in DOMAIN events : events[i].datum.raw = r

(* A release leaves nothing usable behind: a record withheld when a call   *)
(* of release begins, and usable by the time of that call, becomes an      *)
(* event, however many others are popped before it; the call returns.      *)
ReleaseDrains ==
    /\ \A r \in Raw :
          (\E d \in pending : d.raw = r /\ UsableFrom(r) <= now) ~> Released(r)
    /\ (now # None) ~> (now = None)
=============================================================================
