------------------------ MODULE AvailabilityGateProofs ------------------------
(***************************************************************************)
(* The properties of AvailabilityGate proved for every set of raw records, *)
(* every release schedule and every sequence of calls.                     *)
(*                                                                         *)
(* The inductive invariant adds what the code knows of a withheld datum:   *)
(* its usable time bounds all its clocks (Dated), the released hashes are  *)
(* those of the events (HashesOfEvents), and it is behind every event      *)
(* released since its submission (PendingFollow).                          *)
(***************************************************************************)
EXTENDS AvailabilityGate, SequenceTheorems, TLAPS

(* the usable time of a datum bounds all its clocks *)
Dated(d) ==
    /\ d.raw.date \in DOMAIN Schedule
    /\ d.raw.release = Schedule[d.raw.date].release
    /\ \A t \in {d.raw.release, d.raw.delivery, d.raw.vendor, Schedule[d.raw.date].manual} :
          t <= d.usable

HashesOfEvents == releasedHashes = {Lineage(events[i].datum.raw) : i \in DOMAIN events}

PendingFollow ==
    \A d \in pending :
        /\ d.after <= Len(events)
        /\ \A i \in DOMAIN events : d.after < i => Before(events[i].datum, d)

Inv ==
    /\ TypeOK
    /\ \A d \in pending : Dated(d)
    /\ HashesOfEvents
    /\ PendingFollow
    /\ NeverEarly
    /\ NeverReleasedTwice
    /\ ReleasedInOrder

-----------------------------------------------------------------------------
(* Operators *)

(* The usable time of a scheduled record is one of its clocks, and none of *)
(* them is later, a clock that is None included.                           *)
LEMMA UsableBoundsClocks ==
    ASSUME NEW r \in Raw, r.date \in DOMAIN Schedule
    PROVE  /\ UsableFrom(r) \in Nat
           /\ \A t \in {r.release, r.delivery, r.vendor, Schedule[r.date].manual} :
                 t <= UsableFrom(r)
<1>. DEFINE m == Schedule[r.date].manual
<1>1. r.release \in Nat /\ r.delivery \in Nat /\ r.vendor \in Nat \cup {-1} /\ m \in Nat \cup {-1}
  <2>1. r \in RawRecord /\ Schedule[r.date] \in [release : Nat, manual : Nat \cup {None}]
    BY GateAssumption
  <2>. QED  BY <2>1 DEF RawRecord, None
<1>2. Clocks(r) = {r.release, r.delivery, r.vendor, m} \ {-1}
  BY DEF Clocks, None
<1>. HIDE DEF m
<1>3. \E t \in Clocks(r) : \A u \in Clocks(r) : u <= t
  <2>. DEFINE a == IF r.delivery <= r.release THEN r.release ELSE r.delivery
              b == IF r.vendor <= a THEN a ELSE r.vendor
              c == IF m <= b THEN b ELSE m
  <2>1. a \in Nat /\ r.release <= a /\ r.delivery <= a /\ a \in {r.release, r.delivery}
    BY <1>1
  <2>. HIDE DEF a
  <2>2. b \in Nat /\ a <= b /\ r.vendor <= b /\ b \in {a, r.vendor}
    BY <1>1, <2>1
  <2>. HIDE DEF b
  <2>3. c \in Nat /\ b <= c /\ m <= c /\ c \in {b, m}
    BY <1>1, <2>2
  <2>. HIDE DEF c
  <2>4. c \in Clocks(r)
    BY <1>2, <2>1, <2>2, <2>3
  <2>5. r.release <= c /\ r.delivery <= c /\ r.vendor <= c /\ m <= c
    BY <1>1, <2>1, <2>2, <2>3
  <2>. QED  BY <1>2, <2>4, <2>5
<1>4. UsableFrom(r) \in Clocks(r) /\ \A u \in Clocks(r) : u <= UsableFrom(r)
  BY <1>3 DEF UsableFrom, LatestOf
<1>5. UsableFrom(r) \in Nat
  BY <1>1, <1>2, <1>4
<1>6. \A t \in {r.release, r.delivery, r.vendor, m} : t <= UsableFrom(r)
  BY <1>1, <1>2, <1>4, <1>5
<1>. QED  BY <1>5, <1>6 DEF m

-----------------------------------------------------------------------------
(* One lemma per step *)

(* An empty gate satisfies the invariant.                                  *)
LEMMA InitInv == Init => Inv
<1>. SUFFICES ASSUME Init PROVE Inv
  OBVIOUS
<1>1. DOMAIN events = {} /\ Len(events) = 0 /\ events \in Seq([datum : DatumType, released : Time])
  BY DEF Init
<1>. QED
  BY <1>1 DEF Init, Inv, TypeOK, HashesOfEvents, PendingFollow, NeverEarly,
              NeverReleasedTwice, ReleasedInOrder

(* A submitted datum waits for every one of its clocks, and its lineage is *)
(* remembered.                                                             *)
LEMMA SubmitInv ==
    ASSUME Inv, NEW r \in Raw, NEW t \in Time, Submit(r, t)
    PROVE  Inv'
<1>. USE DEF Inv
<1>. DEFINE new == Datum(r)
<1>1. r.date \in DOMAIN Schedule /\ r.release = Schedule[r.date].release
  BY DEF Submit, Acceptable, Scheduled
<1>2. /\ pending' = pending \cup {new} /\ lineageHashes' = lineageHashes \cup {Lineage(r)}
      /\ releasedHashes' = releasedHashes /\ events' = events /\ now' = now
      /\ Lineage(r) \notin lineageHashes
  BY DEF Submit, Acceptable
<1>3. Len(events) \in Nat /\ DOMAIN events = 1..Len(events)
  BY DEF TypeOK
<1>4. new \in DatumType /\ new.raw = r /\ new.usable = UsableFrom(r) /\ new.after = Len(events)
  BY <1>1, <1>3, UsableBoundsClocks DEF Datum, DatumType
<1>5. Dated(new)
  BY <1>1, <1>4, UsableBoundsClocks DEF Dated
<1>. HIDE DEF new
<1>6. TypeOK'
  BY <1>2, <1>4 DEF TypeOK
<1>7. \A d \in pending' : Dated(d)
  BY <1>2, <1>5
<1>8. PendingFollow'
  BY <1>2, <1>3, <1>4 DEF PendingFollow
<1>9. NeverReleasedTwice'
  <2>1. \A d \in pending' : Lineage(d.raw) \notin releasedHashes
    BY <1>2, <1>4 DEF NeverReleasedTwice
  <2>2. lineageHashes' = releasedHashes \cup {Lineage(d.raw) : d \in pending'}
    BY <1>2, <1>4 DEF NeverReleasedTwice
  <2>3. \A d \in pending : Lineage(d.raw) # Lineage(r)
    BY <1>2 DEF NeverReleasedTwice
  <2>4. \A d, e \in pending' : Lineage(d.raw) = Lineage(e.raw) => d = e
    BY <1>2, <1>4, <2>3 DEF NeverReleasedTwice
  <2>. QED  BY <2>1, <2>2, <2>4, <1>2 DEF NeverReleasedTwice
<1>10. HashesOfEvents' /\ NeverEarly' /\ ReleasedInOrder'
  BY <1>2 DEF HashesOfEvents, NeverEarly, ReleasedInOrder
<1>11. \A d \in pending' : Dated(d)'
  BY <1>7 DEF Dated
<1>. QED  BY <1>6, <1>8, <1>9, <1>10, <1>11

(* A turn of the release loop emits the first due datum, not early, not    *)
(* again, and in order after those it was pending with.                    *)
LEMMA PopDueInv ==
    ASSUME Inv, NEW d \in pending, PopDue(d)
    PROVE  Inv'
<1>. USE DEF Inv
<1>. DEFINE e == [datum |-> d, released |-> now]
            n == Len(events)
<1>1. /\ pending' = pending \ {d} /\ releasedHashes' = releasedHashes \cup {Lineage(d.raw)}
      /\ events' = Append(events, e) /\ lineageHashes' = lineageHashes /\ now' = now
      /\ now \in Time /\ d.usable <= now /\ First(d)
      /\ Lineage(d.raw) \notin releasedHashes
  BY DEF PopDue, Due, TypeOK
<1>2. /\ d \in DatumType /\ e \in [datum : DatumType, released : Time]
      /\ e.datum = d /\ e.released = now
  BY <1>1 DEF TypeOK
<1>. HIDE DEF e
<1>3. /\ n \in Nat /\ DOMAIN events = 1..n
      /\ events' \in Seq([datum : DatumType, released : Time])
      /\ DOMAIN events' = 1..(n + 1) /\ Len(events') = n + 1
      /\ events'[n + 1] = e
      /\ \A i \in 1..n : events'[i] = events[i]
  BY <1>1, <1>2 DEF TypeOK
<1>. HIDE DEF n
<1>4. HashesOfEvents'
  <2>1. {Lineage(events'[i].datum.raw) : i \in 1..(n + 1)} =
          {Lineage(events'[i].datum.raw) : i \in 1..n} \cup {Lineage(events'[n + 1].datum.raw)}
    <3>1. 1..(n + 1) = 1..n \cup {n + 1}
      BY <1>3
    <3>. QED  BY <3>1
  <2>2. {Lineage(events'[i].datum.raw) : i \in 1..n} = {Lineage(events[i].datum.raw) : i \in 1..n}
    BY <1>3
  <2>. QED  BY <1>1, <1>2, <1>3, <2>1, <2>2 DEF HashesOfEvents
<1>5. TypeOK'
  <2>1. Lineage(d.raw) \in lineageHashes
    BY DEF NeverReleasedTwice
  <2>. QED  BY <1>1, <1>3, <2>1 DEF TypeOK
<1>6. \A x \in pending' : Dated(x)'
  BY <1>1 DEF Dated
<1>7. PendingFollow'
  <2>. SUFFICES ASSUME NEW x \in pending \ {d}
                PROVE  /\ x.after <= n + 1
                       /\ \A i \in 1..(n + 1) : x.after < i => Before(events'[i].datum, x)
    BY <1>1, <1>3 DEF PendingFollow
  <2>1. x.after <= n /\ \A i \in 1..n : x.after < i => Before(events[i].datum, x)
    BY <1>3 DEF PendingFollow, n
  <2>2. x.after \in Nat
    BY DEF TypeOK, DatumType
  <2>3. Before(d, x)
    BY <1>1 DEF First
  <2>4. \A i \in 1..n : x.after < i => Before(events'[i].datum, x)
    BY <1>3, <2>1
  <2>5. Before(events'[n + 1].datum, x)
    BY <1>2, <1>3, <2>3
  <2>. QED  BY <1>3, <2>1, <2>2, <2>4, <2>5
<1>8. NeverEarly'
  <2>1. \A i \in 1..n : /\ events'[i].datum.raw = events[i].datum.raw
                        /\ events'[i].released = events[i].released
    BY <1>3
  <2>2. Dated(d)
    OBVIOUS
  <2>3. /\ d.raw.release \in Int /\ d.raw.delivery \in Int /\ d.raw.vendor \in Int
        /\ Schedule[d.raw.date].manual \in Int /\ d.usable \in Int /\ now \in Int
    <3>1. d.raw \in RawRecord /\ d.usable \in Nat
      BY <1>2, GateAssumption DEF DatumType
    <3>2. Schedule[d.raw.date] \in [release : Nat, manual : Nat \cup {None}]
      BY <2>2, GateAssumption DEF Dated
    <3>. QED  BY <1>1, <3>1, <3>2, GateAssumption DEF RawRecord, None, Time
  <2>4. /\ d.raw.date \in DOMAIN Schedule
        /\ \A t \in {d.raw.release, d.raw.delivery, d.raw.vendor,
                     Schedule[d.raw.date].release, Schedule[d.raw.date].manual} : t <= now
    BY <1>1, <2>2, <2>3 DEF Dated
  <2>. QED  BY <1>2, <1>3, <2>1, <2>4 DEF NeverEarly
<1>9. NeverReleasedTwice'
  <2>1. \A i, j \in 1..(n + 1) :
           Lineage(events'[i].datum.raw) = Lineage(events'[j].datum.raw) => i = j
    <3>1. \A i \in 1..n : Lineage(events'[i].datum.raw) # Lineage(d.raw)
      BY <1>1, <1>3 DEF HashesOfEvents
    <3>2. \A i, j \in 1..n :
             Lineage(events'[i].datum.raw) = Lineage(events'[j].datum.raw) => i = j
      BY <1>3 DEF NeverReleasedTwice
    <3>. QED  BY <1>2, <1>3, <3>1, <3>2
  <2>2. \A x \in pending \ {d} : Lineage(x.raw) # Lineage(d.raw)
    BY DEF NeverReleasedTwice
  <2>3. \A x \in pending' : Lineage(x.raw) \notin releasedHashes'
    BY <1>1, <2>2 DEF NeverReleasedTwice
  <2>4. lineageHashes' = releasedHashes' \cup {Lineage(x.raw) : x \in pending'}
    BY <1>1 DEF NeverReleasedTwice
  <2>5. \A x, y \in pending' : Lineage(x.raw) = Lineage(y.raw) => x = y
    BY <1>1 DEF NeverReleasedTwice
  <2>. QED  BY <1>3, <2>1, <2>3, <2>4, <2>5 DEF NeverReleasedTwice
<1>10. ReleasedInOrder'
  <2>. SUFFICES ASSUME NEW i \in 1..(n + 1), NEW j \in 1..(n + 1), i < j,
                       events'[j].datum.after < i
                PROVE  Before(events'[i].datum, events'[j].datum)
    BY <1>3 DEF ReleasedInOrder
  <2>1. i \in 1..n
    BY <1>3
  <2>2. CASE j = n + 1
    BY <1>2, <1>3, <2>1, <2>2 DEF PendingFollow
  <2>3. CASE j # n + 1
    <3>1. j \in 1..n
      BY <1>3, <2>3
    <3>. QED  BY <1>3, <2>1, <3>1 DEF ReleasedInOrder
  <2>. QED  BY <2>2, <2>3
<1>. QED  BY <1>4, <1>5, <1>6, <1>7, <1>8, <1>9, <1>10
(* Every step keeps the invariant.                                         *)
LEMMA NextInv == Inv /\ [Next]_vars => Inv'
<1>. SUFFICES ASSUME Inv, [Next]_vars PROVE Inv'
  OBVIOUS
<1>1. ASSUME NEW r \in Raw, NEW t \in Time, Submit(r, t) PROVE Inv'
  BY <1>1, SubmitInv
<1>2. ASSUME NEW d \in pending, PopDue(d) PROVE Inv'
  BY <1>2, PopDueInv
<1>3. ASSUME /\ UNCHANGED <<pending, lineageHashes, releasedHashes, events>>
             /\ now' \in Time \cup {None}
      PROVE  Inv'
  BY <1>3 DEF Inv, TypeOK, Dated, HashesOfEvents, PendingFollow, NeverEarly,
              NeverReleasedTwice, ReleasedInOrder
<1>4. ASSUME NEW t \in Time, StartRelease(t) PROVE Inv'
  BY <1>3, <1>4 DEF StartRelease
<1>5. CASE EndRelease
  BY <1>3, <1>5 DEF EndRelease
<1>6. CASE UNCHANGED vars
  BY <1>3, <1>6 DEF vars, Inv, TypeOK
<1>. QED  BY <1>1, <1>2, <1>4, <1>5, <1>6 DEF Next

-----------------------------------------------------------------------------
(* Theorems *)

(* The inductive invariant holds in every reachable state of the gate.     *)
THEOREM Invariance == Spec => []Inv
BY InitInv, NextInv, PTL DEF Spec

(* The heap, the hash sets and the events of AvailabilityGate keep their   *)
(* types, and only submitted hashes are released.                          *)
THEOREM TypeCorrect == Spec => []TypeOK
<1>1. Inv => TypeOK
  BY DEF Inv
<1>. QED  BY <1>1, Invariance, PTL

(* No look-ahead: release never hands out a record before the official     *)
(* release of its report, its delivery, its receipt and its exception.     *)
THEOREM NeverReleasedEarly == Spec => []NeverEarly
<1>1. Inv => NeverEarly
  BY DEF Inv
<1>. QED  BY <1>1, Invariance, PTL

(* An accepted lineage is withheld or released, and released once: the     *)
(* DuplicateIdentifierError inside the loop of release is unreachable.     *)
THEOREM ReleasedOnce == Spec => []NeverReleasedTwice
<1>1. Inv => NeverReleasedTwice
  BY DEF Inv
<1>. QED  BY <1>1, Invariance, PTL

(* The order of the events does not depend on how the calls of release     *)
(* split them, nor on the order of the submissions that preceded them.     *)
THEOREM OrderedReplay == Spec => []ReleasedInOrder
<1>1. Inv => ReleasedInOrder
  BY DEF Inv
<1>. QED  BY <1>1, Invariance, PTL
=============================================================================
