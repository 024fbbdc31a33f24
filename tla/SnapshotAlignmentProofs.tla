------------------------ MODULE SnapshotAlignmentProofs ------------------------
(***************************************************************************)
(* The aligner for any calendar, medium bar, lag, gaps and history, when   *)
(* no two closings share one availability.  The proof rests on one order:  *)
(* of two snapshots of a component the later one is also the later to be   *)
(* available, so the newest available one is the latest, and the deque,    *)
(* which only ever drops its oldest, still holds it.                       *)
(***************************************************************************)
EXTENDS SnapshotAlignment, SequenceTheorems, FiniteSetTheorems, WellFoundedInduction, TLAPS

-----------------------------------------------------------------------------
(* Sessions and medium bars *)

(* A nonempty set of naturals has a least element.                         *)
LEMMA LeastExists ==
    ASSUME NEW S \in SUBSET Nat, S # {}
    PROVE  \E x \in S : \A y \in S : x <= y
<1>1. OpToRel(<, Nat) = {ss \in Nat \X Nat : ss[1] < ss[2]}
  BY DEF OpToRel
<1>2. PICK x \in S : \A y \in S : ~ (<<y, x>> \in OpToRel(<, Nat))
  BY NatLessThanWellFounded, WFMin
<1>3. \A y \in S : ~ (y < x)
  BY <1>1, <1>2
<1>. QED  BY <1>3

(* A nonempty bounded set of naturals has a greatest element.              *)
LEMMA GreatestExists ==
    ASSUME NEW n \in Nat, NEW S \in SUBSET (0..n), S # {}
    PROVE  \E x \in S : \A y \in S : y <= x
<1>. DEFINE back == {n - i : i \in S}
<1>1. back \in SUBSET Nat /\ back # {}
  <2>1. PICK i \in S : TRUE
    OBVIOUS
  <2>2. n - i \in back
    OBVIOUS
  <2>3. \A j \in back : j \in Nat
    OBVIOUS
  <2>. QED  BY <2>2, <2>3
<1>2. PICK x \in back : \A y \in back : x <= y
  <2>. HIDE DEF back
  <2>. QED  BY <1>1, LeastExists
<1>3. PICK i \in S : x = n - i
  OBVIOUS
<1>4. \A y \in S : x <= n - y
  BY <1>2
<1>. QED  BY <1>3, <1>4

(* The last session ends last.                                             *)
LEMMA LastEndIs == LastEnd \in SessionEnds /\ LastEnd \in Nat /\ \A e \in SessionEnds : e <= LastEnd
<1>1. \E e \in SessionEnds : \A f \in SessionEnds : f <= e
  BY AlignmentAssumption
<1>2. LastEnd \in SessionEnds /\ \A e \in SessionEnds : e <= LastEnd
  BY <1>1 DEF LastEnd
<1>. QED  BY <1>2, AlignmentAssumption

(* The session of a bar is the first one to end at or after it.            *)
LEMMA SessionIs ==
    ASSUME NEW end \in 1..LastEnd
    PROVE  /\ SessionOf(end) \in SessionEnds /\ SessionOf(end) \in Nat
           /\ end <= SessionOf(end)
           /\ \A r \in SessionEnds : end <= r => SessionOf(end) <= r
<1>. DEFINE later == {r \in SessionEnds : end <= r}
<1>1. later \in SUBSET Nat /\ later # {}
  <2>1. LastEnd \in later
    BY LastEndIs
  <2>2. \A r \in later : r \in Nat
    BY AlignmentAssumption
  <2>. QED  BY <2>1, <2>2
<1>2. \E s \in later : \A r \in later : s <= r
  <2>. HIDE DEF later
  <2>. QED  BY <1>1, LeastExists
<1>3. \E s \in SessionEnds : end <= s /\ \A r \in SessionEnds : end <= r => s <= r
  BY <1>2
<1>4. /\ SessionOf(end) \in SessionEnds /\ end <= SessionOf(end)
      /\ \A r \in SessionEnds : end <= r => SessionOf(end) <= r
  BY <1>3 DEF SessionOf
<1>. QED  BY <1>4, AlignmentAssumption

(* Bars in order are of sessions in order.                                 *)
LEMMA SessionsInOrder ==
    \A a, b \in 1..LastEnd : a <= b => SessionOf(a) <= SessionOf(b)
<1>. SUFFICES ASSUME NEW a \in 1..LastEnd, NEW b \in 1..LastEnd, a <= b
              PROVE  SessionOf(a) <= SessionOf(b)
  OBVIOUS
<1>1. SessionOf(b) \in SessionEnds /\ SessionOf(b) \in Nat /\ b <= SessionOf(b)
  BY SessionIs
<1>2. a <= SessionOf(b)
  BY <1>1, LastEndIs
<1>. QED  BY <1>1, <1>2, SessionIs

(* A session starts before every bar in it, where the one before ended.    *)
LEMMA StartIs ==
    ASSUME NEW end \in 1..LastEnd
    PROVE  /\ SessionStart(SessionOf(end)) \in Nat
           /\ SessionStart(SessionOf(end)) < end
           /\ \A r \in SessionEnds : r < SessionOf(end) => r <= SessionStart(SessionOf(end))
<1>. DEFINE session == SessionOf(end)
            before == {s \in SessionEnds \cup {0} : s < session}
            start == SessionStart(session)
<1>1. /\ session \in SessionEnds /\ session \in Nat /\ end <= session
      /\ \A r \in SessionEnds : end <= r => session <= r
  BY SessionIs
<1>. HIDE DEF session
<1>2. SessionEnds \subseteq Nat \ {0}
  BY AlignmentAssumption
<1>3. before \in SUBSET (0..session) /\ before # {}
  <2>1. 0 \in before
    BY <1>1, <1>2
  <2>2. \A s \in before : s \in 0..session
    BY <1>1, <1>2
  <2>. QED  BY <2>1, <2>2
<1>4. \E s \in before : \A r \in before : r <= s
  <2>. HIDE DEF before
  <2>. QED  BY <1>1, <1>3, GreatestExists
<1>5. /\ start \in SessionEnds \cup {0} /\ start < session
      /\ \A r \in SessionEnds : r < session => r <= start
  <2>1. \E s \in SessionEnds \cup {0} :
           s < session /\ \A r \in SessionEnds : r < session => r <= s
    BY <1>4
  <2>. QED  BY <2>1 DEF SessionStart
<1>. HIDE DEF start
<1>6. start \in Nat
  BY <1>2, <1>5
<1>7. ~ (end <= start)
  BY <1>1, <1>2, <1>5, <1>6, LastEndIs
<1>. QED  BY <1>5, <1>6, <1>7, LastEndIs DEF start, session

(* What lies between the start and the end of a session is in it.          *)
LEMMA InSession ==
    ASSUME NEW end \in 1..LastEnd, NEW e \in Nat,
           SessionStart(SessionOf(end)) < e, e <= SessionOf(end)
    PROVE  e \in 1..LastEnd /\ SessionOf(e) = SessionOf(end)
<1>. DEFINE session == SessionOf(end)
<1>1. session \in SessionEnds /\ session \in Nat /\ session <= LastEnd /\ LastEnd \in Nat
  BY SessionIs, LastEndIs
<1>2. /\ SessionStart(session) \in Nat
      /\ \A r \in SessionEnds : r < session => r <= SessionStart(session)
  BY StartIs
<1>. HIDE DEF session
<1>3. SessionStart(session) < e /\ e <= session
  BY DEF session
<1>4. e \in 1..LastEnd
  BY <1>1, <1>2, <1>3
<1>5. \A r \in SessionEnds : e <= r => session <= r
  BY <1>1, <1>2, <1>3, AlignmentAssumption
<1>6. SessionOf(e) <= session /\ session <= SessionOf(e) /\ SessionOf(e) \in Nat
  BY <1>1, <1>3, <1>4, <1>5, SessionIs
<1>. QED  BY <1>1, <1>4, <1>6 DEF session

(* Whole division. *)
LEMMA Division ==
    ASSUME NEW m \in Nat \ {0}, NEW x \in Nat
    PROVE  /\ x \div m \in Nat /\ x % m \in 0..(m - 1)
           /\ x = m * (x \div m) + (x % m)
  OBVIOUS

(* Quotient and remainder are unique.                                      *)
LEMMA DivisionIsOne ==
    ASSUME NEW m \in Nat \ {0}, NEW q \in Nat, NEW k \in Nat, NEW r \in 0..(m - 1),
           NEW s \in 0..(m - 1), m * q + r = m * k + s
    PROVE  q = k /\ r = s
<1>1. ~ (q < k)
  <2>. SUFFICES ASSUME q < k PROVE FALSE
    OBVIOUS
  <2>1. q + 1 <= k
    OBVIOUS
  <2>2. m * (q + 1) <= m * k
    BY <2>1
  <2>3. m * (q + 1) = m * q + m
    OBVIOUS
  <2>. QED  BY <2>2, <2>3
<1>2. ~ (k < q)
  <2>. SUFFICES ASSUME k < q PROVE FALSE
    OBVIOUS
  <2>1. k + 1 <= q
    OBVIOUS
  <2>2. m * (k + 1) <= m * q
    BY <2>1
  <2>3. m * (k + 1) = m * k + m
    OBVIOUS
  <2>. QED  BY <2>2, <2>3
<1>3. q = k
  BY <1>1, <1>2
<1>4. m * q = m * k /\ m * q \in Int
  BY <1>3
<1>. QED  BY <1>3, <1>4

(* An end on the grid of its session's medium bars. *)
OnGrid(end) == \E k \in Nat : end = SessionStart(SessionOf(end)) + MediumBars * k

(* The medium bar of a fast bar ends in its session, less than a medium    *)
(* bar later, on the grid; and a fast bar on the grid ends its own.        *)
LEMMA MediumEndIs ==
    ASSUME NEW end \in 1..LastEnd
    PROVE  /\ MediumEnd(end) \in Nat
           /\ MediumEnd(end) # None =>
                 /\ MediumEnd(end) \in 1..LastEnd /\ end <= MediumEnd(end)
                 /\ SessionOf(MediumEnd(end)) = SessionOf(end)
                 /\ OnGrid(MediumEnd(end))
           /\ OnGrid(end) => MediumEnd(end) = end
<1>. DEFINE session == SessionOf(end)
            start == SessionStart(session)
            q == (end - start - 1) \div MediumBars
            r == (end - start - 1) % MediumBars
            last == start + MediumBars * (q + 1)
<1>1. /\ session \in Nat /\ end <= session /\ start \in Nat /\ start < end
      /\ end \in Nat /\ MediumBars \in Nat \ {0}
  BY SessionIs, StartIs, LastEndIs, AlignmentAssumption
<1>2. MediumEnd(end) = IF last > session THEN None ELSE last
  BY DEF MediumEnd
<1>3. end - start - 1 \in Nat
  BY <1>1
<1>4. /\ q \in Nat /\ r \in 0..(MediumBars - 1)
      /\ end - start - 1 = MediumBars * q + r
  <2>. HIDE DEF start
  <2>. QED  BY <1>1, <1>3, Division
<1>. HIDE DEF q, r, session
<1>5. MediumBars * (q + 1) = MediumBars * q + MediumBars /\ MediumBars * q \in Nat
  BY <1>1, <1>4
<1>. HIDE DEF start
<1>6. last \in Nat /\ end <= last
  BY <1>1, <1>4, <1>5
<1>7. MediumEnd(end) \in Nat
  BY <1>2, <1>6 DEF None
<1>8. ASSUME MediumEnd(end) # None
      PROVE  /\ MediumEnd(end) \in 1..LastEnd /\ end <= MediumEnd(end)
             /\ SessionOf(MediumEnd(end)) = session
             /\ OnGrid(MediumEnd(end))
  <2>1. MediumEnd(end) = last /\ last <= session
    BY <1>1, <1>2, <1>6, <1>8
  <2>2. start < last
    BY <1>1, <1>6
  <2>3. last \in 1..LastEnd /\ SessionOf(last) = session
    <3>. HIDE DEF last
    <3>. QED  BY <1>6, <2>1, <2>2, InSession DEF start, session
  <2>4. OnGrid(last)
    BY <1>4, <2>3 DEF OnGrid, start
  <2>. QED  BY <1>6, <2>1, <2>3, <2>4
<1>9. ASSUME OnGrid(end) PROVE MediumEnd(end) = end
  <2>1. PICK k \in Nat : end = start + MediumBars * k
    BY <1>9 DEF OnGrid, start, session
  <2>2. k # 0
    <3>1. k = 0 => MediumBars * k = 0
      BY <1>1
    <3>. QED  BY <1>1, <2>1, <3>1
  <2>3. k - 1 \in Nat /\ MediumBars * k = MediumBars * (k - 1) + MediumBars
    BY <1>1, <2>2
  <2>4. MediumBars * (k - 1) \in Nat
    BY <1>1, <2>3
  <2>5. MediumBars * q + r = MediumBars * (k - 1) + (MediumBars - 1)
    BY <1>1, <1>4, <2>1, <2>3, <2>4
  <2>6. MediumBars - 1 \in 0..(MediumBars - 1)
    BY <1>1
  <2>7. q = k - 1
    BY <1>1, <1>4, <2>3, <2>5, <2>6, DivisionIsOne
  <2>8. last = end
    BY <1>1, <2>1, <2>3, <2>7
  <2>. QED  BY <1>1, <1>2, <2>8
<1>. QED  BY <1>7, <1>8, <1>9 DEF session

-----------------------------------------------------------------------------
(* Deques *)

Snapshot ==
    {s \in [asOf : 1..LastEnd, available : Nat, session : SessionEnds, ready : BOOLEAN,
            gap : Gaps \cup {NoGap}, bar : BOOLEAN] : s.session = SessionOf(s.asOf)}
Clock == [asOf : 1..LastEnd, available : Nat]

ClockOf(s) == [asOf |-> s.asOf, available |-> s.available]

(* What a deque knows of the snapshots ever recorded: they were recorded   *)
(* in order, none later than the bounds, and it holds the latest.          *)
Known(deque, rec, end, at) ==
    /\ \A i \in DOMAIN deque : ClockOf(deque[i]) \in rec
    /\ \A r \in rec : /\ deque # <<>> /\ r.asOf <= deque[Len(deque)].asOf
                      /\ r.asOf <= end /\ r.available <= at
    /\ \A r, t \in rec : r.asOf <= t.asOf <=> r.available <= t.available

(* No snapshot has Python's None for a clock. *)
LEMMA SnapshotIs ==
    ASSUME NEW s \in Snapshot
    PROVE  /\ s.asOf \in 1..LastEnd /\ s.asOf \in Nat /\ s.available \in Nat
           /\ s.session = SessionOf(s.asOf) /\ s # NoSnapshot /\ ClockOf(s) \in Clock
           /\ ClockOf(s).asOf = s.asOf /\ ClockOf(s).available = s.available
<1>1. s.asOf \in 1..LastEnd /\ s.available \in Nat /\ s.session = SessionOf(s.asOf)
  BY DEF Snapshot
<1>2. s.asOf # NoSnapshot.asOf
  BY <1>1 DEF NoSnapshot, None
<1>3. s # NoSnapshot
  BY <1>2
<1>. QED  BY <1>1, <1>3, LastEndIs DEF ClockOf, Clock

(* The clocks of a deque, element by element.                              *)
LEMMA ClocksAre ==
    ASSUME NEW deque
    PROVE  Clocks(deque) = {ClockOf(deque[i]) : i \in DOMAIN deque}
  BY DEF Clocks, ClockOf, Range

(* A deque keeps what is appended and drops its oldest. *)
LEMMA Retained ==
    ASSUME NEW deque \in Seq(Snapshot), NEW new \in Seq(Snapshot), Len(new) <= MaxHistory
    PROVE  \E d \in 0..Len(deque) :
              /\ Retain(deque, new) \in Seq(Snapshot)
              /\ Len(Retain(deque, new)) = Len(deque) - d + Len(new)
              /\ \A i \in 1..(Len(deque) - d) : Retain(deque, new)[i] = deque[i + d]
              /\ \A i \in 1..Len(new) : Retain(deque, new)[Len(deque) - d + i] = new[i]
              /\ new = <<>> /\ deque # <<>> => d < Len(deque)
<1>. DEFINE all == deque \o new
            n == Len(deque)
            m == Len(new)
<1>1. n \in Nat /\ m \in Nat /\ MaxHistory \in Nat \ {0} /\ (m = 0 <=> new = <<>>)
      /\ (n = 0 <=> deque = <<>>)
  BY LenProperties, EmptySeq, AlignmentAssumption
<1>2. all \in Seq(Snapshot)
  BY ConcatProperties
<1>3. Len(all) = n + m
  BY ConcatProperties
<1>4. \A i \in 1..(n + m) : all[i] = IF i <= n THEN deque[i] ELSE new[i - n]
  BY ConcatProperties
<1>5. CASE n + m <= MaxHistory
  <2>1. Retain(deque, new) = all
    BY <1>3, <1>5 DEF Retain
  <2>2. \A i \in 1..n : all[i] = deque[i + 0]
    BY <1>1, <1>4
  <2>3. \A i \in 1..m : all[n - 0 + i] = new[i]
    <3>. HIDE DEF all, n, m
    <3>1. \A i \in 1..m : n + i \in 1..(n + m) /\ ~ (n + i <= n) /\ (n + i) - n = i /\ n - 0 + i = n + i
      BY <1>1
    <3>. QED  BY <1>4, <3>1
  <2>. HIDE DEF all, n, m
  <2>3a. n - 0 = n /\ 0 \in 0..n /\ (new = <<>> /\ deque # <<>> => 0 < n)
    BY <1>1
  <2>4. \E d \in 0..n :
              /\ all \in Seq(Snapshot)
              /\ Len(all) = n - d + m
              /\ \A i \in 1..(n - d) : all[i] = deque[i + d]
              /\ \A i \in 1..m : all[n - d + i] = new[i]
              /\ new = <<>> /\ deque # <<>> => d < n
    BY <1>2, <1>3, <2>2, <2>3, <2>3a
  <2>. QED  BY <2>1, <2>4 DEF n, m
<1>6. CASE n + m > MaxHistory
  <2>. DEFINE d == n + m - MaxHistory
              kept == SubSeq(all, d + 1, n + m)
  <2>1. Retain(deque, new) = kept
    <3>1. Retain(deque, new) = IF Len(all) <= MaxHistory THEN all
                               ELSE SubSeq(all, Len(all) - MaxHistory + 1, Len(all))
      BY DEF Retain
    <3>2. ~ (n + m <= MaxHistory)
      <4>. HIDE DEF n, m
      <4>. QED  BY <1>1, <1>6
    <3>3. Retain(deque, new) = SubSeq(all, Len(all) - MaxHistory + 1, Len(all))
      BY <1>3, <3>1, <3>2, Zenon
    <3>. HIDE DEF all, n, m
    <3>4. Len(all) - MaxHistory + 1 = d + 1
      BY <1>1, <1>3
    <3>. HIDE DEF d
    <3>. QED  BY <1>3, <3>3, <3>4
  <2>2. d \in 0..n /\ d \in Nat /\ d + MaxHistory = n + m /\ (m = 0 => d < n)
    BY <1>1, <1>6
  <2>3. \A i \in (d + 1)..(n + m) : all[i] \in Snapshot
    <3>1. \A i \in (d + 1)..(n + m) : i \in 1..Len(all)
      BY <1>1, <1>3, <2>2
    <3>. QED  BY <1>2, <3>1, ElementOfSeq
  <2>. HIDE DEF all, n, m, d
  <2>3a. d + 1 \in Int /\ n + m \in Int
    BY <1>1, <2>2
  <2>4. kept \in Seq(Snapshot)
    BY <2>3, <2>3a, SubSeqProperties
  <2>5. Len(kept) = IF d + 1 <= n + m THEN (n + m) - (d + 1) + 1 ELSE 0
    BY <2>3, <2>3a, SubSeqProperties
  <2>6. \A i \in 1..((n + m) - (d + 1) + 1) : kept[i] = all[(d + 1) + i - 1]
    BY <2>3, <2>3a, SubSeqProperties
  <2>. HIDE DEF kept
  <2>7. Len(kept) = n - d + m
    BY <1>1, <2>2, <2>5
  <2>8. ASSUME NEW i \in 1..(n - d) PROVE kept[i] = deque[i + d]
    <3>1. /\ i \in 1..((n + m) - (d + 1) + 1) /\ (d + 1) + i - 1 = i + d
          /\ i + d \in 1..(n + m) /\ i + d <= n
      BY <1>1, <2>2
    <3>. QED  BY <1>4, <2>6, <3>1
  <2>9. ASSUME NEW i \in 1..m PROVE kept[n - d + i] = new[i]
    <3>1. /\ n - d + i \in 1..((n + m) - (d + 1) + 1) /\ (d + 1) + (n - d + i) - 1 = n + i
          /\ n + i \in 1..(n + m) /\ ~ (n + i <= n) /\ (n + i) - n = i
      BY <1>1, <2>2
    <3>. QED  BY <1>4, <2>6, <3>1
  <2>10. new = <<>> /\ deque # <<>> => d < n
    BY <1>1, <2>2
  <2>11. \E e \in 0..n :
              /\ kept \in Seq(Snapshot)
              /\ Len(kept) = n - e + m
              /\ \A i \in 1..(n - e) : kept[i] = deque[i + e]
              /\ \A i \in 1..m : kept[n - e + i] = new[i]
              /\ new = <<>> /\ deque # <<>> => e < n
    BY <2>2, <2>4, <2>7, <2>8, <2>9, <2>10
  <2>. QED  BY <2>1, <2>11 DEF n, m
<1>7. n + m <= MaxHistory \/ n + m > MaxHistory
  BY <1>1
<1>. QED  BY <1>5, <1>6, <1>7

(* What appending new snapshots of one clock leaves. *)
RecordedRight(deque, new, rec, e, a) ==
    /\ Retain(deque, new) \in Seq(Snapshot)
    /\ rec \cup Clocks(Retain(deque, new)) \in SUBSET Clock
    /\ rec \cup Clocks(Retain(deque, new))
         = rec \cup (IF new = <<>> THEN {} ELSE {[asOf |-> e, available |-> a]})
    /\ Known(Retain(deque, new), rec \cup Clocks(Retain(deque, new)), e, a)

(* Recording later snapshots, of one clock, in a deque that knows its past *)
(* leaves it knowing.                                                      *)
LEMMA Records ==
    ASSUME NEW deque \in Seq(Snapshot), NEW rec \in SUBSET Clock,
           NEW end \in Nat, NEW at \in Nat, Known(deque, rec, end, at),
           NEW e \in Nat, NEW a \in Nat, end < e, at < a,
           NEW new \in Seq(Snapshot), Len(new) <= MaxHistory,
           \A i \in DOMAIN new : new[i].asOf = e /\ new[i].available = a
    PROVE  RecordedRight(deque, new, rec, e, a)
<1>. DEFINE kept == Retain(deque, new)
            n == Len(deque)
            m == Len(new)
            latest == [asOf |-> e, available |-> a]
            added == IF new = <<>> THEN {} ELSE {latest}
            after == rec \cup Clocks(kept)
<1>1. PICK d \in 0..n :
         /\ kept \in Seq(Snapshot)
         /\ Len(kept) = n - d + m
         /\ \A i \in 1..(n - d) : kept[i] = deque[i + d]
         /\ \A i \in 1..m : kept[n - d + i] = new[i]
         /\ new = <<>> /\ deque # <<>> => d < n
  <2>. HIDE DEF kept, n, m
  <2>. QED  BY Retained DEF kept, n, m
<1>2. /\ n \in Nat /\ m \in Nat /\ (m = 0 <=> new = <<>>) /\ (n = 0 <=> deque = <<>>)
      /\ DOMAIN deque = 1..n /\ DOMAIN new = 1..m
      /\ DOMAIN kept = 1..Len(kept)
  BY <1>1, LenProperties, EmptySeq
<1>3. \A i \in 1..m : ClockOf(new[i]) = latest /\ new[i].asOf = e
  BY <1>2 DEF ClockOf
<1>4. \A r \in rec : r \in Clock /\ r.asOf \in Nat /\ r.available \in Nat
  BY LastEndIs DEF Clock
<1>. HIDE DEF kept, n, m
<1>5. \A i \in 1..(n - d + m) : \/ i \in 1..(n - d) /\ i + d \in 1..n
                                \/ i - (n - d) \in 1..m /\ n - d + (i - (n - d)) = i
  BY <1>2
<1>6. ASSUME NEW i \in DOMAIN kept PROVE ClockOf(kept[i]) \in rec \cup added
  <2>1. CASE i \in 1..(n - d) /\ i + d \in 1..n
    BY <1>1, <1>2, <2>1 DEF Known
  <2>2. CASE i - (n - d) \in 1..m /\ n - d + (i - (n - d)) = i
    <3>1. kept[i] = new[i - (n - d)] /\ new # <<>>
      BY <1>1, <1>2, <2>2
    <3>. QED  BY <1>3, <2>2, <3>1
  <2>. QED  BY <1>1, <1>2, <1>5, <2>1, <2>2
<1>7. new # <<>> => /\ Len(kept) \in DOMAIN kept /\ kept[Len(kept)] = new[m]
                    /\ ClockOf(kept[Len(kept)]) = latest /\ kept[Len(kept)].asOf = e
  <2>. SUFFICES ASSUME new # <<>>
                PROVE  /\ Len(kept) \in DOMAIN kept /\ kept[Len(kept)] = new[m]
                       /\ ClockOf(kept[Len(kept)]) = latest /\ kept[Len(kept)].asOf = e
    OBVIOUS
  <2>1. m \in 1..m /\ n - d + m \in 1..(n - d + m)
    BY <1>2
  <2>2. kept[n - d + m] = new[m]
    BY <1>1, <2>1
  <2>. QED  BY <1>1, <1>2, <1>3, <2>1, <2>2
<1>8. Clocks(kept) \subseteq rec \cup added
  BY <1>6, ClocksAre
<1>9. added \subseteq Clocks(kept)
  BY <1>7, ClocksAre
<1>10. after = rec \cup added
  BY <1>8, <1>9
<1>11. latest \in Clock \/ new = <<>>
  <2>1. ASSUME new # <<>> PROVE latest \in Clock
    <3>1. new[1] \in Snapshot /\ 1 \in 1..m
      BY <1>2, <2>1, ElementOfSeq DEF m
    <3>2. new[1].asOf = e /\ new[1].available = a
      BY <1>2, <3>1
    <3>. QED  BY <3>1, <3>2, SnapshotIs DEF Clock
  <2>. QED  BY <2>1
<1>12. after \in SUBSET Clock
  BY <1>10, <1>11
<1>13. ASSUME NEW r \in after
       PROVE  kept # <<>> /\ r.asOf <= kept[Len(kept)].asOf /\ r.asOf <= e /\ r.available <= a
  <2>1. r.asOf <= e /\ r.available <= a
    <3>1. CASE r \in rec
      BY <3>1, <1>4 DEF Known
    <3>2. CASE r \in added
      BY <3>2
    <3>. QED  BY <1>10, <3>1, <3>2
  <2>2. CASE new # <<>>
    <3>1. kept # <<>>
      BY <1>7, <2>2, EmptySeq
    <3>. QED  BY <2>1, <2>2, <1>7, <3>1
  <2>3. CASE new = <<>>
    <3>1. r \in rec
      BY <1>10, <2>3
    <3>2. deque # <<>> /\ r.asOf <= deque[Len(deque)].asOf
      BY <3>1 DEF Known
    <3>3. d < n /\ m = 0 /\ n - d \in 1..(n - d) /\ Len(kept) = n - d /\ (n - d) + d = n
      BY <1>1, <1>2, <2>3, <3>2
    <3>4. kept[Len(kept)] = deque[n]
      BY <1>1, <3>3
    <3>5. kept # <<>>
      BY <1>2, <3>3, EmptySeq
    <3>. QED  BY <2>1, <3>2, <3>4, <3>5 DEF n
  <2>. QED  BY <2>2, <2>3
<1>14. ASSUME NEW r \in after, NEW t \in after
       PROVE  r.asOf <= t.asOf <=> r.available <= t.available
  <2>1. CASE r \in rec /\ t \in rec
    BY <2>1 DEF Known
  <2>2. \A u \in rec : u.asOf < e /\ u.available < a
    BY <1>4 DEF Known
  <2>3. \A u \in added : u.asOf = e /\ u.available = a
    OBVIOUS
  <2>. HIDE DEF added
  <2>4. CASE r \in rec /\ t \in added
    BY <2>2, <2>3, <2>4, <1>4
  <2>5. CASE r \in added /\ t \in rec
    BY <2>2, <2>3, <2>5, <1>4
  <2>6. CASE r \in added /\ t \in added
    BY <2>3, <2>6
  <2>. QED  BY <1>10, <2>1, <2>4, <2>5, <2>6
<1>15. \A i \in DOMAIN kept : ClockOf(kept[i]) \in after
  BY <1>6, <1>10
<1>16. Known(kept, after, e, a)
  <2>. HIDE DEF after
  <2>. QED  BY <1>13, <1>14, <1>15 DEF Known
<1>. QED  BY <1>1, <1>10, <1>12, <1>16 DEF kept, RecordedRight

(* What is known stays known under later bounds. *)
LEMMA KnownLater ==
    ASSUME NEW deque, NEW rec \in SUBSET Clock, NEW end \in Nat, NEW at \in Nat,
           Known(deque, rec, end, at), NEW e \in Nat, NEW a \in Nat, end <= e, at <= a
    PROVE  Known(deque, rec, e, a)
<1>1. \A r \in rec : r.asOf \in Nat /\ r.available \in Nat
  BY LastEndIs DEF Clock
<1>. QED  BY <1>1 DEF Known

(* The aligner chooses the first of the newest among the eligible.         *)
LEMMA ChosenIs ==
    ASSUME NEW deque \in Seq(Snapshot), NEW session, NEW at \in Nat
    PROVE  LET eligible == {i \in DOMAIN deque : Eligible(deque[i], session, at)}
               chosen   == LatestEligible(deque, session, at)
           IN  IF eligible = {} THEN chosen = NoSnapshot
               ELSE \E k \in eligible :
                       /\ chosen = deque[k]
                       /\ \A j \in eligible : deque[j].available <= deque[k].available
                       /\ \A j \in eligible : j < k => deque[j].available < deque[k].available
<1>. DEFINE eligible == {i \in 1..Len(deque) : Eligible(deque[i], session, at)}
            newest == {i \in eligible : \A j \in eligible : deque[j].available <= deque[i].available}
            times == {deque[i].available : i \in eligible}
            k == CHOOSE i \in newest : \A j \in newest : i <= j
<1>0. Len(deque) \in Nat /\ DOMAIN deque = 1..Len(deque)
  BY LenProperties
<1>1. \A i \in eligible : i \in Nat /\ deque[i].available \in Nat /\ deque[i].available <= at
  <2>. SUFFICES ASSUME NEW i \in eligible
                PROVE  i \in Nat /\ deque[i].available \in Nat /\ deque[i].available <= at
    OBVIOUS
  <2>1. i \in 1..Len(deque) /\ deque[i] \in Snapshot
    BY ElementOfSeq
  <2>. QED  BY <1>0, <2>1, SnapshotIs DEF Eligible
<1>2. LatestEligible(deque, session, at) = IF eligible = {} THEN NoSnapshot ELSE deque[k]
  BY DEF LatestEligible
<1>. HIDE DEF eligible
<1>3. ASSUME eligible # {}
      PROVE  \E i \in eligible :
                /\ LatestEligible(deque, session, at) = deque[i]
                /\ \A j \in eligible : deque[j].available <= deque[i].available
                /\ \A j \in eligible : j < i => deque[j].available < deque[i].available
  <2>1. times \in SUBSET (0..at) /\ times # {}
    BY <1>1, <1>3
  <2>2. \E t \in times : \A u \in times : u <= t
    <3>. HIDE DEF times
    <3>. QED  BY <2>1, GreatestExists
  <2>3. newest \in SUBSET Nat /\ newest # {}
    <3>1. \E i \in eligible : \A j \in eligible : deque[j].available <= deque[i].available
      BY <2>2
    <3>. QED  BY <1>1, <3>1
  <2>4. \E i \in newest : \A j \in newest : i <= j
    <3>. HIDE DEF newest
    <3>. QED  BY <2>3, LeastExists
  <2>5. k \in newest /\ \A j \in newest : k <= j
    <3>. HIDE DEF newest
    <3>. QED  BY <2>4, Zenon
  <2>. HIDE DEF k
  <2>6. k \in eligible /\ \A j \in eligible : deque[j].available <= deque[k].available
    BY <2>5
  <2>7. \A j \in eligible : j < k => deque[j].available < deque[k].available
    <3>. SUFFICES ASSUME NEW j \in eligible, j < k, ~ (deque[j].available < deque[k].available)
                  PROVE  FALSE
      OBVIOUS
    <3>1. deque[j].available = deque[k].available
      BY <1>1, <2>6
    <3>2. j \in newest
      BY <2>6, <3>1
    <3>. QED  BY <1>1, <2>5, <2>6, <3>2
  <2>. QED  BY <1>2, <1>3, <2>6, <2>7 DEF k
<1>. QED  BY <1>0, <1>2, <1>3 DEF eligible

(* The choice from a deque that knows its past: the latest of the session, *)
(* and none only when none was recorded.                                   *)
LEMMA ChoosesLatest ==
    ASSUME NEW deque \in Seq(Snapshot), NEW rec \in SUBSET Clock,
           NEW end \in 1..LastEnd, NEW at \in Nat, Known(deque, rec, end, at)
    PROVE  LET known  == {s \in rec : SessionOf(s.asOf) = SessionOf(end)}
               chosen == LatestEligible(deque, SessionOf(end), at)
           IN  IF known = {} THEN chosen = NoSnapshot
               ELSE /\ chosen \in Snapshot /\ ClockOf(chosen) \in known
                    /\ \A s \in known : s.asOf <= chosen.asOf
<1>. DEFINE session == SessionOf(end)
            known   == {s \in rec : SessionOf(s.asOf) = session}
            eligible == {i \in DOMAIN deque : Eligible(deque[i], session, at)}
            chosen  == LatestEligible(deque, session, at)
            n       == Len(deque)
<1>1. n \in Nat /\ DOMAIN deque = 1..n /\ (n = 0 <=> deque = <<>>)
  BY LenProperties, EmptySeq
<1>2. \A i \in DOMAIN deque : deque[i] \in Snapshot /\ ClockOf(deque[i]) \in rec
  BY <1>1, ElementOfSeq DEF Known
<1>3. \A i \in eligible : ClockOf(deque[i]) \in known
  BY <1>2, SnapshotIs DEF Eligible
<1>4. IF eligible = {} THEN chosen = NoSnapshot
      ELSE \E k \in eligible :
              /\ chosen = deque[k]
              /\ \A j \in eligible : deque[j].available <= deque[k].available
  BY ChosenIs
<1>5. CASE known = {}
  <2>1. eligible = {}
    BY <1>3, <1>5
  <2>. QED  BY <1>4, <1>5, <2>1
<1>6. CASE known # {}
  <2>1. PICK s \in known : TRUE
    BY <1>6
  <2>. HIDE DEF chosen, n
  <2>2. n \in DOMAIN deque /\ s.asOf <= deque[n].asOf
    BY <1>1, <2>1 DEF Known, n
  <2>3. /\ deque[n] \in Snapshot /\ ClockOf(deque[n]) \in rec
        /\ deque[n].asOf \in 1..LastEnd /\ deque[n].available \in Nat
        /\ deque[n].session = SessionOf(deque[n].asOf)
    BY <1>2, <2>2, SnapshotIs
  <2>4. deque[n].asOf <= end /\ deque[n].available <= at
    BY <2>3, SnapshotIs DEF Known
  <2>5. s \in Clock /\ s.asOf \in 1..LastEnd /\ SessionOf(s.asOf) = session
    BY <2>1 DEF Clock
  <2>6. /\ SessionOf(s.asOf) <= SessionOf(deque[n].asOf)
        /\ SessionOf(deque[n].asOf) <= session
    BY <2>2, <2>3, <2>4, <2>5, SessionsInOrder
  <2>7. deque[n].session = session
    <3>1. SessionOf(deque[n].asOf) \in Nat /\ session \in Nat
      BY <2>3, SessionIs
    <3>. QED  BY <2>3, <2>5, <2>6, <3>1
  <2>8. n \in eligible
    BY <2>2, <2>4, <2>7 DEF Eligible
  <2>9. PICK k \in eligible :
           chosen = deque[k] /\ \A j \in eligible : deque[j].available <= deque[k].available
    BY <1>4, <2>8
  <2>10. chosen \in Snapshot /\ ClockOf(chosen) \in known
    BY <1>2, <1>3, <2>9
  <2>11. deque[n].asOf <= chosen.asOf
    <3>1. ClockOf(deque[n]).available <= ClockOf(chosen).available
      BY <2>3, <2>8, <2>9, <2>10, SnapshotIs
    <3>2. ClockOf(deque[n]).asOf <= ClockOf(chosen).asOf
      BY <2>3, <2>10, <3>1 DEF Known
    <3>. QED  BY <2>3, <2>10, <3>2, SnapshotIs
  <2>12. ASSUME NEW t \in known PROVE t.asOf <= chosen.asOf
    <3>1. t \in Clock /\ t.asOf \in Nat /\ t.asOf <= deque[n].asOf
      BY LastEndIs DEF Known, Clock, n
    <3>2. chosen.asOf \in Nat /\ deque[n].asOf \in Nat
      BY <2>3, <2>10, SnapshotIs
    <3>. QED  BY <2>11, <3>1, <3>2
  <2>. QED  BY <1>6, <2>10, <2>12 DEF chosen
<1>. QED  BY <1>5, <1>6

-----------------------------------------------------------------------------
(* What one closing records *)

(* The gaps of a bar are fewer than a deque holds.                         *)
LEMMA GapsAre ==
    ASSUME NEW gaps \in Retests
    PROVE  /\ gaps \in Seq(Gaps) /\ Len(gaps) \in Nat /\ Len(gaps) < MaxHistory
           /\ DOMAIN gaps = 1..Len(gaps)
           /\ Range(gaps) = {gaps[i] : i \in 1..Len(gaps)}
<1>1. Cardinality(Gaps) \in Nat /\ Cardinality(Gaps) < MaxHistory /\ MaxHistory \in Nat
  BY FS_CardinalityType, AlignmentAssumption
<1>2. PICK n \in 0..Cardinality(Gaps) : gaps \in [1..n -> Gaps]
  BY DEF Retests
<1>3. gaps \in Seq(Gaps)
  BY <1>1, <1>2, SeqDef
<1>4. Len(gaps) \in Nat /\ DOMAIN gaps = 1..Len(gaps)
  BY <1>3, LenProperties
<1>5. Len(gaps) = n
  BY <1>1, <1>2, <1>4
<1>. QED  BY <1>1, <1>3, <1>4, <1>5 DEF Range

IaeRight(iae, end, at, gaps) ==
    /\ iae \in Seq(Snapshot) /\ Len(iae) \in 1..MaxHistory /\ DOMAIN iae = 1..Len(iae)
    /\ \A i \in DOMAIN iae : iae[i].asOf = end /\ iae[i].available = at
    /\ iae[1].bar = TRUE
    /\ \A gap \in Range(gaps) : \E i \in DOMAIN iae : iae[i].gap = gap

(* The IAE snapshots of a bar: its own first, none without a gap that was  *)
(* retested, one for each that was; all of the bar's clock, and no more    *)
(* than the deque holds.                                                   *)
LEMMA IaeSnapshotsAre ==
    ASSUME NEW end \in 1..LastEnd, NEW at \in Nat, NEW ready \in BOOLEAN,
           NEW gaps \in Retests, NEW settled \in BOOLEAN, settled => gaps # <<>>
    PROVE  IaeRight(IaeSnapshots(end, at, ready, gaps, settled), end, at, gaps)
<1>. DEFINE n == Len(gaps)
            others == IF settled THEN SubSeq(gaps, 1, n - 1) ELSE gaps
            m == IF settled THEN n - 1 ELSE n
            own == IF settled THEN Last(gaps) ELSE NoGap
            first == [asOf |-> end, available |-> at, session |-> SessionOf(end),
                      ready |-> ready, gap |-> own, bar |-> TRUE]
            later(gap) == [asOf |-> end, available |-> at, session |-> SessionOf(end),
                           ready |-> ready, gap |-> gap, bar |-> FALSE]
            rest == [i \in 1..Len(others) |-> later(others[i])]
            iae == <<first>> \o rest
<1>1. /\ gaps \in Seq(Gaps) /\ n \in Nat /\ n < MaxHistory /\ MaxHistory \in Nat
      /\ \A i \in 1..n : gaps[i] \in Gaps
      /\ settled => n # 0
  BY GapsAre, ElementOfSeq, EmptySeq, AlignmentAssumption
<1>2. m \in Nat /\ m <= n /\ (settled => m = n - 1 /\ n \in 1..n) /\ (~ settled => m = n)
  <2>. HIDE DEF n
  <2>. QED  BY <1>1
<1>3. Len(others) = m /\ \A i \in 1..m : others[i] = gaps[i]
  <2>1. CASE settled
    <3>1. \A i \in 1..(n - 1) : gaps[i] \in Gaps
      BY <1>1
    <3>2. n - 1 \in Int /\ 1 \in Int
      BY <1>1
    <3>3. Len(SubSeq(gaps, 1, n - 1)) = IF 1 <= n - 1 THEN (n - 1) - 1 + 1 ELSE 0
      <4>. HIDE DEF n
      <4>. QED  BY <3>1, <3>2, SubSeqProperties
    <3>4. \A i \in 1..((n - 1) - 1 + 1) : SubSeq(gaps, 1, n - 1)[i] = gaps[1 + i - 1]
      <4>. HIDE DEF n
      <4>. QED  BY <3>1, <3>2, SubSeqProperties
    <3>. DEFINE front == SubSeq(gaps, 1, n - 1)
    <3>5. others = front
      BY <2>1
    <3>. HIDE DEF n, m, front, others
    <3>6. Len(front) = m /\ \A i \in 1..m : front[i] = gaps[i]
      BY <1>1, <1>2, <2>1, <3>3, <3>4 DEF front
    <3>. QED  BY <3>5, <3>6
  <2>2. CASE ~ settled
    BY <2>2
  <2>. QED  BY <2>1, <2>2
<1>4. own \in Gaps \cup {NoGap} /\ (settled => own = gaps[n])
  <2>. HIDE DEF n
  <2>. QED  BY <1>1, <1>2 DEF Last, n
<1>5. SessionOf(end) \in SessionEnds
  BY SessionIs
<1>. HIDE DEF own
<1>5a. /\ first \in Snapshot /\ first.asOf = end /\ first.available = at
       /\ first.gap = own /\ first.bar = TRUE
  BY <1>4, <1>5 DEF Snapshot
<1>6. \A gap \in Gaps : /\ later(gap) \in Snapshot
                         /\ later(gap).asOf = end /\ later(gap).available = at
                         /\ later(gap).gap = gap
  BY <1>5 DEF Snapshot
<1>. HIDE DEF first, later, n, m, others
<1>7. rest \in [1..m -> Snapshot] /\ \A i \in 1..m : rest[i] = later(gaps[i])
  BY <1>1, <1>2, <1>3, <1>6
<1>8. rest \in Seq(Snapshot) /\ Len(rest) = m
  <2>. HIDE DEF rest
  <2>1. rest \in Seq(Snapshot)
    BY <1>2, <1>7, SeqDef
  <2>2. DOMAIN rest = 1..Len(rest) /\ Len(rest) \in Nat
    BY <2>1, LenProperties
  <2>. QED  BY <1>2, <1>7, <2>1, <2>2
<1>. HIDE DEF rest
<1>9. /\ <<first>> \in Seq(Snapshot) /\ Len(<<first>>) = 1
      /\ <<first>>[1] = first
  BY <1>5a
<1>10. iae \in Seq(Snapshot)
  BY <1>8, <1>9, ConcatProperties
<1>11. Len(iae) = 1 + m
  BY <1>8, <1>9, ConcatProperties
<1>12. \A i \in 1..(1 + m) : iae[i] = IF i <= 1 THEN <<first>>[i] ELSE rest[i - 1]
  BY <1>8, <1>9, ConcatProperties
<1>. HIDE DEF iae
<1>13. DOMAIN iae = 1..(1 + m)
  BY <1>10, <1>11, LenProperties
<1>14. iae[1] = first
  BY <1>2, <1>9, <1>12
<1>15. \A i \in 1..m : 1 + i \in 1..(1 + m) /\ iae[1 + i] = later(gaps[i])
  <2>1. \A i \in 1..m : 1 + i \in 1..(1 + m) /\ ~ (1 + i <= 1) /\ (1 + i) - 1 = i
    BY <1>2
  <2>. QED  BY <1>7, <1>12, <2>1
<1>16. ASSUME NEW i \in DOMAIN iae PROVE iae[i].asOf = end /\ iae[i].available = at
  <2>1. i = 1 \/ (i - 1 \in 1..m /\ 1 + (i - 1) = i)
    BY <1>2, <1>13
  <2>2. CASE i = 1
    BY <1>5a, <1>14, <2>2
  <2>3. CASE i - 1 \in 1..m /\ 1 + (i - 1) = i
    <3>1. iae[i] = later(gaps[i - 1]) /\ gaps[i - 1] \in Gaps
      BY <1>1, <1>2, <1>15, <2>3
    <3>. QED  BY <1>6, <3>1
  <2>. QED  BY <2>1, <2>2, <2>3
<1>17. ASSUME NEW gap \in Range(gaps) PROVE \E i \in DOMAIN iae : iae[i].gap = gap
  <2>1. PICK i \in 1..n : gap = gaps[i]
    BY GapsAre DEF n
  <2>2. CASE i \in 1..m
    BY <1>1, <1>6, <1>13, <1>15, <2>1, <2>2
  <2>3. CASE i \notin 1..m
    <3>1. settled /\ i = n
      BY <1>1, <1>2, <2>3
    <3>2. iae[1].gap = gap /\ 1 \in 1..(1 + m)
      BY <1>2, <1>4, <1>5a, <1>14, <2>1, <3>1
    <3>. QED  BY <1>13, <3>2
  <2>. QED  BY <2>2, <2>3
<1>18. iae[1].bar = TRUE
  BY <1>5a, <1>14
<1>19. Len(iae) \in 1..MaxHistory
  BY <1>1, <1>2, <1>11
<1>20. iae = IaeSnapshots(end, at, ready, gaps, settled)
  BY DEF IaeSnapshots, iae, rest, first, later, own, others, n
<1>. QED  BY <1>10, <1>11, <1>13, <1>16, <1>17, <1>18, <1>19, <1>20 DEF IaeRight

-----------------------------------------------------------------------------
(* The invariant and its steps *)

MediumComponents == {"IMSI", "ICM"}

(* Before IMSI's first snapshot there is one medium bar, before ICM's all  *)
(* of its window but one.                                                  *)
WarmUp(c) == IF c = "IMSI" THEN 1 ELSE IcmWindow - 1

AlignTypes ==
    /\ deques \in [Components -> Seq(Snapshot)]
    /\ recorded \in [Components -> SUBSET Clock]
    /\ closed \in 0..LastEnd /\ available \in Nat /\ mediums \in Nat
    /\ openMedium # None => /\ closed \in 1..LastEnd /\ closed < openMedium
                            /\ openMedium = MediumEnd(closed)

AlignInv ==
    /\ AlignTypes
    /\ \A c \in Components : Known(deques[c], recorded[c], closed, available)
    /\ \A c \in MediumComponents : /\ \A r \in recorded[c] : OnGrid(r.asOf)
                                   /\ recorded[c] # {} => mediums >= WarmUp(c)

(* IAE is fed by the fast clock, the others by the medium one.             *)
LEMMA ComponentsAre ==
    /\ Components = MediumComponents \cup {"IAE"} /\ "IAE" \notin MediumComponents
    /\ \A c \in MediumComponents : WarmUp(c) \in Int
  BY AlignmentAssumption DEF Components, MediumComponents, WarmUp

(* What IMSI or ICM keeps and has recorded once a medium bar ended. *)
MediumRight(c, kept, after, e, at) ==
    /\ kept \in Seq(Snapshot) /\ after \in SUBSET Clock
    /\ Known(kept, after, e, at)
    /\ \A r \in after : OnGrid(r.asOf) /\ (r \in recorded[c] \/ r.asOf = e)
    /\ after # {} => mediums + 1 >= WarmUp(c)
    /\ recorded[c] # {} => [asOf |-> e, available |-> at] \in after

(* What a medium bar that ends later records of IMSI or ICM. *)
LEMMA MediumRecords ==
    ASSUME AlignInv, NEW c \in MediumComponents, NEW before, before[c] = deques[c],
           NEW e \in 1..LastEnd, OnGrid(e), closed < e, NEW at \in Nat, available < at,
           NEW unready, NEW kept, kept = AddMedium(before, e, at, unready)[c]
    PROVE  MediumRight(c, kept, recorded[c] \cup Clocks(kept), e, at)
<1>. DEFINE snapshot == [asOf |-> e, available |-> at, session |-> SessionOf(e),
                         ready |-> c \notin unready, gap |-> NoGap, bar |-> TRUE]
            new == IF mediums < WarmUp(c) THEN <<>> ELSE <<snapshot>>
            added == IF new = <<>> THEN {} ELSE {[asOf |-> e, available |-> at]}
            after == recorded[c] \cup Clocks(kept)
<1>1. c \in Components /\ c # "IAE" /\ WarmUp(c) \in Int
  BY ComponentsAre
<1>2. kept = Retain(deques[c], new)
  BY <1>1 DEF AddMedium, MediumSnapshots, WarmUp
<1>3. snapshot \in Snapshot /\ snapshot.asOf = e /\ snapshot.available = at
  <2>1. SessionOf(e) \in SessionEnds
    BY SessionIs
  <2>2. (c \notin unready) \in BOOLEAN
    OBVIOUS
  <2>. QED  BY <2>1, <2>2 DEF Snapshot
<1>. HIDE DEF snapshot
<1>4. /\ new \in Seq(Snapshot) /\ Len(new) <= MaxHistory
      /\ \A i \in DOMAIN new : new[i].asOf = e /\ new[i].available = at
      /\ (new = <<>> <=> mediums < WarmUp(c))
  <2>1. MaxHistory \in Nat \ {0}
    BY AlignmentAssumption
  <2>2. /\ <<snapshot>> \in Seq(Snapshot) /\ Len(<<snapshot>>) = 1 /\ <<snapshot>> # <<>>
        /\ \A i \in DOMAIN <<snapshot>> : <<snapshot>>[i] = snapshot
    BY <1>3
  <2>3. <<>> \in Seq(Snapshot) /\ Len(<<>>) = 0 /\ DOMAIN <<>> = {}
    BY EmptySeq
  <2>. QED  BY <1>3, <2>1, <2>2, <2>3
<1>. HIDE DEF new
<1>5. /\ deques[c] \in Seq(Snapshot) /\ recorded[c] \in SUBSET Clock
      /\ closed \in Nat /\ available \in Nat /\ e \in Nat /\ mediums \in Nat
      /\ Known(deques[c], recorded[c], closed, available)
  BY <1>1, LastEndIs DEF AlignInv, AlignTypes
<1>6. /\ Retain(deques[c], new) \in Seq(Snapshot)
      /\ recorded[c] \cup Clocks(Retain(deques[c], new)) \in SUBSET Clock
      /\ recorded[c] \cup Clocks(Retain(deques[c], new)) = recorded[c] \cup added
      /\ Known(Retain(deques[c], new), recorded[c] \cup Clocks(Retain(deques[c], new)), e, at)
  <2>. DEFINE deque == deques[c]
              rec == recorded[c]
  <2>1. /\ deque \in Seq(Snapshot) /\ rec \in SUBSET Clock
        /\ closed \in Nat /\ available \in Nat /\ e \in Nat
        /\ Known(deque, rec, closed, available)
    BY <1>5
  <2>. HIDE DEF deque, rec, added
  <2>2. RecordedRight(deque, new, rec, e, at)
    BY <1>4, <2>1, Records
  <2>. QED  BY <2>2 DEF RecordedRight, deque, rec, added
<1>7. \A r \in recorded[c] : OnGrid(r.asOf)
  BY DEF AlignInv
<1>8. recorded[c] # {} => mediums >= WarmUp(c)
  BY DEF AlignInv
<1>9. after = recorded[c] \cup added
  BY <1>2, <1>6
<1>. HIDE DEF after
<1>10. \A r \in added : r.asOf = e /\ OnGrid(r.asOf) /\ new # <<>>
  OBVIOUS
<1>11. \A r \in after : OnGrid(r.asOf) /\ (r \in recorded[c] \/ r.asOf = e)
  <2>. HIDE DEF added
  <2>. QED  BY <1>7, <1>9, <1>10
<1>12. after # {} => mediums + 1 >= WarmUp(c)
  <2>. HIDE DEF added
  <2>. QED  BY <1>1, <1>4, <1>5, <1>8, <1>9, <1>10
<1>13. recorded[c] # {} => [asOf |-> e, available |-> at] \in after
  BY <1>1, <1>4, <1>5, <1>8, <1>9
<1>. QED  BY <1>2, <1>6, <1>11, <1>12, <1>13 DEF MediumRight, after

(* A step that leaves a deque leaves what it knows. *)
LEMMA KnowsItsClocks ==
    ASSUME NEW deque, NEW rec, NEW end, NEW at, Known(deque, rec, end, at)
    PROVE  rec \cup Clocks(deque) = rec
  BY ClocksAre DEF Known

(* The medium bar closes by itself. *)
LEMMA MediumBarStep ==
    ASSUME AlignInv, Distinct = TRUE, NEW at \in 1..MaxTime, NEW unready, MediumBarCloses(at, unready)
    PROVE  AlignInv'
<1>1. /\ openMedium \in 1..LastEnd /\ OnGrid(openMedium) /\ closed < openMedium
      /\ openMedium \in 0..LastEnd
  <2>1. /\ closed \in 1..LastEnd /\ closed < openMedium /\ openMedium = MediumEnd(closed)
        /\ openMedium # None
    BY DEF MediumBarCloses, AlignInv, AlignTypes
  <2>. QED  BY <2>1, MediumEndIs
<1>2. at \in Nat /\ available < at /\ MaxTime \in Nat
  BY AlignmentAssumption DEF MediumBarCloses
<1>. DEFINE kept(c) == AddMedium(deques, openMedium, at, unready)[c]
<1>3. /\ deques' = [c \in Components |-> kept(c)]
      /\ recorded' = [c \in Components |-> recorded[c] \cup Clocks(kept(c))]
      /\ mediums' = mediums + 1 /\ openMedium' = None /\ closed' = openMedium
      /\ available' = at
  BY DEF MediumBarCloses, AddMedium
<1>4. kept("IAE") = deques["IAE"]
  BY DEF AddMedium, Components
<1>5. ASSUME NEW c \in MediumComponents
      PROVE  MediumRight(c, kept(c), recorded[c] \cup Clocks(kept(c)), openMedium, at)
  <2>. DEFINE k == kept(c)
  <2>1. k = AddMedium(deques, openMedium, at, unready)[c]
    OBVIOUS
  <2>. HIDE DEF k
  <2>2. MediumRight(c, k, recorded[c] \cup Clocks(k), openMedium, at)
    BY <1>1, <1>2, <2>1, MediumRecords
  <2>. QED  BY <2>2 DEF k
<1>6. /\ deques["IAE"] \in Seq(Snapshot) /\ recorded["IAE"] \in SUBSET Clock
      /\ closed \in Nat /\ available \in Nat /\ mediums \in Nat
      /\ Known(deques["IAE"], recorded["IAE"], closed, available)
  BY ComponentsAre, LastEndIs DEF AlignInv, AlignTypes
<1>7. /\ recorded["IAE"] \cup Clocks(kept("IAE")) = recorded["IAE"]
      /\ Known(deques["IAE"], recorded["IAE"], openMedium, at)
  BY <1>1, <1>2, <1>4, <1>6, KnowsItsClocks, KnownLater, LastEndIs
<1>. HIDE DEF kept
<1>8. \A c \in Components : /\ kept(c) \in Seq(Snapshot)
                            /\ recorded[c] \cup Clocks(kept(c)) \in SUBSET Clock
                            /\ Known(kept(c), recorded[c] \cup Clocks(kept(c)), openMedium, at)
  BY <1>4, <1>5, <1>6, <1>7, ComponentsAre DEF MediumRight
<1>9. AlignTypes'
  <2>1. deques' \in [Components -> Seq(Snapshot)]
    BY <1>3, <1>8
  <2>2. recorded' \in [Components -> SUBSET Clock]
    BY <1>3, <1>8
  <2>. QED  BY <1>1, <1>2, <1>3, <1>6, <2>1, <2>2 DEF AlignTypes
<1>10. \A c \in Components : Known(deques'[c], recorded'[c], closed', available')
  BY <1>3, <1>8
<1>11. \A c \in MediumComponents : /\ \A r \in recorded'[c] : OnGrid(r.asOf)
                                   /\ recorded'[c] # {} => mediums' >= WarmUp(c)
  BY <1>3, <1>5, ComponentsAre DEF MediumRight
<1>. QED  BY <1>9, <1>10, <1>11 DEF AlignInv

(* What the aligner holds when an Auction snapshot is published: of each   *)
(* component all that was recorded up to its bar.                          *)
SeenRight(seen, rec, end, at) ==
    \A c \in Components :
        /\ seen[c] \in Seq(Snapshot)
        /\ Known(seen[c], {r \in rec[c] : r.asOf <= end}, end, at)

(* A bar on the grid is published after its medium bar was recorded. *)
GridSeen(rec, end) ==
    \A c \in MediumComponents : \A r \in rec[c] :
        OnGrid(end) /\ r.asOf <= end => \E t \in rec[c] : t.asOf = end

(* A trade closes a fast bar: the invariant, and what is published from.   *)
LEMMA FastBarStep ==
    ASSUME AlignInv, Distinct = TRUE, NEW end \in 1..LastEnd, NEW at \in 1..MaxTime, NEW unready,
           NEW gaps \in Retests, NEW settled \in BOOLEAN, NEW both \in BOOLEAN,
           FastBarCloses(end, at, unready, gaps, settled, both),
           NEW iae, iae = IaeSnapshots(end, at, "IAE" \notin unready, gaps, settled),
           NEW withFast, withFast = [deques EXCEPT !["IAE"] = Retain(@, iae)],
           NEW withMedium,
           withMedium = IF both THEN AddMedium(withFast, MediumEnd(end), at, unready) ELSE withFast,
           NEW seen, seen = SeenWhenPublished(withFast, withMedium, end)
    PROVE  /\ AlignInv'
           /\ SeenRight(seen, recorded', end, at) /\ GridSeen(recorded', end)
           /\ [asOf |-> end, available |-> at] \in recorded'["IAE"]
           /\ seen["IAE"] = Retain(deques["IAE"], iae)
<1>. DEFINE m == MediumEnd(end)
            after(c) == recorded[c] \cup Clocks(withMedium[c])
            clock == [asOf |-> end, available |-> at]
<1>1. /\ closed < end /\ available < at /\ at \in Nat /\ end \in Nat
      /\ both => m \in 1..at
      /\ m = end => both
      /\ settled => gaps # <<>>
      /\ deques' = withMedium
      /\ recorded' = [c \in Components |-> after(c)]
      /\ mediums' = IF both THEN mediums + 1 ELSE mediums
      /\ openMedium' = IF both THEN None ELSE m
      /\ closed' = IF both THEN m ELSE end
      /\ available' = at
  <2>1. at \in Nat /\ end \in Nat
    BY AlignmentAssumption, LastEndIs
  <2>. QED  BY <2>1 DEF FastBarCloses
<1>2. /\ m \in Nat
      /\ m # None => m \in 1..LastEnd /\ end <= m /\ OnGrid(m)
      /\ OnGrid(end) => m = end
      /\ both => m # None
  BY <1>1, MediumEndIs DEF None
<1>3. /\ iae \in Seq(Snapshot) /\ Len(iae) \in 1..MaxHistory
      /\ \A i \in DOMAIN iae : iae[i].asOf = end /\ iae[i].available = at
  <2>. DEFINE ready == "IAE" \notin unready
  <2>1. ready \in BOOLEAN /\ iae = IaeSnapshots(end, at, ready, gaps, settled)
    OBVIOUS
  <2>. HIDE DEF ready
  <2>2. settled => gaps # <<>>
    BY <1>1
  <2>3. IaeRight(IaeSnapshots(end, at, ready, gaps, settled), end, at, gaps)
    BY <1>1, <2>1, <2>2, IaeSnapshotsAre
  <2>. QED  BY <2>1, <2>3 DEF IaeRight
<1>4. /\ deques \in [Components -> Seq(Snapshot)] /\ recorded \in [Components -> SUBSET Clock]
      /\ closed \in Nat /\ available \in Nat /\ mediums \in Nat
      /\ \A c \in Components : Known(deques[c], recorded[c], closed, available)
  BY LastEndIs DEF AlignInv, AlignTypes
<1>5. /\ withFast["IAE"] = Retain(deques["IAE"], iae)
      /\ withMedium["IAE"] = withFast["IAE"]
      /\ DOMAIN withFast = Components /\ DOMAIN withMedium = Components
      /\ \A c \in MediumComponents : withFast[c] = deques[c]
      /\ seen["IAE"] = withFast["IAE"]
  BY <1>4, ComponentsAre DEF AddMedium, SeenWhenPublished
<1>. HIDE DEF m
<1>6. /\ withFast["IAE"] \in Seq(Snapshot)
      /\ after("IAE") \in SUBSET Clock
      /\ after("IAE") = recorded["IAE"] \cup {clock}
      /\ Known(withFast["IAE"], after("IAE"), end, at)
  <2>1. "IAE" \in Components /\ iae # <<>> /\ Len(iae) <= MaxHistory
    BY <1>3, EmptySeq, ComponentsAre, AlignmentAssumption
  <2>2. RecordedRight(deques["IAE"], iae, recorded["IAE"], end, at)
    BY <1>1, <1>3, <1>4, <2>1, Records
  <2>. QED  BY <1>5, <2>1, <2>2 DEF RecordedRight
<1>7. ASSUME both, NEW c \in MediumComponents
      PROVE  MediumRight(c, withMedium[c], after(c), m, at)
  <2>. DEFINE kept == withMedium[c]
  <2>1. kept = AddMedium(withFast, m, at, unready)[c]
    BY <1>7 DEF m
  <2>2. withFast[c] = deques[c] /\ m \in 1..LastEnd /\ OnGrid(m) /\ closed < m
    BY <1>1, <1>2, <1>4, <1>5, <1>7
  <2>. HIDE DEF kept
  <2>3. MediumRight(c, kept, recorded[c] \cup Clocks(kept), m, at)
    BY <1>1, <2>1, <2>2, MediumRecords
  <2>. QED  BY <2>3 DEF kept
<1>8. ASSUME ~ both, NEW c \in MediumComponents
      PROVE  withMedium[c] = deques[c] /\ after(c) = recorded[c]
  <2>1. withMedium[c] = deques[c]
    BY <1>5, <1>8
  <2>2. Known(deques[c], recorded[c], closed, available)
    BY <1>4, ComponentsAre
  <2>. QED  BY <2>1, <2>2, KnowsItsClocks
<1>9. \A c \in Components : recorded'[c] = after(c)
  BY <1>1
<1>. HIDE DEF after
<1>10. end <= closed' /\ closed' \in 0..LastEnd /\ closed' \in Nat
  BY <1>1, <1>2
<1>11. ASSUME NEW c \in Components
       PROVE  /\ withMedium[c] \in Seq(Snapshot) /\ after(c) \in SUBSET Clock
              /\ Known(withMedium[c], after(c), closed', at)
  <2>1. CASE c = "IAE"
    <3>. DEFINE deque == withFast["IAE"]
                rec == after("IAE")
    <3>1. deque \in Seq(Snapshot) /\ rec \in SUBSET Clock /\ Known(deque, rec, end, at)
      BY <1>6
    <3>. HIDE DEF deque, rec
    <3>2. Known(deque, rec, closed', at)
      BY <1>1, <1>10, <3>1, KnownLater
    <3>. QED  BY <1>5, <2>1, <3>1, <3>2 DEF deque, rec
  <2>2. CASE c \in MediumComponents /\ both
    BY <1>1, <1>7, <2>2 DEF MediumRight
  <2>3. CASE c \in MediumComponents /\ ~ both
    <3>. DEFINE deque == deques[c]
                rec == recorded[c]
    <3>1. deque \in Seq(Snapshot) /\ rec \in SUBSET Clock /\ Known(deque, rec, closed, available)
      BY <1>4
    <3>. HIDE DEF deque, rec
    <3>2. closed <= closed' /\ available <= at
      BY <1>1, <1>4, <1>10
    <3>3. Known(deque, rec, closed', at)
      BY <1>1, <1>4, <1>10, <3>1, <3>2, KnownLater
    <3>. QED  BY <1>8, <2>3, <3>1, <3>3 DEF deque, rec
  <2>. QED  BY <2>1, <2>2, <2>3, ComponentsAre
<1>12. AlignTypes'
  <2>1. deques' \in [Components -> Seq(Snapshot)]
    <3>1. withMedium = [c \in Components |-> withMedium[c]]
      BY <1>4 DEF AddMedium
    <3>. QED  BY <1>1, <1>11, <3>1
  <2>2. recorded' \in [Components -> SUBSET Clock]
    BY <1>1, <1>11
  <2>3. mediums' \in Nat /\ available' \in Nat
    BY <1>1, <1>4
  <2>4. openMedium' # None => /\ closed' \in 1..LastEnd /\ closed' < openMedium'
                              /\ openMedium' = MediumEnd(closed')
    <3>. SUFFICES ASSUME openMedium' # None
                  PROVE  /\ closed' \in 1..LastEnd /\ closed' < openMedium'
                         /\ openMedium' = MediumEnd(closed')
      OBVIOUS
    <3>1. ~ both /\ openMedium' = m /\ closed' = end
      BY <1>1
    <3>2. m # None /\ m # end /\ end <= m
      BY <1>1, <1>2, <3>1
    <3>. QED  BY <1>1, <1>2, <3>1, <3>2 DEF m
  <2>. QED  BY <1>10, <2>1, <2>2, <2>3, <2>4 DEF AlignTypes
<1>13. ASSUME NEW c \in MediumComponents
       PROVE  /\ \A r \in after(c) : OnGrid(r.asOf)
              /\ after(c) # {} => mediums' >= WarmUp(c)
  <2>1. CASE both
    BY <1>1, <1>7, <2>1 DEF MediumRight
  <2>2. CASE ~ both
    BY <1>1, <1>8, <2>2 DEF AlignInv
  <2>. QED  BY <2>1, <2>2
<1>14. AlignInv'
  <2>1. \A c \in Components : Known(deques'[c], recorded'[c], closed', available')
    BY <1>1, <1>9, <1>11
  <2>2. \A c \in MediumComponents : /\ \A r \in recorded'[c] : OnGrid(r.asOf)
                                    /\ recorded'[c] # {} => mediums' >= WarmUp(c)
    BY <1>9, <1>13, ComponentsAre
  <2>. QED  BY <1>12, <2>1, <2>2 DEF AlignInv
<1>15. ASSUME NEW c \in Components
       PROVE  /\ seen[c] \in Seq(Snapshot)
              /\ Known(seen[c], {r \in recorded'[c] : r.asOf <= end}, end, at)
  <2>. DEFINE rec == {r \in recorded'[c] : r.asOf <= end}
  <2>1. CASE c = "IAE"
    <3>1. rec = after("IAE")
      <4>1. \A r \in after("IAE") : r.asOf <= end
        BY <1>6 DEF Known
      <4>. QED  BY <1>9, <2>1, <4>1
    <3>. QED  BY <1>5, <1>6, <2>1, <3>1
  <2>2. CASE c \in MediumComponents /\ m = end
    <3>1. both /\ seen[c] = withMedium[c]
      BY <1>1, <2>2 DEF SeenWhenPublished, m
    <3>2. MediumRight(c, withMedium[c], after(c), end, at)
      BY <1>7, <2>2, <3>1
    <3>3. rec = after(c)
      BY <1>9, <3>2 DEF MediumRight, Known
    <3>. QED  BY <3>1, <3>2, <3>3 DEF MediumRight
  <2>3. CASE c \in MediumComponents /\ m # end
    <3>. DEFINE deque == deques[c]
                old == recorded[c]
    <3>1. seen[c] = deque
      BY <1>5, <2>3 DEF SeenWhenPublished, m
    <3>2. deque \in Seq(Snapshot) /\ old \in SUBSET Clock /\ Known(deque, old, closed, available)
      BY <1>4
    <3>3. \A r \in old : r.asOf <= end
      <4>1. \A r \in old : r.asOf <= closed /\ r.asOf \in Nat
        BY <3>2, LastEndIs DEF Known, Clock
      <4>. QED  BY <1>1, <1>4, <4>1
    <3>4. rec = old
      <4>1. CASE both
        <5>1. \A r \in after(c) : r \in old \/ r.asOf = m
          BY <1>7, <2>3, <4>1 DEF MediumRight
        <5>2. ~ (m <= end)
          BY <1>1, <1>2, <2>3, <4>1
        <5>3. old \subseteq after(c)
          BY DEF after
        <5>. QED  BY <1>9, <3>3, <5>1, <5>2, <5>3
      <4>2. CASE ~ both
        BY <1>8, <1>9, <2>3, <3>3, <4>2
      <4>. QED  BY <4>1, <4>2
    <3>. HIDE DEF deque, old, rec
    <3>5. closed <= end /\ available <= at
      BY <1>1, <1>4
    <3>6. Known(deque, old, end, at)
      BY <1>1, <1>4, <3>2, <3>5, KnownLater
    <3>. QED  BY <3>1, <3>2, <3>4, <3>6 DEF rec
  <2>. QED  BY <2>1, <2>2, <2>3, ComponentsAre
<1>16. ASSUME NEW c \in MediumComponents, NEW r \in recorded'[c], OnGrid(end), r.asOf <= end
       PROVE  \E t \in recorded'[c] : t.asOf = end
  <2>1. both /\ m = end
    BY <1>1, <1>2, <1>16
  <2>2. MediumRight(c, withMedium[c], after(c), end, at) /\ recorded'[c] = after(c)
    BY <1>7, <1>9, <2>1, ComponentsAre
  <2>3. CASE r \in recorded[c]
    BY <2>2, <2>3 DEF MediumRight
  <2>4. CASE r.asOf = end
    BY <2>4
  <2>. QED  BY <2>2, <2>3, <2>4 DEF MediumRight
<1>17. clock \in recorded'["IAE"]
  BY <1>6, <1>9, ComponentsAre
<1>. QED  BY <1>5, <1>14, <1>15, <1>16, <1>17 DEF SeenRight, GridSeen

-----------------------------------------------------------------------------
(* What one alignment used *)

(* The conditions AlignsLatest and ReadyIsCurrent set on one alignment. *)
UsesLatest(y, rec) ==
    \A c \in Components :
        LET known == {s \in rec[c] : SessionOf(s.asOf) = y.session
                                        /\ s.available <= y.at /\ s.asOf <= y.asOf}
        IN  IF known = {} THEN y.chosen[c] = NoSnapshot
            ELSE /\ y.chosen[c].asOf \in {s.asOf : s \in known}
                 /\ \A s \in known : s.asOf <= y.chosen[c].asOf

CurrentIfReady(y) ==
    y.ready =>
        /\ y.chosen["IAE"].asOf = y.asOf
        /\ y.chosen["IMSI"].asOf = y.chosen["ICM"].asOf
        /\ y.asOf - y.chosen["IMSI"].asOf = (y.asOf - SessionStart(y.session)) % MediumBars

(* The clocks of its own session that a bar could use. *)
Usable(rec, end, at) ==
    {s \in rec : SessionOf(s.asOf) = SessionOf(end) /\ s.available <= at /\ s.asOf <= end}

(* What is chosen from a deque that knows what a bar can use.              *)
LEMMA ChoosesUsable ==
    ASSUME NEW deque \in Seq(Snapshot), NEW rec \in SUBSET Clock,
           NEW end \in 1..LastEnd, NEW at \in Nat,
           Known(deque, {r \in rec : r.asOf <= end}, end, at),
           NEW chosen, chosen = LatestEligible(deque, SessionOf(end), at)
    PROVE  IF Usable(rec, end, at) = {} THEN chosen = NoSnapshot
           ELSE /\ chosen.asOf \in {s.asOf : s \in Usable(rec, end, at)}
                /\ \A s \in Usable(rec, end, at) : s.asOf <= chosen.asOf
<1>. DEFINE past == {r \in rec : r.asOf <= end}
            known == {s \in past : SessionOf(s.asOf) = SessionOf(end)}
<1>1. past \in SUBSET Clock /\ Known(deque, past, end, at)
  OBVIOUS
<1>. HIDE DEF past
<1>2. IF known = {} THEN chosen = NoSnapshot
      ELSE /\ chosen \in Snapshot /\ ClockOf(chosen) \in known
           /\ \A s \in known : s.asOf <= chosen.asOf
  BY <1>1, ChoosesLatest
<1>3. Usable(rec, end, at) = known
  <2>1. \A s \in past : s.available <= at
    BY <1>1 DEF Known
  <2>. QED  BY <2>1 DEF Usable, past
<1>. HIDE DEF known
<1>4. CASE known = {}
  BY <1>2, <1>3, <1>4
<1>5. CASE known # {}
  <2>1. chosen \in Snapshot /\ ClockOf(chosen) \in known
    BY <1>2, <1>5
  <2>2. chosen.asOf = ClockOf(chosen).asOf
    BY <2>1, SnapshotIs
  <2>3. chosen.asOf \in {s.asOf : s \in known}
    BY <2>1, <2>2
  <2>. QED  BY <1>2, <1>3, <1>5, <2>3
<1>. QED  BY <1>4, <1>5

(* A snapshot of a medium bar that is still fresh, of the session of its   *)
(* bar and the latest there is, is of the last medium bar that ended.      *)
LEMMA FreshMediumAge ==
    ASSUME NEW end \in 1..LastEnd, NEW asOf \in 1..LastEnd,
           OnGrid(asOf), SessionOf(asOf) = SessionOf(end),
           end - asOf \in 0..MediumBars, OnGrid(end) => asOf = end
    PROVE  end - asOf = (end - SessionStart(SessionOf(end))) % MediumBars
<1>. DEFINE start == SessionStart(SessionOf(end))
            age == end - asOf
            q == (end - start) \div MediumBars
            r == (end - start) % MediumBars
<1>1. /\ start \in Nat /\ start < end /\ end \in Nat /\ asOf \in Nat
      /\ MediumBars \in Nat \ {0}
  BY StartIs, LastEndIs, AlignmentAssumption
<1>2. PICK k \in Nat : asOf = start + MediumBars * k
  BY DEF OnGrid
<1>3. MediumBars * k \in Nat /\ MediumBars * (k + 1) = MediumBars * k + MediumBars
  BY <1>1
<1>4. age # MediumBars
  <2>. SUFFICES ASSUME age = MediumBars PROVE FALSE
    OBVIOUS
  <2>1. end = start + MediumBars * (k + 1)
    <3>. HIDE DEF start
    <3>. QED  BY <1>1, <1>2, <1>3
  <2>2. OnGrid(end)
    BY <2>1 DEF OnGrid
  <2>. QED  BY <1>1, <2>2
<1>. HIDE DEF start
<1>5. age \in 0..(MediumBars - 1)
  BY <1>1, <1>4
<1>6. end - start \in Nat /\ end - start = MediumBars * k + age
  BY <1>1, <1>2, <1>3
<1>7. q \in Nat /\ r \in 0..(MediumBars - 1) /\ end - start = MediumBars * q + r
  BY <1>1, <1>6, Division
<1>8. r = age
  <2>. HIDE DEF q, r, age
  <2>1. MediumBars * q + r = MediumBars * k + age
    BY <1>6, <1>7
  <2>. QED  BY <1>1, <1>5, <1>7, <2>1, DivisionIsOne
<1>. QED  BY <1>8 DEF start

(* An alignment published from what the aligner holds, with or without an  *)
(* IAE snapshot of its bar named, uses the latest and is current if ready. *)
LEMMA AlignedRight ==
    ASSUME NEW end \in 1..LastEnd, NEW at \in Nat, NEW rec \in [Components -> SUBSET Clock],
           NEW seen, SeenRight(seen, rec, end, at), GridSeen(rec, end),
           \A c \in MediumComponents : \A r \in rec[c] : OnGrid(r.asOf),
           [asOf |-> end, available |-> at] \in rec["IAE"],
           NEW auctionReady, NEW override, override = NoSnapshot \/ override.asOf = end,
           NEW y, y = Align(seen, end, at, auctionReady, override)
    PROVE  UsesLatest(y, rec) /\ CurrentIfReady(y)
<1>. DEFINE session == SessionOf(end)
            clock == [asOf |-> end, available |-> at]
            known(c) == Usable(rec[c], end, at)
<1>1. /\ y.asOf = end /\ y.at = at /\ y.session = session
      /\ \A c \in Components : y.chosen[c] = IF c = "IAE" /\ override # NoSnapshot THEN override
                                             ELSE LatestEligible(seen[c], session, at)
      /\ y.ready => \A c \in Components : Fresh(y.chosen[c], end, c)
  BY DEF Align
<1>2. end \in Nat /\ end <= end /\ at <= at
  BY LastEndIs
<1>3. ASSUME NEW c \in Components
      PROVE  /\ rec[c] \in SUBSET Clock
             /\ known(c) \subseteq rec[c]
             /\ \A s \in known(c) : s.asOf \in 1..LastEnd /\ s.asOf <= end
                                    /\ SessionOf(s.asOf) = session
  BY DEF Usable, Clock
<1>4. clock \in known("IAE") /\ clock.asOf = end
  BY <1>2 DEF Usable
<1>5. ASSUME NEW c \in Components
      PROVE  IF known(c) = {} THEN y.chosen[c] = NoSnapshot
             ELSE /\ y.chosen[c].asOf \in {s.asOf : s \in known(c)}
                  /\ \A s \in known(c) : s.asOf <= y.chosen[c].asOf
  <2>1. CASE c = "IAE" /\ override # NoSnapshot
    <3>1. y.chosen[c].asOf = end
      BY <1>1, <2>1
    <3>2. known(c) # {} /\ end \in {s.asOf : s \in known(c)}
      BY <1>4, <2>1
    <3>. QED  BY <1>3, <3>1, <3>2
  <2>2. CASE ~ (c = "IAE" /\ override # NoSnapshot)
    <3>. DEFINE deque == seen[c]
                r == rec[c]
                chosen == y.chosen[c]
    <3>1. /\ deque \in Seq(Snapshot) /\ r \in SUBSET Clock
          /\ Known(deque, {t \in r : t.asOf <= end}, end, at)
      BY <1>3 DEF SeenRight
    <3>2. chosen = LatestEligible(deque, SessionOf(end), at)
      BY <1>1, <2>2
    <3>. HIDE DEF deque, r, chosen
    <3>3. IF Usable(r, end, at) = {} THEN chosen = NoSnapshot
          ELSE /\ chosen.asOf \in {s.asOf : s \in Usable(r, end, at)}
               /\ \A s \in Usable(r, end, at) : s.asOf <= chosen.asOf
      BY <3>1, <3>2, ChoosesUsable
    <3>. QED  BY <3>3 DEF r, chosen
  <2>. QED  BY <2>1, <2>2
<1>6. UsesLatest(y, rec)
  <2>. SUFFICES ASSUME NEW c \in Components
                PROVE  LET used == {s \in rec[c] : SessionOf(s.asOf) = y.session
                                                      /\ s.available <= y.at /\ s.asOf <= y.asOf}
                       IN  IF used = {} THEN y.chosen[c] = NoSnapshot
                           ELSE /\ y.chosen[c].asOf \in {s.asOf : s \in used}
                                /\ \A s \in used : s.asOf <= y.chosen[c].asOf
    BY DEF UsesLatest
  <2>1. known(c) = {s \in rec[c] : SessionOf(s.asOf) = y.session
                                      /\ s.available <= y.at /\ s.asOf <= y.asOf}
    BY <1>1 DEF Usable
  <2>. QED  BY <1>5, <2>1
<1>7. y.chosen["IAE"].asOf = end
  <2>1. "IAE" \in Components
    BY ComponentsAre
  <2>2. PICK s \in known("IAE") : y.chosen["IAE"].asOf = s.asOf
    BY <1>4, <1>5, <2>1
  <2>3. end <= s.asOf
    BY <1>4, <1>5, <2>1, <2>2
  <2>4. s.asOf <= end /\ s.asOf \in Nat
    BY <1>3, <2>1, LastEndIs
  <2>. QED  BY <1>2, <2>2, <2>3, <2>4
<1>8. ASSUME y.ready, NEW c \in MediumComponents
      PROVE  end - y.chosen[c].asOf = (end - SessionStart(session)) % MediumBars
  <2>1. c \in Components /\ MaximumAge(c) = MediumBars
    BY ComponentsAre DEF MaximumAge
  <2>2. y.chosen[c] # NoSnapshot /\ end - y.chosen[c].asOf \in 0..MediumBars
    BY <1>1, <1>8, <2>1 DEF Fresh
  <2>3. PICK s \in known(c) : y.chosen[c].asOf = s.asOf
    BY <1>5, <2>1, <2>2
  <2>4. /\ s.asOf \in 1..LastEnd /\ s.asOf <= end /\ SessionOf(s.asOf) = session
        /\ OnGrid(s.asOf) /\ s \in rec[c]
    BY <1>3, <2>1
  <2>5. ASSUME OnGrid(end) PROVE s.asOf = end
    <3>1. PICK t \in rec[c] : t.asOf = end
      BY <2>4, <2>5 DEF GridSeen
    <3>2. t.available <= at
      BY <2>1, <3>1, <1>2 DEF SeenRight, Known
    <3>3. t \in known(c)
      BY <1>2, <3>1, <3>2 DEF Usable
    <3>4. end <= s.asOf
      BY <1>5, <2>1, <2>3, <3>1, <3>3
    <3>. QED  BY <1>2, <2>4, <3>4
  <2>6. end - s.asOf = (end - SessionStart(SessionOf(end))) % MediumBars
    BY <2>2, <2>3, <2>4, <2>5, FreshMediumAge
  <2>. QED  BY <2>3, <2>6
<1>9. CurrentIfReady(y)
  <2>. SUFFICES ASSUME y.ready
                PROVE  /\ y.chosen["IMSI"].asOf = y.chosen["ICM"].asOf
                       /\ end - y.chosen["IMSI"].asOf = (end - SessionStart(session)) % MediumBars
    BY <1>1, <1>7 DEF CurrentIfReady
  <2>1. /\ end - y.chosen["IMSI"].asOf = (end - SessionStart(session)) % MediumBars
        /\ end - y.chosen["ICM"].asOf = (end - SessionStart(session)) % MediumBars
    BY <1>8 DEF MediumComponents
  <2>2. \A c \in MediumComponents : y.chosen[c].asOf \in Int
    <3>. SUFFICES ASSUME NEW c \in MediumComponents PROVE y.chosen[c].asOf \in Int
      OBVIOUS
    <3>1. c \in Components /\ y.chosen[c] # NoSnapshot
      BY <1>1, ComponentsAre DEF Fresh
    <3>2. PICK s \in known(c) : y.chosen[c].asOf = s.asOf
      BY <1>5, <3>1
    <3>. QED  BY <1>3, <3>1, <3>2, LastEndIs
  <2>. QED  BY <1>2, <2>1, <2>2 DEF MediumComponents
<1>. QED  BY <1>6, <1>9

(* The snapshot a first retest names is of its gap and its bar.            *)
LEMMA ExactSnapshotIs ==
    ASSUME NEW iae, NEW end, NEW at, NEW gaps, IaeRight(iae, end, at, gaps), NEW gap \in Range(gaps)
    PROVE  /\ ExactSnapshot(iae, gap) \in Snapshot
           /\ ExactSnapshot(iae, gap).asOf = end /\ ExactSnapshot(iae, gap).gap = gap
<1>. DEFINE i == CHOOSE j \in 1..Len(iae) : iae[j].gap = gap
<1>1. \E j \in 1..Len(iae) : iae[j].gap = gap
  BY DEF IaeRight
<1>2. i \in 1..Len(iae) /\ iae[i].gap = gap
  BY <1>1
<1>3. ExactSnapshot(iae, gap) = iae[i]
  BY DEF ExactSnapshot
<1>. HIDE DEF i
<1>4. iae[i] \in Snapshot /\ iae[i].asOf = end
  BY <1>2, ElementOfSeq DEF IaeRight
<1>. QED  BY <1>2, <1>3, <1>4

(* Without one named, the aligner chooses the snapshot of the whole bar:   *)
(* of the newest, the first that was recorded.                             *)
LEMMA ChoosesTheBar ==
    ASSUME NEW deque \in Seq(Snapshot), NEW rec \in SUBSET Clock, NEW past \in Nat, NEW before \in Nat,
           Known(deque, rec, past, before),
           NEW end \in 1..LastEnd, NEW at \in Nat, before < at,
           NEW gaps, NEW iae, IaeRight(iae, end, at, gaps)
    PROVE  LatestEligible(Retain(deque, iae), SessionOf(end), at).bar = TRUE
<1>. DEFINE kept == Retain(deque, iae)
            n == Len(deque)
            m == Len(iae)
            session == SessionOf(end)
            eligible == {i \in DOMAIN kept : Eligible(kept[i], session, at)}
            chosen == LatestEligible(kept, session, at)
<1>1. /\ iae \in Seq(Snapshot) /\ m \in Nat /\ 1 <= m /\ m <= MaxHistory /\ DOMAIN iae = 1..m
      /\ \A i \in DOMAIN iae : iae[i].asOf = end /\ iae[i].available = at
      /\ iae[1].bar = TRUE
  BY AlignmentAssumption DEF IaeRight
<1>2. PICK d \in 0..n :
         /\ kept \in Seq(Snapshot)
         /\ Len(kept) = n - d + m
         /\ \A i \in 1..(n - d) : kept[i] = deque[i + d]
         /\ \A i \in 1..m : kept[n - d + i] = iae[i]
  <2>. HIDE DEF kept, n, m
  <2>. QED  BY <1>1, Retained DEF kept, n, m
<1>3. n \in Nat /\ DOMAIN deque = 1..n /\ DOMAIN kept = 1..(n - d + m)
  BY <1>2, LenProperties
<1>4. IF eligible = {} THEN chosen = NoSnapshot
      ELSE \E k \in eligible :
              /\ chosen = kept[k]
              /\ \A j \in eligible : kept[j].available <= kept[k].available
              /\ \A j \in eligible : j < k => kept[j].available < kept[k].available
  <2>. HIDE DEF kept
  <2>. QED  BY <1>2, ChosenIs
<1>. HIDE DEF kept, n, m, chosen
<1>5. ASSUME NEW i \in 1..m
      PROVE  /\ n - d + i \in 1..(n - d + m) /\ n - d + i \in eligible
             /\ kept[n - d + i].available = at
  <2>1. n - d + i \in 1..(n - d + m)
    BY <1>1, <1>3
  <2>2. kept[n - d + i] = iae[i] /\ iae[i] \in Snapshot
    BY <1>1, <1>2, ElementOfSeq DEF m
  <2>3. iae[i].asOf = end /\ iae[i].available = at /\ iae[i].session = session
    BY <1>1, <2>2, SnapshotIs
  <2>. QED  BY <1>3, <2>1, <2>2, <2>3 DEF Eligible
<1>6. ASSUME NEW i \in 1..(n - d) PROVE kept[i].available \in Nat /\ kept[i].available < at
  <2>1. i + d \in 1..n /\ kept[i] = deque[i + d]
    BY <1>2, <1>3
  <2>2. deque[i + d] \in Snapshot /\ ClockOf(deque[i + d]) \in rec
    BY <1>3, <2>1, ElementOfSeq DEF Known, n
  <2>3. ClockOf(deque[i + d]).available <= before
    BY <2>2 DEF Known
  <2>. QED  BY <2>1, <2>2, <2>3, SnapshotIs
<1>7. 1 \in 1..m /\ n - d + 1 \in eligible /\ kept[n - d + 1].available = at
  <2>1. 1 \in 1..m
    BY <1>1
  <2>. QED  BY <1>5, <2>1
<1>8. PICK k \in eligible :
         /\ chosen = kept[k]
         /\ \A j \in eligible : kept[j].available <= kept[k].available
         /\ \A j \in eligible : j < k => kept[j].available < kept[k].available
  BY <1>4, <1>7
<1>9. k \in 1..(n - d + m)
  BY <1>3
<1>10. k = n - d + 1
  <2>1. at <= kept[k].available
    BY <1>7, <1>8
  <2>2. k \notin 1..(n - d)
    BY <1>6, <2>1
  <2>3. k - (n - d) \in 1..m /\ n - d + (k - (n - d)) = k
    BY <1>1, <1>3, <1>9, <2>2
  <2>4. kept[k].available = at
    BY <1>5, <2>3
  <2>5. ~ (n - d + 1 < k)
    BY <1>7, <1>8, <2>4
  <2>. QED  BY <1>3, <1>9, <2>2, <2>5
<1>11. chosen = iae[1]
  BY <1>2, <1>7, <1>8, <1>10
<1>. QED  BY <1>1, <1>11 DEF chosen, kept

-----------------------------------------------------------------------------
(* The theorems *)

(* The published alignments are those of what has been recorded.           *)
PublishedInv ==
    /\ AlignInv
    /\ AlignsLatest
    /\ ReadyIsCurrent
    /\ EventsNameTheirOwnSnapshot

(* Nothing is recorded or published at first.                              *)
LEMMA AlignmentStarts == Init => PublishedInv
<1>. SUFFICES ASSUME Init PROVE PublishedInv
  OBVIOUS
<1>1. AlignTypes
  <2>1. <<>> \in Seq(Snapshot)
    BY EmptySeq
  <2>2. 0 \in 0..LastEnd
    BY LastEndIs
  <2>. QED  BY <2>1, <2>2 DEF Init, AlignTypes, None
<1>2. \A c \in Components : Known(deques[c], recorded[c], closed, available)
  <2>1. \A c \in Components : deques[c] = <<>> /\ recorded[c] = {}
    BY DEF Init
  <2>2. DOMAIN <<>> = {}
    BY EmptySeq
  <2>. QED  BY <2>1, <2>2 DEF Known
<1>3. \A c \in MediumComponents : recorded[c] = {}
  BY ComponentsAre DEF Init
<1>. QED  BY <1>1, <1>2, <1>3 DEF PublishedInv, AlignInv, AlignsLatest, ReadyIsCurrent,
                                  EventsNameTheirOwnSnapshot, Init

(* The three properties are those of each alignment. *)
LEMMA EachAligned ==
    ASSUME \A y \in aligned' : UsesLatest(y, recorded') /\ CurrentIfReady(y)
    PROVE  AlignsLatest' /\ ReadyIsCurrent'
<1>1. AlignsLatest'
  BY DEF AlignsLatest, UsesLatest
<1>2. ReadyIsCurrent'
  BY DEF ReadyIsCurrent, CurrentIfReady
<1>. QED  BY <1>1, <1>2

(* What a fast bar publishes is right, given what it has recorded.         *)
LEMMA FastBarPublishes ==
    ASSUME AlignInv, Distinct = TRUE, NEW end \in 1..LastEnd, NEW at \in 1..MaxTime, NEW unready,
           NEW gaps \in Retests, NEW settled \in BOOLEAN, NEW both \in BOOLEAN,
           FastBarCloses(end, at, unready, gaps, settled, both)
    PROVE  PublishedInv'
<1>. DEFINE iae        == IaeSnapshots(end, at, "IAE" \notin unready, gaps, settled)
            withFast   == [deques EXCEPT !["IAE"] = Retain(@, iae)]
            withMedium == IF both THEN AddMedium(withFast, MediumEnd(end), at, unready) ELSE withFast
            seen       == SeenWhenPublished(withFast, withMedium, end)
            ready      == "Auction" \notin unready
            plain      == Align(seen, end, at, ready, NoSnapshot)
            own(gap)   == Align(seen, end, at, ready, ExactSnapshot(iae, gap))
<1>1. /\ AlignInv' /\ SeenRight(seen, recorded', end, at) /\ GridSeen(recorded', end)
      /\ [asOf |-> end, available |-> at] \in recorded'["IAE"]
      /\ seen["IAE"] = Retain(deques["IAE"], iae)
  BY FastBarStep
<1>2. /\ aligned' = {plain} \cup {own(gap) : gap \in Range(gaps)}
      /\ events' = {[time |-> end, parent |-> gap, synergy |-> own(gap)] : gap \in Range(gaps)}
                     \cup {[time |-> end, parent |-> NoGap, synergy |-> plain]}
  BY DEF FastBarCloses, Publish
<1>3. at \in Nat /\ available < at /\ (settled => gaps # <<>>)
  BY AlignmentAssumption DEF FastBarCloses
<1>4. IaeRight(iae, end, at, gaps)
  <2>. DEFINE isReady == "IAE" \notin unready
  <2>1. isReady \in BOOLEAN /\ iae = IaeSnapshots(end, at, isReady, gaps, settled)
    OBVIOUS
  <2>. HIDE DEF isReady
  <2>. QED  BY <1>3, <2>1, IaeSnapshotsAre
<1>5. /\ deques["IAE"] \in Seq(Snapshot) /\ recorded["IAE"] \in SUBSET Clock
      /\ closed \in Nat /\ available \in Nat
      /\ Known(deques["IAE"], recorded["IAE"], closed, available)
  BY ComponentsAre, LastEndIs DEF AlignInv, AlignTypes
<1>6. /\ recorded' \in [Components -> SUBSET Clock]
      /\ \A c \in MediumComponents : \A r \in recorded'[c] : OnGrid(r.asOf)
  BY <1>1 DEF AlignInv, AlignTypes
<1>. HIDE DEF iae, seen, ready
<1>7. ASSUME NEW override, override = NoSnapshot \/ override.asOf = end,
             NEW y, y = Align(seen, end, at, ready, override)
      PROVE  UsesLatest(y, recorded') /\ CurrentIfReady(y)
  <2>. DEFINE rec == recorded'
  <2>1. /\ rec \in [Components -> SUBSET Clock] /\ SeenRight(seen, rec, end, at)
        /\ GridSeen(rec, end) /\ [asOf |-> end, available |-> at] \in rec["IAE"]
        /\ \A c \in MediumComponents : \A r \in rec[c] : OnGrid(r.asOf)
    BY <1>1, <1>6
  <2>. HIDE DEF rec
  <2>2. UsesLatest(y, rec) /\ CurrentIfReady(y)
    BY <1>3, <1>7, <2>1, AlignedRight
  <2>. QED  BY <2>2 DEF rec
<1>8. ASSUME NEW gap \in Range(gaps)
      PROVE  /\ own(gap).chosen["IAE"] = ExactSnapshot(iae, gap)
             /\ ExactSnapshot(iae, gap).asOf = end /\ ExactSnapshot(iae, gap).gap = gap
             /\ UsesLatest(own(gap), recorded') /\ CurrentIfReady(own(gap))
  <2>1. /\ ExactSnapshot(iae, gap) # NoSnapshot
        /\ ExactSnapshot(iae, gap).asOf = end /\ ExactSnapshot(iae, gap).gap = gap
    BY <1>4, ExactSnapshotIs, SnapshotIs
  <2>2. own(gap).chosen["IAE"] = ExactSnapshot(iae, gap)
    BY <2>1 DEF Align, Components
  <2>. HIDE DEF own
  <2>3. UsesLatest(own(gap), recorded') /\ CurrentIfReady(own(gap))
    BY <1>7, <2>1 DEF own
  <2>. QED  BY <2>1, <2>2, <2>3
<1>9. UsesLatest(plain, recorded') /\ CurrentIfReady(plain)
  BY <1>7
<1>10. plain.chosen["IAE"].bar /\ plain.chosen["IAE"].asOf = end
  <2>1. plain.chosen["IAE"] = LatestEligible(seen["IAE"], SessionOf(end), at)
    BY DEF Align, Components
  <2>2. LatestEligible(Retain(deques["IAE"], iae), SessionOf(end), at).bar = TRUE
    <3>. DEFINE deque == deques["IAE"]
                rec == recorded["IAE"]
    <3>1. deque \in Seq(Snapshot) /\ rec \in SUBSET Clock /\ Known(deque, rec, closed, available)
      BY <1>5
    <3>. HIDE DEF deque, rec
    <3>2. LatestEligible(Retain(deque, iae), SessionOf(end), at).bar = TRUE
      BY <1>3, <1>4, <1>5, <3>1, ChoosesTheBar
    <3>. QED  BY <3>2 DEF deque
  <2>3. plain.asOf = end /\ plain.at = at /\ plain.session = SessionOf(end)
    BY DEF Align
  <2>4. [asOf |-> end, available |-> at] \in Usable(recorded'["IAE"], end, at)
    BY <1>1, <1>3, LastEndIs DEF Usable
  <2>5. /\ plain.chosen["IAE"].asOf \in {s.asOf : s \in Usable(recorded'["IAE"], end, at)}
        /\ \A s \in Usable(recorded'["IAE"], end, at) : s.asOf <= plain.chosen["IAE"].asOf
    <3>. HIDE DEF plain
    <3>. QED  BY <1>9, <2>3, <2>4, ComponentsAre DEF UsesLatest, Usable
  <2>6. plain.chosen["IAE"].asOf = end
    <3>. HIDE DEF plain
    <3>1. PICK s \in Usable(recorded'["IAE"], end, at) : plain.chosen["IAE"].asOf = s.asOf
      BY <2>5
    <3>2. s.asOf \in Nat /\ s.asOf <= end /\ end \in Nat
      BY <1>6, ComponentsAre, LastEndIs DEF Usable, Clock
    <3>3. end <= s.asOf
      BY <2>4, <2>5, <3>1
    <3>. QED  BY <3>1, <3>2, <3>3
  <2>. QED  BY <1>1, <2>1, <2>2, <2>6
<1>. HIDE DEF plain, own
<1>11. AlignsLatest' /\ ReadyIsCurrent'
  <2>1. \A y \in aligned' : UsesLatest(y, recorded') /\ CurrentIfReady(y)
    BY <1>2, <1>8, <1>9
  <2>. QED  BY <2>1, EachAligned
<1>12. EventsNameTheirOwnSnapshot'
  <2>. SUFFICES ASSUME NEW e \in events'
                PROVE  /\ e.synergy.chosen["IAE"].asOf = e.time
                       /\ IF e.parent = NoGap THEN e.synergy.chosen["IAE"].bar
                          ELSE e.synergy.chosen["IAE"].gap = e.parent
    BY DEF EventsNameTheirOwnSnapshot
  <2>1. CASE e = [time |-> end, parent |-> NoGap, synergy |-> plain]
    BY <1>10, <2>1
  <2>2. ASSUME NEW gap \in Range(gaps), e = [time |-> end, parent |-> gap, synergy |-> own(gap)]
        PROVE  /\ e.synergy.chosen["IAE"].asOf = e.time
               /\ IF e.parent = NoGap THEN e.synergy.chosen["IAE"].bar
                  ELSE e.synergy.chosen["IAE"].gap = e.parent
    <3>1. gap \in Gaps /\ gap # NoGap
      BY GapsAre, ElementOfSeq, AlignmentAssumption DEF NoGap
    <3>. QED  BY <1>8, <2>2, <3>1
  <2>. QED  BY <1>2, <2>1, <2>2
<1>. QED  BY <1>1, <1>11, <1>12 DEF PublishedInv

(* The invariant over every behaviour: what a deque holds is the latest of *)
(* what was ever recorded, in order of the bars and of availability alike. *)
THEOREM AlignInvariance == ASSUME Distinct = TRUE PROVE Spec => []PublishedInv
<1>1. PublishedInv /\ [Next]_vars => PublishedInv'
  <2>. SUFFICES ASSUME PublishedInv, [Next]_vars PROVE PublishedInv'
    OBVIOUS
  <2>1. ASSUME NEW at \in 1..MaxTime, NEW unready \in SUBSET Faulty, MediumBarCloses(at, unready)
        PROVE  PublishedInv'
    <3>1. AlignInv'
      BY <2>1, MediumBarStep DEF PublishedInv
    <3>2. aligned' = {} /\ events' = {}
      BY <2>1 DEF MediumBarCloses
    <3>. QED  BY <3>1, <3>2 DEF PublishedInv, AlignsLatest, ReadyIsCurrent,
                                EventsNameTheirOwnSnapshot
  <2>2. ASSUME NEW at \in 1..MaxTime, NEW unready \in SUBSET Faulty, NEW end \in 1..LastEnd,
               NEW gaps \in Retests, NEW settled \in BOOLEAN, NEW both \in BOOLEAN,
               FastBarCloses(end, at, unready, gaps, settled, both)
        PROVE  PublishedInv'
    BY <2>2, FastBarPublishes DEF PublishedInv
  <2>3. CASE UNCHANGED vars
    BY <2>3 DEF vars, PublishedInv, AlignInv, AlignTypes, Known, AlignsLatest, ReadyIsCurrent,
                EventsNameTheirOwnSnapshot
  <2>. QED  BY <2>1, <2>2, <2>3 DEF Next
<1>. QED  BY <1>1, AlignmentStarts, PTL DEF Spec

(* An alignment uses, of each component, the latest snapshot of its        *)
(* session that was available and is about no later bar, and goes without  *)
(* one only when none was ever recorded: what the bounded deque dropped    *)
(* never counted.                                                          *)
THEOREM UsesTheLatest == ASSUME Distinct = TRUE PROVE Spec => []AlignsLatest
<1>1. PublishedInv => AlignsLatest
  BY DEF PublishedInv
<1>. QED  BY <1>1, AlignInvariance, PTL

(* A ready alignment is current: the IAE snapshot of its own bar, and the  *)
(* IMSI and ICM snapshots of the last medium bar that had ended.           *)
THEOREM ReadyAlignmentsAreCurrent == ASSUME Distinct = TRUE PROVE Spec => []ReadyIsCurrent
<1>1. PublishedInv => ReadyIsCurrent
  BY DEF PublishedInv
<1>. QED  BY <1>1, AlignInvariance, PTL

(* A first retest is bound to the snapshot of its own gap at its own bar,  *)
(* and every other event to the snapshot of the whole bar.                 *)
THEOREM EventsAreBound == ASSUME Distinct = TRUE PROVE Spec => []EventsNameTheirOwnSnapshot
<1>1. PublishedInv => EventsNameTheirOwnSnapshot
  BY DEF PublishedInv
<1>. QED  BY <1>1, AlignInvariance, PTL

=============================================================================
