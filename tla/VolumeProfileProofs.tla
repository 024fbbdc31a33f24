------------------------- MODULE VolumeProfileProofs -------------------------
(***************************************************************************)
(* The properties of VolumeProfileEngine proved for every window length,   *)
(* set of sources, clock bound and number of trades.                       *)
(*                                                                         *)
(* The inductive invariant adds to MinutesPartitionTrades what the code    *)
(* leaves implicit: the deque is sorted, with at least one minute between  *)
(* two neighbours (Spaced), the open minute is later than every finalized  *)
(* one (OpenAfterFinalized), and the final snapshot is the whole session.  *)
(* A rolling snapshot of an earlier moment lost no trade of a minute final *)
(* by then, except where the windows no longer reach (PublishedRight).     *)
(***************************************************************************)
EXTENDS RollingPublications, WellFoundedInduction, SequenceTheorems, TLAPS

(* Ends i..j of the deque lie at least j - i minutes apart. *)
Spaced(buckets) ==
    \A i, j \in 1..Len(buckets) :
        i <= j => buckets[j].end - buckets[i].end >= j - i

OpenAfterFinalized(p) ==
    /\ p.minuteEnd # None => p.lastFinalized < p.minuteEnd
    /\ \A t \in p.admitted \ p.open : MinuteEnd(t.time) <= p.lastFinalized

FinalIsWhole(p) == p.frozen => p.final = p.admitted

WithinMemory(buckets) ==
    \A i, j \in 1..Len(buckets) : buckets[j].end - buckets[i].end < RollingMax

EngineInv ==
    /\ EngineTypeOK
    /\ MinutesPartitionTrades
    /\ Spaced(profile.buckets)
    /\ WithinMemory(profile.buckets)
    /\ OpenAfterFinalized(profile)
    /\ FinalIsWhole(profile)

PublishedRight ==
    /\ published.minutes \subseteq Nat
    /\ \A m \in published.minutes : m <= profile.lastFinalized
    /\ published.trades \subseteq profile.admitted
    /\ \A t \in profile.admitted :
         MinuteEnd(t.time) \in published.minutes /\ MinuteEnd(t.time) > horizon - RollingMax
           => t \in published.trades

-----------------------------------------------------------------------------
(* Operators *)

(* A non-empty set of naturals has the minimum Min picks.                  *)
LEMMA MinIsLeast ==
    ASSUME NEW S \in SUBSET Nat, S # {}
    PROVE  Min(S) \in S /\ \A y \in S : Min(S) <= y
<1>1. OpToRel(<, Nat) = {ss \in Nat \X Nat : ss[1] < ss[2]}
  BY DEF OpToRel
<1>2. PICK x \in S : \A y \in S : ~ (<<y, x>> \in OpToRel(<, Nat))
  BY NatLessThanWellFounded, WFMin
<1>3. \A y \in S : ~ (y < x)
  BY <1>1, <1>2
<1>4. \A y \in S : x <= y
  BY <1>3
<1>. QED  BY <1>4 DEF Min

(* Expire drops a prefix of the deque, all of it at or before the horizon, *)
(* and everything it keeps is after the horizon.                           *)
LEMMA ExpireDropsPrefix ==
    ASSUME NEW buckets \in Seq(Bucket), NEW h \in Int, Spaced(buckets)
    PROVE  /\ Expire(buckets, h) \in Seq(Bucket)
           /\ \E k \in 0..Len(buckets) :
                 /\ Len(Expire(buckets, h)) = Len(buckets) - k
                 /\ \A i \in 1..(Len(buckets) - k) :
                       /\ Expire(buckets, h)[i] = buckets[i + k]
                       /\ buckets[i + k].end > h
                 /\ \A i \in 1..k : buckets[i].end <= h
<1>. DEFINE live == {i \in 1..Len(buckets) : buckets[i].end > h}
<1>0. Len(buckets) \in Nat /\ \A i \in 1..Len(buckets) : buckets[i] \in Bucket
  OBVIOUS
<1>a. \A i \in 1..Len(buckets) : buckets[i].end \in Nat
  BY <1>0 DEF Bucket
<1>1. CASE live = {}
  <2>1. Expire(buckets, h) = <<>>
    BY <1>1 DEF Expire
  <2>2. \A i \in 1..Len(buckets) : buckets[i].end <= h
    BY <1>1, <1>a
  <2>. QED  BY <2>1, <2>2, <1>0
<1>2. CASE live # {}
  <2>. DEFINE m == Min(live)
  <2>. live \in SUBSET Nat
    BY <1>0
  <2>. HIDE DEF live
  <2>1. m \in live /\ \A y \in live : m <= y
    BY <1>2, MinIsLeast
  <2>. USE DEF live
  <2>2. m \in 1..Len(buckets) /\ buckets[m].end > h
    BY <2>1
  <2>3. Expire(buckets, h) = SubSeq(buckets, m, Len(buckets))
    BY <1>2 DEF Expire
  <2>. HIDE DEF m
  <2>4. /\ SubSeq(buckets, m, Len(buckets)) \in Seq(Bucket)
        /\ Len(SubSeq(buckets, m, Len(buckets))) = Len(buckets) - m + 1
        /\ \A i \in 1..(Len(buckets) - m + 1) :
              SubSeq(buckets, m, Len(buckets))[i] = buckets[m + i - 1]
    <3>1. \A i \in m..Len(buckets) : buckets[i] \in Bucket
      BY <2>2, <1>0
    <3>. QED  BY <3>1, <2>2, <1>0, SubSeqProperties
  <2>5. \A i \in 1..(m - 1) : buckets[i].end <= h
    <3>. SUFFICES ASSUME NEW i \in 1..(m - 1), ~ (buckets[i].end <= h)
                  PROVE  FALSE
      OBVIOUS
    <3>1. i \in live
      BY <2>2, <1>a
    <3>. QED  BY <3>1, <2>1, <2>2
  <2>6. \A i \in 1..(Len(buckets) - m + 1) : buckets[m + i - 1].end > h
    <3>. TAKE i \in 1..(Len(buckets) - m + 1)
    <3>1. m + i - 1 \in 1..Len(buckets) /\ m <= m + i - 1
      BY <2>2, <1>0
    <3>2. buckets[m + i - 1].end - buckets[m].end >= (m + i - 1) - m
      BY <3>1, <2>2 DEF Spaced
    <3>. QED  BY <3>1, <3>2, <2>2, <1>a
  <2>7. m - 1 \in 0..Len(buckets)
    BY <2>2, <1>0
  <2>8. Len(SubSeq(buckets, m, Len(buckets))) = Len(buckets) - (m - 1)
    BY <2>4, <2>2, <1>0
  <2>9. \A i \in 1..(Len(buckets) - (m - 1)) :
            /\ SubSeq(buckets, m, Len(buckets))[i] = buckets[i + (m - 1)]
            /\ buckets[i + (m - 1)].end > h
    <3>. TAKE i \in 1..(Len(buckets) - (m - 1))
    <3>1. i \in 1..(Len(buckets) - m + 1) /\ i + (m - 1) = m + i - 1
      BY <2>2, <1>0
    <3>. QED  BY <3>1, <2>4, <2>6
  <2>. QED  BY <2>3, <2>4, <2>5, <2>7, <2>8, <2>9
<1>. QED  BY <1>1, <1>2

-----------------------------------------------------------------------------
(* The steps of finalize_minutes_through *)

(* The types of a Profile's fields, for the provers.                       *)
LEMMA ProfileFields ==
    ASSUME NEW p \in Profile
    PROVE  /\ p.open \subseteq Trade /\ p.admitted \subseteq Trade /\ p.final \subseteq Trade
           /\ p.minuteEnd \in Nat \cup {None} /\ p.lastTrade \in Nat \cup {None}
           /\ p.lastFinalized \in Nat \cup {None}
           /\ p.buckets \in Seq(Bucket) /\ Len(p.buckets) \in Nat
           /\ \A i \in 1..Len(p.buckets) :
                 p.buckets[i] \in Bucket /\ p.buckets[i].end \in Nat
           /\ \A t \in p.admitted : t.time \in Nat /\ MinuteEnd(t.time) \in Nat
<1>1. /\ p.open \subseteq Trade /\ p.admitted \subseteq Trade /\ p.final \subseteq Trade
      /\ p.minuteEnd \in Nat \cup {None} /\ p.lastTrade \in Nat \cup {None}
      /\ p.lastFinalized \in Nat \cup {None} /\ p.buckets \in Seq(Bucket)
  BY DEF Profile
<1>2. Len(p.buckets) \in Nat /\ \A i \in 1..Len(p.buckets) : p.buckets[i] \in Bucket
  BY <1>1
<1>3. \A b \in Bucket : b.end \in Nat
  BY DEF Bucket
<1>4. \A t \in Trade : t.time \in Nat /\ MinuteEnd(t.time) \in Nat
  BY DEF Trade, MinuteEnd
<1>. QED  BY <1>1, <1>2, <1>3, <1>4

(* A later bucket appended at the right keeps the deque sorted.            *)
LEMMA AppendKeepsSpaced ==
    ASSUME NEW b \in Seq(Bucket), NEW new \in Bucket, Spaced(b),
           \A i \in 1..Len(b) : b[i].end < new.end
    PROVE  Spaced(Append(b, new))
<1>. DEFINE n == Len(b)
            c == Append(b, new)
<1>0. n \in Nat /\ \A i \in 1..n : b[i] \in Bucket
  OBVIOUS
<1>1. n \in Nat /\ \A i \in 1..n : b[i].end \in Nat
  BY <1>0 DEF Bucket
<1>2. new.end \in Nat
  BY DEF Bucket
<1>3. Len(c) = n + 1 /\ c[n + 1] = new /\ \A i \in 1..n : c[i] = b[i]
  BY AppendProperties
<1>4. \A i, j \in 1..n : i <= j => b[j].end - b[i].end >= j - i
  BY DEF Spaced
<1>5. \A i \in 1..n : b[i].end < new.end
  OBVIOUS
<1>. HIDE DEF n, c
<1>. SUFFICES ASSUME NEW i \in 1..(n + 1), NEW j \in 1..(n + 1), i <= j
              PROVE  c[j].end - c[i].end >= j - i
  BY <1>3 DEF Spaced, c
<1>6. CASE j \in 1..n
  <2>1. i \in 1..n
    BY <1>1, <1>6
  <2>. QED  BY <2>1, <1>3, <1>4, <1>6
<1>7. CASE j = n + 1 /\ i = n + 1
  <2>1. c[j].end = new.end /\ c[i].end = new.end
    BY <1>3, <1>7
  <2>. QED  BY <2>1, <1>1, <1>2, <1>7
<1>8. CASE j = n + 1 /\ i \in 1..n
  <2>1. n \in 1..n
    BY <1>1, <1>8
  <2>2. b[n].end - b[i].end >= n - i
    BY <2>1, <1>1, <1>4, <1>8
  <2>3. b[n].end < new.end /\ b[n].end \in Nat /\ b[i].end \in Nat
    BY <2>1, <1>1, <1>5, <1>8
  <2>4. c[j].end = new.end /\ c[i].end = b[i].end
    BY <1>3, <1>8
  <2>. DEFINE last == b[n].end
              first == b[i].end
              fresh == new.end
  <2>5. last \in Nat /\ first \in Nat /\ fresh \in Nat /\ last - first >= n - i /\ last < fresh
    BY <2>2, <2>3, <1>2
  <2>6. c[j].end - c[i].end = fresh - first
    BY <2>4
  <2>. HIDE DEF last, first, fresh
  <2>7. fresh - first >= (n + 1) - i
    BY <2>5, <1>1
  <2>. QED  BY <2>6, <2>7, <1>8
<1>. QED  BY <1>1, <1>6, <1>7, <1>8

(* Closing the due minute keeps every trade in one place and the deque     *)
(* sorted, and leaves no minute due.                                       *)
LEMMA CloseDueMinuteKeeps ==
    ASSUME NEW p \in Profile, NEW h \in Nat \cup {None}, NEW asOf \in Nat,
           Partitioned(p, h), Spaced(p.buckets), OpenAfterFinalized(p),
           p.lastFinalized <= asOf
    PROVE  LET c == CloseDueMinute(p, asOf)
           IN  /\ c \in Profile
               /\ Partitioned(c, h) /\ Spaced(c.buckets) /\ OpenAfterFinalized(c)
               /\ c.lastFinalized <= asOf /\ p.lastFinalized <= c.lastFinalized
               /\ ~ MinuteDue(c, asOf)
               /\ c.admitted = p.admitted /\ c.frozen = p.frozen /\ c.final = p.final
<1>0. p.lastFinalized \in Int
  BY ProfileFields DEF None
<1>1. CASE ~ MinuteDue(p, asOf)
  BY <1>0, <1>1 DEF CloseDueMinute
<1>2. CASE MinuteDue(p, asOf)
  <2>. DEFINE c == CloseMinute(p)
              n == Len(p.buckets)
              new == [end |-> p.minuteEnd, trades |-> p.open]
  <2>0. CloseDueMinute(p, asOf) = c
    BY <1>2 DEF CloseDueMinute
  <2>1. p.minuteEnd \in Nat /\ p.minuteEnd <= asOf /\ p.lastFinalized < p.minuteEnd
    BY <1>2, ProfileFields DEF MinuteDue, OpenAfterFinalized
  <2>2. /\ c.buckets = Append(p.buckets, new) /\ c.lastFinalized = p.minuteEnd
        /\ c.open = {} /\ c.minuteEnd = None /\ c.admitted = p.admitted
        /\ c.frozen = p.frozen /\ c.final = p.final
    BY DEF CloseMinute, Profile
  <2>3. new \in Bucket /\ new.end = p.minuteEnd /\ new.trades = p.open
    BY <2>1, ProfileFields DEF Bucket
  <2>4. c \in Profile
    <3>1. Append(p.buckets, new) \in Seq(Bucket)
      BY <2>3, ProfileFields, AppendProperties
    <3>. QED  BY <3>1, <2>1 DEF CloseMinute, Profile
  <2>5. /\ n \in Nat /\ Len(c.buckets) = n + 1
        /\ \A i \in 1..n : c.buckets[i] = p.buckets[i]
        /\ c.buckets[n + 1] = new
    BY <2>2, <2>3, ProfileFields, AppendProperties
  <2>6. /\ \A t \in p.admitted : MinuteEnd(t.time) \in Nat
        /\ \A i \in 1..n : p.buckets[i].end \in Nat
    BY ProfileFields
  <2>7. /\ p.open = {t \in p.admitted : MinuteEnd(t.time) = p.minuteEnd}
        /\ \A i \in 1..n :
              /\ p.buckets[i].end <= p.lastFinalized
              /\ p.buckets[i].trades =
                    {t \in p.admitted : MinuteEnd(t.time) = p.buckets[i].end}
        /\ \A t \in p.admitted \ p.open :
              \/ \E i \in 1..n : t \in p.buckets[i].trades
              \/ MinuteEnd(t.time) <= h - RollingMax
    BY DEF Partitioned
  <2>8. \A t \in p.admitted \ p.open : MinuteEnd(t.time) <= p.lastFinalized
    BY DEF OpenAfterFinalized
  <2>9. \A i \in 1..n : p.buckets[i].end < p.minuteEnd
    BY <1>0, <2>1, <2>6, <2>7
  <2>. HIDE DEF c, new, n
  <2>10. Spaced(c.buckets)
    BY <2>2, <2>3, <2>9, ProfileFields, AppendKeepsSpaced DEF n
  <2>11. Partitioned(c, h)
    <3>1. c.open = {t \in c.admitted : MinuteEnd(t.time) = c.minuteEnd}
      <4>1. \A t \in c.admitted : MinuteEnd(t.time) # None
        BY <2>2, <2>6 DEF None
      <4>. QED  BY <4>1, <2>2
    <3>2. ASSUME NEW i \in 1..(n + 1)
          PROVE  /\ c.buckets[i].end <= c.lastFinalized
                 /\ c.buckets[i].trades =
                      {t \in c.admitted : MinuteEnd(t.time) = c.buckets[i].end}
      <4>1. CASE i \in 1..n
        <5>1. c.buckets[i].end = p.buckets[i].end /\ c.buckets[i].trades = p.buckets[i].trades
          BY <4>1, <2>5
        <5>2. p.buckets[i].end <= p.minuteEnd
          BY <4>1, <2>9, <2>6, <2>1
        <5>. QED  BY <4>1, <5>1, <5>2, <2>2, <2>7
      <4>2. CASE i = n + 1
        <5>1. c.buckets[i].end = p.minuteEnd /\ c.buckets[i].trades = p.open
          BY <4>2, <2>5, <2>3
        <5>. QED  BY <5>1, <2>1, <2>2, <2>7
      <4>. QED  BY <4>1, <4>2, <2>5
    <3>3. ASSUME NEW t \in c.admitted \ c.open
          PROVE  \/ \E i \in 1..(n + 1) : t \in c.buckets[i].trades
                 \/ MinuteEnd(t.time) <= h - RollingMax
      <4>1. CASE t \in p.open
        <5>1. n + 1 \in 1..(n + 1) /\ t \in c.buckets[n + 1].trades
          BY <4>1, <2>3, <2>5
        <5>. QED  BY <5>1
      <4>2. CASE t \notin p.open
        <5>1. \/ \E i \in 1..n : t \in p.buckets[i].trades
              \/ MinuteEnd(t.time) <= h - RollingMax
          BY <4>2, <2>2, <2>7
        <5>2. \A i \in 1..n : i \in 1..(n + 1) /\ c.buckets[i] = p.buckets[i]
          BY <2>5
        <5>. QED  BY <5>1, <5>2
      <4>. QED  BY <4>1, <4>2
    <3>. QED  BY <3>1, <3>2, <3>3, <2>5 DEF Partitioned
  <2>12. OpenAfterFinalized(c)
    <3>1. ASSUME NEW t \in c.admitted
          PROVE  MinuteEnd(t.time) <= c.lastFinalized
      <4>1. CASE t \in p.open
        <5>1. MinuteEnd(t.time) = p.minuteEnd
          BY <4>1, <2>7
        <5>. QED  BY <5>1, <2>1, <2>2
      <4>2. CASE t \notin p.open
        <5>1. MinuteEnd(t.time) <= p.lastFinalized /\ MinuteEnd(t.time) \in Nat
          BY <4>2, <2>2, <2>6, <2>8
        <5>. QED  BY <5>1, <1>0, <2>1, <2>2
      <4>. QED  BY <4>1, <4>2
    <3>. QED  BY <3>1, <2>2 DEF OpenAfterFinalized
  <2>13. ~ MinuteDue(c, asOf)
    BY <2>2 DEF MinuteDue
  <2>14. c.lastFinalized <= asOf /\ p.lastFinalized <= c.lastFinalized
    BY <1>0, <2>1, <2>2
  <2>. QED  BY <2>0, <2>2, <2>4, <2>10, <2>11, <2>12, <2>13, <2>14
<1>. QED  BY <1>1, <1>2

(* A finalization leaves a deque that fits in the longest window ending at *)
(* its clock, and loses no trade that a window still reaches.              *)
LEMMA FinalizeMinutesKeeps ==
    ASSUME NEW p \in Profile, NEW h \in Nat \cup {None}, NEW asOf \in Nat,
           Partitioned(p, h), Spaced(p.buckets), OpenAfterFinalized(p),
           ~ MinuteClockBackward(p, asOf)
    PROVE  LET f    == FinalizeMinutes(p, asOf)
               newH == IF asOf > h THEN asOf ELSE h
           IN  /\ f \in Profile
               /\ Partitioned(f, newH) /\ Spaced(f.buckets) /\ OpenAfterFinalized(f)
               /\ WithinMemory(f.buckets)
               /\ f.admitted = p.admitted /\ f.frozen = p.frozen /\ f.final = p.final
<1>. DEFINE c    == CloseDueMinute(p, asOf)
            b    == Expire(c.buckets, asOf - RollingMax)
            f    == FinalizeMinutes(p, asOf)
            newH == IF asOf > h THEN asOf ELSE h
<1>0. p.lastFinalized \in Int /\ p.lastFinalized <= asOf
  BY ProfileFields DEF None, MinuteClockBackward
<1>1. /\ c \in Profile
      /\ Partitioned(c, h) /\ Spaced(c.buckets) /\ OpenAfterFinalized(c)
      /\ c.lastFinalized <= asOf
      /\ c.admitted = p.admitted /\ c.frozen = p.frozen /\ c.final = p.final
  BY <1>0, CloseDueMinuteKeeps
<1>2. RollingMax \in Nat \ {0} /\ asOf - RollingMax \in Int
  BY WindowAssumption
<1>. HIDE DEF c
<1>3. f = [c EXCEPT !.buckets = b]
  BY DEF FinalizeMinutes, c
<1>4. /\ b \in Seq(Bucket)
      /\ \E k \in 0..Len(c.buckets) :
            /\ Len(b) = Len(c.buckets) - k
            /\ \A i \in 1..(Len(c.buckets) - k) :
                  b[i] = c.buckets[i + k] /\ c.buckets[i + k].end > asOf - RollingMax
            /\ \A i \in 1..k : c.buckets[i].end <= asOf - RollingMax
  BY <1>1, <1>2, ProfileFields, ExpireDropsPrefix
<1>. HIDE DEF b, f
<1>5. /\ f.buckets = b /\ f.open = c.open /\ f.minuteEnd = c.minuteEnd
      /\ f.admitted = c.admitted /\ f.lastFinalized = c.lastFinalized
      /\ f.frozen = c.frozen /\ f.final = c.final
  BY <1>1, <1>3 DEF Profile
<1>6. f \in Profile
  BY <1>1, <1>3, <1>4 DEF Profile
<1>. DEFINE n == Len(c.buckets)
<1>7. PICK k \in 0..n :
        /\ Len(b) = n - k
        /\ \A i \in 1..(n - k) : b[i] = c.buckets[i + k] /\ b[i].end > asOf - RollingMax
        /\ \A i \in 1..k : c.buckets[i].end <= asOf - RollingMax
  BY <1>4
<1>8. /\ n \in Nat
      /\ \A i \in 1..n : c.buckets[i].end \in Nat
      /\ \A t \in c.admitted : MinuteEnd(t.time) \in Nat
      /\ c.lastFinalized \in Int
  BY <1>1, ProfileFields DEF None
<1>9. /\ c.open = {t \in c.admitted : MinuteEnd(t.time) = c.minuteEnd}
      /\ \A i \in 1..n :
            /\ c.buckets[i].end <= c.lastFinalized
            /\ c.buckets[i].trades = {t \in c.admitted : MinuteEnd(t.time) = c.buckets[i].end}
      /\ \A t \in c.admitted \ c.open :
            \/ \E i \in 1..n : t \in c.buckets[i].trades
            \/ MinuteEnd(t.time) <= h - RollingMax
  BY <1>1 DEF Partitioned
<1>10. \A i, j \in 1..n : i <= j => c.buckets[j].end - c.buckets[i].end >= j - i
  BY <1>1 DEF Spaced
<1>. HIDE DEF n
<1>11. \A i \in 1..(n - k) : i + k \in 1..n /\ b[i] = c.buckets[i + k] /\ b[i].end \in Nat
  BY <1>7, <1>8
<1>12. Spaced(b)
  <2>1. ASSUME NEW i \in 1..(n - k), NEW j \in 1..(n - k), i <= j
        PROVE  b[j].end - b[i].end >= j - i
    <3>1. i + k \in 1..n /\ j + k \in 1..n /\ i + k <= j + k
      BY <2>1, <1>11, <1>8
    <3>2. c.buckets[j + k].end - c.buckets[i + k].end >= (j + k) - (i + k)
      BY <3>1, <1>10
    <3>3. b[j].end - b[i].end >= (j + k) - (i + k)
      BY <3>2, <1>11
    <3>. QED  BY <3>3, <1>8
  <2>. QED  BY <2>1, <1>7 DEF Spaced
<1>13. \A i \in 1..(n - k) : b[i].end > asOf - RollingMax /\ b[i].end <= asOf
  <2>. TAKE i \in 1..(n - k)
  <2>1. c.buckets[i + k].end <= c.lastFinalized
    BY <1>9, <1>11
  <2>. QED  BY <2>1, <1>1, <1>7, <1>8, <1>11
<1>14. WithinMemory(b)
  <2>1. ASSUME NEW i \in 1..(n - k), NEW j \in 1..(n - k)
        PROVE  b[j].end - b[i].end < RollingMax
    <3>. DEFINE ei == b[i].end
                ej == b[j].end
    <3>1. ei \in Nat /\ ej \in Nat /\ ei > asOf - RollingMax /\ ej <= asOf
      BY <1>11, <1>13
    <3>. HIDE DEF ei, ej
    <3>2. ej - ei < RollingMax
      BY <3>1, <1>2
    <3>. QED  BY <3>2 DEF ei, ej
  <2>. QED  BY <2>1, <1>7 DEF WithinMemory
<1>15. newH \in Int /\ asOf <= newH /\ h <= newH /\ h \in Int
  BY DEF None
<1>. HIDE DEF newH
<1>16. Partitioned(f, newH)
  <2>1. \A i \in 1..Len(f.buckets) :
           /\ f.buckets[i].end <= f.lastFinalized
           /\ f.buckets[i].trades = {t \in f.admitted : MinuteEnd(t.time) = f.buckets[i].end}
    BY <1>5, <1>7, <1>9, <1>11
  <2>2. ASSUME NEW t \in f.admitted \ f.open
        PROVE  \/ \E i \in 1..Len(f.buckets) : t \in f.buckets[i].trades
               \/ MinuteEnd(t.time) <= newH - RollingMax
    <3>0. MinuteEnd(t.time) \in Nat
      BY <1>5, <1>8
    <3>1. CASE \E i \in 1..n : t \in c.buckets[i].trades
      <4>1. PICK i \in 1..n : t \in c.buckets[i].trades
        BY <3>1
      <4>2. CASE i \in 1..k
        <5>1. MinuteEnd(t.time) = c.buckets[i].end /\ c.buckets[i].end <= asOf - RollingMax
          BY <4>1, <4>2, <1>7, <1>9
        <5>. QED  BY <5>1, <3>0, <1>2, <1>15
      <4>3. CASE i \notin 1..k
        <5>1. i - k \in 1..(n - k) /\ (i - k) + k = i
          BY <4>3, <1>8
        <5>2. b[i - k] = c.buckets[i]
          BY <5>1, <1>11
        <5>. QED  BY <5>1, <5>2, <4>1, <1>5, <1>7
      <4>. QED  BY <4>2, <4>3
    <3>2. CASE MinuteEnd(t.time) <= h - RollingMax
      BY <3>0, <3>2, <1>2, <1>15
    <3>. QED  BY <3>1, <3>2, <1>5, <1>9
  <2>. QED  BY <2>1, <2>2, <1>5, <1>9 DEF Partitioned
<1>17. OpenAfterFinalized(f)
  BY <1>1, <1>5 DEF OpenAfterFinalized
<1>. QED  BY <1>1, <1>5, <1>6, <1>12, <1>14, <1>16, <1>17 DEF f, newH

(* Sorted minutes of one window are no more than the window's minutes.     *)
LEMMA WithinMemoryBounds ==
    ASSUME NEW b \in Seq(Bucket), Spaced(b), WithinMemory(b)
    PROVE  Len(b) <= RollingMax
<1>. DEFINE n == Len(b)
<1>0. RollingMax \in Nat \ {0} /\ n \in Nat
  BY WindowAssumption
<1>1. CASE n = 0
  BY <1>0, <1>1
<1>2. CASE n > 0
  <2>1. 1 \in 1..n /\ n \in 1..n /\ 1 <= n
    BY <1>0, <1>2
  <2>2. b[n].end - b[1].end >= n - 1
    BY <2>1 DEF Spaced
  <2>3. b[n].end - b[1].end < RollingMax
    BY <2>1 DEF WithinMemory
  <2>4. b[n] \in Bucket /\ b[1] \in Bucket
    BY <2>1
  <2>5. b[n].end \in Nat /\ b[1].end \in Nat
    BY <2>4 DEF Bucket
  <2>. DEFINE e == b[n].end
              s == b[1].end
  <2>6. e - s >= n - 1 /\ e - s < RollingMax /\ e \in Nat /\ s \in Nat
    BY <2>2, <2>3, <2>5
  <2>. HIDE DEF e, s, n
  <2>. QED  BY <2>6, <1>0 DEF n
<1>. QED  BY <1>0, <1>1, <1>2

-----------------------------------------------------------------------------
(* ingest_trade *)

(* A trade that is rejected, or whose ingestion raises, changes the flags  *)
(* and nothing else.                                                       *)
LEMMA RejectKeeps ==
    ASSUME NEW p \in Profile, NEW t \in Trade,
           ~ Admissible(p, t) \/ MinuteStillOpen(p, t)
    PROVE  LET r == IngestTrade(p, t)
           IN  /\ r \in Profile
               /\ r.open = p.open /\ r.minuteEnd = p.minuteEnd
               /\ r.buckets = p.buckets /\ r.admitted = p.admitted
               /\ r.lastFinalized = p.lastFinalized
               /\ r.frozen = p.frozen /\ r.final = p.final
<1>1. NotedFlags(p, t) \subseteq Flags /\ Reason(p, t) \in Flags
  BY DEF NotedFlags, Reason, Flags, Reasons
<1>2. PICK new \in SUBSET Flags : IngestTrade(p, t) = [p EXCEPT !.flags = p.flags \cup new]
  <2>1. CASE ~ Admissible(p, t)
    <3>1. IngestTrade(p, t) =
            [p EXCEPT !.flags = p.flags \cup (NotedFlags(p, t) \cup {Reason(p, t)})]
      BY <2>1 DEF IngestTrade, Reject
    <3>. QED  BY <3>1, <1>1
  <2>2. CASE Admissible(p, t) /\ MinuteStillOpen(p, t)
    BY <2>2, <1>1 DEF IngestTrade
  <2>. QED  BY <2>1, <2>2
<1>3. p.flags \cup new \subseteq Flags
  BY <1>2 DEF Profile
<1>. QED  BY <1>2, <1>3 DEF Profile

(* An admitted trade joins the open minute, which is after every finalized *)
(* one, so no bucket changes its meaning.                                  *)
LEMMA AdmitKeeps ==
    ASSUME NEW p \in Profile, NEW h \in Nat \cup {None}, NEW t \in Trade,
           Partitioned(p, h), OpenAfterFinalized(p),
           Admissible(p, t), ~ MinuteStillOpen(p, t)
    PROVE  LET a == Admit(p, t)
           IN  /\ a \in Profile
               /\ Partitioned(a, h) /\ OpenAfterFinalized(a)
               /\ a.buckets = p.buckets /\ a.admitted = p.admitted \cup {t}
               /\ ~ a.frozen /\ MinuteEnd(t.time) > p.lastFinalized
<1>. DEFINE a  == Admit(p, t)
            me == MinuteEnd(t.time)
            n  == Len(p.buckets)
<1>1. /\ a.open = p.open \cup {t} /\ a.minuteEnd = me /\ a.buckets = p.buckets
      /\ a.admitted = p.admitted \cup {t} /\ a.lastFinalized = p.lastFinalized
      /\ a.frozen = p.frozen
  BY DEF Admit, Profile
<1>2. /\ t.time \in Nat /\ me \in Nat /\ me = t.time + 1
      /\ t.source \in Sources \cup {NoSource}
  BY DEF Trade, MinuteEnd
<1>3. a \in Profile
  <2>1. NotedFlags(p, t) \subseteq Flags
    BY DEF NotedFlags, Flags
  <2>2. p.flags \cup NotedFlags(p, t) \subseteq Flags
    BY <2>1 DEF Profile
  <2>3. p.seen \cup ({t.source} \ {NoSource}) \subseteq Sources
    BY <1>2 DEF Profile
  <2>. QED  BY <2>2, <2>3, <1>2 DEF Admit, Profile
<1>4. p.lastFinalized \in Int /\ p.lastFinalized <= t.time /\ ~ p.frozen
  BY <1>2, ProfileFields DEF None, Admissible, Late
<1>5. p.lastFinalized < me
  BY <1>2, <1>4
<1>6. p.minuteEnd \in {None, me}
  BY DEF MinuteStillOpen
<1>7. /\ n \in Nat
      /\ \A i \in 1..n : p.buckets[i].end \in Nat
      /\ \A u \in p.admitted : MinuteEnd(u.time) \in Nat
  BY ProfileFields
<1>8. /\ p.open = {u \in p.admitted : MinuteEnd(u.time) = p.minuteEnd}
      /\ \A i \in 1..n :
            /\ p.buckets[i].end <= p.lastFinalized
            /\ p.buckets[i].trades = {u \in p.admitted : MinuteEnd(u.time) = p.buckets[i].end}
      /\ \A u \in p.admitted \ p.open :
            \/ \E i \in 1..n : u \in p.buckets[i].trades
            \/ MinuteEnd(u.time) <= h - RollingMax
  BY DEF Partitioned
<1>9. \A u \in p.admitted \ p.open : MinuteEnd(u.time) <= p.lastFinalized
  BY DEF OpenAfterFinalized
<1>. HIDE DEF a, me, n
<1>10. p.open = {u \in p.admitted : MinuteEnd(u.time) = me}
  <2>1. CASE p.minuteEnd = me
    BY <2>1, <1>8
  <2>2. CASE p.minuteEnd = None
    <3>1. \A u \in p.admitted : MinuteEnd(u.time) # None
      BY <1>7 DEF None
    <3>2. p.open = {}
      BY <2>2, <3>1, <1>8
    <3>3. \A u \in p.admitted : MinuteEnd(u.time) # me
      <4>. TAKE u \in p.admitted
      <4>1. MinuteEnd(u.time) <= p.lastFinalized
        BY <3>2, <1>9
      <4>. QED  BY <4>1, <1>2, <1>4, <1>5, <1>7
    <3>. QED  BY <3>2, <3>3
  <2>. QED  BY <2>1, <2>2, <1>6
<1>11. a.open = {u \in a.admitted : MinuteEnd(u.time) = a.minuteEnd}
  BY <1>1, <1>10 DEF me
<1>12. ASSUME NEW i \in 1..n
       PROVE  /\ a.buckets[i].end <= a.lastFinalized
              /\ a.buckets[i].trades = {u \in a.admitted : MinuteEnd(u.time) = a.buckets[i].end}
  <2>1. p.buckets[i].end # me
    BY <1>2, <1>4, <1>5, <1>7, <1>8
  <2>. QED  BY <2>1, <1>1, <1>8 DEF me
<1>13. \A u \in a.admitted \ a.open : u \in p.admitted \ p.open
  BY <1>1
<1>14. Partitioned(a, h)
  <2>1. \A u \in a.admitted \ a.open :
            \/ \E i \in 1..n : u \in a.buckets[i].trades
            \/ MinuteEnd(u.time) <= h - RollingMax
    BY <1>1, <1>8, <1>13
  <2>. QED  BY <2>1, <1>1, <1>11, <1>12 DEF Partitioned, n
<1>15. OpenAfterFinalized(a)
  BY <1>1, <1>5, <1>9, <1>13 DEF OpenAfterFinalized
<1>. QED  BY <1>1, <1>3, <1>4, <1>5, <1>14, <1>15 DEF a, me

-----------------------------------------------------------------------------
(* The invariant *)

(* Once the minutes due by a clock are closed, the buckets of a window that *)
(* ends there hold exactly its trades.                                      *)
LEMMA WindowIsExact ==
    ASSUME NEW p \in Profile, NEW h \in Nat \cup {None}, NEW asOf \in Nat, NEW w \in Windows,
           Partitioned(p, h), h <= asOf, ~ MinuteDue(p, asOf)
    PROVE  Rolling(p, w, asOf) =
             {t \in p.admitted : asOf - w < MinuteEnd(t.time) /\ MinuteEnd(t.time) <= asOf}
<1>. DEFINE n == Len(p.buckets)
<1>1. /\ p.open = {t \in p.admitted : MinuteEnd(t.time) = p.minuteEnd}
      /\ \A i \in 1..n : p.buckets[i].trades =
            {t \in p.admitted : MinuteEnd(t.time) = p.buckets[i].end}
      /\ \A t \in p.admitted \ p.open :
            \/ \E i \in 1..n : t \in p.buckets[i].trades
            \/ MinuteEnd(t.time) <= h - RollingMax
  BY DEF Partitioned
<1>2. w \in Nat /\ w <= RollingMax /\ RollingMax \in Nat /\ h \in Int
  BY WindowAssumption DEF None
<1>3. \A t \in p.admitted : MinuteEnd(t.time) \in Nat
  BY ProfileFields
<1>4. ASSUME NEW t \in Rolling(p, w, asOf)
      PROVE  t \in p.admitted /\ asOf - w < MinuteEnd(t.time) /\ MinuteEnd(t.time) <= asOf
  <2>1. PICK i \in 1..n : /\ t \in p.buckets[i].trades
                         /\ asOf - w < p.buckets[i].end /\ p.buckets[i].end <= asOf
    BY <1>4 DEF Rolling
  <2>. QED  BY <2>1, <1>1
<1>5. ASSUME NEW t \in p.admitted, asOf - w < MinuteEnd(t.time), MinuteEnd(t.time) <= asOf
      PROVE  t \in Rolling(p, w, asOf)
  <2>1. t \notin p.open
    <3>1. SUFFICES ASSUME t \in p.open PROVE FALSE
      OBVIOUS
    <3>2. MinuteEnd(t.time) = p.minuteEnd
      BY <3>1, <1>1
    <3>. QED  BY <3>2, <1>3, <1>5 DEF MinuteDue, None
  <2>2. ~ (MinuteEnd(t.time) <= h - RollingMax)
    BY <1>2, <1>3, <1>5
  <2>3. PICK i \in 1..n : t \in p.buckets[i].trades
    BY <2>1, <2>2, <1>1
  <2>4. MinuteEnd(t.time) = p.buckets[i].end
    BY <2>3, <1>1
  <2>. QED  BY <2>3, <2>4, <1>5 DEF Rolling
<1>. QED  BY <1>4, <1>5

(* A new engine satisfies the invariant.                                   *)
LEMMA InitInv == EngineInit => EngineInv
<1>. SUFFICES ASSUME EngineInit PROVE EngineInv
  OBVIOUS
<1>1. profile = EmptyProfile /\ ingested = 0 /\ horizon = None
  BY DEF EngineInit
<1>2. /\ profile.open = {} /\ profile.minuteEnd = None /\ profile.buckets = <<>>
      /\ profile.admitted = {} /\ ~ profile.frozen /\ profile.lastFinalized = None
  BY <1>1 DEF EmptyProfile
<1>3. EngineTypeOK
  <2>1. <<>> \in Seq(Bucket)
    OBVIOUS
  <2>. QED  BY <2>1, <1>1 DEF EngineTypeOK, EmptyProfile, Profile, None
<1>4. MinutesPartitionTrades
  BY <1>2 DEF MinutesPartitionTrades, Partitioned
<1>. QED
  BY <1>2, <1>3, <1>4 DEF EngineInv, Spaced, WithinMemory, OpenAfterFinalized, FinalIsWhole

(* A trade, admitted or rejected, keeps the invariant, opens no finalized  *)
(* minute and leaves a final Profile alone.                                *)
LEMMA TradeStep ==
    ASSUME EngineInv, NEW time \in 0..MaxTime, NEW quality \in Qualities,
           NEW source \in Sources \cup {NoSource}, Ingest(time, quality, source)
    PROVE  /\ EngineInv'
           /\ \A t \in profile'.admitted \ profile.admitted :
                 MinuteEnd(t.time) > profile.lastFinalized
           /\ profile.frozen => /\ profile'.frozen
                                /\ profile'.final = profile.final
                                /\ profile'.final = profile'.admitted
<1>. DEFINE t == [n |-> ingested, time |-> time, quality |-> quality, source |-> source]
<1>1. /\ profile \in Profile /\ ingested \in Nat /\ horizon \in Nat \cup {None}
      /\ Partitioned(profile, horizon) /\ Spaced(profile.buckets)
      /\ WithinMemory(profile.buckets) /\ OpenAfterFinalized(profile)
      /\ FinalIsWhole(profile)
  BY DEF EngineInv, EngineTypeOK, MinutesPartitionTrades
<1>2. t \in Trade
  BY <1>1, BoundAssumption DEF Trade
<1>3. /\ profile' = IngestTrade(profile, t)
      /\ ingested' = ingested + 1 /\ horizon' = horizon
  BY DEF Ingest
<1>. HIDE DEF t
<1>4. CASE Admissible(profile, t) /\ ~ MinuteStillOpen(profile, t)
  <2>1. profile' = Admit(profile, t)
    BY <1>3, <1>4 DEF IngestTrade
  <2>2. /\ profile' \in Profile
        /\ Partitioned(profile', horizon) /\ OpenAfterFinalized(profile')
        /\ profile'.buckets = profile.buckets
        /\ profile'.admitted = profile.admitted \cup {t}
        /\ ~ profile'.frozen /\ MinuteEnd(t.time) > profile.lastFinalized
    <3>. DEFINE a == Admit(profile, t)
    <3>1. /\ a \in Profile /\ Partitioned(a, horizon) /\ OpenAfterFinalized(a)
          /\ a.buckets = profile.buckets /\ a.admitted = profile.admitted \cup {t}
          /\ ~ a.frozen /\ MinuteEnd(t.time) > profile.lastFinalized
      BY <1>1, <1>2, <1>3, <1>4, AdmitKeeps
    <3>2. profile' = a
      BY <2>1
    <3>. HIDE DEF a
    <3>. QED  BY <3>1, <3>2
  <2>3. ~ profile.frozen
    BY <1>4 DEF Admissible, Late
  <2>. QED
    BY <2>2, <2>3, <1>1, <1>3 DEF EngineInv, EngineTypeOK, MinutesPartitionTrades, FinalIsWhole
<1>5. CASE ~ Admissible(profile, t) \/ MinuteStillOpen(profile, t)
  <2>. DEFINE r == IngestTrade(profile, t)
  <2>0. /\ r \in Profile /\ r.open = profile.open /\ r.minuteEnd = profile.minuteEnd
        /\ r.buckets = profile.buckets /\ r.admitted = profile.admitted
        /\ r.lastFinalized = profile.lastFinalized
        /\ r.frozen = profile.frozen /\ r.final = profile.final
    BY <1>1, <1>2, <1>5, RejectKeeps
  <2>1. profile' = r
    BY <1>3
  <2>. HIDE DEF r
  <2>2. /\ profile' \in Profile
        /\ profile'.open = profile.open /\ profile'.minuteEnd = profile.minuteEnd
        /\ profile'.buckets = profile.buckets /\ profile'.admitted = profile.admitted
        /\ profile'.lastFinalized = profile.lastFinalized
        /\ profile'.frozen = profile.frozen /\ profile'.final = profile.final
    BY <2>0, <2>1
  <2>3. Partitioned(profile', horizon)
    BY <2>2, <1>1 DEF Partitioned
  <2>4. OpenAfterFinalized(profile') /\ FinalIsWhole(profile')
    BY <2>2, <1>1 DEF OpenAfterFinalized, FinalIsWhole
  <2>5. profile'.admitted \ profile.admitted = {}
    BY <2>2
  <2>. QED
    BY <2>2, <2>3, <2>4, <2>5, <1>1, <1>3
    DEF EngineInv, EngineTypeOK, MinutesPartitionTrades, FinalIsWhole
<1>. QED  BY <1>4, <1>5

(* A finalization of minutes keeps the invariant and admits nothing.       *)
LEMMA FinalizeStep ==
    ASSUME EngineInv, NEW asOf \in 0..MaxTime, FinalizeMinutesThrough(asOf)
    PROVE  /\ EngineInv'
           /\ profile'.admitted = profile.admitted
           /\ profile'.frozen = profile.frozen /\ profile'.final = profile.final
<1>1. /\ profile \in Profile /\ ingested \in Nat /\ horizon \in Nat \cup {None}
      /\ Partitioned(profile, horizon) /\ Spaced(profile.buckets)
      /\ OpenAfterFinalized(profile) /\ FinalIsWhole(profile)
  BY DEF EngineInv, EngineTypeOK, MinutesPartitionTrades
<1>2. /\ ~ MinuteClockBackward(profile, asOf)
      /\ profile' = FinalizeMinutes(profile, asOf) /\ ingested' = ingested
      /\ horizon' = IF asOf > horizon THEN asOf ELSE horizon
  BY DEF FinalizeMinutesThrough
<1>3. asOf \in Nat
  BY BoundAssumption
<1>4. /\ profile' \in Profile
      /\ Partitioned(profile', horizon') /\ Spaced(profile'.buckets)
      /\ OpenAfterFinalized(profile') /\ WithinMemory(profile'.buckets)
      /\ profile'.admitted = profile.admitted /\ profile'.frozen = profile.frozen
      /\ profile'.final = profile.final
  BY <1>1, <1>2, <1>3, FinalizeMinutesKeeps
<1>5. horizon' \in Nat \cup {None}
  BY <1>1, <1>2, <1>3
<1>. QED
  BY <1>1, <1>2, <1>4, <1>5 DEF EngineInv, EngineTypeOK, MinutesPartitionTrades, FinalIsWhole

(* Taking the final Profile keeps the invariant and changes no other       *)
(* field.                                                                  *)
LEMMA SnapshotStep ==
    ASSUME EngineInv, NEW asOf \in 0..MaxTime, SnapshotFinal(asOf)
    PROVE  /\ EngineInv'
           /\ profile'.admitted = profile.admitted /\ profile'.frozen
           /\ profile.frozen => profile'.final = profile.final
<1>1. /\ profile \in Profile /\ Partitioned(profile, horizon)
      /\ Spaced(profile.buckets) /\ WithinMemory(profile.buckets)
      /\ OpenAfterFinalized(profile) /\ FinalIsWhole(profile)
  BY DEF EngineInv, EngineTypeOK, MinutesPartitionTrades
<1>2. profile' = TakeFinal(profile) /\ ingested' = ingested /\ horizon' = horizon
  BY DEF SnapshotFinal
<1>3. /\ profile' \in Profile
      /\ profile'.open = profile.open /\ profile'.minuteEnd = profile.minuteEnd
      /\ profile'.buckets = profile.buckets /\ profile'.admitted = profile.admitted
      /\ profile'.lastFinalized = profile.lastFinalized
      /\ profile'.frozen /\ FinalIsWhole(profile')
      /\ profile.frozen => profile'.final = profile.final
  <2>1. CASE profile.frozen
    BY <2>1, <1>1, <1>2 DEF TakeFinal
  <2>2. CASE ~ profile.frozen
    <3>1. profile' = [profile EXCEPT !.frozen = TRUE, !.final = profile.admitted]
      BY <2>2, <1>2 DEF TakeFinal
    <3>. QED  BY <3>1, <2>2, <1>1 DEF Profile, FinalIsWhole
  <2>. QED  BY <2>1, <2>2
<1>4. Partitioned(profile', horizon) /\ OpenAfterFinalized(profile')
  BY <1>1, <1>3 DEF Partitioned, OpenAfterFinalized
<1>. QED
  BY <1>1, <1>2, <1>3, <1>4 DEF EngineInv, EngineTypeOK, MinutesPartitionTrades

(* Every step keeps the invariant and both action properties.              *)
LEMMA NextInv ==
    ASSUME EngineInv, [EngineNext]_engineVars
    PROVE  /\ EngineInv'
           /\ \A t \in profile'.admitted \ profile.admitted :
                 MinuteEnd(t.time) > profile.lastFinalized
           /\ profile.frozen => /\ profile'.frozen
                                /\ profile'.final = profile.final
                                /\ profile'.final = profile'.admitted
<1>1. CASE \E time \in 0..MaxTime, quality \in Qualities, source \in Sources \cup {NoSource} :
             Ingest(time, quality, source)
  BY <1>1, TradeStep
<1>2. CASE \E asOf \in 0..MaxTime : FinalizeMinutesThrough(asOf)
  <2>1. /\ EngineInv' /\ profile'.admitted = profile.admitted
        /\ profile'.frozen = profile.frozen /\ profile'.final = profile.final
    BY <1>2, FinalizeStep
  <2>2. profile'.frozen => profile'.final = profile'.admitted
    BY <2>1 DEF EngineInv, FinalIsWhole
  <2>. QED  BY <2>1, <2>2
<1>3. CASE \E asOf \in 0..MaxTime : SnapshotFinal(asOf)
  <2>1. /\ EngineInv' /\ profile'.admitted = profile.admitted /\ profile'.frozen
        /\ profile.frozen => profile'.final = profile.final
    BY <1>3, SnapshotStep
  <2>2. profile'.final = profile'.admitted
    BY <2>1 DEF EngineInv, FinalIsWhole
  <2>. QED  BY <2>1, <2>2
<1>4. CASE UNCHANGED engineVars
  <2>1. profile' = profile /\ ingested' = ingested /\ horizon' = horizon
    BY <1>4 DEF engineVars
  <2>2. EngineInv'
    BY <2>1 DEF EngineInv, EngineTypeOK, MinutesPartitionTrades
  <2>. QED  BY <2>1, <2>2 DEF EngineInv, FinalIsWhole
<1>. QED  BY <1>1, <1>2, <1>3, <1>4 DEF EngineNext

(* The inductive invariant holds in every reachable state of the engine.   *)
THEOREM Invariance == EngineSpec => []EngineInv
<1>1. EngineInv /\ [EngineNext]_engineVars => EngineInv'
  BY NextInv
<1>. QED  BY <1>1, InitInv, PTL DEF EngineSpec

-----------------------------------------------------------------------------
(* The theorems a reader should know of *)

(* The engine's fields keep their types under every order of calls.        *)
THEOREM TypeCorrect == EngineSpec => []EngineTypeOK
<1>1. EngineInv => EngineTypeOK
  BY DEF EngineInv
<1>. QED  BY <1>1, Invariance, PTL

(* Volume is conserved minute by minute, whatever the order of ingest_trade,
   finalize_minutes_through and snapshot calls.                            *)
THEOREM VolumeConserved == EngineSpec => []MinutesPartitionTrades
<1>1. EngineInv => MinutesPartitionTrades
  BY DEF EngineInv
<1>. QED  BY <1>1, Invariance, PTL

(* The raise "rolling minute profile memory exceeded its bound" of         *)
(* finalize_minutes_through is unreachable.                                *)
THEOREM MemoryBounded == EngineSpec => []MemoryNeverOverflows
<1>1. EngineInv => MemoryNeverOverflows
  <2>. SUFFICES ASSUME EngineInv PROVE MemoryNeverOverflows
    OBVIOUS
  <2>1. /\ profile \in Profile /\ horizon \in Nat \cup {None}
        /\ Partitioned(profile, horizon) /\ Spaced(profile.buckets)
        /\ WithinMemory(profile.buckets) /\ OpenAfterFinalized(profile)
    BY DEF EngineInv, EngineTypeOK, MinutesPartitionTrades
  <2>2. Len(profile.buckets) <= RollingMax
    BY <2>1, ProfileFields, WithinMemoryBounds
  <2>3. ASSUME NEW asOf \in 0..MaxTime, ~ MinuteClockBackward(profile, asOf)
        PROVE  ~ MemoryOverflows(profile, asOf)
    <3>. DEFINE f == FinalizeMinutes(profile, asOf)
    <3>1. asOf \in Nat
      BY BoundAssumption
    <3>2. f \in Profile /\ Spaced(f.buckets) /\ WithinMemory(f.buckets)
      BY <3>1, <2>1, <2>3, FinalizeMinutesKeeps
    <3>3. Len(f.buckets) <= RollingMax /\ Len(f.buckets) \in Nat
      BY <3>2, ProfileFields, WithinMemoryBounds
    <3>. QED  BY <3>3, WindowAssumption DEF MemoryOverflows
  <2>. QED  BY <2>2, <2>3 DEF MemoryNeverOverflows
<1>. QED  BY <1>1, Invariance, PTL

(* A rolling profile holds exactly the admitted trades of its window.      *)
THEOREM RollingExact == EngineSpec => []RollingIsExact
<1>1. EngineInv => RollingIsExact
  <2>. SUFFICES ASSUME EngineInv, NEW asOf \in 0..MaxTime, NEW w \in Windows,
                       asOf >= horizon, ~ MinuteDue(profile, asOf)
                PROVE  Rolling(profile, w, asOf) =
                         {t \in profile.admitted : /\ asOf - w < MinuteEnd(t.time)
                                                   /\ MinuteEnd(t.time) <= asOf}
    BY DEF RollingIsExact
  <2>1. profile \in Profile /\ horizon \in Nat \cup {None} /\ Partitioned(profile, horizon)
    BY DEF EngineInv, EngineTypeOK, MinutesPartitionTrades
  <2>2. asOf \in Nat
    BY BoundAssumption
  <2>. QED  BY <2>1, <2>2, WindowIsExact
<1>. QED  BY <1>1, Invariance, PTL

(* The final Profile of a session is immutable, and is the whole session.  *)
THEOREM FinalFrozen == EngineSpec => FinalProfileIsFrozen
<1>1. EngineInv /\ [EngineNext]_engineVars =>
        [profile.frozen => /\ profile'.frozen
                           /\ profile'.final = profile.final
                           /\ profile'.final = profile'.admitted]_engineVars
  BY NextInv
<1>. QED  BY <1>1, Invariance, PTL DEF EngineSpec, FinalProfileIsFrozen

-----------------------------------------------------------------------------
(* Rolling snapshots of two moments *)

(* A rolling histogram holds admitted trades of its window.                *)
LEMMA RollingAdmitted ==
    ASSUME NEW p \in Profile, NEW h \in Nat \cup {None}, NEW asOf \in Nat, NEW w \in Windows,
           Partitioned(p, h), NEW t \in Rolling(p, w, asOf)
    PROVE  t \in p.admitted /\ asOf - w < MinuteEnd(t.time) /\ MinuteEnd(t.time) <= asOf
<1>1. PICK i \in 1..Len(p.buckets) : /\ t \in p.buckets[i].trades
                                     /\ asOf - w < p.buckets[i].end /\ p.buckets[i].end <= asOf
  BY DEF Rolling
<1>2. p.buckets[i].trades = {u \in p.admitted : MinuteEnd(u.time) = p.buckets[i].end}
  BY DEF Partitioned
<1>. QED  BY <1>1, <1>2

(* A trade of a finalized minute that has not left the memory is in every  *)
(* rolling histogram whose window covers the minute.                       *)
LEMMA FinalMinuteIsRolling ==
    ASSUME NEW p \in Profile, NEW h \in Nat \cup {None}, NEW asOf \in Nat, NEW w \in Windows,
           Partitioned(p, h), OpenAfterFinalized(p), NEW t \in p.admitted,
           MinuteEnd(t.time) <= p.lastFinalized, MinuteEnd(t.time) > h - RollingMax,
           asOf - w < MinuteEnd(t.time), MinuteEnd(t.time) <= asOf
    PROVE  t \in Rolling(p, w, asOf)
<1>1. /\ p.lastFinalized \in Int /\ p.minuteEnd \in Nat \cup {None}
      /\ MinuteEnd(t.time) \in Nat /\ RollingMax \in Nat /\ h \in Int
  BY ProfileFields, WindowAssumption DEF None
<1>2. t \notin p.open
  <2>. SUFFICES ASSUME t \in p.open PROVE FALSE
    OBVIOUS
  <2>1. MinuteEnd(t.time) = p.minuteEnd
    BY DEF Partitioned
  <2>2. p.lastFinalized < p.minuteEnd
    BY <2>1, <1>1 DEF OpenAfterFinalized, None
  <2>. QED  BY <2>1, <2>2, <1>1
<1>3. PICK i \in 1..Len(p.buckets) : t \in p.buckets[i].trades
  BY <1>1, <1>2 DEF Partitioned
<1>4. MinuteEnd(t.time) = p.buckets[i].end
  BY <1>3 DEF Partitioned
<1>. QED  BY <1>3, <1>4 DEF Rolling

(* The engine's steps only add trades and move its clocks forward.         *)
LEMMA EngineMovesForward ==
    ASSUME EngineInv, EngineNext
    PROVE  /\ profile.admitted \subseteq profile'.admitted
           /\ profile.lastFinalized <= profile'.lastFinalized
           /\ horizon <= horizon'
<1>1. /\ profile \in Profile /\ ingested \in Nat /\ horizon \in Nat \cup {None}
      /\ Partitioned(profile, horizon) /\ Spaced(profile.buckets)
      /\ OpenAfterFinalized(profile)
  BY DEF EngineInv, EngineTypeOK, MinutesPartitionTrades
<1>2. profile.lastFinalized \in Int /\ horizon \in Int
  BY <1>1, ProfileFields DEF None
<1>3. ASSUME NEW time \in 0..MaxTime, NEW quality \in Qualities,
             NEW source \in Sources \cup {NoSource}, Ingest(time, quality, source)
      PROVE  /\ profile.admitted \subseteq profile'.admitted
             /\ profile.lastFinalized = profile'.lastFinalized /\ horizon' = horizon
  <2>. DEFINE t == [n |-> ingested, time |-> time, quality |-> quality, source |-> source]
              a == IngestTrade(profile, t)
  <2>1. profile' = a /\ horizon' = horizon
    BY <1>3 DEF Ingest
  <2>2. t \in Trade
    BY <1>1, BoundAssumption DEF Trade
  <2>. HIDE DEF t
  <2>3. profile.admitted \subseteq a.admitted /\ profile.lastFinalized = a.lastFinalized
    <3>1. CASE Admissible(profile, t) /\ ~ MinuteStillOpen(profile, t)
      BY <3>1, <1>1 DEF IngestTrade, Admit, Profile
    <3>2. CASE ~ Admissible(profile, t) \/ MinuteStillOpen(profile, t)
      BY <3>2, <2>2, <1>1, RejectKeeps
    <3>. QED  BY <3>1, <3>2
  <2>. QED  BY <2>1, <2>3
<1>4. ASSUME NEW asOf \in 0..MaxTime, FinalizeMinutesThrough(asOf)
      PROVE  /\ profile.admitted = profile'.admitted
             /\ profile.lastFinalized <= profile'.lastFinalized /\ horizon <= horizon'
  <2>. DEFINE c == CloseDueMinute(profile, asOf)
  <2>1. /\ profile.lastFinalized <= asOf /\ asOf \in Nat
        /\ profile' = [c EXCEPT !.buckets = Expire(c.buckets, asOf - RollingMax)]
        /\ horizon' = IF asOf > horizon THEN asOf ELSE horizon
    BY <1>2, <1>4, BoundAssumption
    DEF FinalizeMinutesThrough, FinalizeMinutes, MinuteClockBackward
  <2>2. /\ c \in Profile /\ c.admitted = profile.admitted
        /\ profile.lastFinalized <= c.lastFinalized
    BY <1>1, <2>1, CloseDueMinuteKeeps
  <2>. HIDE DEF c
  <2>3. profile'.admitted = c.admitted /\ profile'.lastFinalized = c.lastFinalized
    BY <2>1, <2>2 DEF Profile
  <2>. QED  BY <2>1, <2>2, <2>3, <1>2
<1>5. ASSUME NEW asOf \in 0..MaxTime, SnapshotFinal(asOf)
      PROVE  /\ profile.admitted = profile'.admitted
             /\ profile.lastFinalized = profile'.lastFinalized /\ horizon' = horizon
  BY <1>1, <1>5 DEF SnapshotFinal, TakeFinal, Profile
<1>. QED  BY <1>2, <1>3, <1>4, <1>5 DEF EngineNext

(* A step of the engine admits nothing into the final minutes of a         *)
(* snapshot; a new snapshot has all there is of its own.                   *)
LEMMA PublicationStep ==
    ASSUME EngineInv, PublishedRight, [PublicationNext]_publicationVars
    PROVE  EngineInv' /\ PublishedRight'
<1>1. /\ profile \in Profile /\ horizon \in Nat \cup {None} /\ horizon \in Int
      /\ Partitioned(profile, horizon) /\ OpenAfterFinalized(profile)
      /\ RollingMax \in Nat
  BY WindowAssumption DEF EngineInv, EngineTypeOK, MinutesPartitionTrades, None
<1>2. profile.lastFinalized \in Int
  BY <1>1, ProfileFields DEF None
<1>3. CASE EngineNext /\ UNCHANGED published
  <2>1. /\ EngineInv'
        /\ \A t \in profile'.admitted \ profile.admitted :
              MinuteEnd(t.time) > profile.lastFinalized
    BY <1>3, NextInv
  <2>2. /\ profile.admitted \subseteq profile'.admitted
        /\ profile.lastFinalized <= profile'.lastFinalized /\ horizon <= horizon'
    BY <1>3, EngineMovesForward
  <2>3. /\ profile' \in Profile /\ profile'.lastFinalized \in Int /\ horizon' \in Int
        /\ \A t \in profile'.admitted : MinuteEnd(t.time) \in Nat
    <3>1. profile' \in Profile /\ horizon' \in Nat \cup {None}
      BY <2>1 DEF EngineInv, EngineTypeOK
    <3>. QED  BY <3>1, ProfileFields DEF None
  <2>4. \A m \in published.minutes : m \in Nat /\ m <= profile.lastFinalized
    BY DEF PublishedRight
  <2>5. \A m \in published.minutes : m <= profile'.lastFinalized
    BY <1>2, <2>2, <2>3, <2>4
  <2>6. ASSUME NEW t \in profile'.admitted, MinuteEnd(t.time) \in published.minutes,
               MinuteEnd(t.time) > horizon' - RollingMax
        PROVE  t \in published.trades
    <3>1. t \in profile.admitted
      BY <1>2, <2>1, <2>3, <2>4, <2>6
    <3>2. MinuteEnd(t.time) > horizon - RollingMax
      BY <1>1, <2>2, <2>3, <2>6
    <3>. QED  BY <3>1, <3>2, <2>6 DEF PublishedRight
  <2>. QED  BY <1>3, <2>1, <2>2, <2>5, <2>6 DEF PublishedRight
<1>4. ASSUME NEW asOf \in 0..MaxTime, NEW w \in Windows, SnapshotRolling(asOf, w)
      PROVE  EngineInv' /\ PublishedRight'
  <2>. DEFINE minutes == {m \in 0..asOf : asOf - w < m /\ m <= profile.lastFinalized}
              trades == Rolling(profile, w, asOf)
  <2>1. /\ published' = [minutes |-> minutes, trades |-> trades]
        /\ profile' = profile /\ ingested' = ingested /\ horizon' = horizon
    BY <1>4 DEF SnapshotRolling, engineVars
  <2>2. asOf \in Nat
    BY BoundAssumption
  <2>3. EngineInv'
    BY <2>1 DEF EngineInv, EngineTypeOK, MinutesPartitionTrades
  <2>4. trades \subseteq profile.admitted
    BY <1>1, <2>2, RollingAdmitted
  <2>5. ASSUME NEW t \in profile.admitted, MinuteEnd(t.time) \in minutes,
               MinuteEnd(t.time) > horizon - RollingMax
        PROVE  t \in trades
    BY <1>1, <2>2, <2>5, FinalMinuteIsRolling
  <2>6. minutes \subseteq Nat /\ \A m \in minutes : m <= profile.lastFinalized
    BY <2>2
  <2>. HIDE DEF minutes, trades
  <2>7. published'.minutes = minutes /\ published'.trades = trades
    BY <2>1
  <2>. QED  BY <2>1, <2>3, <2>4, <2>5, <2>6, <2>7 DEF PublishedRight
<1>5. CASE UNCHANGED publicationVars
  <2>1. UNCHANGED engineVars /\ published' = published
    BY <1>5 DEF publicationVars
  <2>2. profile' = profile /\ horizon' = horizon /\ ingested' = ingested
    BY <2>1 DEF engineVars
  <2>3. EngineInv'
    BY <2>2 DEF EngineInv, EngineTypeOK, MinutesPartitionTrades
  <2>. QED  BY <2>1, <2>2, <2>3 DEF PublishedRight
<1>. QED  BY <1>3, <1>4, <1>5 DEF PublicationNext

(* Beside rolling snapshots the engine is the engine under every order of  *)
(* its calls, so all of the above holds of it.                             *)
THEOREM PublicationsRunEngine == PublicationSpec => EngineSpec
<1>1. PublicationInit => EngineInit
  BY DEF PublicationInit
<1>2. [PublicationNext]_publicationVars => [EngineNext]_engineVars
  BY DEF PublicationNext, SnapshotRolling, publicationVars
<1>. QED  BY <1>1, <1>2, PTL DEF PublicationSpec, EngineSpec

(* A minute final when a rolling snapshot was taken shows the same trades  *)
(* in every later one whose window covers it.                              *)
THEOREM PublishedStand == PublicationSpec => []PublishedMinutesStand
<1>1. PublicationInit => EngineInv /\ PublishedRight
  <2>. SUFFICES ASSUME PublicationInit PROVE EngineInv /\ PublishedRight
    OBVIOUS
  <2>1. EngineInv /\ published.minutes = {} /\ published.trades = {}
    BY InitInv DEF PublicationInit
  <2>. QED  BY <2>1 DEF PublishedRight
<1>2. EngineInv /\ PublishedRight /\ [PublicationNext]_publicationVars
        => EngineInv' /\ PublishedRight'
  BY PublicationStep
<1>3. EngineInv /\ PublishedRight => PublishedMinutesStand
  <2>. SUFFICES ASSUME EngineInv, PublishedRight, NEW m \in published.minutes,
                       NEW asOf \in 0..MaxTime, NEW w \in Windows,
                       asOf >= horizon, asOf - w < m, m <= asOf,
                       NEW t, MinuteEnd(t.time) = m
                PROVE  t \in Rolling(profile, w, asOf) <=> t \in published.trades
    BY DEF PublishedMinutesStand
  <2>1. /\ profile \in Profile /\ horizon \in Nat \cup {None} /\ horizon \in Int
        /\ Partitioned(profile, horizon) /\ OpenAfterFinalized(profile)
        /\ w \in Nat /\ w <= RollingMax /\ RollingMax \in Nat /\ asOf \in Nat
    BY WindowAssumption, BoundAssumption
    DEF EngineInv, EngineTypeOK, MinutesPartitionTrades, None
  <2>2. MinuteEnd(t.time) \in Nat /\ MinuteEnd(t.time) <= profile.lastFinalized
    BY DEF PublishedRight
  <2>3. MinuteEnd(t.time) > horizon - RollingMax
    BY <2>1, <2>2
  <2>4. t \in Rolling(profile, w, asOf) => t \in published.trades
    BY <2>1, <2>3, RollingAdmitted DEF PublishedRight
  <2>5. t \in published.trades => t \in Rolling(profile, w, asOf)
    BY <2>1, <2>2, <2>3, FinalMinuteIsRolling DEF PublishedRight
  <2>. QED  BY <2>4, <2>5
<1>. QED  BY <1>1, <1>2, <1>3, PTL DEF PublicationSpec
=============================================================================
