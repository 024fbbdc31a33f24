--------------------------- MODULE StreamFeedProofs ---------------------------
(***************************************************************************)
(* What the stream promises on an ordered feed, for every calendar, every  *)
(* bar length and window, and any number of trades.  A call of on_trade is *)
(* one step; the proof follows its stages, and at each stage the stream is *)
(* Running at a clock: first the clock of the trade before, then the clock *)
(* of this one.  The lemmas on the Profile are those of its own proofs.    *)
(***************************************************************************)
EXTENDS StreamFeed, VolumeProfileProofs, FiniteSetTheorems

-----------------------------------------------------------------------------
(* Clocks and sessions *)

(* A session is known by any clock inside it. *)
LEMMA SessionAtIs ==
    ASSUME NEW s \in Sessions, NEW time \in Int, s.start <= time, time < s.end
    PROVE  SessionAt(time) = s
<1>1. \A r \in Sessions : r.start <= time /\ time < r.end => r = s
  BY CalendarAssumption
<1>. QED  BY <1>1 DEF SessionAt

(* Sessions have clocks, and None is the clock of none. *)
LEMMA SessionFields ==
    ASSUME NEW s \in Sessions
    PROVE  /\ s.start \in Nat /\ s.end \in Nat /\ s.start < s.end
           /\ s # NoSession /\ s.type \in Types
  BY CalendarAssumption DEF NoSession, Types

(* The lengths of bars and windows. *)
LEMMA Lengths ==
    /\ FastBar \in Nat \ {0} /\ MediumBar \in Nat \ {0} /\ FastBar # MediumBar
    /\ AtrWindow \in Nat /\ None = -1 /\ None \notin Nat
  BY ClockAssumption DEF None

(* Whole division. *)
LEMMA Division ==
    ASSUME NEW m \in Nat \ {0}, NEW x \in Nat
    PROVE  /\ x \div m \in Nat /\ x % m \in 0..(m - 1)
           /\ x = m * (x \div m) + (x % m)
  OBVIOUS

(* Quotients grow with what is divided. *)
LEMMA DivisionGrows ==
    ASSUME NEW m \in Nat \ {0}, NEW x \in Nat, NEW y \in Nat, x <= y
    PROVE  x \div m <= y \div m
<1>. DEFINE q == x \div m
            k == y \div m
            r == x % m
            t == y % m
<1>1. /\ q \in Nat /\ r \in 0..(m - 1) /\ x = m * q + r
      /\ k \in Nat /\ t \in 0..(m - 1) /\ y = m * k + t
  BY Division
<1>. HIDE DEF q, k, r, t
<1>2. SUFFICES ASSUME k < q PROVE FALSE
  BY <1>1 DEF q, k
<1>3. k + 1 <= q
  BY <1>1, <1>2
<1>4. m * (k + 1) <= m * q
  BY <1>1, <1>3
<1>5. m * (k + 1) = m * k + m /\ m * k \in Nat /\ m * q \in Nat
  BY <1>1
<1>. QED  BY <1>1, <1>4, <1>5

(* The bucket of a clock ends after it, no bucket of an earlier clock ends *)
(* later, and one that has not ended yet is the same.                      *)
LEMMA BucketEndIs ==
    ASSUME NEW s \in Sessions, NEW period \in Nat \ {0}, NEW time \in Nat, NEW later \in Nat,
           s.start <= time, time <= later
    PROVE  /\ BucketEnd(s, time, period) \in Nat
           /\ time < BucketEnd(s, time, period)
           /\ BucketEnd(s, time, period) <= BucketEnd(s, later, period)
           /\ later < BucketEnd(s, time, period) =>
                 BucketEnd(s, later, period) = BucketEnd(s, time, period)
<1>. DEFINE x == time - s.start
            y == later - s.start
            q == x \div period
            k == y \div period
            r == x % period
            t == y % period
<1>0. s.start \in Nat
  BY SessionFields
<1>1. x \in Nat /\ y \in Nat /\ x <= y
  BY <1>0
<1>2. /\ q \in Nat /\ r \in 0..(period - 1) /\ x = period * q + r
      /\ k \in Nat /\ t \in 0..(period - 1) /\ y = period * k + t
  <2>. HIDE DEF x, y
  <2>. QED  BY <1>1, Division
<1>3. q <= k
  <2>. HIDE DEF x, y
  <2>. QED  BY <1>1, DivisionGrows
<1>4. /\ BucketEnd(s, time, period) = s.start + period * (q + 1)
      /\ BucketEnd(s, later, period) = s.start + period * (k + 1)
  BY DEF BucketEnd
<1>5. time = s.start + x /\ later = s.start + y
  BY <1>0
<1>. HIDE DEF x, y, q, k, r, t
<1>6. /\ period * (q + 1) = period * q + period /\ period * q \in Nat
      /\ period * (k + 1) = period * k + period /\ period * k \in Nat
  BY <1>2
<1>7. period * q <= period * k
  BY <1>2, <1>3
<1>8. ASSUME later < s.start + period * (q + 1) PROVE k = q
  <2>1. SUFFICES ASSUME q < k PROVE FALSE
    BY <1>2, <1>3
  <2>2. q + 1 <= k
    BY <1>2, <2>1
  <2>3. period * (q + 1) <= period * k
    BY <1>2, <2>2
  <2>. QED  BY <1>0, <1>2, <1>5, <1>6, <1>8, <2>3
<1>. QED  BY <1>0, <1>2, <1>4, <1>5, <1>6, <1>7, <1>8

-----------------------------------------------------------------------------
(* The stream as a value *)

Periods == {FastBar, MediumBar}

Bar     == [session : Sessions \cup {NoSession}, end : Nat \cup {None}, trades : SUBSET Trade]
FullBar == [period : Periods, session : Sessions, end : Nat, trades : SUBSET Trade]
Final   == [session : Sessions \cup {NoSession}, trades : SUBSET Trade, flags : SUBSET Flags]
Auction == [asOf : Nat, session : Sessions, developing : SUBSET Trade,
            rolling : [Windows -> SUBSET Trade], reference : Final, ready : BOOLEAN]

(* The ends a stream fed in order may come to. *)
Outcomes == {Quiet, "empty profile"}

Stream ==
    [profile : Profile, session : Sessions \cup {NoSession}, five : Bar, thirty : Bar,
     bars : SUBSET FullBar, fiveEnd : Nat \cup {None}, fiveCount : Nat,
     thirtyEnd : Nat \cup {None}, auctions : Seq(Auction), finals : [Types -> Final],
     finalTakes : Seq(Sessions), lastTrade : Nat \cup {None}, normal : BOOLEAN,
     raised : Outcomes]

(* A trade that spoils no snapshot. *)
Clean(t, A) == t.quality = "clean" /\ t.source # NoSource /\ t \in A

(* The trades of a bucket. *)
Bucketed(A, session, end, period) ==
    {t \in SessionTrades(A, session) : BucketEnd(session, t.time, period) = end}

-----------------------------------------------------------------------------
(* What is true of a running stream at a clock k, when A has been admitted *)
(* and D delivered                                                         *)

(* The feed: trades in sessions, none after the clock. *)
FeedRight(A, D, k) ==
    /\ k \in Nat \cup {None}
    /\ A \subseteq D /\ D \subseteq Trade
    /\ \A t \in D : /\ t.time <= k
                    /\ \E s \in Sessions : s.start <= t.time /\ t.time < s.end

(* The Profile's minutes are those of its session, closed in order. *)
MinutesRight(p, session, k) ==
    /\ p \in Profile /\ Partitioned(p, k) /\ Spaced(p.buckets) /\ OpenAfterFinalized(p)
    /\ p.lastFinalized <= k /\ p.lastFinalized <= session.end
    /\ p.minuteEnd <= k + 1 /\ p.minuteEnd <= session.end

(* The Profile holds its session, and its flags what went wrong in it. *)
SessionRight(p, session, A, D, k) ==
    /\ session \in Sessions /\ session.start <= k /\ \A t \in D : t.time < session.end
    /\ ~ p.frozen /\ p.admitted = SessionTrades(A, session)
    /\ p.lastTrade <= k /\ p.lastTrade < session.end
    /\ p.lastTrade = None <=> p.admitted = {}
    /\ p.flags = {} => \A t \in SessionTrades(D, session) : Clean(t, A)

(* An open bar is not due yet, and holds the trades of its bucket. *)
BuilderRight(b, period, session, A, k) ==
    \/ b = NoBar
    \/ /\ b.session = session /\ session \in Sessions
       /\ b.end \in Nat /\ k < b.end /\ b.end <= session.end
       /\ b.trades # {} /\ b.trades = Bucketed(A, session, b.end, period)

Builder(s, period) == IF period = FastBar THEN s.five ELSE s.thirty

Running(s, A, D, k) ==
    /\ s \in Stream /\ s.raised = Quiet /\ FeedRight(A, D, k)
    /\ IF s.session = NoSession THEN D = {}
       ELSE MinutesRight(s.profile, s.session, k) /\ SessionRight(s.profile, s.session, A, D, k)
    /\ BuilderRight(s.five, FastBar, s.session, A, k)
    /\ BuilderRight(s.thirty, MediumBar, s.session, A, k)
    /\ s.fiveEnd <= k /\ s.thirtyEnd <= k
    /\ s.lastTrade = None <=> A = {}
    /\ s.lastTrade <= k /\ (s.session # NoSession => s.lastTrade < s.session.end)

-----------------------------------------------------------------------------
(* What is true of what the stream has published, until k and ever after *)

(* No trade comes into a completed bar, and none is left out. *)
BarsRight(s, A, k) ==
    /\ \A bar \in s.bars : /\ bar.end <= k
                           /\ bar.trades = Bucketed(A, bar.session, bar.end, bar.period)
    /\ \A period \in Periods, t \in A :
          \/ InTail(SessionAt(t.time), t.time, period)
          \/ t \in Builder(s, period).trades
          \/ \E bar \in s.bars : bar.period = period /\ t \in bar.trades

(* The sessions of a type that ended before another began, with trades. *)
Prior(A, type, session) ==
    {r \in Sessions : r.type = type /\ r.end <= session.start /\ SessionTrades(A, r) # {}}

ReferenceRight(f, type, session, A) ==
    IF Prior(A, type, session) = {} THEN f = NoFinal
    ELSE /\ f.session \in Prior(A, type, session)
         /\ \A r \in Prior(A, type, session) : r.end <= f.session.end
         /\ f.trades = SessionTrades(A, f.session)

(* The n-th snapshot published. *)
AuctionRight(a, n, A, D) ==
    LET before == {t \in SessionTrades(A, a.session) : t.time < a.asOf}
    IN  /\ a.session.start <= a.asOf
        /\ a.developing = before
        /\ \A w \in Windows : a.rolling[w] = {t \in before : a.asOf - w < MinuteEnd(t.time)}
        /\ ReferenceRight(a.reference, a.session.type, a.session, A)
        /\ a.ready => /\ n > AtrWindow
                      /\ \A t \in D : t.time < a.asOf
                           /\ SessionAt(t.time) \in {a.session, a.reference.session} => Clean(t, A)

AuctionsRight(s, A, D, k) ==
    /\ \A i \in 1..Len(s.auctions) : /\ AuctionRight(s.auctions[i], i, A, D)
                                     /\ s.auctions[i].asOf <= k
    /\ \A i, j \in 1..Len(s.auctions) : i < j => s.auctions[i].asOf < s.auctions[j].asOf

(* The final Profiles of the sessions that were left. *)
FinalRight(f, type, session, A, D) ==
    /\ ReferenceRight(f, type, session, A)
    /\ f # NoFinal /\ f.flags = {} => \A t \in SessionTrades(D, f.session) : Clean(t, A)

FinalsRight(s, A, D) ==
    \A type \in Types : FinalRight(s.finals[type], type, s.session, A, D)

(* No session is taken twice, and only sessions that were left. *)
TakesRight(s, A) ==
    /\ \A i, j \in 1..Len(s.finalTakes) : i # j => s.finalTakes[i] # s.finalTakes[j]
    /\ \A i \in 1..Len(s.finalTakes) : s.finalTakes[i].end <= s.session.start
    /\ \A r \in Sessions : SessionTrades(A, r) # {} /\ r # s.session =>
          \E i \in 1..Len(s.finalTakes) : s.finalTakes[i] = r

(* The snapshots and the fast bars, by session and clock. *)
Key(session, end) == [session |-> session, end |-> end]
PublishedOf(s) == {Key(s.auctions[i].session, s.auctions[i].asOf) : i \in 1..Len(s.auctions)}
FastBarsOf(s)  == {Key(bar.session, bar.end) : bar \in {b \in s.bars : b.period = FastBar}}

(* Everything but the bars, which are completed before they are published. *)
Core(s, A, D, k) ==
    /\ Running(s, A, D, k)
    /\ AuctionsRight(s, A, D, k) /\ s.fiveCount = Len(s.auctions)
    /\ FinalsRight(s, A, D) /\ TakesRight(s, A)

Kept(s, A, D, k) ==
    Core(s, A, D, k) /\ BarsRight(s, A, k) /\ PublishedOf(s) = FastBarsOf(s)

(* Between close_due and the end of _process_due_bars, which has come to   *)
(* the boundary m of the bars due at c.                                    *)
Closing(s, five, thirty, A, D, m, c) ==
    /\ Core(s, A, D, m) /\ BarsRight(s, A, c)
    /\ m \in Nat /\ c \in Nat /\ m <= c
    /\ s.session # NoSession /\ s.profile.lastTrade # None
    /\ five \in Bar /\ (five # NoBar => five.session = s.session)
    /\ thirty \in Bar /\ (thirty # NoBar => thirty.session = s.session)
    /\ five.end <= c /\ five.end <= s.session.end
    /\ thirty.end <= c /\ thirty.end <= s.session.end
    /\ \A b \in {s.five, s.thirty} : b = NoBar \/ c < b.end
    /\ FastBarsOf(s) = PublishedOf(s) \cup
          (IF five.end > m THEN {Key(s.session, five.end)} ELSE {})

-----------------------------------------------------------------------------
(* The Profile's minutes *)

(* The fields of a stream. *)
LEMMA StreamFields ==
    ASSUME NEW s \in Stream
    PROVE  /\ s.profile \in Profile /\ s.session \in Sessions \cup {NoSession}
           /\ s.five \in Bar /\ s.thirty \in Bar /\ s.bars \subseteq FullBar
           /\ s.fiveEnd \in Nat \cup {None} /\ s.thirtyEnd \in Nat \cup {None}
           /\ s.fiveCount \in Nat /\ s.auctions \in Seq(Auction) /\ Len(s.auctions) \in Nat
           /\ s.finals \in [Types -> Final]
           /\ s.finalTakes \in Seq(Sessions) /\ Len(s.finalTakes) \in Nat
           /\ s.lastTrade \in Nat \cup {None} /\ s.normal \in BOOLEAN
<1>1. /\ s.profile \in Profile /\ s.session \in Sessions \cup {NoSession}
      /\ s.five \in Bar /\ s.thirty \in Bar /\ s.bars \subseteq FullBar
      /\ s.fiveEnd \in Nat \cup {None} /\ s.thirtyEnd \in Nat \cup {None}
      /\ s.fiveCount \in Nat /\ s.auctions \in Seq(Auction)
      /\ s.finals \in [Types -> Final]
      /\ s.finalTakes \in Seq(Sessions)
      /\ s.lastTrade \in Nat \cup {None} /\ s.normal \in BOOLEAN
  BY DEF Stream
<1>. QED  BY <1>1, LenProperties

(* The fields of a published snapshot. *)
LEMMA PublishedFields ==
    ASSUME NEW s \in Stream, NEW i \in 1..Len(s.auctions)
    PROVE  /\ s.auctions[i] \in Auction
           /\ s.auctions[i].asOf \in Nat /\ s.auctions[i].session \in Sessions
           /\ s.auctions[i].reference \in Final
<1>1. s.auctions[i] \in Auction
  BY StreamFields, ElementOfSeq
<1>. QED  BY <1>1 DEF Auction

(* A later clock. *)
LEMMA MinutesGrow ==
    ASSUME NEW p, NEW session \in Sessions, NEW k \in Nat \cup {None}, NEW m \in Nat,
           MinutesRight(p, session, k), k <= m
    PROVE  MinutesRight(p, session, m)
<1>1. p \in Profile /\ Partitioned(p, k)
  BY DEF MinutesRight
<1>2. \A t \in p.admitted : MinuteEnd(t.time) \in Nat
  BY <1>1, ProfileFields
<1>3. Partitioned(p, m)
  <2>1. \A t \in p.admitted : MinuteEnd(t.time) <= k - RollingMax
                                => MinuteEnd(t.time) <= m - RollingMax
    BY <1>2, WindowAssumption DEF None
  <2>. QED  BY <1>1, <2>1 DEF Partitioned
<1>4. p.lastFinalized \in Nat \cup {None} /\ p.minuteEnd \in Nat \cup {None}
  BY <1>1, ProfileFields
<1>. QED  BY <1>3, <1>4 DEF MinutesRight, None

(* finalize_minutes_through does not raise at a clock that is not behind   *)
(* it, and leaves no minute due.                                           *)
LEMMA FinalizeMinutesRight ==
    ASSUME NEW p, NEW session \in Sessions, NEW k \in Nat \cup {None}, NEW m \in Nat,
           MinutesRight(p, session, k), p.lastFinalized <= m
    PROVE  LET f == FinalizeMinutes(p, m)
           IN  /\ ~ MinuteClockBackward(p, m) /\ ~ MemoryOverflows(p, m)
               /\ MinutesRight(f, session, IF m > k THEN m ELSE k) /\ ~ MinuteDue(f, m)
               /\ f.admitted = p.admitted /\ f.frozen = p.frozen /\ f.final = p.final
               /\ f.lastTrade = p.lastTrade /\ f.flags = p.flags /\ f.seen = p.seen
<1>. DEFINE f == FinalizeMinutes(p, m)
            h == IF m > k THEN m ELSE k
<1>1. /\ p \in Profile /\ Partitioned(p, k) /\ Spaced(p.buckets) /\ OpenAfterFinalized(p)
      /\ p.lastFinalized <= k /\ p.lastFinalized <= session.end
      /\ p.minuteEnd <= k + 1 /\ p.minuteEnd <= session.end
  BY DEF MinutesRight
<1>2. /\ p.lastFinalized \in Nat \cup {None} /\ p.minuteEnd \in Nat \cup {None}
      /\ p.buckets \in Seq(Bucket)
  BY <1>1, ProfileFields
<1>3. ~ MinuteClockBackward(p, m)
  BY <1>2 DEF MinuteClockBackward, None
<1>4. /\ f \in Profile /\ Partitioned(f, h) /\ Spaced(f.buckets) /\ OpenAfterFinalized(f)
      /\ WithinMemory(f.buckets)
      /\ f.admitted = p.admitted /\ f.frozen = p.frozen /\ f.final = p.final
  BY <1>1, <1>3, FinalizeMinutesKeeps
<1>5. Len(f.buckets) <= RollingMax
  BY <1>4, WithinMemoryBounds, ProfileFields
<1>6. ~ MemoryOverflows(p, m)
  BY <1>4, <1>5, ProfileFields, WindowAssumption DEF MemoryOverflows
<1>7. /\ f.minuteEnd = IF MinuteDue(p, m) THEN None ELSE p.minuteEnd
      /\ f.lastFinalized = IF MinuteDue(p, m) THEN p.minuteEnd ELSE p.lastFinalized
      /\ f.lastTrade = p.lastTrade /\ f.flags = p.flags /\ f.seen = p.seen
  BY <1>1 DEF FinalizeMinutes, CloseDueMinute, CloseMinute, Profile
<1>8. session.end \in Nat
  BY SessionFields
<1>9. ~ MinuteDue(f, m)
  BY <1>7 DEF MinuteDue
<1>10. f.lastFinalized <= h /\ f.lastFinalized <= session.end
  BY <1>1, <1>2, <1>7, <1>8 DEF MinuteDue, None
<1>11. f.minuteEnd <= h + 1 /\ f.minuteEnd <= session.end
  BY <1>1, <1>2, <1>7, <1>8 DEF MinuteDue, None
<1>12. MinutesRight(f, session, h)
  BY <1>4, <1>10, <1>11 DEF MinutesRight
<1>. QED  BY <1>3, <1>4, <1>6, <1>7, <1>9, <1>12

(* A stream that has closed what is due by a later clock.                  *)
LEMMA CoreGrows ==
    ASSUME NEW s, NEW A, NEW D, NEW m \in Nat \cup {None}, NEW c \in Nat, m <= c,
           Core(s, A, D, m), \A b \in {s.five, s.thirty} : b = NoBar \/ c < b.end
    PROVE  Core(s, A, D, c)
<1>1. Running(s, A, D, m) /\ AuctionsRight(s, A, D, m)
  BY DEF Core
<1>2. s \in Stream /\ FeedRight(A, D, m)
  BY <1>1 DEF Running
<1>3. FeedRight(A, D, c)
  <2>1. \A t \in D : t.time \in Nat /\ t.time <= m
    BY <1>2 DEF FeedRight, Trade
  <2>. QED  BY <1>2, <2>1 DEF FeedRight, None
<1>4. ASSUME s.session # NoSession
      PROVE  MinutesRight(s.profile, s.session, c) /\ SessionRight(s.profile, s.session, A, D, c)
  <2>1. MinutesRight(s.profile, s.session, m) /\ SessionRight(s.profile, s.session, A, D, m)
    BY <1>1, <1>4 DEF Running
  <2>2. s.session \in Sessions /\ s.profile \in Profile
    BY <2>1 DEF SessionRight, MinutesRight
  <2>3. MinutesRight(s.profile, s.session, c)
    BY <2>1, <2>2, MinutesGrow
  <2>4. s.session.start <= c /\ s.profile.lastTrade <= c
    BY <2>1, <2>2, ProfileFields, SessionFields DEF SessionRight, None
  <2>. QED  BY <2>1, <2>3, <2>4 DEF SessionRight
<1>5. /\ BuilderRight(s.five, FastBar, s.session, A, c)
      /\ BuilderRight(s.thirty, MediumBar, s.session, A, c)
  BY <1>1 DEF Running, BuilderRight
<1>6. s.fiveEnd <= c /\ s.thirtyEnd <= c /\ s.lastTrade <= c
  BY <1>1, <1>2, StreamFields DEF Running, None
<1>7. Running(s, A, D, c)
  BY <1>1, <1>3, <1>4, <1>5, <1>6 DEF Running
<1>8. AuctionsRight(s, A, D, c)
  <2>1. \A i \in 1..Len(s.auctions) : s.auctions[i].asOf \in Nat
    BY <1>2, PublishedFields
  <2>. QED  BY <1>1, <2>1 DEF AuctionsRight, None
<1>. QED  BY <1>7, <1>8 DEF Core

-----------------------------------------------------------------------------
(* _process_due_bars *)

(* The stream fed with the bars that end at a boundary, its minutes closed,*)
(* and the stream that has then published the fast bar.                    *)
BoundaryReady(s, five, thirty, b) ==
    [s EXCEPT !.fiveEnd   = IF five.end = b THEN b ELSE @,
              !.fiveCount = IF five.end = b THEN @ + 1 ELSE @,
              !.thirtyEnd = IF thirty.end = b THEN b ELSE @,
              !.profile   = FinalizeMinutes(s.profile, b)]

BoundaryDone(s, five, thirty, b) ==
    LET ready == BoundaryReady(s, five, thirty, b)
    IN  IF five.end = b
        THEN [ready EXCEPT !.auctions = Append(@, Publication(ready, five))]
        ELSE ready

(* What one boundary does when nothing is out of order.                    *)
LEMMA ProcessBoundaryIs ==
    ASSUME NEW s \in Stream, s.raised = Quiet, NEW five \in Bar, NEW thirty \in Bar,
           NEW b \in Nat, s.session \in Sessions,
           NEW m \in Nat, m < b, MinutesRight(s.profile, s.session, m),
           s.fiveEnd <= m, s.thirtyEnd <= m,
           s.profile.lastTrade # None, s.profile.lastTrade <= m
    PROVE  ProcessBoundary(s, five, thirty, b) = BoundaryDone(s, five, thirty, b)
<1>. DEFINE p  == FinalizeMinutes(s.profile, b)
            s1 == IF five.end = b THEN FeedFive(s, five) ELSE s
            s2 == IF thirty.end = b THEN FeedThirty(s1, thirty) ELSE s1
            s3 == FinalizeProfileMinutes(s2, b)
            ready == BoundaryReady(s, five, thirty, b)
<1>1. s.fiveEnd \in Nat \cup {None} /\ s.thirtyEnd \in Nat \cup {None} /\ s.profile \in Profile
  BY StreamFields
<1>2. s1 = [s EXCEPT !.fiveEnd   = IF five.end = b THEN b ELSE @,
                     !.fiveCount = IF five.end = b THEN @ + 1 ELSE @]
  <2>1. CASE five.end = b
    <3>1. ~ (five.end <= s.fiveEnd)
      BY <1>1, <2>1 DEF None
    <3>. QED  BY <2>1, <3>1 DEF FeedFive
  <2>2. CASE five.end # b
    BY <2>2 DEF Stream
  <2>. QED  BY <2>1, <2>2
<1>3. s2 = [s EXCEPT !.fiveEnd   = IF five.end = b THEN b ELSE @,
                     !.fiveCount = IF five.end = b THEN @ + 1 ELSE @,
                     !.thirtyEnd = IF thirty.end = b THEN b ELSE @]
  <2>1. s1.raised = Quiet /\ s1.thirtyEnd = s.thirtyEnd
    BY <1>2 DEF Stream
  <2>2. thirty.end = b => ~ (thirty.end <= s1.thirtyEnd)
    BY <1>1, <2>1 DEF None
  <2>. QED  BY <1>2, <2>1, <2>2 DEF FeedThirty, Stopped, Stream
<1>4. /\ s2.raised = Quiet /\ s2.session = s.session /\ s2.profile = s.profile
      /\ s.session # NoSession
  BY <1>3, SessionFields DEF Stream
<1>5. /\ ~ MinuteClockBackward(s.profile, b) /\ ~ MemoryOverflows(s.profile, b)
      /\ p.lastTrade = s.profile.lastTrade
  <2>1. s.profile.lastFinalized <= b
    BY <1>1, ProfileFields DEF MinutesRight, None
  <2>. QED  BY <2>1, FinalizeMinutesRight
<1>6. s3 = [s2 EXCEPT !.profile = p]
  BY <1>4, <1>5 DEF FinalizeProfileMinutes, Stopped
<1>7. s3 = ready
  BY <1>3, <1>6 DEF Stream, BoundaryReady
<1>8. ProcessBoundary(s, five, thirty, b) = IF five.end = b THEN PublishAuction(s3, five) ELSE s3
  BY DEF ProcessBoundary, Stopped
<1>9. ready.raised = Quiet /\ ready.profile = p
  BY DEF Stream, BoundaryReady
<1>10. ASSUME five.end = b
       PROVE  PublishAuction(ready, five) =
                [ready EXCEPT !.auctions = Append(@, Publication(ready, five))]
  <2>1. ~ SnapshotBackdated(p, five.end) /\ ~ SnapshotEmpty(p)
    BY <1>1, <1>5, <1>10, ProfileFields DEF SnapshotBackdated, SnapshotEmpty, None
  <2>. HIDE DEF ready
  <2>. QED  BY <1>9, <2>1 DEF PublishAuction, Stopped
<1>. HIDE DEF ready, s3
<1>. QED  BY <1>7, <1>8, <1>10 DEF ready, BoundaryDone

(* A delivered trade is in its session.                                    *)
LEMMA FeedFields ==
    ASSUME NEW A, NEW D, NEW k, FeedRight(A, D, k), NEW t \in D
    PROVE  /\ t \in Trade /\ t.time \in Nat /\ t.time <= k
           /\ SessionAt(t.time) \in Sessions
           /\ \A s \in Sessions : t \in SessionTrades(D, s) <=> SessionAt(t.time) = s
<1>1. t \in Trade /\ t.time <= k
  BY DEF FeedRight
<1>2. t.time \in Nat
  BY <1>1 DEF Trade
<1>3. PICK s \in Sessions : s.start <= t.time /\ t.time < s.end
  BY DEF FeedRight
<1>4. SessionAt(t.time) = s
  BY <1>2, <1>3, SessionAtIs
<1>5. ASSUME NEW r \in Sessions, t \in SessionTrades(D, r) PROVE SessionAt(t.time) = r
  BY <1>2, <1>5, SessionAtIs DEF SessionTrades
<1>. QED  BY <1>1, <1>2, <1>3, <1>4, <1>5 DEF SessionTrades

(* The snapshot of a fast bar at the clock of its end, with the minutes    *)
(* due then closed, is right.                                              *)
LEMMA PublicationIsRight ==
    ASSUME NEW s \in Stream, NEW A, NEW D, NEW m \in Nat, NEW b \in Nat, m < b,
           FeedRight(A, D, m), MinutesRight(s.profile, s.session, b), ~ MinuteDue(s.profile, b),
           SessionRight(s.profile, s.session, A, D, m), FinalsRight(s, A, D),
           NEW bar \in Bar, bar.end = b, bar.session = s.session
    PROVE  LET a == Publication(s, bar)
           IN  /\ a \in Auction /\ a.asOf = b /\ a.session = s.session
               /\ AuctionRight(a, s.fiveCount, A, D)
<1>. DEFINE a == Publication(s, bar)
            session == s.session
            reference == s.finals[session.type]
            before == {t \in SessionTrades(A, session) : t.time < b}
<1>1. /\ session \in Sessions /\ session.start <= m /\ session.start \in Nat
      /\ session.type \in Types
  BY SessionFields DEF SessionRight
<1>2. s.profile \in Profile /\ Partitioned(s.profile, b)
  BY DEF MinutesRight
<1>3. reference \in Final /\ FinalRight(reference, session.type, session, A, D)
  BY <1>1, StreamFields DEF FinalsRight
<1>4. \A t \in A : t \in D /\ t.time \in Nat /\ t.time <= m
  BY FeedFields DEF FeedRight
<1>5. s.profile.admitted = before
  BY <1>4 DEF SessionRight, SessionTrades
<1>6. ASSUME NEW w \in Windows
      PROVE  /\ Rolling(s.profile, w, b) = {t \in before : b - w < MinuteEnd(t.time)}
             /\ Rolling(s.profile, w, b) \subseteq Trade
  <2>1. Rolling(s.profile, w, b) =
          {t \in s.profile.admitted : b - w < MinuteEnd(t.time) /\ MinuteEnd(t.time) <= b}
    BY <1>2, WindowIsExact
  <2>2. \A t \in before : MinuteEnd(t.time) <= b
    BY <1>4 DEF MinuteEnd, SessionTrades
  <2>. QED  BY <1>2, <1>5, <2>1, <2>2, ProfileFields
<1>7. /\ a.asOf = b /\ a.session = session /\ a.developing = before
      /\ a.rolling = [w \in Windows |-> Rolling(s.profile, w, b)]
      /\ a.reference = reference
      /\ a.ready = (/\ reference # NoFinal /\ s.fiveCount > AtrWindow
                    /\ s.profile.flags \cup reference.flags = {} /\ s.normal)
  BY <1>5 DEF Publication
<1>8. a \in Auction
  <2>1. before \subseteq Trade
    BY <1>2, <1>5, ProfileFields
  <2>2. a.rolling \in [Windows -> SUBSET Trade]
    BY <1>6, <1>7
  <2>3. a.ready \in BOOLEAN
    BY <1>7
  <2>4. a = [asOf |-> a.asOf, session |-> a.session, developing |-> a.developing,
             rolling |-> a.rolling, reference |-> a.reference, ready |-> a.ready]
    BY DEF Publication
  <2>. HIDE DEF a, reference, before, session
  <2>. QED  BY <1>1, <1>3, <1>7, <2>1, <2>2, <2>3, <2>4 DEF Auction
<1>9. ASSUME a.ready
      PROVE  /\ s.fiveCount > AtrWindow
             /\ \A t \in D : t.time < b /\ SessionAt(t.time) \in {session, reference.session}
                                => Clean(t, A)
  <2>1. reference # NoFinal /\ reference.flags = {} /\ s.profile.flags = {}
    BY <1>7, <1>9
  <2>2. /\ \A t \in SessionTrades(D, session) : Clean(t, A)
        /\ \A t \in SessionTrades(D, reference.session) : Clean(t, A)
    BY <1>3, <2>1 DEF SessionRight, FinalRight
  <2>3. reference.session \in Sessions
    BY <1>3, <2>1 DEF FinalRight, ReferenceRight, Prior
  <2>4. ASSUME NEW t \in D, SessionAt(t.time) \in {session, reference.session}
        PROVE  Clean(t, A)
    <3>1. SessionAt(t.time) \in Sessions /\ t \in SessionTrades(D, SessionAt(t.time))
      BY FeedFields
    <3>. QED  BY <2>2, <2>4, <3>1
  <2>. QED  BY <1>7, <1>9, <2>4
<1>10. ReferenceRight(reference, session.type, session, A)
  BY <1>3 DEF FinalRight
<1>. HIDE DEF a, reference
<1>11. AuctionRight(a, s.fiveCount, A, D)
  BY <1>1, <1>6, <1>7, <1>9, <1>10 DEF AuctionRight
<1>. QED  BY <1>7, <1>8, <1>11 DEF a

(* A snapshot published after all the others.                              *)
LEMMA AppendPublication ==
    ASSUME NEW s \in Stream, NEW q, NEW A, NEW D, NEW m \in Nat, NEW b \in Nat, m < b,
           AuctionsRight(s, A, D, m), NEW new \in Auction, new.asOf = b,
           AuctionRight(new, Len(s.auctions) + 1, A, D), q.auctions = Append(s.auctions, new)
    PROVE  /\ AuctionsRight(q, A, D, b)
           /\ q.auctions \in Seq(Auction) /\ Len(q.auctions) = Len(s.auctions) + 1
           /\ PublishedOf(q) = PublishedOf(s) \cup {Key(new.session, b)}
<1>. DEFINE n == Len(s.auctions)
<1>1. s.auctions \in Seq(Auction) /\ n \in Nat
  BY StreamFields
<1>2. /\ q.auctions \in Seq(Auction) /\ Len(q.auctions) = n + 1
      /\ \A i \in 1..n : q.auctions[i] = s.auctions[i]
      /\ q.auctions[n + 1] = new
  BY <1>1, AppendProperties
<1>3. \A i \in 1..(n + 1) : i \in 1..n \/ i = n + 1
  BY <1>1
<1>4. \A i \in 1..n : s.auctions[i].asOf \in Nat /\ s.auctions[i].asOf <= m
  BY PublishedFields DEF AuctionsRight
<1>5. AuctionsRight(q, A, D, b)
  <2>1. ASSUME NEW i \in 1..(n + 1)
        PROVE  AuctionRight(q.auctions[i], i, A, D) /\ q.auctions[i].asOf <= b
    <3>1. CASE i \in 1..n
      BY <1>2, <1>4, <3>1 DEF AuctionsRight
    <3>2. CASE i = n + 1
      BY <1>2, <3>2
    <3>. QED  BY <1>3, <3>1, <3>2
  <2>2. ASSUME NEW i \in 1..(n + 1), NEW j \in 1..(n + 1), i < j
        PROVE  q.auctions[i].asOf < q.auctions[j].asOf
    <3>1. i \in 1..n
      BY <1>1, <2>2
    <3>2. CASE j \in 1..n
      BY <1>2, <2>2, <3>1, <3>2 DEF AuctionsRight
    <3>3. CASE j = n + 1
      BY <1>2, <1>4, <3>1, <3>3
    <3>. QED  BY <1>3, <3>2, <3>3
  <2>. QED  BY <1>2, <2>1, <2>2 DEF AuctionsRight
<1>6. PublishedOf(q) = PublishedOf(s) \cup {Key(new.session, b)}
  <2>. DEFINE P(x, i) == Key(x.auctions[i].session, x.auctions[i].asOf)
  <2>1. \A i \in 1..n : P(q, i) = P(s, i)
    BY <1>2
  <2>2. P(q, n + 1) = Key(new.session, b)
    BY <1>2
  <2>3. PublishedOf(q) = {P(q, i) : i \in 1..(n + 1)} /\ PublishedOf(s) = {P(s, i) : i \in 1..n}
    BY <1>2 DEF PublishedOf
  <2>. HIDE DEF P
  <2>4. 1..(n + 1) = 1..n \cup {n + 1}
    BY <1>1
  <2>. QED  BY <2>1, <2>2, <2>3, <2>4
<1>. QED  BY <1>2, <1>5, <1>6

(* One boundary keeps what is true between close_due and the end.          *)
LEMMA BoundaryKeeps ==
    ASSUME NEW s, NEW five, NEW thirty, NEW A, NEW D, NEW m \in Nat, NEW c \in Nat, NEW b \in Nat,
           Closing(s, five, thirty, A, D, m, c), m < b, b <= c, b \in {five.end, thirty.end},
           five.end <= m \/ b <= five.end
    PROVE  Closing(ProcessBoundary(s, five, thirty, b), five, thirty, A, D, b, c)
<1>. DEFINE p     == FinalizeMinutes(s.profile, b)
            ready == BoundaryReady(s, five, thirty, b)
            r     == ProcessBoundary(s, five, thirty, b)
            a     == Publication(ready, five)
<1>1. /\ Core(s, A, D, m) /\ BarsRight(s, A, c)
      /\ m \in Nat /\ c \in Nat /\ m <= c
      /\ s.session # NoSession /\ s.profile.lastTrade # None
      /\ five \in Bar /\ (five # NoBar => five.session = s.session)
      /\ thirty \in Bar /\ (thirty # NoBar => thirty.session = s.session)
      /\ five.end <= c /\ five.end <= s.session.end
      /\ thirty.end <= c /\ thirty.end <= s.session.end
      /\ \A q \in {s.five, s.thirty} : q = NoBar \/ c < q.end
      /\ FastBarsOf(s) = PublishedOf(s) \cup
            (IF five.end > m THEN {Key(s.session, five.end)} ELSE {})
  BY DEF Closing
<1>2. /\ Running(s, A, D, m)
      /\ AuctionsRight(s, A, D, m) /\ s.fiveCount = Len(s.auctions)
      /\ FinalsRight(s, A, D) /\ TakesRight(s, A)
  BY <1>1 DEF Core
<1>3. /\ s \in Stream /\ s.raised = Quiet /\ FeedRight(A, D, m)
      /\ MinutesRight(s.profile, s.session, m) /\ SessionRight(s.profile, s.session, A, D, m)
      /\ BuilderRight(s.five, FastBar, s.session, A, m)
      /\ BuilderRight(s.thirty, MediumBar, s.session, A, m)
      /\ s.fiveEnd <= m /\ s.thirtyEnd <= m
      /\ s.lastTrade = None <=> A = {}
      /\ s.lastTrade <= m /\ s.lastTrade < s.session.end
  BY <1>1, <1>2 DEF Running
<1>4. /\ s.session \in Sessions /\ s.profile.lastTrade <= m /\ s.profile \in Profile
      /\ s.profile.lastTrade \in Nat \cup {None}
  BY <1>3, ProfileFields DEF SessionRight, MinutesRight
<1>5. r = IF five.end = b THEN [ready EXCEPT !.auctions = Append(@, a)] ELSE ready
  <2>1. /\ s \in Stream /\ s.raised = Quiet /\ five \in Bar /\ thirty \in Bar
        /\ s.session \in Sessions /\ m \in Nat /\ MinutesRight(s.profile, s.session, m)
        /\ s.fiveEnd <= m /\ s.thirtyEnd <= m
        /\ s.profile.lastTrade # None /\ s.profile.lastTrade <= m
    BY <1>1, <1>3, <1>4
  <2>2. r = BoundaryDone(s, five, thirty, b)
    BY <2>1, ProcessBoundaryIs
  <2>. QED  BY <2>2 DEF BoundaryDone
<1>6. /\ MinutesRight(p, s.session, b) /\ ~ MinuteDue(p, b)
      /\ p.admitted = s.profile.admitted /\ p.frozen = s.profile.frozen
      /\ p.lastTrade = s.profile.lastTrade /\ p.flags = s.profile.flags
  <2>1. s.profile.lastFinalized <= b
    BY <1>1, <1>3, <1>4, ProfileFields DEF MinutesRight, None
  <2>. QED  BY <1>1, <1>3, <1>4, <2>1, FinalizeMinutesRight
<1>7. SessionRight(p, s.session, A, D, m)
  BY <1>3, <1>6 DEF SessionRight
<1>8. SessionRight(p, s.session, A, D, b)
  BY <1>1, <1>4, <1>6, <1>7, SessionFields DEF SessionRight, None
<1>9. /\ ready.session = s.session /\ ready.five = s.five /\ ready.thirty = s.thirty
      /\ ready.bars = s.bars /\ ready.auctions = s.auctions /\ ready.finals = s.finals
      /\ ready.finalTakes = s.finalTakes /\ ready.lastTrade = s.lastTrade
      /\ ready.raised = s.raised /\ ready.profile = p
      /\ ready.fiveEnd = (IF five.end = b THEN b ELSE s.fiveEnd)
      /\ ready.thirtyEnd = (IF thirty.end = b THEN b ELSE s.thirtyEnd)
      /\ ready.fiveCount = (IF five.end = b THEN s.fiveCount + 1 ELSE s.fiveCount)
  BY <1>3 DEF Stream, BoundaryReady
<1>10. ready \in Stream
  <2>1. p \in Profile
    BY <1>6 DEF MinutesRight
  <2>2. /\ (IF five.end = b THEN b ELSE s.fiveEnd) \in Nat \cup {None}
        /\ (IF thirty.end = b THEN b ELSE s.thirtyEnd) \in Nat \cup {None}
        /\ (IF five.end = b THEN s.fiveCount + 1 ELSE s.fiveCount) \in Nat
    BY <1>3, StreamFields
  <2>. HIDE DEF p
  <2>3. ready = [s EXCEPT !.fiveEnd   = IF five.end = b THEN b ELSE @,
                          !.fiveCount = IF five.end = b THEN @ + 1 ELSE @,
                          !.thirtyEnd = IF thirty.end = b THEN b ELSE @,
                          !.profile   = p]
    BY DEF BoundaryReady, p
  <2>. QED  BY <1>3, <2>1, <2>2, <2>3 DEF Stream
<1>. HIDE DEF ready, p
<1>11. FinalsRight(ready, A, D)
  BY <1>2, <1>9 DEF FinalsRight
<1>12. ASSUME five.end = b
       PROVE  /\ a \in Auction /\ a.asOf = b /\ a.session = s.session
              /\ AuctionRight(a, Len(s.auctions) + 1, A, D)
  <2>1. five # NoBar
    BY <1>12 DEF NoBar, None
  <2>. HIDE DEF a
  <2>. QED  BY <1>1, <1>2, <1>3, <1>6, <1>7, <1>9, <1>10, <1>11, <1>12, <2>1,
               PublicationIsRight DEF a
<1>. HIDE DEF a, r
<1>13. /\ r.session = s.session /\ r.five = s.five /\ r.thirty = s.thirty
       /\ r.bars = s.bars /\ r.finals = s.finals
       /\ r.finalTakes = s.finalTakes /\ r.lastTrade = s.lastTrade
       /\ r.raised = s.raised /\ r.profile = p
       /\ r.fiveEnd = ready.fiveEnd /\ r.thirtyEnd = ready.thirtyEnd
       /\ r.fiveCount = ready.fiveCount
       /\ r.auctions = IF five.end = b THEN Append(s.auctions, a) ELSE s.auctions
  BY <1>5, <1>9, <1>10 DEF Stream
<1>14. /\ r \in Stream /\ AuctionsRight(r, A, D, b) /\ r.fiveCount = Len(r.auctions)
       /\ FastBarsOf(r) = PublishedOf(r) \cup
            (IF five.end > b THEN {Key(r.session, five.end)} ELSE {})
  <2>1. FastBarsOf(r) = FastBarsOf(s)
    BY <1>13 DEF FastBarsOf
  <2>2. CASE five.end = b
    <3>1. /\ AuctionsRight(r, A, D, b)
          /\ r.auctions \in Seq(Auction) /\ Len(r.auctions) = Len(s.auctions) + 1
          /\ PublishedOf(r) = PublishedOf(s) \cup {Key(s.session, b)}
      <4>1. /\ a \in Auction /\ a.asOf = b /\ a.session = s.session
            /\ AuctionRight(a, Len(s.auctions) + 1, A, D)
            /\ r.auctions = Append(s.auctions, a)
        BY <1>12, <1>13, <2>2
      <4>2. m \in Nat /\ s \in Stream /\ AuctionsRight(s, A, D, m)
        BY <1>1, <1>2, <1>3
      <4>3. AuctionsRight(r, A, D, b)
        BY <4>1, <4>2, AppendPublication
      <4>4. r.auctions \in Seq(Auction) /\ Len(r.auctions) = Len(s.auctions) + 1
        BY <4>1, <4>2, AppendPublication
      <4>5. PublishedOf(r) = PublishedOf(s) \cup {Key(a.session, b)}
        BY <4>1, <4>2, AppendPublication
      <4>. QED  BY <4>1, <4>3, <4>4, <4>5
    <3>2. r \in Stream
      BY <1>5, <1>10, <1>13, <2>2, <3>1 DEF Stream
    <3>. QED  BY <1>1, <1>2, <1>9, <1>13, <2>1, <2>2, <3>1, <3>2
  <2>3. CASE five.end # b
    <3>1. r = ready
      BY <1>5, <2>3
    <3>2. PublishedOf(r) = PublishedOf(s)
      BY <1>13, <2>3 DEF PublishedOf
    <3>3. (five.end > m) <=> (five.end > b)
      BY <1>1, <2>3 DEF Bar, None
    <3>4. AuctionsRight(r, A, D, b)
      BY <1>1, <1>2, <1>3, <1>13, <2>3, PublishedFields DEF AuctionsRight
    <3>. QED  BY <1>1, <1>2, <1>9, <1>10, <1>13, <2>1, <2>3, <3>1, <3>2, <3>3, <3>4
  <2>. QED  BY <2>2, <2>3
<1>15. /\ BuilderRight(r.five, FastBar, r.session, A, b)
       /\ BuilderRight(r.thirty, MediumBar, r.session, A, b)
  BY <1>1, <1>3, <1>13 DEF BuilderRight
<1>16. FeedRight(A, D, b)
  <2>1. \A t \in D : t.time <= b
    BY <1>1, <1>3, FeedFields
  <2>. QED  BY <1>3, <2>1 DEF FeedRight
<1>17. /\ r.fiveEnd <= b /\ r.thirtyEnd <= b /\ r.lastTrade <= b /\ r.lastTrade < r.session.end
  BY <1>1, <1>3, <1>9, <1>13, StreamFields DEF None
<1>18. Running(r, A, D, b)
  BY <1>1, <1>3, <1>6, <1>8, <1>13, <1>14, <1>15, <1>16, <1>17 DEF Running
<1>19. FinalsRight(r, A, D) /\ TakesRight(r, A)
  BY <1>2, <1>13 DEF FinalsRight, TakesRight
<1>20. BarsRight(r, A, c)
  BY <1>1, <1>13 DEF BarsRight, Builder
<1>21. Core(r, A, D, b)
  BY <1>14, <1>18, <1>19 DEF Core
<1>22. r.profile.lastTrade # None
  BY <1>1, <1>6, <1>13
<1>23. Closing(r, five, thirty, A, D, b, c)
  BY <1>1, <1>13, <1>14, <1>20, <1>21, <1>22 DEF Closing
<1>. QED  BY <1>23 DEF r

(* The least and the greatest of the ends of the due bars.                 *)
LEMMA EndsAre ==
    ASSUME NEW f \in Nat \cup {None}, NEW h \in Nat \cup {None}, f # None \/ h # None
    PROVE  LET ends == {f, h} \ {None}
           IN  /\ ends # {} /\ Min(ends) \in ends /\ Max(ends) \in ends
               /\ \A e \in ends : Min(ends) <= e /\ e <= Max(ends)
               /\ Cardinality(ends) = 1 <=> Min(ends) = Max(ends)
<1>. DEFINE ends == {f, h} \ {None}
<1>1. ends # {} /\ ends \subseteq Nat
  OBVIOUS
<1>2. PICK x \in ends : \A e \in ends : x <= e
  <2>1. CASE f # None /\ (h = None \/ f <= h)
    BY <2>1
  <2>2. CASE h # None /\ (f = None \/ h <= f)
    BY <2>2
  <2>. QED  BY <2>1, <2>2, Lengths
<1>3. Min(ends) \in ends /\ \A e \in ends : Min(ends) <= e
  BY <1>2 DEF Min
<1>4. PICK y \in ends : \A e \in ends : y >= e
  <2>1. CASE f # None /\ (h = None \/ h <= f)
    BY <2>1
  <2>2. CASE h # None /\ (f = None \/ f <= h)
    BY <2>2
  <2>. QED  BY <2>1, <2>2, Lengths
<1>5. Max(ends) \in ends /\ \A e \in ends : Max(ends) >= e
  BY <1>4 DEF Max
<1>6. CASE Min(ends) = Max(ends)
  <2>1. ends = {Min(ends)}
    BY <1>1, <1>3, <1>5, <1>6
  <2>. QED  BY <1>1, <1>3, <1>5, <1>6, <2>1, FS_Singleton
<1>7. CASE Min(ends) # Max(ends)
  <2>1. ends = {Min(ends)} \cup {Max(ends)}
    BY <1>3, <1>5, <1>7
  <2>2. Cardinality({Min(ends)}) = 1 /\ IsFiniteSet({Min(ends)})
    BY FS_Singleton
  <2>3. Cardinality({Min(ends)} \cup {Max(ends)}) = 2
    <3>1. Max(ends) \notin {Min(ends)}
      BY <1>7
    <3>. QED  BY <2>2, <3>1, FS_AddElement
  <2>. QED  BY <1>1, <1>3, <1>5, <1>7, <2>1, <2>3
<1>. QED  BY <1>6, <1>7

(* After the last boundary every completed fast bar is published.          *)
LEMMA ClosingEnds ==
    ASSUME NEW s, NEW five, NEW thirty, NEW A, NEW D, NEW m \in Nat, NEW c \in Nat,
           Closing(s, five, thirty, A, D, m, c), five.end <= m
    PROVE  Kept(s, A, D, c)
<1>1. /\ Core(s, A, D, m) /\ BarsRight(s, A, c) /\ m <= c
      /\ \A b \in {s.five, s.thirty} : b = NoBar \/ c < b.end
      /\ FastBarsOf(s) = PublishedOf(s) \cup
            (IF five.end > m THEN {Key(s.session, five.end)} ELSE {})
      /\ five \in Bar
  BY DEF Closing
<1>2. ~ (five.end > m)
  BY <1>1 DEF Bar, None
<1>3. PublishedOf(s) = FastBarsOf(s)
  BY <1>1, <1>2
<1>4. Core(s, A, D, c)
  BY <1>1, CoreGrows
<1>. QED  BY <1>1, <1>3, <1>4 DEF Kept

(* close_due: the due bars leave their builders and are complete.          *)
LEMMA ClosingStarts ==
    ASSUME NEW s, NEW A, NEW D, NEW k \in Nat, NEW c \in Nat, k <= c, Kept(s, A, D, k),
           Due(s.five, c) \/ Due(s.thirty, c)
    PROVE  LET five   == IF Due(s.five, c) THEN s.five ELSE NoBar
               thirty == IF Due(s.thirty, c) THEN s.thirty ELSE NoBar
               done   == (IF five = NoBar THEN {} ELSE {Completed(five, FastBar)})
                           \cup (IF thirty = NoBar THEN {} ELSE {Completed(thirty, MediumBar)})
               closed == [s EXCEPT !.five   = IF five = NoBar THEN @ ELSE NoBar,
                                   !.thirty = IF thirty = NoBar THEN @ ELSE NoBar,
                                   !.bars   = @ \cup done]
           IN  /\ Closing(closed, five, thirty, A, D, k, c)
               /\ five # NoBar => k < five.end
               /\ thirty # NoBar => k < thirty.end
<1>. DEFINE five   == IF Due(s.five, c) THEN s.five ELSE NoBar
            thirty == IF Due(s.thirty, c) THEN s.thirty ELSE NoBar
            done   == (IF five = NoBar THEN {} ELSE {Completed(five, FastBar)})
                        \cup (IF thirty = NoBar THEN {} ELSE {Completed(thirty, MediumBar)})
            closed == [s EXCEPT !.five   = IF five = NoBar THEN @ ELSE NoBar,
                                !.thirty = IF thirty = NoBar THEN @ ELSE NoBar,
                                !.bars   = @ \cup done]
<1>1. /\ Running(s, A, D, k) /\ BarsRight(s, A, k)
      /\ AuctionsRight(s, A, D, k) /\ s.fiveCount = Len(s.auctions)
      /\ FinalsRight(s, A, D) /\ TakesRight(s, A) /\ PublishedOf(s) = FastBarsOf(s)
  BY DEF Kept, Core
<1>2. /\ s \in Stream /\ s.raised = Quiet /\ FeedRight(A, D, k)
      /\ BuilderRight(s.five, FastBar, s.session, A, k)
      /\ BuilderRight(s.thirty, MediumBar, s.session, A, k)
      /\ s.five \in Bar /\ s.thirty \in Bar /\ s.bars \subseteq FullBar
  BY <1>1, StreamFields DEF Running
<1>3. NoBar \in Bar /\ NoBar.end = None /\ NoBar.trades = {}
  BY DEF NoBar, Bar
<1>4. /\ five \in Bar /\ thirty \in Bar
      /\ five # NoBar => five = s.five /\ five.end <= c
      /\ thirty # NoBar => thirty = s.thirty /\ thirty.end <= c
      /\ five = NoBar => s.five = NoBar \/ c < s.five.end
      /\ thirty = NoBar => s.thirty = NoBar \/ c < s.thirty.end
      /\ five # NoBar \/ thirty # NoBar
  BY <1>2, <1>3 DEF Due, BuilderRight, None
<1>. HIDE DEF five, thirty
<1>5. /\ five # NoBar =>
           /\ five.session = s.session /\ s.session \in Sessions
           /\ five.end \in Nat /\ k < five.end /\ five.end <= s.session.end
           /\ five.trades # {} /\ five.trades = Bucketed(A, s.session, five.end, FastBar)
      /\ thirty # NoBar =>
           /\ thirty.session = s.session /\ s.session \in Sessions
           /\ thirty.end \in Nat /\ k < thirty.end /\ thirty.end <= s.session.end
           /\ thirty.trades # {} /\ thirty.trades = Bucketed(A, s.session, thirty.end, MediumBar)
  BY <1>2, <1>4 DEF BuilderRight
<1>6. s.session \in Sessions /\ s.session # NoSession
  BY <1>4, <1>5, SessionFields
<1>7. MinutesRight(s.profile, s.session, k) /\ SessionRight(s.profile, s.session, A, D, k)
  BY <1>1, <1>6 DEF Running
<1>8. s.profile.lastTrade # None
  <2>1. PICK t : t \in five.trades \/ t \in thirty.trades
    BY <1>4, <1>5
  <2>2. t \in SessionTrades(A, s.session)
    BY <1>3, <1>4, <1>5, <2>1 DEF Bucketed
  <2>. QED  BY <1>7, <2>2 DEF SessionRight
<1>9. /\ done \subseteq FullBar
      /\ \A bar \in done : bar.end <= c /\ bar.trades = Bucketed(A, bar.session, bar.end, bar.period)
      /\ five # NoBar => /\ Completed(five, FastBar) \in done
                         /\ Completed(five, FastBar).trades = five.trades
                         /\ Completed(five, FastBar).period = FastBar
      /\ thirty # NoBar => /\ Completed(thirty, MediumBar) \in done
                           /\ Completed(thirty, MediumBar).trades = thirty.trades
                           /\ Completed(thirty, MediumBar).period = MediumBar
  <2>1. ASSUME five # NoBar
        PROVE  LET bar == Completed(five, FastBar)
               IN  /\ bar \in FullBar /\ bar.end <= c /\ bar.period = FastBar
                   /\ bar.trades = five.trades
                   /\ bar.trades = Bucketed(A, bar.session, bar.end, bar.period)
    BY <1>4, <1>5, <2>1 DEF Completed, FullBar, Periods, Bar
  <2>2. ASSUME thirty # NoBar
        PROVE  LET bar == Completed(thirty, MediumBar)
               IN  /\ bar \in FullBar /\ bar.end <= c /\ bar.period = MediumBar
                   /\ bar.trades = thirty.trades
                   /\ bar.trades = Bucketed(A, bar.session, bar.end, bar.period)
    BY <1>4, <1>5, <2>2 DEF Completed, FullBar, Periods, Bar
  <2>. QED  BY <2>1, <2>2
<1>10. /\ {Key(bar.session, bar.end) : bar \in {b \in done : b.period = FastBar}} =
            (IF five = NoBar THEN {} ELSE {Key(s.session, five.end)})
  <2>1. FastBar # MediumBar
    BY Lengths
  <2>2. five # NoBar => /\ Completed(five, FastBar).session = s.session
                        /\ Completed(five, FastBar).end = five.end
    BY <1>5 DEF Completed
  <2>3. {b \in done : b.period = FastBar} =
          (IF five = NoBar THEN {} ELSE {Completed(five, FastBar)})
    BY <1>9, <2>1
  <2>. QED  BY <2>2, <2>3
<1>11. /\ closed.five = (IF five = NoBar THEN s.five ELSE NoBar)
       /\ closed.thirty = (IF thirty = NoBar THEN s.thirty ELSE NoBar)
       /\ closed.bars = s.bars \cup done
       /\ closed.session = s.session /\ closed.profile = s.profile
       /\ closed.auctions = s.auctions /\ closed.finals = s.finals
       /\ closed.finalTakes = s.finalTakes /\ closed.lastTrade = s.lastTrade
       /\ closed.raised = s.raised /\ closed.fiveEnd = s.fiveEnd
       /\ closed.thirtyEnd = s.thirtyEnd /\ closed.fiveCount = s.fiveCount
  BY <1>2 DEF Stream
<1>12. closed \in Stream
  <2>. DEFINE a == IF five = NoBar THEN s.five ELSE NoBar
              b == IF thirty = NoBar THEN s.thirty ELSE NoBar
              d == s.bars \cup done
  <2>1. a \in Bar /\ b \in Bar /\ d \in SUBSET FullBar
    BY <1>2, <1>3, <1>9
  <2>2. closed = [s EXCEPT !.five = a, !.thirty = b, !.bars = d]
    OBVIOUS
  <2>. HIDE DEF a, b, d, closed
  <2>. QED  BY <1>2, <2>1, <2>2 DEF Stream
<1>. HIDE DEF closed, done
<1>13. /\ BuilderRight(closed.five, FastBar, s.session, A, k)
       /\ BuilderRight(closed.thirty, MediumBar, s.session, A, k)
  BY <1>2, <1>11 DEF BuilderRight
<1>14. Running(closed, A, D, k)
  BY <1>1, <1>11, <1>12, <1>13 DEF Running
<1>15. Core(closed, A, D, k)
  BY <1>1, <1>11, <1>14 DEF Core, AuctionsRight, FinalsRight, TakesRight
<1>16. BarsRight(closed, A, c)
  <2>1. \A bar \in s.bars : bar.end <= c /\ bar.trades = Bucketed(A, bar.session, bar.end, bar.period)
    BY <1>1, <1>2 DEF BarsRight, FullBar
  <2>2. ASSUME NEW period \in Periods, NEW t \in A,
               ~ InTail(SessionAt(t.time), t.time, period), t \notin Builder(closed, period).trades
        PROVE  \E bar \in closed.bars : bar.period = period /\ t \in bar.trades
    <3>1. \/ t \in Builder(s, period).trades
          \/ \E bar \in s.bars : bar.period = period /\ t \in bar.trades
      BY <1>1, <2>2 DEF BarsRight
    <3>2. SUFFICES ASSUME t \in Builder(s, period).trades
                   PROVE  \E bar \in done : bar.period = period /\ t \in bar.trades
      BY <1>11, <3>1
    <3>3. CASE period = FastBar
      <4>1. five # NoBar /\ t \in five.trades
        BY <1>4, <1>11, <2>2, <3>2, <3>3 DEF Builder
      <4>. QED  BY <1>9, <3>3, <4>1
    <3>4. CASE period # FastBar
      <4>1. thirty # NoBar /\ t \in thirty.trades /\ period = MediumBar
        BY <1>4, <1>11, <2>2, <3>2, <3>4 DEF Builder, Periods
      <4>. QED  BY <1>9, <3>4, <4>1
    <3>. QED  BY <3>3, <3>4
  <2>. QED  BY <1>9, <1>11, <2>1, <2>2 DEF BarsRight
<1>17. FastBarsOf(closed) = PublishedOf(closed) \cup
          (IF five.end > k THEN {Key(closed.session, five.end)} ELSE {})
  <2>1. FastBarsOf(closed) = FastBarsOf(s) \cup (IF five = NoBar THEN {} ELSE {Key(s.session, five.end)})
    BY <1>10, <1>11 DEF FastBarsOf
  <2>2. (five.end > k) <=> five # NoBar
    BY <1>3, <1>4, <1>5 DEF None
  <2>3. PublishedOf(closed) = PublishedOf(s)
    BY <1>11 DEF PublishedOf
  <2>. QED  BY <1>1, <1>11, <2>1, <2>2, <2>3
<1>18. five.end <= c /\ five.end <= s.session.end /\ thirty.end <= c /\ thirty.end <= s.session.end
  BY <1>3, <1>4, <1>5, <1>6, SessionFields DEF None
<1>19. \A b \in {closed.five, closed.thirty} : b = NoBar \/ c < b.end
  BY <1>4, <1>11
<1>20. Closing(closed, five, thirty, A, D, k, c)
  BY <1>4, <1>5, <1>6, <1>8, <1>11, <1>15, <1>16, <1>17, <1>18, <1>19 DEF Closing
<1>21. (five # NoBar => k < five.end) /\ (thirty # NoBar => k < thirty.end)
  BY <1>5
<1>. QED  BY <1>20, <1>21 DEF closed, done, five, thirty

(* Closing the bars due raises nothing and keeps what is true of a stream, *)
(* now at the later clock.                                                 *)
LEMMA CloseDueBarsKeeps ==
    ASSUME NEW s, NEW A, NEW D, NEW k \in Nat \cup {None}, NEW c \in Nat, k <= c,
           Kept(s, A, D, k)
    PROVE  Kept(CloseDueBars(s, c), A, D, c)
<1>. DEFINE five   == IF Due(s.five, c) THEN s.five ELSE NoBar
            thirty == IF Due(s.thirty, c) THEN s.thirty ELSE NoBar
            ends   == {five.end, thirty.end} \ {None}
            done   == (IF five = NoBar THEN {} ELSE {Completed(five, FastBar)})
                        \cup (IF thirty = NoBar THEN {} ELSE {Completed(thirty, MediumBar)})
            closed == [s EXCEPT !.five   = IF five = NoBar THEN @ ELSE NoBar,
                                !.thirty = IF thirty = NoBar THEN @ ELSE NoBar,
                                !.bars   = @ \cup done]
            first  == ProcessBoundary(closed, five, thirty, Min(ends))
            r      == CloseDueBars(s, c)
<1>1. /\ Core(s, A, D, k) /\ Running(s, A, D, k) /\ BarsRight(s, A, k)
      /\ PublishedOf(s) = FastBarsOf(s)
  BY DEF Kept, Core
<1>2. /\ s \in Stream
      /\ BuilderRight(s.five, FastBar, s.session, A, k)
      /\ BuilderRight(s.thirty, MediumBar, s.session, A, k)
  BY <1>1 DEF Running
<1>3. NoBar.end = None
  BY DEF NoBar
<1>4. r = IF ends = {} THEN s
          ELSE IF Cardinality(ends) = 1 THEN first
          ELSE ProcessBoundary(first, five, thirty, Max(ends))
  BY DEF CloseDueBars
<1>5. CASE ~ Due(s.five, c) /\ ~ Due(s.thirty, c)
  <2>1. five = NoBar /\ thirty = NoBar
    BY <1>5
  <2>2. r = s
    BY <1>3, <1>4, <2>1
  <2>3. \A b \in {s.five, s.thirty} : b = NoBar \/ c < b.end
    BY <1>2, <1>5 DEF Due, BuilderRight, None
  <2>4. Core(s, A, D, c)
    BY <1>1, <2>3, CoreGrows
  <2>5. BarsRight(s, A, c)
    <3>1. \A bar \in s.bars : bar.end \in Nat
      BY <1>2, StreamFields DEF FullBar
    <3>. QED  BY <1>1, <3>1 DEF BarsRight, None
  <2>. QED  BY <1>1, <2>2, <2>4, <2>5 DEF Kept
<1>6. CASE Due(s.five, c) \/ Due(s.thirty, c)
  <2>1. k \in Nat
    <3>1. s.session \in Sessions
      BY <1>2, <1>3, <1>6 DEF Due, BuilderRight
    <3>2. s.session.start <= k
      BY <1>1, <3>1, SessionFields DEF Running, SessionRight
    <3>. QED  BY <3>1, <3>2, SessionFields DEF None
  <2>2. /\ Closing(closed, five, thirty, A, D, k, c)
        /\ five # NoBar => k < five.end
        /\ thirty # NoBar => k < thirty.end
    BY <1>6, <2>1, ClosingStarts
  <2>. HIDE DEF closed
  <2>3. /\ five.end \in Nat \cup {None} /\ thirty.end \in Nat \cup {None}
        /\ five.end # None \/ thirty.end # None
        /\ five.end <= c /\ thirty.end <= c
        /\ five.end # None => k < five.end
        /\ thirty.end # None => k < thirty.end
    <3>1. five \in Bar /\ thirty \in Bar /\ five.end <= c /\ thirty.end <= c
      BY <2>2 DEF Closing
    <3>2. five.end # None \/ thirty.end # None
      BY <1>6 DEF Due
    <3>. HIDE DEF five, thirty
    <3>. QED  BY <1>3, <2>2, <3>1, <3>2 DEF Bar
  <2>. HIDE DEF five, thirty, r
  <2>4. /\ ends # {} /\ Min(ends) \in ends /\ Max(ends) \in ends
        /\ \A e \in ends : Min(ends) <= e /\ e <= Max(ends)
        /\ Cardinality(ends) = 1 <=> Min(ends) = Max(ends)
    BY <2>3, EndsAre
  <2>5. PICK b \in Nat : b = Min(ends) /\ k < b /\ b <= c /\ b \in {five.end, thirty.end}
    BY <2>3, <2>4
  <2>6. five.end <= k \/ b <= five.end
    BY <2>1, <2>3, <2>4, <2>5, Lengths
  <2>7. Closing(first, five, thirty, A, D, b, c)
    BY <2>1, <2>2, <2>5, <2>6, BoundaryKeeps
  <2>8. CASE Cardinality(ends) = 1
    <3>1. five.end <= b
      BY <2>3, <2>4, <2>5, <2>8, Lengths
    <3>2. r = first
      BY <1>4, <2>4, <2>8
    <3>. QED  BY <2>7, <3>1, <3>2, ClosingEnds DEF r
  <2>9. CASE Cardinality(ends) # 1
    <3>1. PICK d \in Nat : d = Max(ends) /\ b < d /\ d <= c /\ d \in {five.end, thirty.end}
      BY <2>3, <2>4, <2>5, <2>9
    <3>2. five.end <= b \/ d <= five.end
      BY <2>3, <2>4, <2>5, <3>1
    <3>. HIDE DEF first
    <3>3. Closing(ProcessBoundary(first, five, thirty, d), five, thirty, A, D, d, c)
      BY <2>7, <3>1, <3>2, BoundaryKeeps
    <3>4. five.end <= d
      BY <2>3, <2>4, <3>1, Lengths
    <3>5. r = ProcessBoundary(first, five, thirty, d)
      BY <1>4, <2>4, <2>9, <3>1
    <3>. QED  BY <3>3, <3>4, <3>5, ClosingEnds DEF r
  <2>. QED  BY <2>8, <2>9
<1>. QED  BY <1>5, <1>6

-----------------------------------------------------------------------------
(* finalize_minutes_through, before a trade *)

(* A stream with another Profile. *)
LEMMA NewProfile ==
    ASSUME NEW s, NEW A, NEW D, NEW k, Kept(s, A, D, k), NEW p \in Profile,
           s.session # NoSession,
           MinutesRight(p, s.session, k), SessionRight(p, s.session, A, D, k)
    PROVE  Kept([s EXCEPT !.profile = p], A, D, k)
<1>. DEFINE r == [s EXCEPT !.profile = p]
<1>1. Running(s, A, D, k) /\ s \in Stream
  BY DEF Kept, Core, Running
<1>2. /\ r \in Stream /\ r.profile = p
      /\ r.session = s.session /\ r.five = s.five /\ r.thirty = s.thirty /\ r.bars = s.bars
      /\ r.fiveEnd = s.fiveEnd /\ r.fiveCount = s.fiveCount /\ r.thirtyEnd = s.thirtyEnd
      /\ r.auctions = s.auctions /\ r.finals = s.finals /\ r.finalTakes = s.finalTakes
      /\ r.lastTrade = s.lastTrade /\ r.raised = s.raised
  BY <1>1 DEF Stream
<1>. HIDE DEF r
<1>3. Running(r, A, D, k)
  BY <1>1, <1>2 DEF Running
<1>4. Core(r, A, D, k)
  BY <1>2, <1>3 DEF Kept, Core, AuctionsRight, FinalsRight, TakesRight
<1>5. BarsRight(r, A, k) /\ PublishedOf(r) = FastBarsOf(r)
  BY <1>2 DEF Kept, BarsRight, Builder, PublishedOf, FastBarsOf
<1>6. Kept(r, A, D, k)
  BY <1>4, <1>5 DEF Kept
<1>. QED  BY <1>6 DEF r

(* The minutes due are closed.                                             *)
LEMMA FinalizeProfileMinutesKeeps ==
    ASSUME NEW s, NEW A, NEW D, NEW c \in Nat, Kept(s, A, D, c)
    PROVE  LET r == FinalizeProfileMinutes(s, c)
           IN  /\ Kept(r, A, D, c) /\ r.session = s.session
               /\ r.session # NoSession => ~ MinuteDue(r.profile, c)
<1>. DEFINE r == FinalizeProfileMinutes(s, c)
            p == FinalizeMinutes(s.profile, c)
<1>1. Running(s, A, D, c) /\ s \in Stream /\ s.raised = Quiet
  BY DEF Kept, Core, Running
<1>2. CASE s.session = NoSession
  <2>1. r = s
    BY <1>2 DEF FinalizeProfileMinutes
  <2>. QED  BY <1>2, <2>1
<1>3. CASE s.session # NoSession
  <2>1. MinutesRight(s.profile, s.session, c) /\ SessionRight(s.profile, s.session, A, D, c)
    BY <1>1, <1>3 DEF Running
  <2>2. s.session \in Sessions /\ s.profile.lastFinalized <= c
    BY <2>1 DEF MinutesRight, SessionRight
  <2>3. /\ ~ MinuteClockBackward(s.profile, c) /\ ~ MemoryOverflows(s.profile, c)
        /\ MinutesRight(p, s.session, c) /\ ~ MinuteDue(p, c)
        /\ p.admitted = s.profile.admitted /\ p.frozen = s.profile.frozen
        /\ p.lastTrade = s.profile.lastTrade /\ p.flags = s.profile.flags
    BY <2>1, <2>2, FinalizeMinutesRight
  <2>4. SessionRight(p, s.session, A, D, c)
    BY <2>1, <2>3 DEF SessionRight
  <2>5. r = [s EXCEPT !.profile = p]
    BY <1>1, <1>3, <2>3 DEF FinalizeProfileMinutes, Stopped
  <2>6. p \in Profile
    BY <2>3 DEF MinutesRight
  <2>. HIDE DEF p
  <2>7. r.session = s.session /\ r.profile = p
    BY <1>1, <2>5 DEF Stream
  <2>8. Kept(r, A, D, c)
    BY <1>3, <2>3, <2>4, <2>5, <2>6, NewProfile
  <2>. QED  BY <2>3, <2>7, <2>8
<1>. QED  BY <1>2, <1>3

-----------------------------------------------------------------------------
(* The end of a session *)

(* What stays true of a stream that stopped or was finalized.              *)
Told(s, A, D, c) ==
    /\ s \in Stream /\ FeedRight(A, D, c)
    /\ BarsRight(s, A, c) /\ AuctionsRight(s, A, D, c)
    /\ \A i, j \in 1..Len(s.finalTakes) : i # j => s.finalTakes[i] # s.finalTakes[j]
    /\ s.raised = Quiet => PublishedOf(s) = FastBarsOf(s)

(* Every session with trades has its final Profile. *)
AllTaken(s, A) ==
    \A r \in Sessions : SessionTrades(A, r) # {} =>
        \E i \in 1..Len(s.finalTakes) : s.finalTakes[i] = r

(* A running stream tells what holds ever after.                           *)
LEMMA KeptIsTold ==
    ASSUME NEW s, NEW A, NEW D, NEW c, Kept(s, A, D, c)
    PROVE  Told(s, A, D, c)
  BY DEF Kept, Core, Running, TakesRight, Told

(* The two ends of _finalize_current_profile on a running stream. *)
LeftEmpty(s, e) == [s EXCEPT !.profile = FinalizeMinutes(s.profile, e), !.raised = "empty profile"]

FinalOf(s) == [session |-> s.session, trades |-> s.profile.admitted, flags |-> s.profile.flags]

FinalsAfter(s) == [s.finals EXCEPT ![s.session.type] = FinalOf(s)]

LeftFinal(s, e) ==
    [s EXCEPT !.profile    = TakeFinal(FinalizeMinutes(s.profile, e)),
              !.finals     = FinalsAfter(s),
              !.finalTakes = Append(@, s.session)]

(* Only an empty Profile raises, and a Profile that was not finalized is   *)
(* finalized, once.                                                        *)
LEMMA FinalizeCurrentProfileIs ==
    ASSUME NEW s, NEW A, NEW D, NEW c \in Nat, Kept(s, A, D, c), NEW e \in Nat,
           s.session # NoSession, s.lastTrade # None,
           s.lastTrade <= e, s.profile.lastTrade <= e, s.profile.lastFinalized <= e
    PROVE  FinalizeCurrentProfile(s, e) =
             IF s.profile.lastTrade = None THEN LeftEmpty(s, e) ELSE LeftFinal(s, e)
<1>. DEFINE p     == FinalizeMinutes(s.profile, e)
            ready == FinalizeProfileMinutes(s, e)
            final == [ready EXCEPT
                        !.profile    = TakeFinal(@),
                        !.finals     = IF ready.profile.frozen THEN @
                                       ELSE [@ EXCEPT ![s.session.type] =
                                               [session |-> s.session,
                                                trades |-> ready.profile.admitted,
                                                flags |-> ready.profile.flags]],
                        !.finalTakes = Append(@, s.session)]
<1>1. Running(s, A, D, c) /\ s \in Stream /\ s.raised = Quiet
  BY DEF Kept, Core, Running
<1>2. MinutesRight(s.profile, s.session, c) /\ SessionRight(s.profile, s.session, A, D, c)
  BY <1>1 DEF Running
<1>3. s.session \in Sessions /\ ~ s.profile.frozen
  BY <1>2 DEF SessionRight
<1>4. /\ ~ MinuteClockBackward(s.profile, e) /\ ~ MemoryOverflows(s.profile, e)
      /\ p.admitted = s.profile.admitted /\ p.frozen = s.profile.frozen
      /\ p.lastTrade = s.profile.lastTrade /\ p.flags = s.profile.flags
  BY <1>2, <1>3, FinalizeMinutesRight
<1>5. (IF s.lastTrade > e THEN s.lastTrade ELSE e) = e
  BY <1>1, StreamFields DEF None
<1>6. ready = [s EXCEPT !.profile = p]
  BY <1>1, <1>4 DEF FinalizeProfileMinutes, Stopped
<1>7. ready.raised = Quiet /\ ready.profile = p
  BY <1>1, <1>6 DEF Stream
<1>8. FinalizeCurrentProfile(s, e) =
        IF SnapshotBackdated(ready.profile, e) THEN Raise(ready, "backdated snapshot")
        ELSE IF SnapshotEmpty(ready.profile) THEN Raise(ready, "empty profile")
        ELSE final
  <2>1. ~ Stopped(s) /\ ~ Stopped(ready)
    BY <1>1, <1>7 DEF Stopped
  <2>. HIDE DEF ready
  <2>. QED  BY <1>5, <2>1 DEF FinalizeCurrentProfile, ready
<1>9. ~ SnapshotBackdated(ready.profile, e)
  <2>1. s.profile.lastTrade \in Nat \cup {None}
    BY <1>2, ProfileFields DEF MinutesRight
  <2>. QED  BY <1>4, <1>7, <2>1 DEF SnapshotBackdated, None
<1>10. SnapshotEmpty(ready.profile) <=> s.profile.lastTrade = None
  BY <1>4, <1>7 DEF SnapshotEmpty
<1>11. Raise(ready, "empty profile") = LeftEmpty(s, e)
  <2>. HIDE DEF p
  <2>1. [[s EXCEPT !.profile = p] EXCEPT !.raised = "empty profile"] =
          [s EXCEPT !.profile = p, !.raised = "empty profile"]
    BY <1>1 DEF Stream
  <2>. QED  BY <1>6, <2>1 DEF Raise, LeftEmpty, p
<1>12. final = LeftFinal(s, e)
  <2>1. final = [ready EXCEPT
                   !.profile    = TakeFinal(@),
                   !.finals     = [@ EXCEPT ![s.session.type] = FinalOf(s)],
                   !.finalTakes = Append(@, s.session)]
    BY <1>3, <1>4, <1>7 DEF FinalOf
  <2>. HIDE DEF p
  <2>2. [[s EXCEPT !.profile = p] EXCEPT
                   !.profile    = TakeFinal(@),
                   !.finals     = [@ EXCEPT ![s.session.type] = FinalOf(s)],
                   !.finalTakes = Append(@, s.session)] =
        [s EXCEPT !.profile    = TakeFinal(p),
                  !.finals     = FinalsAfter(s),
                  !.finalTakes = Append(@, s.session)]
    BY <1>1 DEF Stream, FinalsAfter
  <2>. HIDE DEF ready, final
  <2>. QED  BY <1>6, <2>1, <2>2 DEF LeftFinal, p
<1>. HIDE DEF ready, final
<1>. QED  BY <1>8, <1>9, <1>10, <1>11, <1>12

(* The stream that raises on an empty Profile.                             *)
StoppedEmpty(r, A, D, c) ==
    Told(r, A, D, c) /\ r.raised = "empty profile" /\ r.profile.admitted = {}

(* What LeftEmpty leaves to tell. *)
LEMMA LeftEmptyIsTold ==
    ASSUME NEW s, NEW A, NEW D, NEW c \in Nat, Kept(s, A, D, c), NEW e \in Nat,
           s.session # NoSession, s.profile.lastTrade = None, s.profile.lastFinalized <= e
    PROVE  StoppedEmpty(LeftEmpty(s, e), A, D, c)
<1>. DEFINE p == FinalizeMinutes(s.profile, e)
            r == LeftEmpty(s, e)
<1>1. Running(s, A, D, c) /\ s \in Stream /\ s.raised = Quiet
  BY DEF Kept, Core, Running
<1>2. MinutesRight(s.profile, s.session, c) /\ SessionRight(s.profile, s.session, A, D, c)
  BY <1>1 DEF Running
<1>3. s.session \in Sessions /\ s.profile.admitted = {}
  BY <1>2 DEF SessionRight
<1>4. MinutesRight(p, s.session, IF e > c THEN e ELSE c) /\ p.admitted = {}
  BY <1>2, <1>3, FinalizeMinutesRight
<1>5. p \in Profile
  BY <1>4 DEF MinutesRight
<1>6. r = [s EXCEPT !.profile = p, !.raised = "empty profile"]
  BY DEF LeftEmpty
<1>. HIDE DEF p, r
<1>7. /\ r \in Stream /\ r.profile = p /\ r.raised = "empty profile"
      /\ r.five = s.five /\ r.thirty = s.thirty /\ r.bars = s.bars
      /\ r.auctions = s.auctions /\ r.finalTakes = s.finalTakes
  <2>1. /\ r.profile = p /\ r.raised = "empty profile"
        /\ r.five = s.five /\ r.thirty = s.thirty /\ r.bars = s.bars
        /\ r.auctions = s.auctions /\ r.finalTakes = s.finalTakes
    BY <1>1, <1>6 DEF Stream
  <2>2. "empty profile" \in Outcomes
    BY DEF Outcomes
  <2>3. \A reason \in Outcomes : [s EXCEPT !.profile = p, !.raised = reason] \in Stream
    BY <1>1, <1>5 DEF Stream
  <2>. QED  BY <1>6, <2>1, <2>2, <2>3
<1>8. BarsRight(r, A, c) /\ AuctionsRight(r, A, D, c)
  BY <1>7 DEF Kept, Core, BarsRight, AuctionsRight, Builder
<1>9. \A i, j \in 1..Len(r.finalTakes) : i # j => r.finalTakes[i] # r.finalTakes[j]
  BY <1>7 DEF Kept, Core, TakesRight
<1>10. Told(r, A, D, c)
  BY <1>1, <1>7, <1>8, <1>9 DEF Told, Running, Quiet
<1>. QED  BY <1>4, <1>7, <1>10 DEF r, StoppedEmpty

(* A finalized session is taken once and its final Profile is the          *)
(* reference of the sessions that follow.                                  *)
LEMMA LeftFinalIs ==
    ASSUME NEW s, NEW A, NEW D, NEW c \in Nat, Kept(s, A, D, c), NEW e \in Nat,
           s.session # NoSession, s.profile.lastTrade # None, s.profile.lastFinalized <= e
    PROVE  LET r == LeftFinal(s, e)
           IN  /\ r \in Stream /\ r.raised = Quiet
               /\ r.five = s.five /\ r.thirty = s.thirty /\ r.bars = s.bars
               /\ r.fiveEnd = s.fiveEnd /\ r.fiveCount = s.fiveCount /\ r.thirtyEnd = s.thirtyEnd
               /\ r.auctions = s.auctions /\ r.lastTrade = s.lastTrade
               /\ r.finals = FinalsAfter(s)
               /\ \A i \in 1..Len(r.finalTakes) : r.finalTakes[i].end <= s.session.end
               /\ Told(r, A, D, c) /\ AllTaken(r, A)
<1>. DEFINE p == FinalizeMinutes(s.profile, e)
            q == TakeFinal(p)
            finals == FinalsAfter(s)
            takes  == Append(s.finalTakes, s.session)
            n == Len(s.finalTakes)
            r == LeftFinal(s, e)
<1>1. Running(s, A, D, c) /\ s \in Stream /\ s.raised = Quiet /\ FeedRight(A, D, c)
  BY DEF Kept, Core, Running
<1>2. MinutesRight(s.profile, s.session, c) /\ SessionRight(s.profile, s.session, A, D, c)
  BY <1>1 DEF Running
<1>3. s.session \in Sessions /\ s.profile \in Profile /\ s.session.type \in Types
  BY <1>2, SessionFields DEF SessionRight, MinutesRight
<1>4. q \in Profile
  <2>1. MinutesRight(p, s.session, IF e > c THEN e ELSE c)
    BY <1>2, <1>3, FinalizeMinutesRight
  <2>2. p \in Profile
    BY <2>1 DEF MinutesRight
  <2>. HIDE DEF p
  <2>. QED  BY <2>2 DEF TakeFinal, Profile
<1>5. finals \in [Types -> Final]
  <2>1. s.profile.admitted \subseteq Trade /\ s.profile.flags \subseteq Flags
    BY <1>3 DEF Profile
  <2>2. FinalOf(s) \in Final
    BY <1>3, <2>1 DEF FinalOf, Final
  <2>. QED  BY <1>1, <2>2, StreamFields DEF FinalsAfter
<1>6. /\ s.finalTakes \in Seq(Sessions) /\ n \in Nat
      /\ takes \in Seq(Sessions) /\ Len(takes) = n + 1
      /\ \A i \in 1..n : takes[i] = s.finalTakes[i]
      /\ takes[n + 1] = s.session
  BY <1>1, <1>3, StreamFields, AppendProperties
<1>7. r = [s EXCEPT !.profile = q, !.finals = finals, !.finalTakes = takes]
  BY DEF LeftFinal
<1>. HIDE DEF p, q, finals, takes, r
<1>8. /\ r \in Stream /\ r.raised = Quiet
      /\ r.five = s.five /\ r.thirty = s.thirty /\ r.bars = s.bars
      /\ r.fiveEnd = s.fiveEnd /\ r.fiveCount = s.fiveCount /\ r.thirtyEnd = s.thirtyEnd
      /\ r.auctions = s.auctions /\ r.lastTrade = s.lastTrade
      /\ r.finals = finals /\ r.finalTakes = takes
  BY <1>1, <1>4, <1>5, <1>6, <1>7 DEF Stream
<1>9. /\ \A i, j \in 1..n : i # j => s.finalTakes[i] # s.finalTakes[j]
      /\ \A i \in 1..n : s.finalTakes[i].end <= s.session.start
      /\ \A x \in Sessions : SessionTrades(A, x) # {} /\ x # s.session =>
            \E i \in 1..n : s.finalTakes[i] = x
  BY DEF Kept, Core, TakesRight
<1>10. /\ s.session.start \in Nat /\ s.session.end \in Nat /\ s.session.start < s.session.end
       /\ \A i \in 1..n : s.finalTakes[i] \in Sessions /\ s.finalTakes[i].end \in Nat
  BY <1>3, <1>6, ElementOfSeq, SessionFields
<1>11. \A i \in 1..(n + 1) : i \in 1..n \/ i = n + 1
  BY <1>6
<1>12. \A i \in 1..(n + 1) : takes[i].end <= s.session.end
  <2>1. \A i \in 1..n : takes[i].end <= s.session.end
    <3>1. SUFFICES ASSUME NEW i \in 1..n PROVE takes[i].end <= s.session.end
      OBVIOUS
    <3>2. s.finalTakes[i].end \in Nat /\ s.finalTakes[i].end <= s.session.start
      BY <1>9, <1>10
    <3>3. takes[i] = s.finalTakes[i]
      BY <1>6
    <3>4. s.finalTakes[i].end <= s.session.end
      BY <1>10, <3>2
    <3>. QED  BY <3>3, <3>4
  <2>2. takes[n + 1].end <= s.session.end
    BY <1>6, <1>10
  <2>. QED  BY <1>11, <2>1, <2>2
<1>13. \A i, j \in 1..(n + 1) : i # j => takes[i] # takes[j]
  <2>1. \A i \in 1..n : takes[i] # s.session
    BY <1>6, <1>9, <1>10
  <2>. QED  BY <1>6, <1>9, <1>11, <2>1
<1>14. AllTaken(r, A)
  <2>1. SUFFICES ASSUME NEW x \in Sessions, SessionTrades(A, x) # {}
                 PROVE  \E i \in 1..(n + 1) : takes[i] = x
    BY <1>6, <1>8 DEF AllTaken
  <2>2. CASE x = s.session
    BY <1>6, <2>2
  <2>3. CASE x # s.session
    <3>1. PICK i \in 1..n : s.finalTakes[i] = x
      BY <1>9, <2>1, <2>3
    <3>2. i \in 1..(n + 1)
      BY <1>6
    <3>. QED  BY <1>6, <3>1, <3>2
  <2>. QED  BY <2>2, <2>3
<1>15. BarsRight(r, A, c) /\ AuctionsRight(r, A, D, c) /\ PublishedOf(r) = FastBarsOf(r)
  <2>1. BarsRight(s, A, c) /\ AuctionsRight(s, A, D, c) /\ PublishedOf(s) = FastBarsOf(s)
    BY DEF Kept, Core
  <2>2. BarsRight(r, A, c)
    BY <1>8, <2>1 DEF BarsRight, Builder
  <2>3. AuctionsRight(r, A, D, c)
    BY <1>8, <2>1 DEF AuctionsRight
  <2>4. PublishedOf(r) = FastBarsOf(r)
    BY <1>8, <2>1 DEF PublishedOf, FastBarsOf
  <2>. QED  BY <2>2, <2>3, <2>4
<1>16. Told(r, A, D, c)
  BY <1>1, <1>6, <1>8, <1>13, <1>15 DEF Told
<1>. QED  BY <1>6, <1>8, <1>12, <1>14, <1>16 DEF r, finals

(* What every session that has ended leaves to the ones that follow. *)
LEMMA FinalsMove ==
    ASSUME NEW s, NEW A, NEW D, NEW c \in Nat, Kept(s, A, D, c),
           s.session # NoSession, s.profile.lastTrade # None,
           NEW session \in Sessions, s.session.end <= session.start, NEW type \in Types
    PROVE  FinalRight(FinalsAfter(s)[type], type, session, A, D)
<1>. DEFINE old == s.session
            f   == FinalsAfter(s)[type]
<1>1. Running(s, A, D, c) /\ s \in Stream /\ FeedRight(A, D, c)
  BY DEF Kept, Core, Running
<1>2. SessionRight(s.profile, old, A, D, c) /\ MinutesRight(s.profile, old, c)
  BY <1>1 DEF Running
<1>3. /\ old \in Sessions /\ s.profile.admitted = SessionTrades(A, old)
      /\ s.profile.admitted # {} /\ \A t \in D : t.time < old.end
      /\ s.profile.flags = {} => \A t \in SessionTrades(D, old) : Clean(t, A)
  BY <1>2 DEF SessionRight
<1>4. FinalRight(s.finals[type], type, old, A, D) /\ s.finals \in [Types -> Final]
  BY <1>1, StreamFields DEF Kept, Core, FinalsRight
<1>5. ASSUME NEW x \in Sessions, x # old, SessionTrades(A, x) # {}
      PROVE  x.end <= old.start
  <2>1. PICK t \in A : x.start <= t.time /\ t.time < x.end
    BY <1>5 DEF SessionTrades
  <2>2. t \in D /\ t.time \in Nat
    <3>1. t \in D
      BY <1>1, <2>1 DEF FeedRight
    <3>. QED  BY <1>1, <3>1, FeedFields
  <2>3. t.time < old.end
    BY <1>3, <2>2
  <2>4. ~ (old.end <= x.start)
    BY <1>3, <1>5, <2>1, <2>2, <2>3, SessionFields
  <2>. QED  BY <1>3, <1>5, <2>4, CalendarAssumption
<1>6. /\ old.start \in Nat /\ old.end \in Nat /\ old.start < old.end
      /\ session.start \in Nat /\ \A x \in Sessions : x.end \in Nat
  BY <1>3, SessionFields
<1>7. CASE type = old.type
  <2>1. f = FinalOf(s)
    BY <1>4, <1>7 DEF FinalsAfter
  <2>2. /\ f.session = old /\ f.trades = SessionTrades(A, old)
        /\ f.flags = s.profile.flags
    BY <1>3, <2>1 DEF FinalOf
  <2>3. old \in Prior(A, type, session)
    BY <1>3, <1>7 DEF Prior
  <2>4. \A x \in Prior(A, type, session) : x.end <= old.end
    BY <1>5, <1>6 DEF Prior
  <2>. HIDE DEF f
  <2>5. ReferenceRight(f, type, session, A)
    BY <2>2, <2>3, <2>4 DEF ReferenceRight
  <2>6. FinalRight(f, type, session, A, D)
    BY <1>3, <2>2, <2>5 DEF FinalRight
  <2>. QED  BY <2>6 DEF f
<1>8. CASE type # old.type
  <2>1. f = s.finals[type]
    BY <1>4, <1>8 DEF FinalsAfter
  <2>2. Prior(A, type, session) = Prior(A, type, old)
    <3>1. ASSUME NEW x \in Prior(A, type, session) PROVE x \in Prior(A, type, old)
      BY <1>5, <1>8, <3>1 DEF Prior
    <3>2. ASSUME NEW x \in Prior(A, type, old) PROVE x \in Prior(A, type, session)
      BY <1>6, <3>2 DEF Prior
    <3>. QED  BY <3>1, <3>2
  <2>. HIDE DEF f
  <2>3. FinalRight(f, type, session, A, D)
    BY <1>4, <2>1, <2>2 DEF FinalRight, ReferenceRight
  <2>. QED  BY <2>3 DEF f
<1>. QED  BY <1>7, <1>8

(* The stream s has left its session for another. *)
Leaving(s, A, D, c, session) ==
    /\ Told(s, A, D, c) /\ AllTaken(s, A)
    /\ s.raised = Quiet /\ s.five = NoBar /\ s.thirty = NoBar
    /\ s.fiveEnd <= c /\ s.thirtyEnd <= c /\ s.fiveCount = Len(s.auctions)
    /\ s.lastTrade = None <=> A = {}
    /\ s.lastTrade <= c
    /\ session \in Sessions /\ session.start <= c /\ c < session.end
    /\ \A t \in D : t.time < session.start
    /\ \A i \in 1..Len(s.finalTakes) : s.finalTakes[i].end <= session.start
    /\ \A type \in Types : FinalRight(s.finals[type], type, session, A, D)

InSession(s, session) == [s EXCEPT !.profile = EmptyProfile, !.session = session]

(* A stream that left a session is a running one in the next.              *)
LEMMA NewSession ==
    ASSUME NEW s, NEW A, NEW D, NEW c \in Nat, NEW session, Leaving(s, A, D, c, session)
    PROVE  LET r == InSession(s, session)
           IN  Kept(r, A, D, c) /\ r.session = session /\ ~ MinuteDue(r.profile, c)
<1>. DEFINE r == InSession(s, session)
            p == EmptyProfile
<1>0. /\ Told(s, A, D, c) /\ AllTaken(s, A)
      /\ s.raised = Quiet /\ s.five = NoBar /\ s.thirty = NoBar
      /\ s.fiveEnd <= c /\ s.thirtyEnd <= c /\ s.fiveCount = Len(s.auctions)
      /\ s.lastTrade = None <=> A = {}
      /\ s.lastTrade <= c
      /\ session \in Sessions /\ session.start <= c /\ c < session.end
      /\ \A t \in D : t.time < session.start
      /\ \A i \in 1..Len(s.finalTakes) : s.finalTakes[i].end <= session.start
      /\ \A type \in Types : FinalRight(s.finals[type], type, session, A, D)
  BY DEF Leaving
<1>1. FeedRight(A, D, c) /\ BarsRight(s, A, c) /\ AuctionsRight(s, A, D, c) /\ s \in Stream
  BY <1>0 DEF Told
<1>2. /\ p.open = {} /\ p.minuteEnd = None /\ p.buckets = <<>> /\ p.admitted = {}
      /\ p.lastTrade = None /\ p.lastFinalized = None /\ p.frozen = FALSE
  BY DEF EmptyProfile
<1>3. p \in Profile
  BY DEF EmptyProfile, Profile, None
<1>4. session.start \in Nat /\ session.end \in Nat /\ session # NoSession
  BY <1>0, SessionFields
<1>5. MinutesRight(p, session, c)
  <2>1. Len(p.buckets) = 0
    BY <1>2
  <2>. HIDE DEF p
  <2>. QED  BY <1>0, <1>2, <1>3, <1>4, <2>1
            DEF MinutesRight, Partitioned, Spaced, OpenAfterFinalized, None, MinuteEnd
<1>6. \A t \in D : t.time \in Nat
  BY <1>1, FeedFields
<1>7. SessionTrades(A, session) = {} /\ SessionTrades(D, session) = {}
  BY <1>0, <1>1, <1>4, <1>6 DEF SessionTrades, FeedRight
<1>8. SessionRight(p, session, A, D, c)
  <2>1. \A t \in D : t.time < session.end
    BY <1>0, <1>4, <1>6
  <2>. HIDE DEF p
  <2>. QED  BY <1>0, <1>2, <1>4, <1>7, <2>1 DEF SessionRight, None
<1>. HIDE DEF p
<1>9. /\ r.profile = p /\ r.session = session
      /\ r.five = s.five /\ r.thirty = s.thirty /\ r.bars = s.bars
      /\ r.fiveEnd = s.fiveEnd /\ r.fiveCount = s.fiveCount /\ r.thirtyEnd = s.thirtyEnd
      /\ r.auctions = s.auctions /\ r.finals = s.finals /\ r.finalTakes = s.finalTakes
      /\ r.lastTrade = s.lastTrade /\ r.raised = s.raised
  BY <1>1 DEF Stream, p, InSession
<1>10. r \in Stream
  BY <1>0, <1>1, <1>3 DEF Stream, p, InSession
<1>. HIDE DEF r
<1>11. s.lastTrade < session.end
  BY <1>0, <1>1, <1>4, StreamFields DEF None
<1>12. Running(r, A, D, c)
  BY <1>0, <1>1, <1>4, <1>5, <1>8, <1>9, <1>10, <1>11 DEF Running, BuilderRight
<1>13. TakesRight(r, A)
  BY <1>0, <1>9 DEF Told, AllTaken, TakesRight
<1>14. AuctionsRight(r, A, D, c) /\ FinalsRight(r, A, D)
  BY <1>0, <1>1, <1>9 DEF AuctionsRight, FinalsRight
<1>15. BarsRight(r, A, c)
  BY <1>1, <1>9 DEF BarsRight, Builder
<1>16. PublishedOf(r) = FastBarsOf(r)
  BY <1>0, <1>9 DEF Told, PublishedOf, FastBarsOf
<1>17. Kept(r, A, D, c)
  BY <1>0, <1>9, <1>12, <1>13, <1>14, <1>15, <1>16 DEF Kept, Core
<1>18. ~ MinuteDue(r.profile, c)
  BY <1>2, <1>9 DEF MinuteDue
<1>. QED  BY <1>9, <1>17, <1>18 DEF r

(* The stream that goes on in the session of the trade.                    *)
Opened(r, A, D, c, session) ==
    Kept(r, A, D, c) /\ r.session = session /\ ~ MinuteDue(r.profile, c)

(* _finalize_current_profile on a clock of the session's end or later, and *)
(* the first trade of the next: only an empty Profile stops the stream.    *)
LEMMA OpenSessionKeeps ==
    ASSUME NEW s, NEW A, NEW D, NEW c \in Nat, Kept(s, A, D, c),
           s.session # NoSession => ~ MinuteDue(s.profile, c),
           NEW session \in Sessions, session.start <= c, c < session.end
    PROVE  LET r == OpenSession(s, session)
           IN  StoppedEmpty(r, A, D, c) \/ Opened(r, A, D, c, session)
<1>. DEFINE r    == OpenSession(s, session)
            left == FinalizeCurrentProfile(s, s.session.end)
<1>1. Running(s, A, D, c) /\ s \in Stream /\ s.raised = Quiet /\ FeedRight(A, D, c)
  BY DEF Kept, Core, Running
<1>2. /\ session.start \in Nat /\ session.end \in Nat /\ session # NoSession
  BY SessionFields
<1>3. Told(s, A, D, c) /\ TakesRight(s, A) /\ FinalsRight(s, A, D) /\ s.fiveCount = Len(s.auctions)
  BY KeptIsTold DEF Kept, Core
<1>4. r = IF s.session = session THEN s
          ELSE IF Stopped(left) THEN left
          ELSE InSession(left, session)
  BY <1>1 DEF OpenSession, Stopped, InSession
<1>. HIDE DEF r, StoppedEmpty, Opened
<1>5. CASE s.session = session
  BY <1>2, <1>4, <1>5 DEF r, StoppedEmpty, Opened
<1>6. CASE s.session = NoSession
  <2>1. left = s /\ ~ Stopped(left)
    BY <1>1, <1>6 DEF FinalizeCurrentProfile, Stopped
  <2>2. r = InSession(s, session)
    BY <1>2, <1>4, <1>6, <2>1
  <2>3. D = {} /\ A = {}
    BY <1>1, <1>6 DEF Running, FeedRight
  <2>4. s.five = NoBar /\ s.thirty = NoBar
    BY <1>1, <1>6, SessionFields DEF Running, BuilderRight
  <2>5. \A i \in 1..Len(s.finalTakes) : s.finalTakes[i].end <= session.start
    <3>1. \A i \in 1..Len(s.finalTakes) : s.finalTakes[i].end \in Nat
      BY <1>1, StreamFields, ElementOfSeq, SessionFields
    <3>2. \A i \in 1..Len(s.finalTakes) : s.finalTakes[i].end <= 0
      BY <1>3, <1>6 DEF TakesRight, NoSession
    <3>. QED  BY <1>2, <3>1, <3>2
  <2>6. AllTaken(s, A)
    BY <2>3 DEF AllTaken, SessionTrades
  <2>7. ASSUME NEW type \in Types PROVE FinalRight(s.finals[type], type, session, A, D)
    <3>1. FinalRight(s.finals[type], type, NoSession, A, D)
      BY <1>3, <1>6 DEF FinalsRight
    <3>2. \A x : Prior(A, type, x) = {}
      BY <2>3 DEF Prior, SessionTrades
    <3>3. s.finals[type] = NoFinal
      BY <3>1, <3>2 DEF FinalRight, ReferenceRight
    <3>. QED  BY <3>2, <3>3 DEF FinalRight, ReferenceRight
  <2>8. s.fiveEnd <= c /\ s.thirtyEnd <= c /\ s.lastTrade <= c /\ (s.lastTrade = None <=> A = {})
    BY <1>1 DEF Running
  <2>9. Leaving(s, A, D, c, session)
    BY <1>1, <1>3, <2>3, <2>4, <2>5, <2>6, <2>7, <2>8 DEF Leaving
  <2>10. Kept(r, A, D, c) /\ r.session = session /\ ~ MinuteDue(r.profile, c)
    BY <2>2, <2>9, NewSession
  <2>. QED  BY <2>10 DEF r, StoppedEmpty, Opened
<1>7. CASE s.session # NoSession /\ s.session # session
  <2>1. /\ MinutesRight(s.profile, s.session, c) /\ SessionRight(s.profile, s.session, A, D, c)
        /\ s.fiveEnd <= c /\ s.thirtyEnd <= c /\ (s.lastTrade = None <=> A = {})
        /\ s.lastTrade <= c /\ s.lastTrade < s.session.end
        /\ BuilderRight(s.five, FastBar, s.session, A, c)
        /\ BuilderRight(s.thirty, MediumBar, s.session, A, c)
    BY <1>1, <1>7 DEF Running
  <2>2. s.session \in Sessions /\ s.session.start <= c /\ \A t \in D : t.time < s.session.end
    BY <2>1 DEF SessionRight
  <2>3. s.session.start \in Nat /\ s.session.end \in Nat
    BY <2>2, SessionFields
  <2>4. s.session.end <= session.start
    <3>1. s.session.end <= session.start \/ session.end <= s.session.start
      BY <1>7, <2>2, CalendarAssumption
    <3>. QED  BY <1>2, <2>2, <2>3, <3>1
  <2>5. s.five = NoBar /\ s.thirty = NoBar
    BY <1>2, <2>1, <2>3, <2>4 DEF BuilderRight
  <2>6. \A t \in D : t.time < session.start
    BY <1>1, <1>2, <2>2, <2>3, <2>4, FeedFields
  <2>7. /\ s.profile.lastFinalized <= s.session.end /\ s.profile.lastTrade <= s.session.end
        /\ s.lastTrade <= s.session.end /\ s.profile \in Profile
    <3>1. s.profile.lastTrade \in Nat \cup {None} /\ s.lastTrade \in Nat \cup {None}
      BY <1>1, <2>1, ProfileFields, StreamFields DEF MinutesRight
    <3>. QED  BY <2>1, <2>3, <3>1 DEF MinutesRight, SessionRight, None
  <2>8. CASE s.lastTrade = None
    <3>1. left = s /\ ~ Stopped(left)
      BY <1>1, <2>8 DEF FinalizeCurrentProfile, Stopped
    <3>2. r = InSession(s, session)
      BY <1>4, <1>7, <3>1
    <3>3. A = {}
      BY <2>1, <2>8
    <3>4. \A i \in 1..Len(s.finalTakes) : s.finalTakes[i].end <= session.start
      <4>1. \A i \in 1..Len(s.finalTakes) : s.finalTakes[i].end \in Nat
        BY <1>1, StreamFields, ElementOfSeq, SessionFields
      <4>2. \A i \in 1..Len(s.finalTakes) : s.finalTakes[i].end <= s.session.start
        BY <1>3 DEF TakesRight
      <4>3. s.session.start <= session.start
        BY <1>2, <2>2, <2>3, <2>4, SessionFields
      <4>. QED  BY <1>2, <2>3, <4>1, <4>2, <4>3
    <3>5. AllTaken(s, A)
      BY <3>3 DEF AllTaken, SessionTrades
    <3>6. ASSUME NEW type \in Types PROVE FinalRight(s.finals[type], type, session, A, D)
      <4>1. FinalRight(s.finals[type], type, s.session, A, D)
        BY <1>3 DEF FinalsRight
      <4>2. \A x : Prior(A, type, x) = {}
        BY <3>3 DEF Prior, SessionTrades
      <4>3. s.finals[type] = NoFinal
        BY <4>1, <4>2 DEF FinalRight, ReferenceRight
      <4>. QED  BY <4>2, <4>3 DEF FinalRight, ReferenceRight
    <3>7. Leaving(s, A, D, c, session)
      BY <1>1, <1>3, <2>1, <2>5, <2>6, <3>4, <3>5, <3>6 DEF Leaving
    <3>8. Kept(r, A, D, c) /\ r.session = session /\ ~ MinuteDue(r.profile, c)
      BY <3>2, <3>7, NewSession
    <3>. QED  BY <3>8 DEF r, StoppedEmpty, Opened
  <2>9. CASE s.lastTrade # None /\ s.profile.lastTrade = None
    <3>1. left = LeftEmpty(s, s.session.end)
      BY <1>7, <2>3, <2>7, <2>9, FinalizeCurrentProfileIs
    <3>. HIDE DEF left
    <3>2. StoppedEmpty(left, A, D, c)
      BY <1>7, <2>3, <2>7, <2>9, <3>1, LeftEmptyIsTold
    <3>3. Stopped(left)
      BY <3>2 DEF StoppedEmpty, Stopped, Quiet
    <3>4. r = left
      BY <1>4, <1>7, <3>3
    <3>. QED  BY <3>2, <3>4 DEF r
  <2>10. CASE s.lastTrade # None /\ s.profile.lastTrade # None
    <3>1. left = LeftFinal(s, s.session.end)
      BY <1>7, <2>3, <2>7, <2>10, FinalizeCurrentProfileIs
    <3>. HIDE DEF left
    <3>2. /\ left \in Stream /\ left.raised = Quiet
          /\ left.five = s.five /\ left.thirty = s.thirty
          /\ left.fiveEnd = s.fiveEnd /\ left.fiveCount = s.fiveCount
          /\ left.thirtyEnd = s.thirtyEnd
          /\ left.auctions = s.auctions /\ left.lastTrade = s.lastTrade
          /\ left.finals = FinalsAfter(s)
          /\ \A i \in 1..Len(left.finalTakes) : left.finalTakes[i].end <= s.session.end
          /\ Told(left, A, D, c) /\ AllTaken(left, A)
      BY <1>7, <2>3, <2>7, <2>10, <3>1, LeftFinalIs
    <3>3. r = InSession(left, session)
      BY <1>4, <1>7, <3>2 DEF Stopped
    <3>4. \A type \in Types : FinalRight(left.finals[type], type, session, A, D)
      BY <1>7, <2>4, <2>10, <3>2, FinalsMove
    <3>5. \A i \in 1..Len(left.finalTakes) : left.finalTakes[i].end <= session.start
      <4>1. \A i \in 1..Len(left.finalTakes) : left.finalTakes[i].end \in Nat
        BY <3>2, StreamFields, ElementOfSeq, SessionFields
      <4>. QED  BY <1>2, <2>3, <2>4, <3>2, <4>1
    <3>6. /\ left.five = NoBar /\ left.thirty = NoBar
          /\ left.fiveEnd <= c /\ left.thirtyEnd <= c /\ left.fiveCount = Len(left.auctions)
          /\ left.lastTrade = None <=> A = {}
          /\ left.lastTrade <= c
      BY <1>3, <2>1, <2>5, <3>2
    <3>7. Leaving(left, A, D, c, session)
      BY <2>6, <3>2, <3>4, <3>5, <3>6 DEF Leaving
    <3>8. Kept(r, A, D, c) /\ r.session = session /\ ~ MinuteDue(r.profile, c)
      BY <3>3, <3>7, NewSession
    <3>. QED  BY <3>8 DEF r, StoppedEmpty, Opened
  <2>. QED  BY <2>8, <2>9, <2>10
<1>. QED  BY <1>5, <1>6, <1>7

-----------------------------------------------------------------------------
(* ingest_trade: what is told stays true when a trade is delivered         *)

(* The trade t comes at the clock c, and is admitted or not.               *)
Arrives(t, session, c, A, B) ==
    /\ t \in Trade /\ t.time = c
    /\ session \in Sessions /\ session.start <= c /\ c < session.end
    /\ B = A \/ B = A \cup {t}

(* The feed stays in order.                                                *)
LEMMA FeedGrows ==
    ASSUME NEW A, NEW D, NEW c \in Nat, FeedRight(A, D, c), NEW t, NEW session, NEW B,
           Arrives(t, session, c, A, B)
    PROVE  FeedRight(B, D \cup {t}, c)
  BY DEF FeedRight, Arrives

(* The new trade is of its own session alone. *)
LEMMA SessionTradesStay ==
    ASSUME NEW A, NEW c \in Nat, NEW t, NEW session, NEW B, Arrives(t, session, c, A, B),
           NEW x \in Sessions, x # session
    PROVE  SessionTrades(B, x) = SessionTrades(A, x)
<1>1. /\ t.time = c /\ session \in Sessions /\ session.start <= c /\ c < session.end
      /\ B = A \/ B = A \cup {t}
  BY DEF Arrives
<1>2. ~ (x.start <= c /\ c < x.end)
  BY <1>1, SessionAtIs
<1>. QED  BY <1>1, <1>2 DEF SessionTrades

(* No session gains or loses its place before another that has begun, nor  *)
(* does a session before it change.                                        *)
LEMMA PriorStays ==
    ASSUME NEW A, NEW c \in Nat, NEW t, NEW session, NEW B, Arrives(t, session, c, A, B),
           NEW x \in Sessions, x.start <= c, NEW type
    PROVE  /\ Prior(B, type, x) = Prior(A, type, x)
           /\ \A r \in Prior(A, type, x) : SessionTrades(B, r) = SessionTrades(A, r)
<1>1. session \in Sessions /\ session.start <= c /\ c < session.end
  BY DEF Arrives
<1>2. ASSUME NEW r \in Sessions, r.end <= x.start PROVE SessionTrades(B, r) = SessionTrades(A, r)
  <2>1. r # session
    BY <1>1, <1>2, SessionFields
  <2>. QED  BY <2>1, SessionTradesStay
<1>. QED  BY <1>2 DEF Prior

(* So a reference stays the right one.                                     *)
LEMMA ReferenceStays ==
    ASSUME NEW A, NEW c \in Nat, NEW t, NEW session, NEW B, Arrives(t, session, c, A, B),
           NEW x \in Sessions, x.start <= c, NEW type, NEW f, ReferenceRight(f, type, x, A)
    PROVE  ReferenceRight(f, type, x, B)
<1>1. /\ Prior(B, type, x) = Prior(A, type, x)
      /\ \A r \in Prior(A, type, x) : SessionTrades(B, r) = SessionTrades(A, r)
  BY PriorStays
<1>. QED  BY <1>1 DEF ReferenceRight

(* A published snapshot is of before the trade. *)
LEMMA AuctionStays ==
    ASSUME NEW A, NEW D, NEW c \in Nat, NEW t, NEW session, NEW B,
           FeedRight(A, D, c), Arrives(t, session, c, A, B),
           NEW a \in Auction, NEW n, a.asOf <= c, AuctionRight(a, n, A, D)
    PROVE  AuctionRight(a, n, B, D \cup {t})
<1>. DEFINE before(X) == {y \in SessionTrades(X, a.session) : y.time < a.asOf}
<1>1. /\ a.asOf \in Nat /\ a.session \in Sessions
  BY DEF Auction
<1>2. /\ a.session.start <= a.asOf
      /\ a.developing = before(A)
      /\ \A w \in Windows : a.rolling[w] = {y \in before(A) : a.asOf - w < MinuteEnd(y.time)}
      /\ ReferenceRight(a.reference, a.session.type, a.session, A)
      /\ a.ready => /\ n > AtrWindow
                    /\ \A y \in D : y.time < a.asOf
                         /\ SessionAt(y.time) \in {a.session, a.reference.session} => Clean(y, A)
  BY DEF AuctionRight
<1>3. t.time = c /\ (B = A \/ B = A \cup {t})
  BY DEF Arrives
<1>4. ~ (t.time < a.asOf)
  BY <1>1, <1>3
<1>5. before(B) = before(A)
  BY <1>3, <1>4 DEF SessionTrades
<1>6. ReferenceRight(a.reference, a.session.type, a.session, B)
  <2>1. a.session.start <= c
    BY <1>1, <1>2, SessionFields
  <2>. QED  BY <1>1, <1>2, <2>1, ReferenceStays
<1>7. ASSUME a.ready, NEW y \in D \cup {t}, y.time < a.asOf,
             SessionAt(y.time) \in {a.session, a.reference.session}
      PROVE  Clean(y, B)
  <2>1. y \in D
    BY <1>4, <1>7
  <2>. QED  BY <1>2, <1>3, <1>7, <2>1 DEF Clean
<1>8. /\ a.developing = before(B)
      /\ \A w \in Windows : a.rolling[w] = {y \in before(B) : a.asOf - w < MinuteEnd(y.time)}
  BY <1>2, <1>5
<1>. QED  BY <1>2, <1>6, <1>7, <1>8 DEF AuctionRight

(* And so are all of them.                                                 *)
LEMMA AuctionsStay ==
    ASSUME NEW s \in Stream, NEW A, NEW D, NEW c \in Nat, NEW t, NEW session, NEW B,
           FeedRight(A, D, c), Arrives(t, session, c, A, B), AuctionsRight(s, A, D, c)
    PROVE  AuctionsRight(s, B, D \cup {t}, c)
<1>1. ASSUME NEW i \in 1..Len(s.auctions)
      PROVE  AuctionRight(s.auctions[i], i, B, D \cup {t})
  BY PublishedFields, AuctionStays DEF AuctionsRight
<1>. QED  BY <1>1 DEF AuctionsRight

(* A completed bar ended by the clock of the trade. *)
LEMMA BucketStays ==
    ASSUME NEW A, NEW c \in Nat, NEW t, NEW session, NEW B, Arrives(t, session, c, A, B),
           NEW x \in Sessions, NEW period \in Periods, NEW end,
           end # BucketEnd(session, c, period) \/ x # session
    PROVE  Bucketed(B, x, end, period) = Bucketed(A, x, end, period)
<1>1. t.time = c /\ (B = A \/ B = A \cup {t})
  BY DEF Arrives
<1>2. CASE x # session
  BY <1>2, SessionTradesStay DEF Bucketed
<1>3. CASE x = session
  BY <1>1, <1>3 DEF Bucketed, SessionTrades
<1>. QED  BY <1>2, <1>3

(* The bucket of the trade ends after it. *)
LEMMA BucketEndsLater ==
    ASSUME NEW A, NEW c \in Nat, NEW t, NEW session, NEW B, Arrives(t, session, c, A, B),
           NEW period \in Periods
    PROVE  BucketEnd(session, c, period) \in Nat /\ c < BucketEnd(session, c, period)
<1>1. period \in Nat \ {0}
  BY Lengths DEF Periods
<1>2. session \in Sessions /\ session.start <= c
  BY DEF Arrives
<1>. QED  BY <1>1, <1>2, BucketEndIs

(* The completed bars of a stream keep all the trades of their buckets. *)
LEMMA BarsStay ==
    ASSUME NEW s \in Stream, NEW A, NEW c \in Nat, NEW t, NEW session, NEW B,
           Arrives(t, session, c, A, B), BarsRight(s, A, c)
    PROVE  \A bar \in s.bars : bar.end <= c
                   /\ bar.trades = Bucketed(B, bar.session, bar.end, bar.period)
<1>. SUFFICES ASSUME NEW bar \in s.bars
              PROVE  bar.end <= c /\ bar.trades = Bucketed(B, bar.session, bar.end, bar.period)
  OBVIOUS
<1>1. bar.end \in Nat /\ bar.session \in Sessions /\ bar.period \in Periods
  BY StreamFields DEF FullBar
<1>2. bar.end <= c /\ bar.trades = Bucketed(A, bar.session, bar.end, bar.period)
  BY DEF BarsRight
<1>3. bar.end # BucketEnd(session, c, bar.period)
  BY <1>1, <1>2, BucketEndsLater
<1>4. Bucketed(B, bar.session, bar.end, bar.period) = Bucketed(A, bar.session, bar.end, bar.period)
  BY <1>1, <1>3, BucketStays
<1>. QED  BY <1>2, <1>4

(* Streams that differ in what the arrival of a trade changes.             *)
SameButTrade(s, r) ==
    /\ r.session = s.session /\ r.bars = s.bars /\ r.auctions = s.auctions
    /\ r.finals = s.finals /\ r.finalTakes = s.finalTakes
    /\ r.fiveEnd = s.fiveEnd /\ r.fiveCount = s.fiveCount /\ r.thirtyEnd = s.thirtyEnd
    /\ r.raised = s.raised

(* A running stream whose Profile and builders have dealt with the trade   *)
(* stays right.                                                            *)
LEMMA TradeKeeps ==
    ASSUME NEW s, NEW A, NEW D, NEW c \in Nat, Kept(s, A, D, c),
           NEW t, NEW session, NEW B, Arrives(t, session, c, A, B), s.session = session,
           NEW r \in Stream, SameButTrade(s, r),
           MinutesRight(r.profile, session, c), SessionRight(r.profile, session, B, D \cup {t}, c),
           BuilderRight(r.five, FastBar, session, B, c),
           BuilderRight(r.thirty, MediumBar, session, B, c),
           r.lastTrade = None <=> B = {}, r.lastTrade <= c,
           \A period \in Periods :
              /\ Builder(s, period).trades \subseteq Builder(r, period).trades
              /\ B # A => InTail(session, c, period) \/ t \in Builder(r, period).trades
    PROVE  Kept(r, B, D \cup {t}, c)
<1>. DEFINE E == D \cup {t}
<1>1. /\ s \in Stream /\ s.raised = Quiet /\ FeedRight(A, D, c)
      /\ s.fiveEnd <= c /\ s.thirtyEnd <= c
      /\ AuctionsRight(s, A, D, c) /\ s.fiveCount = Len(s.auctions)
      /\ FinalsRight(s, A, D) /\ TakesRight(s, A)
      /\ BarsRight(s, A, c) /\ PublishedOf(s) = FastBarsOf(s)
  BY DEF Kept, Core, Running
<1>2. /\ t \in Trade /\ t.time = c
      /\ session \in Sessions /\ session.start <= c /\ c < session.end
      /\ B = A \/ B = A \cup {t}
  BY DEF Arrives
<1>3. /\ r.session = session /\ r.bars = s.bars /\ r.auctions = s.auctions
      /\ r.finals = s.finals /\ r.finalTakes = s.finalTakes
      /\ r.fiveEnd = s.fiveEnd /\ r.fiveCount = s.fiveCount /\ r.thirtyEnd = s.thirtyEnd
      /\ r.raised = s.raised
  BY DEF SameButTrade
<1>4. FeedRight(B, E, c)
  BY <1>1, FeedGrows
<1>5. session # NoSession /\ session.start \in Nat /\ session.end \in Nat
  BY <1>2, SessionFields
<1>6. r.lastTrade < session.end
  BY <1>2, <1>5, StreamFields DEF None
<1>7. Running(r, B, E, c)
  BY <1>1, <1>3, <1>4, <1>5, <1>6 DEF Running
<1>8. AuctionsRight(r, B, E, c)
  <2>1. AuctionsRight(s, B, E, c)
    BY <1>1, AuctionsStay
  <2>. QED  BY <1>3, <2>1 DEF AuctionsRight
<1>9. FinalsRight(r, B, E)
  <2>1. SUFFICES ASSUME NEW type \in Types PROVE FinalRight(s.finals[type], type, session, B, E)
    BY <1>3 DEF FinalsRight
  <2>. DEFINE f == s.finals[type]
  <2>2. FinalRight(f, type, session, A, D)
    BY <1>1 DEF FinalsRight
  <2>. HIDE DEF f
  <2>3. ReferenceRight(f, type, session, B)
    BY <1>2, <2>2, ReferenceStays DEF FinalRight
  <2>4. ASSUME f # NoFinal, f.flags = {}, NEW y \in SessionTrades(E, f.session)
        PROVE  Clean(y, B)
    <3>1. f.session \in Sessions /\ f.session.end <= session.start
      BY <2>2, <2>4 DEF FinalRight, ReferenceRight, Prior
    <3>2. y # t
      BY <1>2, <1>5, <2>4, <3>1, SessionFields DEF SessionTrades
    <3>3. y \in SessionTrades(D, f.session)
      BY <2>4, <3>2 DEF SessionTrades
    <3>. QED  BY <1>2, <2>2, <2>4, <3>3 DEF FinalRight, Clean
  <2>5. FinalRight(f, type, session, B, E)
    BY <2>3, <2>4 DEF FinalRight
  <2>. QED  BY <2>5 DEF f
<1>10. TakesRight(r, B)
  <2>1. \A x \in Sessions : x # session => SessionTrades(B, x) = SessionTrades(A, x)
    BY SessionTradesStay
  <2>. QED  BY <1>1, <1>3, <2>1 DEF TakesRight
<1>11. BarsRight(r, B, c)
  <2>1. \A bar \in s.bars : bar.end <= c
                   /\ bar.trades = Bucketed(B, bar.session, bar.end, bar.period)
    BY <1>1, BarsStay
  <2>2. ASSUME NEW period \in Periods, NEW y \in B
        PROVE  \/ InTail(SessionAt(y.time), y.time, period)
               \/ y \in Builder(r, period).trades
               \/ \E bar \in s.bars : bar.period = period /\ y \in bar.trades
    <3>1. CASE y \in A
      BY <1>1, <3>1 DEF BarsRight
    <3>2. CASE y \notin A
      <4>1. y = t /\ B # A
        BY <1>2, <3>2
      <4>2. SessionAt(y.time) = session
        BY <1>2, <4>1, SessionAtIs
      <4>. QED  BY <1>2, <4>1, <4>2
    <3>. QED  BY <3>1, <3>2
  <2>. QED  BY <1>3, <2>1, <2>2 DEF BarsRight
<1>12. PublishedOf(r) = FastBarsOf(r)
  BY <1>1, <1>3 DEF PublishedOf, FastBarsOf
<1>13. Kept(r, B, E, c)
  BY <1>1, <1>3, <1>7, <1>8, <1>9, <1>10, <1>11, <1>12 DEF Kept, Core
<1>. QED  BY <1>13

(* An open builder holds the bucket of the trade. *)
LEMMA OpenBucketIs ==
    ASSUME NEW A, NEW D, NEW c \in Nat, FeedRight(A, D, c), NEW period \in Periods,
           NEW session \in Sessions, NEW b, b # NoBar, BuilderRight(b, period, session, A, c)
    PROVE  b.session = session /\ b.end = BucketEnd(session, c, period)
<1>1. /\ b.session = session /\ b.end \in Nat /\ c < b.end
      /\ b.trades # {} /\ b.trades = Bucketed(A, session, b.end, period)
  BY DEF BuilderRight
<1>2. PICK y \in A : /\ session.start <= y.time
                     /\ BucketEnd(session, y.time, period) = b.end
  BY <1>1 DEF Bucketed, SessionTrades
<1>3. y \in D
  BY DEF FeedRight
<1>4. y.time \in Nat /\ y.time <= c
  BY <1>3, FeedFields
<1>5. period \in Nat \ {0}
  BY Lengths DEF Periods
<1>. QED  BY <1>1, <1>2, <1>4, <1>5, BucketEndIs

(* A bucket no builder holds is empty when the trade comes. *)
LEMMA NewBucketIsEmpty ==
    ASSUME NEW s \in Stream, NEW A, NEW D, NEW c \in Nat, FeedRight(A, D, c), BarsRight(s, A, c),
           NEW t, NEW session, NEW B, Arrives(t, session, c, A, B),
           NEW period \in Periods, Builder(s, period) = NoBar, ~ InTail(session, c, period)
    PROVE  Bucketed(A, session, BucketEnd(session, c, period), period) = {}
<1>1. SUFFICES ASSUME NEW y \in Bucketed(A, session, BucketEnd(session, c, period), period)
               PROVE  FALSE
  OBVIOUS
<1>2. session \in Sessions
  BY DEF Arrives
<1>3. /\ y \in A /\ session.start <= y.time /\ y.time < session.end
      /\ BucketEnd(session, y.time, period) = BucketEnd(session, c, period)
  BY <1>1 DEF Bucketed, SessionTrades
<1>4. y \in D
  BY <1>3 DEF FeedRight
<1>5. y.time \in Nat /\ SessionAt(y.time) = session
  BY <1>2, <1>3, <1>4, FeedFields, SessionAtIs
<1>6. ~ InTail(session, y.time, period)
  BY <1>3 DEF InTail
<1>7. y \notin Builder(s, period).trades
  BY DEF NoBar
<1>8. PICK bar \in s.bars : bar.period = period /\ y \in bar.trades
  BY <1>3, <1>5, <1>6, <1>7 DEF BarsRight
<1>9. bar.session \in Sessions /\ bar.end \in Nat
  BY StreamFields DEF FullBar
<1>10. bar.end <= c /\ y \in Bucketed(A, bar.session, bar.end, period)
  BY <1>8 DEF BarsRight
<1>11. bar.session = session
  BY <1>5, <1>9, <1>10, SessionAtIs DEF Bucketed, SessionTrades
<1>12. bar.end = BucketEnd(session, c, period)
  BY <1>3, <1>10, <1>11 DEF Bucketed
<1>13. BucketEnd(session, c, period) \in Nat /\ c < BucketEnd(session, c, period)
  BY BucketEndsLater
<1>. QED  BY <1>9, <1>10, <1>12, <1>13

(* The builder takes the trade without a raise. *)
LEMMA BuilderTakes ==
    ASSUME NEW A, NEW D, NEW c \in Nat, FeedRight(A, D, c), NEW period \in Periods,
           NEW t, NEW session, NEW B, Arrives(t, session, c, A, B), B = A \cup {t},
           NEW b \in Bar, BuilderRight(b, period, session, A, c),
           b = NoBar /\ ~ InTail(session, c, period) =>
              Bucketed(A, session, BucketEnd(session, c, period), period) = {}
    PROVE  LET taken == TakeIntoBar(b, session, t, period)
           IN  /\ ~ BarStillOpen(b, session, t.time, period)
               /\ taken \in Bar /\ BuilderRight(taken, period, session, B, c)
               /\ b.trades \subseteq taken.trades
               /\ InTail(session, c, period) \/ t \in taken.trades
<1>. DEFINE end   == BucketEnd(session, c, period)
            taken == TakeIntoBar(b, session, t, period)
<1>1. /\ t \in Trade /\ t.time = c
      /\ session \in Sessions /\ session.start <= c /\ c < session.end
  BY DEF Arrives
<1>2. end \in Nat /\ c < end
  BY BucketEndsLater
<1>3. b # NoBar => b.session = session /\ b.end = end
  BY <1>1, OpenBucketIs
<1>4. ~ BarStillOpen(b, session, t.time, period)
  BY <1>1, <1>3 DEF BarStillOpen
<1>5. b.trades \subseteq Trade
  BY DEF Bar
<1>6. CASE InTail(session, c, period)
  <2>1. taken = b
    BY <1>1, <1>6 DEF TakeIntoBar
  <2>2. BuilderRight(b, period, session, B, c)
    <3>1. SUFFICES ASSUME b # NoBar PROVE Bucketed(B, session, b.end, period) = b.trades
      BY DEF BuilderRight
    <3>2. /\ b.end <= session.end /\ b.end \in Nat
          /\ b.trades = Bucketed(A, session, b.end, period)
      BY <3>1 DEF BuilderRight
    <3>3. ~ (end <= session.end)
      BY <1>1, <1>2, <1>6, SessionFields DEF InTail
    <3>4. b.end # end
      BY <3>2, <3>3
    <3>. QED  BY <1>1, <3>2, <3>4, BucketStays
  <2>. QED  BY <1>4, <1>6, <2>1, <2>2
<1>7. CASE ~ InTail(session, c, period)
  <2>1. taken = [session |-> session, end |-> end, trades |-> b.trades \cup {t}]
    BY <1>1, <1>7 DEF TakeIntoBar
  <2>2. taken.session = session /\ taken.end = end /\ taken.trades = b.trades \cup {t}
    BY <2>1
  <2>3. taken \in Bar
    BY <1>1, <1>2, <1>5, <2>1 DEF Bar
  <2>4. b.trades = Bucketed(A, session, end, period)
    <3>1. CASE b = NoBar
      BY <1>7, <3>1 DEF NoBar
    <3>2. CASE b # NoBar
      BY <1>3, <3>2 DEF BuilderRight
    <3>. QED  BY <3>1, <3>2
  <2>5. Bucketed(B, session, end, period) = b.trades \cup {t}
    BY <1>1, <2>4 DEF Bucketed, SessionTrades
  <2>6. end <= session.end
    BY <1>1, <1>2, <1>7, SessionFields DEF InTail
  <2>. HIDE DEF taken
  <2>7. BuilderRight(taken, period, session, B, c)
    BY <1>1, <1>2, <2>2, <2>5, <2>6 DEF BuilderRight
  <2>8. b.trades \subseteq taken.trades /\ t \in taken.trades
    BY <2>2
  <2>. QED  BY <1>4, <2>3, <2>7, <2>8 DEF taken
<1>. QED  BY <1>6, <1>7

(* The stream after a trade is quarantined, and after one is admitted. *)
AfterReject(s, t) == [s EXCEPT !.profile = IngestTrade(s.profile, t)]

AfterAdmit(s, t, session, normal) ==
    [s EXCEPT !.profile   = IngestTrade(s.profile, t),
              !.five      = TakeIntoBar(@, session, t, FastBar),
              !.thirty    = TakeIntoBar(@, session, t, MediumBar),
              !.lastTrade = t.time,
              !.normal    = normal]

(* A trade ingest_trade quarantines spoils the flags of the Profile and    *)
(* nothing else.                                                           *)
LEMMA RejectedKeeps ==
    ASSUME NEW s, NEW A, NEW D, NEW c \in Nat, Kept(s, A, D, c),
           NEW t, NEW session, Arrives(t, session, c, A, A), s.session = session,
           ~ Admissible(s.profile, t)
    PROVE  LET r == AfterReject(s, t)
           IN  Kept(r, A, D \cup {t}, c) /\ r.session = session
<1>. DEFINE p == s.profile
            q == IngestTrade(p, t)
            r == AfterReject(s, t)
<1>1. /\ s \in Stream /\ Running(s, A, D, c)
      /\ session \in Sessions /\ t \in Trade /\ t.time = c /\ c < session.end
  BY DEF Kept, Core, Running, Arrives
<1>2. /\ MinutesRight(p, session, c) /\ SessionRight(p, session, A, D, c)
      /\ BuilderRight(s.five, FastBar, session, A, c)
      /\ BuilderRight(s.thirty, MediumBar, session, A, c)
      /\ s.lastTrade = None <=> A = {}
      /\ s.lastTrade <= c
  BY <1>1, SessionFields DEF Running
<1>3. p \in Profile
  BY <1>2 DEF MinutesRight
<1>4. /\ q \in Profile
      /\ q.open = p.open /\ q.minuteEnd = p.minuteEnd
      /\ q.buckets = p.buckets /\ q.admitted = p.admitted
      /\ q.lastFinalized = p.lastFinalized
      /\ q.frozen = p.frozen
  BY <1>1, <1>3, RejectKeeps
<1>5. q.lastTrade = p.lastTrade /\ q.flags # {}
  BY <1>3 DEF IngestTrade, Reject, Profile
<1>6. r = [s EXCEPT !.profile = q]
  BY DEF AfterReject
<1>. HIDE DEF q, r
<1>7. MinutesRight(q, session, c)
  BY <1>2, <1>4 DEF MinutesRight, Partitioned, Spaced, OpenAfterFinalized
<1>8. SessionRight(q, session, A, D \cup {t}, c)
  BY <1>1, <1>2, <1>4, <1>5 DEF SessionRight
<1>9. /\ r \in Stream /\ r.profile = q /\ r.five = s.five /\ r.thirty = s.thirty
      /\ r.lastTrade = s.lastTrade /\ SameButTrade(s, r)
  BY <1>1, <1>4, <1>6 DEF Stream, SameButTrade
<1>10. \A period \in Periods : Builder(s, period).trades \subseteq Builder(r, period).trades
  BY <1>9 DEF Builder
<1>11. Kept(r, A, D \cup {t}, c)
  BY <1>2, <1>7, <1>8, <1>9, <1>10, TradeKeeps
<1>. QED  BY <1>9, <1>11 DEF r, SameButTrade

(* Taken into Profile and bars, t leaves the stream right, whatever the    *)
(* roll state.                                                             *)
KeptByAdmission(s, A, D, c, t, session) ==
    \A normal \in BOOLEAN :
        LET r == AfterAdmit(s, t, session, normal)
        IN  Kept(r, A \cup {t}, D \cup {t}, c) /\ r.session = session

(* A trade ingest_trade admits finds its minute and its bars open or none, *)
(* so that nothing raises, and both bars take it.                          *)
LEMMA AdmittedKeeps ==
    ASSUME NEW s, NEW A, NEW D, NEW c \in Nat, Kept(s, A, D, c),
           NEW t, NEW session, Arrives(t, session, c, A, A), s.session = session,
           ~ MinuteDue(s.profile, c), Admissible(s.profile, t)
    PROVE  /\ ~ MinuteStillOpen(s.profile, t)
           /\ ~ BarStillOpen(s.five, session, t.time, FastBar)
           /\ ~ BarStillOpen(s.thirty, session, t.time, MediumBar)
           /\ KeptByAdmission(s, A, D, c, t, session)
<1>. DEFINE p == s.profile
            q == IngestTrade(p, t)
            B == A \cup {t}
            five   == TakeIntoBar(s.five, session, t, FastBar)
            thirty == TakeIntoBar(s.thirty, session, t, MediumBar)
<1>0. Arrives(t, session, c, A, B)
  BY DEF Arrives
<1>1. /\ s \in Stream /\ Running(s, A, D, c) /\ FeedRight(A, D, c) /\ BarsRight(s, A, c)
      /\ session \in Sessions /\ t \in Trade /\ t.time = c
      /\ session.start <= c /\ c < session.end
  BY DEF Kept, Core, Running, Arrives
<1>2. /\ MinutesRight(p, session, c) /\ SessionRight(p, session, A, D, c)
      /\ BuilderRight(s.five, FastBar, session, A, c)
      /\ BuilderRight(s.thirty, MediumBar, session, A, c)
  BY <1>1, SessionFields DEF Running
<1>3. /\ p \in Profile /\ Partitioned(p, c) /\ OpenAfterFinalized(p) /\ Spaced(p.buckets)
      /\ p.minuteEnd <= c + 1 /\ p.lastFinalized <= c /\ p.lastFinalized <= session.end
  BY <1>2 DEF MinutesRight
<1>4. ~ MinuteStillOpen(p, t)
  <2>1. p.minuteEnd \in Nat \cup {None}
    BY <1>3, ProfileFields
  <2>2. p.minuteEnd = None \/ p.minuteEnd = c + 1
    BY <1>3, <2>1 DEF MinuteDue
  <2>. QED  BY <1>1, <2>2 DEF MinuteStillOpen, MinuteEnd
<1>5. q = Admit(p, t)
  BY <1>4 DEF IngestTrade
<1>6. /\ q \in Profile /\ Partitioned(q, c) /\ OpenAfterFinalized(q)
      /\ q.buckets = p.buckets /\ q.admitted = p.admitted \cup {t} /\ ~ q.frozen
  BY <1>1, <1>3, <1>4, <1>5, AdmitKeeps
<1>7. /\ q.minuteEnd = c + 1 /\ q.lastTrade = c /\ q.lastFinalized = p.lastFinalized
      /\ q.flags = p.flags \cup NotedFlags(p, t)
  BY <1>1, <1>3, <1>5 DEF Admit, Profile, MinuteEnd
<1>. HIDE DEF q
<1>8. MinutesRight(q, session, c)
  <2>1. c + 1 <= session.end
    BY <1>1, SessionFields
  <2>. QED  BY <1>3, <1>6, <1>7, <2>1 DEF MinutesRight
<1>9. SessionRight(q, session, B, D \cup {t}, c)
  <2>1. q.admitted = SessionTrades(B, session) /\ q.admitted # {}
    BY <1>1, <1>2, <1>6 DEF SessionRight, SessionTrades
  <2>2. ASSUME q.flags = {}, NEW y \in SessionTrades(D \cup {t}, session)
        PROVE  Clean(y, B)
    <3>1. CASE y = t
      <4>1. t.quality # "noted" /\ t.quality \notin {"suspect", "offgrid"}
        BY <1>7, <2>2 DEF NotedFlags, Admissible
      <4>2. t.source # NoSource
        BY <1>7, <2>2, <4>1 DEF NotedFlags
      <4>3. t.quality = "clean"
        BY <1>1, <4>1 DEF Trade, Qualities
      <4>. QED  BY <3>1, <4>2, <4>3 DEF Clean
    <3>2. CASE y # t
      BY <1>2, <1>7, <2>2, <3>2 DEF SessionRight, SessionTrades, Clean
    <3>. QED  BY <3>1, <3>2
  <2>3. /\ session \in Sessions /\ session.start <= c /\ \A y \in D \cup {t} : y.time < session.end
    BY <1>1, <1>2 DEF SessionRight
  <2>4. q.lastTrade <= c /\ q.lastTrade < session.end /\ q.lastTrade # None
    BY <1>1, <1>7 DEF None
  <2>. QED  BY <1>6, <2>1, <2>2, <2>3, <2>4 DEF SessionRight
<1>10. s.five \in Bar /\ s.thirty \in Bar
  BY <1>1, StreamFields
<1>11. FastBar \in Periods /\ MediumBar \in Periods /\ FastBar # MediumBar
  BY Lengths DEF Periods
<1>12. Builder(s, FastBar) = s.five /\ Builder(s, MediumBar) = s.thirty
  BY <1>11 DEF Builder
<1>13. /\ ~ BarStillOpen(s.five, session, t.time, FastBar)
       /\ five \in Bar /\ BuilderRight(five, FastBar, session, B, c)
       /\ s.five.trades \subseteq five.trades
       /\ InTail(session, c, FastBar) \/ t \in five.trades
  <2>1. s.five = NoBar /\ ~ InTail(session, c, FastBar) =>
              Bucketed(A, session, BucketEnd(session, c, FastBar), FastBar) = {}
    BY <1>1, <1>11, <1>12, NewBucketIsEmpty
  <2>. QED  BY <1>0, <1>1, <1>2, <1>10, <1>11, <2>1, BuilderTakes
<1>14. /\ ~ BarStillOpen(s.thirty, session, t.time, MediumBar)
       /\ thirty \in Bar /\ BuilderRight(thirty, MediumBar, session, B, c)
       /\ s.thirty.trades \subseteq thirty.trades
       /\ InTail(session, c, MediumBar) \/ t \in thirty.trades
  <2>1. s.thirty = NoBar /\ ~ InTail(session, c, MediumBar) =>
              Bucketed(A, session, BucketEnd(session, c, MediumBar), MediumBar) = {}
    BY <1>1, <1>11, <1>12, NewBucketIsEmpty
  <2>. QED  BY <1>0, <1>1, <1>2, <1>10, <1>11, <2>1, BuilderTakes
<1>15. /\ q = IngestTrade(p, t) /\ five = TakeIntoBar(s.five, session, t, FastBar)
       /\ thirty = TakeIntoBar(s.thirty, session, t, MediumBar)
  BY DEF q
<1>. HIDE DEF five, thirty
<1>16. ASSUME NEW normal \in BOOLEAN
       PROVE  LET r == AfterAdmit(s, t, session, normal)
              IN  Kept(r, B, D \cup {t}, c) /\ r.session = session
  <2>. DEFINE r == AfterAdmit(s, t, session, normal)
  <2>1. r = [s EXCEPT !.profile = q, !.five = five, !.thirty = thirty,
                      !.lastTrade = c, !.normal = normal]
    BY <1>1, <1>15 DEF AfterAdmit
  <2>. HIDE DEF r
  <2>2. /\ r \in Stream /\ r.profile = q /\ r.five = five /\ r.thirty = thirty /\ r.lastTrade = c
        /\ SameButTrade(s, r)
    BY <1>1, <1>6, <1>13, <1>14, <1>16, <2>1 DEF Stream, SameButTrade
  <2>3. \A period \in Periods :
            /\ Builder(s, period).trades \subseteq Builder(r, period).trades
            /\ B # A => InTail(session, c, period) \/ t \in Builder(r, period).trades
    BY <1>11, <1>13, <1>14, <2>2 DEF Builder, Periods
  <2>4. (r.lastTrade = None <=> B = {}) /\ r.lastTrade <= c
    BY <2>2 DEF None
  <2>5. Kept(r, B, D \cup {t}, c)
    BY <1>8, <1>9, <1>13, <1>14, <1>0, <2>2, <2>3, <2>4, TradeKeeps
  <2>6. r.session = session
    BY <2>2 DEF SameButTrade
  <2>. QED  BY <2>5, <2>6 DEF r
<1>. QED  BY <1>4, <1>13, <1>14, <1>16 DEF KeptByAdmission

(* Ingesting a trade of the session the stream is in, with no minute due.  *)
LEMMA IngestKeeps ==
    ASSUME NEW s, NEW A, NEW D, NEW c \in Nat, Kept(s, A, D, c),
           NEW t, NEW session, Arrives(t, session, c, A, A), s.session = session,
           ~ MinuteDue(s.profile, c), NEW normal \in BOOLEAN
    PROVE  LET r == IngestIntoStream(s, t, session, normal)
           IN  Kept(r, A \cup r.profile.admitted, D \cup {t}, c)
<1>. DEFINE r == IngestIntoStream(s, t, session, normal)
<1>1. ~ Stopped(s)
  BY DEF Kept, Core, Running, Stopped
<1>2. ASSUME ~ Admissible(s.profile, t)
      PROVE  Kept(r, A, D \cup {t}, c) /\ r.session = session
  <2>1. r = AfterReject(s, t)
    BY <1>1, <1>2 DEF IngestIntoStream, AfterReject
  <2>. QED  BY <1>2, <2>1, RejectedKeeps
<1>3. ASSUME Admissible(s.profile, t)
      PROVE  Kept(r, A \cup {t}, D \cup {t}, c) /\ r.session = session
  <2>1. /\ ~ MinuteStillOpen(s.profile, t)
        /\ ~ BarStillOpen(s.five, session, t.time, FastBar)
        /\ ~ BarStillOpen(s.thirty, session, t.time, MediumBar)
    BY <1>3, AdmittedKeeps
  <2>2. r = IF Stopped(s) THEN s
            ELSE IF ~ Admissible(s.profile, t) THEN AfterReject(s, t)
            ELSE IF MinuteStillOpen(s.profile, t) THEN Raise(s, "open minute")
            ELSE IF \/ BarStillOpen(s.five, session, t.time, FastBar)
                    \/ BarStillOpen(s.thirty, session, t.time, MediumBar)
                 THEN Raise(s, "open bar")
            ELSE AfterAdmit(s, t, session, normal)
    BY DEF IngestIntoStream, AfterReject, AfterAdmit
  <2>3. r = AfterAdmit(s, t, session, normal)
    <3>. HIDE DEF r
    <3>. QED  BY <1>1, <1>3, <2>1, <2>2
  <2>4. KeptByAdmission(s, A, D, c, t, session)
    BY <1>3, AdmittedKeeps
  <2>. HIDE DEF r
  <2>. QED  BY <2>3, <2>4 DEF KeptByAdmission
<1>. HIDE DEF r
<1>4. ASSUME NEW B \in {A, A \cup {t}}, Kept(r, B, D \cup {t}, c), r.session = session
      PROVE  A \cup r.profile.admitted = B
  <2>1. session \in Sessions /\ session # NoSession /\ session.start <= t.time /\ t.time < session.end
    BY SessionFields DEF Arrives
  <2>2. r.profile.admitted = SessionTrades(B, session)
    BY <1>4, <2>1 DEF Kept, Core, Running, SessionRight
  <2>. QED  BY <2>1, <2>2 DEF SessionTrades
<1>. QED  BY <1>2, <1>3, <1>4 DEF r

(* What was published stays true when a trade arrives that is not taken.   *)
LEMMA ToldGrows ==
    ASSUME NEW s, NEW A, NEW D, NEW c \in Nat, Told(s, A, D, c),
           NEW t, NEW session, Arrives(t, session, c, A, A)
    PROVE  Told(s, A, D \cup {t}, c)
<1>1. s \in Stream /\ FeedRight(A, D, c) /\ AuctionsRight(s, A, D, c)
  BY DEF Told
<1>2. FeedRight(A, D \cup {t}, c)
  BY <1>1, FeedGrows
<1>3. AuctionsRight(s, A, D \cup {t}, c)
  BY <1>1, AuctionsStay
<1>. QED  BY <1>2, <1>3 DEF Told

(* A call of on_trade, for a trade not older than the clock: every stage   *)
(* finds what it needs, and the one that may raise is the final Profile of *)
(* a session with nothing admitted.                                        *)
LEMMA OnTradeKeeps ==
    ASSUME NEW s, NEW A, NEW D, NEW k \in Nat \cup {None}, Kept(s, A, D, k),
           NEW c \in Nat, k <= c, NEW t, NEW session, Arrives(t, session, c, A, A),
           NEW normal \in BOOLEAN
    PROVE  LET r == OnTrade(s, t, normal)
               B == A \cup r.profile.admitted
           IN  /\ Told(r, B, D \cup {t}, c)
               /\ r.raised = Quiet => Kept(r, B, D \cup {t}, c)
<1>. DEFINE closed   == CloseDueBars(s, c)
            minuted  == FinalizeProfileMinutes(closed, c)
            opened   == OpenSession(minuted, session)
            r        == OnTrade(s, t, normal)
<1>1. t.time = c /\ session \in Sessions /\ session.start <= c /\ c < session.end
  BY DEF Arrives
<1>2. SessionAt(t.time) = session
  BY <1>1, SessionAtIs
<1>3. ~ t.time < s.lastTrade
  <2>1. s.lastTrade \in Nat \cup {None} /\ s.lastTrade <= k
    BY StreamFields DEF Kept, Core, Running
  <2>. QED  BY <1>1, <2>1 DEF None
<1>4. r = IngestIntoStream(opened, t, session, normal)
  BY <1>1, <1>2, <1>3 DEF OnTrade
<1>5. Kept(closed, A, D, c)
  BY CloseDueBarsKeeps
<1>. HIDE DEF closed
<1>6. Kept(minuted, A, D, c) /\ (minuted.session # NoSession => ~ MinuteDue(minuted.profile, c))
  BY <1>5, FinalizeProfileMinutesKeeps
<1>. HIDE DEF minuted
<1>7. StoppedEmpty(opened, A, D, c) \/ Opened(opened, A, D, c, session)
  BY <1>1, <1>6, OpenSessionKeeps
<1>. HIDE DEF opened
<1>8. CASE StoppedEmpty(opened, A, D, c)
  <2>1. r = opened
    BY <1>4, <1>8 DEF IngestIntoStream, Stopped, Quiet, StoppedEmpty
  <2>2. Told(opened, A, D \cup {t}, c)
    BY <1>8, ToldGrows DEF StoppedEmpty
  <2>3. A \cup opened.profile.admitted = A /\ opened.raised # Quiet
    BY <1>8 DEF Quiet, StoppedEmpty
  <2>. HIDE DEF r
  <2>. QED  BY <2>1, <2>2, <2>3 DEF r
<1>9. CASE Opened(opened, A, D, c, session)
  <2>. HIDE DEF r
  <2>1. Kept(r, A \cup r.profile.admitted, D \cup {t}, c)
    BY <1>4, <1>9, IngestKeeps DEF Opened
  <2>2. Told(r, A \cup r.profile.admitted, D \cup {t}, c)
    BY <2>1, KeptIsTold
  <2>. QED  BY <2>1, <2>2 DEF r
<1>. QED  BY <1>7, <1>8, <1>9

(* A call of finalize at a clock not behind the stream's: the session is   *)
(* taken, or there is nothing to take, or its Profile is empty and raises. *)
LEMMA FinalizeKeeps ==
    ASSUME NEW s, NEW A, NEW D, NEW k \in Nat \cup {None}, Kept(s, A, D, k),
           NEW c \in Nat, k <= c
    PROVE  LET r == Finalize(s, c)
           IN  /\ Told(r, A, D, c)
               /\ r.raised = Quiet => AllTaken(r, A)
<1>. DEFINE closed == CloseDueBars(s, c)
            r      == Finalize(s, c)
<1>1. Kept(closed, A, D, c)
  BY CloseDueBarsKeeps
<1>2. r = FinalizeCurrentProfile(closed, c)
  BY DEF Finalize
<1>. HIDE DEF closed, r
<1>3. /\ Running(closed, A, D, c) /\ closed \in Stream /\ FeedRight(A, D, c)
      /\ closed.raised = Quiet /\ closed.lastTrade <= c
      /\ (closed.lastTrade = None <=> A = {})
  BY <1>1 DEF Kept, Core, Running
<1>4. CASE closed.session = NoSession \/ closed.lastTrade = None
  <2>1. r = closed
    BY <1>2, <1>4 DEF FinalizeCurrentProfile
  <2>2. A = {}
    BY <1>3, <1>4 DEF Running, FeedRight
  <2>3. AllTaken(r, A)
    BY <2>2 DEF AllTaken, SessionTrades
  <2>. QED  BY <1>1, <2>1, <2>3, KeptIsTold DEF r
<1>5. CASE closed.session # NoSession /\ closed.lastTrade # None
  <2>1. /\ MinutesRight(closed.profile, closed.session, c)
        /\ SessionRight(closed.profile, closed.session, A, D, c)
    BY <1>3, <1>5 DEF Running
  <2>2. closed.profile.lastTrade <= c /\ closed.profile.lastFinalized <= c
    BY <2>1 DEF MinutesRight, SessionRight
  <2>3. r = IF closed.profile.lastTrade = None THEN LeftEmpty(closed, c) ELSE LeftFinal(closed, c)
    BY <1>1, <1>2, <1>3, <1>5, <2>2, FinalizeCurrentProfileIs
  <2>4. CASE closed.profile.lastTrade = None
    <3>1. StoppedEmpty(LeftEmpty(closed, c), A, D, c)
      BY <1>1, <1>5, <2>2, <2>4, LeftEmptyIsTold
    <3>2. Told(LeftEmpty(closed, c), A, D, c) /\ LeftEmpty(closed, c).raised # Quiet
      BY <3>1 DEF StoppedEmpty, Quiet
    <3>. QED  BY <2>3, <2>4, <3>2 DEF r
  <2>5. CASE closed.profile.lastTrade # None
    <3>1. Told(LeftFinal(closed, c), A, D, c)
      BY <1>1, <1>5, <2>2, <2>5, LeftFinalIs
    <3>2. AllTaken(LeftFinal(closed, c), A)
      BY <1>1, <1>5, <2>2, <2>5, <3>1, LeftFinalIs
    <3>. QED  BY <2>3, <2>5, <3>1, <3>2 DEF r
  <2>. QED  BY <2>4, <2>5
<1>. QED  BY <1>4, <1>5

-----------------------------------------------------------------------------
(* The stream and its host *)

(* The inductive invariant.  What was told stays true whatever comes, and  *)
(* a stream that has not stopped is Kept until the host finalizes it; then *)
(* every session with a trade has been taken.                              *)
StreamInv ==
    /\ clock \in Nat \cup {None} /\ finished \in BOOLEAN /\ IsFiniteSet(delivered)
    /\ Told(stream, admitted, delivered, clock)
    /\ ~ Stopped(stream) => IF finished THEN AllTaken(stream, admitted)
                            ELSE Kept(stream, admitted, delivered, clock)

(* A new stream, before the first trade.                                   *)
LEMMA EmptyStreamIsKept == Kept(EmptyStream, {}, {}, None)
<1>1. NoSession \in Sessions \cup {NoSession} /\ EmptyStream.session = NoSession
  BY DEF EmptyStream
<1>2. EmptyStream \in Stream
  <2>1. EmptyProfile \in Profile
    BY EmptySeq DEF EmptyProfile, Profile, None
  <2>2. NoBar \in Bar
    BY DEF NoBar, Bar
  <2>3. NoFinal \in Final
    BY DEF NoFinal, Final
  <2>4. [type \in Types |-> NoFinal] \in [Types -> Final]
    BY <2>3
  <2>5. <<>> \in Seq(Auction) /\ <<>> \in Seq(Sessions)
    BY EmptySeq
  <2>. QED  BY <2>1, <2>2, <2>4, <2>5 DEF EmptyStream, Stream, Outcomes, Quiet
<1>3. FeedRight({}, {}, None)
  BY DEF FeedRight
<1>4. Running(EmptyStream, {}, {}, None)
  BY <1>1, <1>2, <1>3 DEF Running, EmptyStream, BuilderRight, None
<1>5. AuctionsRight(EmptyStream, {}, {}, None) /\ EmptyStream.fiveCount = Len(EmptyStream.auctions)
  BY EmptySeq DEF AuctionsRight, EmptyStream
<1>6. FinalsRight(EmptyStream, {}, {})
  BY DEF FinalsRight, FinalRight, ReferenceRight, Prior, SessionTrades, EmptyStream
<1>7. TakesRight(EmptyStream, {})
  BY EmptySeq DEF TakesRight, SessionTrades, EmptyStream
<1>8. BarsRight(EmptyStream, {}, None)
  BY DEF BarsRight, EmptyStream
<1>9. PublishedOf(EmptyStream) = {} /\ FastBarsOf(EmptyStream) = {}
  BY EmptySeq DEF PublishedOf, FastBarsOf, EmptyStream
<1>. QED  BY <1>4, <1>5, <1>6, <1>7, <1>8, <1>9 DEF Kept, Core

(* The trade the host delivers arrives in a session of the calendar.       *)
LEMMA DeliveredArrives ==
    ASSUME StreamInv, NEW time \in Times, NEW kind \in Kinds, Cardinality(delivered) < MaxTrades
    PROVE  LET n == Cardinality(delivered)
               t == [n |-> n, time |-> time, quality |-> kind.quality,
                     source |-> IF kind.identified THEN SourceIds[n + 1] ELSE NoSource]
           IN  \E session \in Sessions : Arrives(t, session, time, admitted, admitted)
<1>. DEFINE n      == Cardinality(delivered)
            source == IF kind.identified THEN SourceIds[n + 1] ELSE NoSource
            t      == [n |-> n, time |-> time, quality |-> kind.quality, source |-> source]
<1>1. PICK session \in Sessions : session.start <= time /\ time < session.end /\ time \in Nat
  BY SessionFields DEF Times
<1>2. n \in Nat
  BY FS_CardinalityType DEF StreamInv
<1>3. source \in Sources \cup {NoSource}
  <2>1. n + 1 \in 1..Len(SourceIds)
    BY <1>2, FeedAssumption, LenProperties
  <2>2. SourceIds[n + 1] \in Sources
    BY <2>1, FeedAssumption, ElementOfSeq
  <2>. QED  BY <2>2
<1>4. kind.quality \in Qualities
  BY FeedAssumption
<1>. HIDE DEF n, source
<1>5. t \in Trade /\ t.time = time
  BY <1>1, <1>2, <1>3, <1>4 DEF Trade
<1>. HIDE DEF t
<1>. QED  BY <1>1, <1>5 DEF Arrives, t, source, n

(* A delivered trade keeps the invariant, when the feed is ordered.        *)
LEMMA DeliverKeeps ==
    ASSUME Ordered = TRUE, StreamInv, NEW time \in Times, NEW kind \in Kinds, Deliver(time, kind)
    PROVE  StreamInv'
<1>. DEFINE n == Cardinality(delivered)
            t == [n |-> n, time |-> time, quality |-> kind.quality,
                  source |-> IF kind.identified THEN SourceIds[n + 1] ELSE NoSource]
<1>1. /\ n < MaxTrades /\ ~ finished /\ ~ Stopped(stream) /\ clock <= time
      /\ stream' = OnTrade(stream, t, kind.normal)
      /\ delivered' = delivered \cup {t}
      /\ admitted' = admitted \cup stream'.profile.admitted
      /\ clock' = (IF clock < time THEN time ELSE clock)
      /\ finished' = finished
  BY DEF Deliver
<1>2. PICK session \in Sessions : Arrives(t, session, time, admitted, admitted)
  BY <1>1, DeliveredArrives
<1>. HIDE DEF t
<1>3. time \in Nat /\ clock \in Nat \cup {None} /\ IsFiniteSet(delivered)
  BY SessionFields DEF Times, StreamInv
<1>4. clock' = time
  BY <1>1, <1>3, Lengths
<1>5. Kept(stream, admitted, delivered, clock)
  BY <1>1 DEF StreamInv
<1>6. kind.normal \in BOOLEAN
  BY FeedAssumption
<1>7. /\ Told(stream', admitted', delivered', clock')
      /\ stream'.raised = Quiet => Kept(stream', admitted', delivered', clock')
  BY <1>1, <1>2, <1>3, <1>4, <1>5, <1>6, OnTradeKeeps
<1>8. IsFiniteSet(delivered')
  BY <1>1, <1>3, FS_AddElement
<1>. QED  BY <1>1, <1>3, <1>4, <1>7, <1>8 DEF StreamInv, Stopped

(* So does the finalization of the host.                                   *)
LEMMA FinishKeeps ==
    ASSUME StreamInv, NEW asOf \in Times \cup {s.end : s \in Sessions}, Finish(asOf)
    PROVE  StreamInv'
<1>1. /\ ~ finished /\ ~ Stopped(stream) /\ clock <= asOf
      /\ stream' = Finalize(stream, asOf)
      /\ finished' = TRUE /\ clock' = asOf
      /\ delivered' = delivered /\ admitted' = admitted
  BY DEF Finish
<1>2. asOf \in Nat /\ clock \in Nat \cup {None}
  BY SessionFields DEF Times, StreamInv
<1>3. Kept(stream, admitted, delivered, clock)
  BY <1>1 DEF StreamInv
<1>4. /\ Told(stream', admitted', delivered', clock')
      /\ stream'.raised = Quiet => AllTaken(stream', admitted')
  BY <1>1, <1>2, <1>3, FinalizeKeeps
<1>. QED  BY <1>1, <1>2, <1>4 DEF StreamInv, Stopped

(* The invariant holds of every ordered feed.                              *)
LEMMA StreamInvariance ==
    ASSUME Ordered = TRUE
    PROVE  Spec => []StreamInv
<1>1. Init => StreamInv
  <2>1. SUFFICES ASSUME Init PROVE StreamInv
    OBVIOUS
  <2>2. /\ stream = EmptyStream /\ finished = FALSE
        /\ delivered = {} /\ admitted = {} /\ clock = None
    BY <2>1 DEF Init
  <2>3. Kept(stream, admitted, delivered, clock)
    BY <2>2, EmptyStreamIsKept
  <2>4. Told(stream, admitted, delivered, clock)
    BY <2>3, KeptIsTold
  <2>5. IsFiniteSet(delivered)
    BY <2>2, FS_EmptySet
  <2>. QED  BY <2>2, <2>3, <2>4, <2>5 DEF StreamInv
<1>2. StreamInv /\ [Next]_vars => StreamInv'
  <2>1. SUFFICES ASSUME StreamInv, [Next]_vars PROVE StreamInv'
    OBVIOUS
  <2>2. CASE \E time \in Times, kind \in Kinds : Deliver(time, kind)
    BY <2>1, <2>2, DeliverKeeps
  <2>3. CASE \E asOf \in Times \cup {s.end : s \in Sessions} : Finish(asOf)
    BY <2>1, <2>3, FinishKeeps
  <2>4. CASE UNCHANGED vars
    BY <2>1, <2>4 DEF vars, StreamInv
  <2>. QED  BY <2>1, <2>2, <2>3, <2>4 DEF Next
<1>. QED  BY <1>1, <1>2, PTL DEF Spec

-----------------------------------------------------------------------------
(* What a stream fed in order promises *)

(* No trade is admitted into a bar already completed, and an admitted      *)
(* trade in no completed bar is in a builder or in the session's tail.     *)
THEOREM BarsPartition ==
    ASSUME Ordered = TRUE
    PROVE  Spec => []BarsPartitionTrades
<1>1. StreamInv => BarsPartitionTrades
  BY DEF StreamInv, Told, BarsRight, BarsPartitionTrades, BucketTrades, Bucketed, Builder, Periods
<1>. QED  BY <1>1, StreamInvariance, PTL

(* A published snapshot stays the one of its clock: what is delivered      *)
(* after it belongs neither to its developing Profile nor to its windows.  *)
THEOREM PublishedPointInTime ==
    ASSUME Ordered = TRUE
    PROVE  Spec => []PublicationsArePointInTime
<1>1. StreamInv => PublicationsArePointInTime
  BY DEF StreamInv, Told, AuctionsRight, AuctionRight, PublicationsArePointInTime
<1>. QED  BY <1>1, StreamInvariance, PTL

(* One snapshot for each completed fast bar, in the order of their clocks, *)
(* as long as the stream has not stopped.                                  *)
THEOREM OnePublication ==
    ASSUME Ordered = TRUE
    PROVE  Spec => []OnePublicationPerBar
<1>1. ASSUME StreamInv PROVE OnePublicationPerBar
  <2>1. ~ Stopped(stream) => PublishedOf(stream) = FastBarsOf(stream)
    BY <1>1 DEF StreamInv, Told, Stopped
  <2>2. \A i, j \in 1..Len(stream.auctions) :
            i < j => stream.auctions[i].asOf < stream.auctions[j].asOf
    BY <1>1 DEF StreamInv, Told, AuctionsRight
  <2>. QED  BY <2>1, <2>2 DEF OnePublicationPerBar, PublishedOf, FastBarsOf, Key
<1>. QED  BY <1>1, StreamInvariance, PTL

(* The reference of a snapshot is the final Profile of the latest earlier  *)
(* session of its type with a trade, and holds all of that session.        *)
THEOREM ReferenceIsPrior ==
    ASSUME Ordered = TRUE
    PROVE  Spec => []ReferenceIsPriorFinal
<1>1. ASSUME StreamInv PROVE ReferenceIsPriorFinal
  <2>1. ASSUME NEW i \in 1..Len(stream.auctions)
        PROVE  LET a == stream.auctions[i]
               IN  ReferenceRight(a.reference, a.session.type, a.session, admitted)
    BY <1>1 DEF StreamInv, Told, AuctionsRight, AuctionRight
  <2>. QED  BY <2>1 DEF ReferenceIsPriorFinal, ReferenceRight, Prior
<1>. QED  BY <1>1, StreamInvariance, PTL

(* No session has two final Profiles, and every session with a trade that  *)
(* was left or finalized has one, as long as the stream has not stopped.   *)
THEOREM OneFinal ==
    ASSUME Ordered = TRUE
    PROVE  Spec => []OneFinalPerSession
<1>1. ASSUME StreamInv PROVE OneFinalPerSession
  <2>1. \A i, j \in 1..Len(stream.finalTakes) :
            i # j => stream.finalTakes[i] # stream.finalTakes[j]
    BY <1>1 DEF StreamInv, Told
  <2>2. ASSUME ~ Stopped(stream), NEW s \in Sessions, SessionTrades(admitted, s) # {},
               finished \/ s # stream.session
        PROVE  \E i \in 1..Len(stream.finalTakes) : stream.finalTakes[i] = s
    <3>1. CASE finished
      BY <1>1, <2>2, <3>1 DEF StreamInv, AllTaken
    <3>2. CASE ~ finished
      <4>1. TakesRight(stream, admitted)
        BY <1>1, <2>2, <3>2 DEF StreamInv, Kept, Core
      <4>. QED  BY <2>2, <3>2, <4>1 DEF TakesRight
    <3>. QED  BY <3>1, <3>2
  <2>. QED  BY <2>1, <2>2 DEF OneFinalPerSession
<1>. QED  BY <1>1, StreamInvariance, PTL

(* A ready snapshot vouches for its data: every trade delivered before its *)
(* clock in its session and in its reference's was clean, identified and   *)
(* admitted, and the ATR has seen its window of bars.                      *)
THEOREM ReadyVouches ==
    ASSUME Ordered = TRUE
    PROVE  Spec => []ReadyMeansClean
<1>1. ASSUME StreamInv, NEW i \in 1..Len(stream.auctions), stream.auctions[i].ready
      PROVE  LET a    == stream.auctions[i]
                 seen == {t \in delivered : /\ t.time < a.asOf
                                            /\ SessionAt(t.time) \in {a.session, a.reference.session}}
             IN  /\ \A t \in seen : t.quality = "clean" /\ t.source # NoSource /\ t \in admitted
                 /\ Cardinality({j \in 1..i : stream.auctions[j].asOf <= a.asOf}) > AtrWindow
  <2>. DEFINE a       == stream.auctions[i]
              earlier == {j \in 1..i : stream.auctions[j].asOf <= a.asOf}
  <2>1. stream \in Stream /\ AuctionsRight(stream, admitted, delivered, clock)
    BY <1>1 DEF StreamInv, Told
  <2>2. AuctionRight(a, i, admitted, delivered) /\ i \in Nat /\ i <= Len(stream.auctions)
    BY <1>1, <2>1, StreamFields DEF AuctionsRight
  <2>3. \A t \in delivered : t.time < a.asOf /\ SessionAt(t.time) \in {a.session, a.reference.session}
                               => Clean(t, admitted)
    BY <1>1, <2>2 DEF AuctionRight
  <2>4. i > AtrWindow
    BY <1>1, <2>2 DEF AuctionRight
  <2>5. ASSUME NEW j \in 1..i PROVE stream.auctions[j].asOf <= a.asOf
    <3>1. j \in 1..Len(stream.auctions)
      BY <2>1, <2>2, StreamFields
    <3>2. stream.auctions[j].asOf \in Nat /\ a.asOf \in Nat
      BY <1>1, <2>1, <3>1, PublishedFields
    <3>3. j < i => stream.auctions[j].asOf < a.asOf
      BY <1>1, <2>1, <3>1 DEF AuctionsRight
    <3>. QED  BY <2>2, <3>2, <3>3
  <2>6. earlier = 1..i
    BY <2>5
  <2>7. Cardinality(1..i) = i
    BY <2>2, FS_Interval
  <2>. QED  BY <2>3, <2>4, <2>6, <2>7 DEF Clean
<1>2. StreamInv => ReadyMeansClean
  BY <1>1 DEF ReadyMeansClean
<1>. QED  BY <1>2, StreamInvariance, PTL

(* No guard of the stream's components fires: not the chronology, no clock *)
(* of bars, minutes or snapshots, and no memory of minutes.                *)
THEOREM OnlyEmptyRaises ==
    ASSUME Ordered = TRUE
    PROVE  Spec => []OnlyEmptyProfileRaises
<1>1. StreamInv => OnlyEmptyProfileRaises
  BY DEF StreamInv, Told, Stream, Outcomes, OnlyEmptyProfileRaises
<1>. QED  BY <1>1, StreamInvariance, PTL

=============================================================================
