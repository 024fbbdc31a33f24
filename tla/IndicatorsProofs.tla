--------------------------- MODULE IndicatorsProofs ---------------------------
(***************************************************************************)
(* The engines of the two bar clocks for any segments, bars, ages and      *)
(* memories.  The loop over the gaps is a recursive function; what it does *)
(* is proved gap by gap, and the rest from what the loop leaves.           *)
(* Last, the calendars: a wall-clock moment outside the hour that is       *)
(* skipped or repeated divides the instants, so the cells that windows and *)
(* closures make of wall-clock time are the segments.                      *)
(***************************************************************************)
EXTENDS Indicators, SequenceTheorems, FiniteSetTheorems, WellFoundedInduction, TLAPS

-----------------------------------------------------------------------------
(* Induction over a range *)

(* A nonempty set of naturals has a least element.                         *)
LEMMA LeastExists ==
    ASSUME NEW S \in SUBSET Nat, S # {}
    PROVE  \E x \in S : \A y \in S : x <= y
<1>1. OpToRel(<, Nat) = {ss \in Nat \X Nat : ss[1] < ss[2]}
  BY DEF OpToRel
<1>2. PICK x \in S : \A y \in S : ~ (<<y, x>> \in OpToRel(<, Nat))
  BY NatLessThanWellFounded, WFMin
<1>3. \A y \in S : ~ (y < x)
  BY <1>1, <1>2
<1>. QED  BY <1>3

(* A set that holds 0 and, with a number, the next one holds them all.     *)
LEMMA RangeInduction ==
    ASSUME NEW n \in Nat, NEW S, 0 \in S, \A t \in 1..n : t - 1 \in S => t \in S
    PROVE  \A t \in 0..n : t \in S
<1>. DEFINE others == {t \in 0..n : t \notin S}
<1>. SUFFICES ASSUME others # {} PROVE FALSE
  OBVIOUS
<1>1. others \in SUBSET Nat
  OBVIOUS
<1>2. PICK t \in others : \A u \in others : t <= u
  <2>. HIDE DEF others
  <2>. QED  BY <1>1, LeastExists
<1>3. t \in 1..n /\ t - 1 \in 0..n /\ t - 1 < t
  OBVIOUS
<1>4. t - 1 \notin others
  BY <1>2, <1>3
<1>. QED  BY <1>3, <1>4

-----------------------------------------------------------------------------
(* The loop over the gaps *)

Start(list, flags) == [gaps |-> list, selected |-> NoGap, metrics |-> "none",
                       flags |-> flags, snapshots |-> {}]
Step(walk, t, list, in) == IF t \in DOMAIN list THEN Turn(walk, t, in) ELSE walk

(* The loop is what its recursion says. *)
LEMMA WalkIs ==
    ASSUME NEW list, NEW flags, NEW in, in.end \in Nat
    PROVE  /\ Walk(list, flags, in)[0] = Start(list, flags)
           /\ \A t \in 1..in.end :
                Walk(list, flags, in)[t] = Step(Walk(list, flags, in)[t - 1], t, list, in)
<1>. DEFINE n == in.end
            S == {k \in 0..n : \E f : f = [t \in 0..k |-> IF t = 0 THEN Start(list, flags)
                                                           ELSE Step(f[t - 1], t, list, in)]}
<1>0. n \in Nat
  OBVIOUS
<1>1. 0 \in S
  <2>. DEFINE f == [t \in 0..0 |-> Start(list, flags)]
  <2>1. f = [t \in 0..0 |-> IF t = 0 THEN Start(list, flags) ELSE Step(f[t - 1], t, list, in)]
    <3>1. \A t \in 0..0 : t = 0
      OBVIOUS
    <3>. QED  BY <3>1
  <2>. HIDE DEF f
  <2>. QED  BY <2>1
<1>2. ASSUME NEW k \in 1..n, k - 1 \in S PROVE k \in S
  <2>1. PICK f : f = [t \in 0..(k - 1) |-> IF t = 0 THEN Start(list, flags)
                                           ELSE Step(f[t - 1], t, list, in)]
    BY <1>2
  <2>. DEFINE g == [t \in 0..k |-> IF t = k THEN Step(f[k - 1], k, list, in) ELSE f[t]]
  <2>2. ASSUME NEW t \in 0..k
        PROVE  g[t] = IF t = 0 THEN Start(list, flags) ELSE Step(g[t - 1], t, list, in)
    <3>1. CASE t = k
      <4>1. k \in Nat /\ k # 0 /\ k - 1 \in 0..k /\ k - 1 # k
        BY <1>0
      <4>. QED  BY <3>1, <4>1
    <3>2. CASE t # k
      <4>1. t \in 0..(k - 1) /\ g[t] = f[t]
        BY <3>2
      <4>2. t # 0 => t - 1 \in 0..k /\ t - 1 # k /\ g[t - 1] = f[t - 1]
        BY <3>2
      <4>. QED  BY <2>1, <4>1, <4>2
    <3>. QED  BY <3>1, <3>2
  <2>3. g = [t \in 0..k |-> g[t]]
    OBVIOUS
  <2>. HIDE DEF g
  <2>4. g = [t \in 0..k |-> IF t = 0 THEN Start(list, flags) ELSE Step(g[t - 1], t, list, in)]
    BY <2>2, <2>3
  <2>. QED  BY <2>4
<1>3. n \in S
  <2>. HIDE DEF S
  <2>. QED  BY <1>1, <1>2, RangeInduction
<1>4. PICK h : h = [t \in 0..n |-> IF t = 0 THEN Start(list, flags)
                                   ELSE Step(h[t - 1], t, list, in)]
  BY <1>3
<1>5. Walk(list, flags, in) =
        CHOOSE f : f = [t \in 0..n |-> IF t = 0 THEN Start(list, flags)
                                       ELSE Step(f[t - 1], t, list, in)]
  BY DEF Walk, Start, Step
<1>. DEFINE w == Walk(list, flags, in)
<1>6. w = [t \in 0..n |-> IF t = 0 THEN Start(list, flags) ELSE Step(w[t - 1], t, list, in)]
  BY <1>4, <1>5
<1>. HIDE DEF w
<1>7. 0 \in 0..n /\ \A t \in 1..n : t \in 0..n /\ t # 0
  OBVIOUS
<1>. QED  BY <1>6, <1>7 DEF w

IsGap(gap) ==
    /\ {"id", "age", "retests", "state"} \subseteq DOMAIN gap
    /\ gap.id \in Nat /\ gap.age \in Nat /\ gap.retests \in Nat

IsWalk(walk) == DOMAIN walk = {"gaps", "selected", "metrics", "flags", "snapshots"}

(* A turn leaves the other gaps and makes the gap a bar older, and it ends *)
(* the gap, or tests it, or does nothing else.                             *)
TurnRight(walk, new, t, in) ==
    LET old == walk.gaps[t]
        gap == new.gaps[t]
    IN  /\ IsWalk(new) /\ DOMAIN new.gaps = DOMAIN walk.gaps
        /\ \A u \in DOMAIN walk.gaps : u # t => new.gaps[u] = walk.gaps[u]
        /\ IsGap(gap) /\ gap.id = old.id /\ gap.age = old.age + 1
        /\ \/ /\ ~Alive(gap) /\ gap.retests = old.retests
              /\ new.selected = gap /\ new.snapshots = walk.snapshots
           \/ /\ gap.age <= MaxAge
              /\ gap.state \in {"TESTED", "ABSORBED"} /\ gap.retests = old.retests + 1
              /\ new.selected = gap
              /\ \E active, flags :
                    /\ active = ActiveCount(new.gaps)
                    /\ new.snapshots =
                         IF gap.retests # 1 THEN walk.snapshots
                         ELSE walk.snapshots
                                \cup {Snapshot(in.end, gap, new.metrics, active, flags, in.ready)}
           \/ /\ gap.age <= MaxAge
              /\ gap.state = old.state /\ gap.retests = old.retests
              /\ new.selected = walk.selected /\ new.metrics = walk.metrics
              /\ new.snapshots = walk.snapshots

(* A gap that expires or is invalidated ends its turn right.               *)
LEMMA TerminateIs ==
    ASSUME NEW walk, IsWalk(walk), NEW t \in DOMAIN walk.gaps, IsGap(walk.gaps[t]),
           NEW in, NEW state \in {"EXPIRED", "INVALIDATED"}
    PROVE  TurnRight(walk, Terminate(walk, t, state), t, in)
<1>. DEFINE old == walk.gaps[t]
            ended == [old EXCEPT !.age = @ + 1, !.state = state]
            new == Terminate(walk, t, state)
<1>2. /\ IsGap(ended) /\ ended.id = old.id /\ ended.age = old.age + 1
      /\ ended.retests = old.retests /\ ended.state = state
  BY DEF IsGap
<1>3. new = [walk EXCEPT !.gaps[t] = ended, !.selected = ended, !.metrics = "none"]
  BY DEF Terminate
<1>. HIDE DEF ended, new
<1>4. /\ new.gaps = [walk.gaps EXCEPT ![t] = ended] /\ new.selected = ended
      /\ new.snapshots = walk.snapshots /\ IsWalk(new)
  BY <1>3 DEF IsWalk
<1>5. /\ DOMAIN new.gaps = DOMAIN walk.gaps /\ new.gaps[t] = ended
      /\ \A u \in DOMAIN walk.gaps : u # t => new.gaps[u] = walk.gaps[u]
  BY <1>4
<1>. QED  BY <1>2, <1>4, <1>5 DEF TurnRight, Alive, new

(* A retest reports the gap when it is its first and then only.            *)
LEMMA TestIs ==
    ASSUME NEW walk, IsWalk(walk), NEW t \in DOMAIN walk.gaps, IsGap(walk.gaps[t]),
           NEW in, walk.gaps[t].age + 1 <= MaxAge
    PROVE  TurnRight(walk, Test(walk, t, in), t, in)
<1>. DEFINE old    == walk.gaps[t]
            guard  == Guard(in.bar, in)
            absorb == guard = "score" /\ old.id \in in.strong /\ Confirms(in.bar, old)
            state  == IF absorb THEN "ABSORBED" ELSE "TESTED"
            tested == [old EXCEPT !.age = @ + 1, !.retests = @ + 1, !.state = state]
            list   == [walk.gaps EXCEPT ![t] = tested]
            flags  == walk.flags \cup ({guard} \ {"score"})
            active == ActiveCount(list)
            exact  == Snapshot(in.end, tested, guard, active, flags, in.ready)
            new    == Test(walk, t, in)
<1>0. state \in {"TESTED", "ABSORBED"}
  OBVIOUS
<1>1. new = [walk EXCEPT !.gaps = list, !.selected = tested, !.metrics = guard, !.flags = flags,
                 !.snapshots = IF tested.retests \in {1} THEN @ \cup {exact} ELSE @]
  BY DEF Test, TestReporting
<1>. HIDE DEF state, guard, absorb
<1>3. /\ IsGap(tested) /\ tested.id = old.id /\ tested.age = old.age + 1
      /\ tested.retests = old.retests + 1 /\ tested.state = state
  BY DEF IsGap
<1>. HIDE DEF tested
<1>4. DOMAIN list = DOMAIN walk.gaps /\ list[t] = tested
      /\ \A u \in DOMAIN walk.gaps : u # t => list[u] = walk.gaps[u]
  OBVIOUS
<1>. HIDE DEF list, flags, active, exact, new
<1>6. /\ new.gaps = list /\ new.selected = tested /\ new.metrics = guard /\ IsWalk(new)
      /\ new.snapshots = IF tested.retests # 1 THEN walk.snapshots
                         ELSE walk.snapshots \cup {exact}
  BY <1>1 DEF IsWalk
<1>7. active = ActiveCount(new.gaps) /\ exact = Snapshot(in.end, tested, guard, active, flags, in.ready)
  BY <1>6 DEF active, exact
<1>. QED  BY <1>0, <1>3, <1>4, <1>6, <1>7 DEF TurnRight, new

(* One turn of on_bar's loop over the gaps touches the gap of its turn     *)
(* alone.                                                                  *)
LEMMA TurnIs ==
    ASSUME NEW walk, IsWalk(walk), NEW t \in DOMAIN walk.gaps, IsGap(walk.gaps[t]), NEW in
    PROVE  TurnRight(walk, Turn(walk, t, in), t, in)
<1>. DEFINE old  == walk.gaps[t]
            aged == [walk EXCEPT !.gaps[t].age = @ + 1]
<1>0. MaxAge \in Nat /\ old.age + 1 \in Nat
  BY IAEAssumption DEF IsGap
<1>1. CASE old.age + 1 > MaxAge
  BY <1>1, TerminateIs DEF Turn
<1>2. CASE ~ (old.age + 1 > MaxAge) /\ Invalidates(in.bar, old)
  BY <1>2, TerminateIs DEF Turn
<1>3. CASE ~ (old.age + 1 > MaxAge) /\ ~ Invalidates(in.bar, old) /\ Retests(in.bar, old)
  <2>1. old.age + 1 <= MaxAge
    BY <1>0, <1>3
  <2>. QED  BY <1>3, <2>1, TestIs DEF Turn
<1>4. CASE ~ (old.age + 1 > MaxAge) /\ ~ Invalidates(in.bar, old) /\ ~ Retests(in.bar, old)
  <2>. DEFINE older == [old EXCEPT !.age = @ + 1]
  <2>1. Turn(walk, t, in) = aged
    BY <1>4 DEF Turn
  <2>3. /\ IsGap(older) /\ older.id = old.id /\ older.age = old.age + 1
        /\ older.retests = old.retests /\ older.state = old.state
    BY DEF IsGap
  <2>4. aged = [walk EXCEPT !.gaps = [walk.gaps EXCEPT ![t] = older]]
    OBVIOUS
  <2>. HIDE DEF older, aged
  <2>5. /\ aged.gaps = [walk.gaps EXCEPT ![t] = older] /\ aged.selected = walk.selected
        /\ aged.metrics = walk.metrics /\ aged.snapshots = walk.snapshots /\ IsWalk(aged)
    BY <2>4 DEF IsWalk
  <2>6. /\ DOMAIN aged.gaps = DOMAIN walk.gaps /\ aged.gaps[t] = older
        /\ \A u \in DOMAIN walk.gaps : u # t => aged.gaps[u] = walk.gaps[u]
    BY <2>5
  <2>7. older.age <= MaxAge
    BY <1>0, <1>4, <2>3
  <2>. QED  BY <2>1, <2>3, <2>5, <2>6, <2>7 DEF TurnRight
<1>. QED  BY <1>1, <1>2, <1>3, <1>4

(* The gaps an engine holds before a bar that ends at `end`. *)
IsList(list, end) ==
    /\ DOMAIN list \subseteq 1..(end - 1) /\ IsFiniteSet(DOMAIN list)
    /\ \A u \in DOMAIN list : IsGap(list[u]) /\ list[u].id = u /\ Alive(list[u])

(* An exact snapshot: of a gap up to t that no bar had tested before, as   *)
(* this bar leaves it, and counting no fewer live gaps than there are now. *)
ExactRight(s, walk, t, list, in) ==
    /\ \E gap, metrics, active, flags : s = Snapshot(in.end, gap, metrics, active, flags, in.ready)
    /\ s.gap.id \in DOMAIN list /\ s.gap.id <= t
    /\ s.gap = walk.gaps[s.gap.id] /\ s.gap.retests = 1 /\ list[s.gap.id].retests = 0
    /\ s.gap.state \in {"TESTED", "ABSORBED"}
    /\ s.active \in Nat /\ ActiveCount(walk.gaps) <= s.active
    /\ walk.selected.id = s.gap.id => walk.selected = s.gap /\ walk.metrics = s.metrics

(* What the loop has done when it is past the gaps up to t. *)
WalkRight(walk, t, list, in) ==
    /\ IsWalk(walk) /\ DOMAIN walk.gaps = DOMAIN list
    /\ \A u \in DOMAIN list :
         IF t < u THEN walk.gaps[u] = list[u]
         ELSE /\ IsGap(walk.gaps[u]) /\ walk.gaps[u].id = u
              /\ walk.gaps[u].age = list[u].age + 1
              /\ Alive(walk.gaps[u]) => walk.gaps[u].age <= MaxAge
              /\ walk.gaps[u].retests = 0 => list[u].retests = 0
    /\ \A s \in walk.snapshots : ExactRight(s, walk, t, list, in)
    /\ \A r, s \in walk.snapshots : r.gap.id = s.gap.id => r = s
    /\ IF walk.selected = NoGap THEN walk.snapshots = {}
       ELSE walk.selected.id \in DOMAIN list /\ walk.selected.id <= t

(* The live gaps are counted: there are no more where some have ended.     *)
LEMMA FewerActive ==
    ASSUME NEW before, NEW after, IsFiniteSet(DOMAIN before), DOMAIN after = DOMAIN before,
           \A u \in DOMAIN before : Alive(after[u]) => Alive(before[u])
    PROVE  /\ ActiveCount(before) \in Nat /\ ActiveCount(after) \in Nat
           /\ ActiveCount(after) <= ActiveCount(before)
<1>. DEFINE olds == {u \in DOMAIN before : Alive(before[u])}
            news == {u \in DOMAIN after : Alive(after[u])}
<1>1. news \subseteq olds /\ olds \subseteq DOMAIN before
  OBVIOUS
<1>2. ActiveCount(before) = Cardinality(olds) /\ ActiveCount(after) = Cardinality(news)
  BY DEF ActiveCount
<1>. HIDE DEF olds, news
<1>3. IsFiniteSet(olds)
  BY <1>1, FS_Subset
<1>4. IsFiniteSet(news) /\ Cardinality(news) <= Cardinality(olds)
  BY <1>1, <1>3, FS_Subset
<1>. QED  BY <1>2, <1>3, <1>4, FS_CardinalityType

(* The fields of a snapshot.                                               *)
LEMMA SnapshotIs ==
    ASSUME NEW end, NEW gap, NEW metrics, NEW active, NEW flags, NEW ready
    PROVE  /\ Snapshot(end, gap, metrics, active, flags, ready).asOf = end
           /\ Snapshot(end, gap, metrics, active, flags, ready).gap = gap
           /\ Snapshot(end, gap, metrics, active, flags, ready).metrics = metrics
           /\ Snapshot(end, gap, metrics, active, flags, ready).active = active
           /\ Snapshot(end, gap, metrics, active, flags, ready).flags = flags
  BY DEF Snapshot

(* A turn takes the walk one gap further.                                  *)
LEMMA WalkTurn ==
    ASSUME NEW list, NEW in, in.end \in Nat, IsList(list, in.end), NEW t \in 1..in.end,
           t \in DOMAIN list, NEW walk, WalkRight(walk, t - 1, list, in)
    PROVE  WalkRight(Turn(walk, t, in), t, list, in)
<1>. DEFINE new == Turn(walk, t, in)
            gap == new.gaps[t]
<1>1. /\ IsWalk(walk) /\ DOMAIN walk.gaps = DOMAIN list
      /\ walk.gaps[t] = list[t] /\ IsGap(list[t]) /\ list[t].id = t /\ Alive(list[t])
      /\ \A u \in DOMAIN list : u \in Nat
  BY DEF WalkRight, IsList
<1>2. TurnRight(walk, new, t, in)
  BY <1>1, TurnIs
<1>. SUFFICES WalkRight(new, t, list, in)
  OBVIOUS
<1>. HIDE DEF new
<1>3. /\ IsWalk(new) /\ DOMAIN new.gaps = DOMAIN list
      /\ \A u \in DOMAIN list : u # t => new.gaps[u] = walk.gaps[u]
      /\ IsGap(gap) /\ gap.id = t /\ gap.age = list[t].age + 1
      /\ Alive(gap) => gap.age <= MaxAge
      /\ gap.retests = 0 => list[t].retests = 0
  <2>1. list[t].retests \in Nat /\ MaxAge \in Nat
    BY <1>1, IAEAssumption DEF IsGap
  <2>. QED  BY <1>1, <1>2, <2>1 DEF TurnRight, Alive
<1>4. ASSUME NEW u \in DOMAIN list
      PROVE  IF t < u THEN new.gaps[u] = list[u]
             ELSE /\ IsGap(new.gaps[u]) /\ new.gaps[u].id = u
                  /\ new.gaps[u].age = list[u].age + 1
                  /\ Alive(new.gaps[u]) => new.gaps[u].age <= MaxAge
                  /\ new.gaps[u].retests = 0 => list[u].retests = 0
  <2>1. u \in Nat /\ (t < u => t - 1 < u) /\ (~(t < u) /\ u # t => ~(t - 1 < u))
    BY <1>1
  <2>2. CASE u = t
    BY <1>3, <2>2
  <2>3. CASE u # t
    <3>1. new.gaps[u] = walk.gaps[u]
      BY <1>3, <2>3
    <3>. QED  BY <2>1, <2>3, <3>1 DEF WalkRight
  <2>. QED  BY <2>2, <2>3
<1>5. /\ ActiveCount(walk.gaps) \in Nat /\ ActiveCount(new.gaps) \in Nat
      /\ ActiveCount(new.gaps) <= ActiveCount(walk.gaps)
  <2>1. IsFiniteSet(DOMAIN walk.gaps)
    BY <1>1 DEF IsList
  <2>2. \A u \in DOMAIN walk.gaps : Alive(new.gaps[u]) => Alive(walk.gaps[u])
    BY <1>1, <1>3
  <2>3. DOMAIN new.gaps = DOMAIN walk.gaps
    BY <1>1, <1>3
  <2>. QED  BY <2>1, <2>2, <2>3, FewerActive
<1>6. new.selected = gap \/ (new.selected = walk.selected /\ new.metrics = walk.metrics) =>
        \A s \in walk.snapshots : ExactRight(s, new, t, list, in) /\ s.gap.id # t
  <2>. SUFFICES ASSUME new.selected = gap
                         \/ (new.selected = walk.selected /\ new.metrics = walk.metrics),
                       NEW s \in walk.snapshots
                PROVE  ExactRight(s, new, t, list, in) /\ s.gap.id # t
    OBVIOUS
  <2>1. ExactRight(s, walk, t - 1, list, in)
    BY DEF WalkRight
  <2>2. s.gap.id \in DOMAIN list /\ s.gap.id <= t - 1
    BY <2>1 DEF ExactRight
  <2>3. s.gap.id # t /\ s.gap.id <= t /\ new.gaps[s.gap.id] = walk.gaps[s.gap.id]
    BY <1>1, <1>3, <2>2
  <2>4. ActiveCount(new.gaps) <= s.active
    BY <1>5, <2>1 DEF ExactRight
  <2>5. new.selected.id = s.gap.id => new.selected = s.gap /\ new.metrics = s.metrics
    BY <1>3, <2>1, <2>3 DEF ExactRight
  <2>. QED  BY <2>1, <2>3, <2>4, <2>5 DEF ExactRight
<1>7. NoGap.id = 0
  BY DEF NoGap, NewGap, None
<1>8. gap # NoGap /\ t \in Nat /\ (\A u \in Nat : u <= t - 1 => u <= t)
  BY <1>3, <1>7
<1>9. CASE /\ new.selected = gap /\ new.snapshots = walk.snapshots
  BY <1>3, <1>4, <1>6, <1>8, <1>9 DEF WalkRight
<1>10. CASE /\ new.selected = walk.selected /\ new.metrics = walk.metrics
            /\ new.snapshots = walk.snapshots
  <2>1. IF new.selected = NoGap THEN new.snapshots = {}
        ELSE new.selected.id \in DOMAIN list /\ new.selected.id <= t
    BY <1>1, <1>8, <1>10 DEF WalkRight
  <2>. QED  BY <1>3, <1>4, <1>6, <1>10, <2>1 DEF WalkRight
<1>11. ASSUME NEW active, NEW flags, active = ActiveCount(new.gaps), new.selected = gap,
              gap.state \in {"TESTED", "ABSORBED"}, gap.retests = 1, list[t].retests = 0,
              new.snapshots = walk.snapshots
                                \cup {Snapshot(in.end, gap, new.metrics, active, flags, in.ready)}
       PROVE  WalkRight(new, t, list, in)
  <2>. DEFINE exact == Snapshot(in.end, gap, new.metrics, active, flags, in.ready)
  <2>1. exact.gap = gap /\ exact.active = active /\ exact.metrics = new.metrics
    BY SnapshotIs
  <2>2. \E g, m, a, f : exact = Snapshot(in.end, g, m, a, f, in.ready)
    OBVIOUS
  <2>. HIDE DEF exact
  <2>3. ExactRight(exact, new, t, list, in)
    BY <1>1, <1>3, <1>5, <1>8, <1>11, <2>1, <2>2 DEF ExactRight
  <2>4. new.snapshots = walk.snapshots \cup {exact}
    BY <1>11 DEF exact
  <2>5. \A s \in walk.snapshots : ExactRight(s, new, t, list, in) /\ s.gap.id # t
    BY <1>6, <1>11
  <2>6. \A r, s \in new.snapshots : r.gap.id = s.gap.id => r = s
    <3>1. \A r, s \in walk.snapshots : r.gap.id = s.gap.id => r = s
      BY DEF WalkRight
    <3>. QED  BY <1>3, <2>1, <2>4, <2>5, <3>1
  <2>7. new.selected # NoGap /\ new.selected.id \in DOMAIN list /\ new.selected.id <= t
    BY <1>3, <1>8, <1>11
  <2>8. \A s \in new.snapshots : ExactRight(s, new, t, list, in)
    BY <2>3, <2>4, <2>5
  <2>. QED  BY <1>3, <1>4, <2>6, <2>7, <2>8 DEF WalkRight
<1>12. \/ new.selected = gap /\ new.snapshots = walk.snapshots
       \/ /\ new.selected = walk.selected /\ new.metrics = walk.metrics
          /\ new.snapshots = walk.snapshots
       \/ \E active, flags :
            /\ active = ActiveCount(new.gaps) /\ new.selected = gap
            /\ gap.state \in {"TESTED", "ABSORBED"} /\ gap.retests = 1 /\ list[t].retests = 0
            /\ new.snapshots = walk.snapshots
                                 \cup {Snapshot(in.end, gap, new.metrics, active, flags, in.ready)}
  <2>1. list[t].retests \in Nat /\ (list[t].retests + 1 = 1 => list[t].retests = 0)
    BY <1>1 DEF IsGap
  <2>2. \/ new.selected = gap /\ new.snapshots = walk.snapshots
        \/ /\ new.selected = walk.selected /\ new.metrics = walk.metrics
           /\ new.snapshots = walk.snapshots
        \/ /\ gap.state \in {"TESTED", "ABSORBED"} /\ gap.retests = list[t].retests + 1
           /\ new.selected = gap
           /\ \E active, flags :
                /\ active = ActiveCount(new.gaps)
                /\ new.snapshots =
                     IF gap.retests # 1 THEN walk.snapshots
                     ELSE walk.snapshots
                            \cup {Snapshot(in.end, gap, new.metrics, active, flags, in.ready)}
    BY <1>1, <1>2 DEF TurnRight
  <2>. HIDE DEF gap
  <2>. QED  BY <2>1, <2>2
<1>. QED  BY <1>9, <1>10, <1>11, <1>12

(* The loop, over all the gaps. *)
LEMMA AllTurnsRight ==
    ASSUME NEW list, NEW flags, NEW in, in.end \in Nat, IsList(list, in.end)
    PROVE  WalkRight(AllTurns(list, flags, in), in.end, list, in)
<1>. DEFINE w == Walk(list, flags, in)
            n == in.end
            S == {t \in 0..n : WalkRight(w[t], t, list, in)}
<1>0. n \in Nat
  OBVIOUS
<1>1. 0 \in S
  <2>1. w[0] = Start(list, flags)
    BY WalkIs
  <2>2. \A u \in DOMAIN list : 0 < u
    BY DEF IsList
  <2>3. WalkRight(Start(list, flags), 0, list, in)
    BY <2>2 DEF WalkRight, Start, IsWalk
  <2>. QED  BY <2>1, <2>3
<1>2. ASSUME NEW t \in 1..n, t - 1 \in S PROVE t \in S
  <2>1. w[t] = Step(w[t - 1], t, list, in) /\ WalkRight(w[t - 1], t - 1, list, in)
    BY <1>2, WalkIs
  <2>2. CASE t \in DOMAIN list
    <3>1. w[t] = Turn(w[t - 1], t, in)
      BY <2>1, <2>2 DEF Step
    <3>2. WalkRight(Turn(w[t - 1], t, in), t, list, in)
      <4>. HIDE DEF w
      <4>. QED  BY <2>1, <2>2, WalkTurn
    <3>. QED  BY <3>1, <3>2
  <2>3. CASE t \notin DOMAIN list
    <3>1. w[t] = w[t - 1]
      BY <2>1, <2>3 DEF Step
    <3>2. \A u \in DOMAIN list : u \in Nat /\ (t - 1 < u <=> t < u) /\ (u <= t - 1 => u <= t)
      BY <2>3 DEF IsList
    <3>. HIDE DEF w
    <3>3. \A s \in w[t].snapshots : ExactRight(s, w[t], t, list, in)
      BY <2>1, <3>1, <3>2 DEF WalkRight, ExactRight
    <3>4. WalkRight(w[t], t, list, in)
      BY <2>1, <3>1, <3>2, <3>3 DEF WalkRight
    <3>. QED  BY <3>4
  <2>. QED  BY <2>2, <2>3
<1>3. n \in S
  <2>. HIDE DEF S
  <2>. QED  BY <1>0, <1>1, <1>2, RangeInduction
<1>. QED  BY <1>3 DEF AllTurns

-----------------------------------------------------------------------------
(* The gap engine *)

(* Segments follow each other, with a hole inside a session.               *)
LEMMA SegmentsAre ==
    ASSUME NEW i \in DOMAIN Segments, NEW k \in DOMAIN Segments
    PROVE  /\ i \in Nat /\ k \in Nat
           /\ Segments[i].start \in Nat /\ Segments[i].end \in Nat
           /\ Segments[i].start < Segments[i].end
           /\ i < k => /\ Segments[i].end <= Segments[k].start
                       /\ Segments[i].id = Segments[k].id => Segments[i].end < Segments[k].start
<1>1. \A j \in DOMAIN Segments : Segments[j].start \in Nat /\ Segments[j].end \in Nat
  BY IAEAssumption
<1>2. i < k => IF Segments[i].id = Segments[k].id THEN Segments[i].end < Segments[k].start
               ELSE Segments[i].end <= Segments[k].start
  BY IAEAssumption
<1>. QED  BY <1>1, <1>2, IAEAssumption

(* Two bars that follow each other in one session are in one segment.      *)
LEMMA SameSegment ==
    ASSUME NEW i \in DOMAIN Segments, NEW k \in DOMAIN Segments, Segments[i].id = Segments[k].id,
           NEW e \in Nat, Segments[k].start < e, e <= Segments[k].end,
           Segments[i].start <= e, e < Segments[i].end
    PROVE  i = k
<1>1. ~ (i < k) /\ ~ (k < i)
  BY SegmentsAre
<1>. QED  BY <1>1, SegmentsAre

WindowRight ==
    /\ window \in Seq(Bars) /\ Len(window) <= 2
    /\ window # <<>> =>
         \E k \in DOMAIN Segments : /\ Segments[k].id = session
                                   /\ Segments[k].start + Len(window) <= lastEnd
                                   /\ lastEnd <= Segments[k].end

GapsRight ==
    /\ DOMAIN gaps \subseteq 1..lastEnd /\ IsFiniteSet(DOMAIN gaps)
    /\ \A t \in DOMAIN gaps : IsGap(gaps[t]) /\ gaps[t].id = t /\ Alive(gaps[t])
    /\ \A t \in DOMAIN gaps : gaps[t].retests = 0 => t \notin reported
    /\ reported \subseteq 1..lastEnd

SessionIds == {Segments[i].id : i \in DOMAIN Segments}

(* A session is in the bucket of a slot when a segment of it has the slot. *)
BucketsRight ==
    \A key \in DOMAIN seasonal :
        /\ key[2] \in Int /\ seasonal[key] \in Seq(SessionIds)
        /\ \A n \in DOMAIN seasonal[key] :
             \E j \in DOMAIN Segments : /\ Segments[j].id = seasonal[key][n]
                                       /\ Segments[j].start + key[2] <= lastEnd

IaeInv ==
    /\ lastEnd \in Nat
    /\ BucketsRight
    /\ GuardsNeverStop
    /\ LiveGapsAreContiguous
    /\ stopped = "none" => WindowRight /\ GapsRight

(* What a bar of segment i finds left of the window and the gaps.          *)
LeftRight(left, i, end) ==
    /\ left.window \in Seq(Bars) /\ Len(left.window) <= 2
    /\ left.window # <<>> => Segments[i].start + Len(left.window) <= end - 1
    /\ IsList(left.gaps, end)
    /\ \A t \in DOMAIN left.gaps :
         /\ t \in DOMAIN gaps /\ left.gaps[t] = gaps[t]
         /\ left.gaps[t].age = end - 1 - t
         /\ Segments[i].start + 3 <= t

(* What a bar finds left is of its own segment and without a missing bar.  *)
LEMMA ResetRight ==
    ASSUME IaeInv, stopped = "none", NEW i \in DOMAIN Segments, NEW end \in Nat,
           Segments[i].start < end, end <= Segments[i].end, lastEnd < end
    PROVE  LeftRight(Reset(Segments[i].id, end), i, end)
<1>. DEFINE left == Reset(Segments[i].id, end)
<1>1. CASE Segments[i].id # session \/ lastEnd # end - 1
  <2>1. left.window = <<>> /\ DOMAIN left.gaps = {}
    BY <1>1 DEF Reset
  <2>2. <<>> \in Seq(Bars) /\ Len(<<>>) = 0
    BY EmptySeq
  <2>3. IsList(left.gaps, end)
    BY <2>1, FS_EmptySet DEF IsList
  <2>. QED  BY <2>1, <2>2, <2>3 DEF LeftRight
<1>2. CASE Segments[i].id = session /\ lastEnd = end - 1
  <2>1. left.window = window /\ left.gaps = gaps
    BY <1>2 DEF Reset
  <2>2. WindowRight /\ GapsRight /\ LiveGapsAreContiguous
    BY DEF IaeInv
  <2>3. Segments[i].start \in Nat /\ Segments[i].end \in Nat
    BY SegmentsAre
  <2>4. ASSUME window # <<>> PROVE Segments[i].start + Len(window) <= end - 1
    <3>1. PICK k \in DOMAIN Segments : /\ Segments[k].id = session
                                       /\ Segments[k].start + Len(window) <= lastEnd
                                       /\ lastEnd <= Segments[k].end
      BY <2>2, <2>4 DEF WindowRight
    <3>2. Len(window) \in Nat /\ Len(window) # 0 /\ Segments[k].start \in Nat
      BY <2>2, <2>4, EmptySeq, LenProperties, SegmentsAre DEF WindowRight
    <3>3. i = k
      BY <1>2, <2>3, <3>1, <3>2, SameSegment
    <3>. QED  BY <1>2, <3>1, <3>3
  <2>5. IsList(gaps, end)
    BY <1>2, <2>2 DEF IsList, GapsRight
  <2>6. ASSUME NEW t \in DOMAIN gaps
        PROVE  gaps[t].age = end - 1 - t /\ Segments[i].start + 3 <= t
    <3>1. gaps[t].age = lastEnd - t /\ t \in 1..lastEnd
      BY <2>2 DEF LiveGapsAreContiguous, GapsRight
    <3>2. PICK k \in DOMAIN Segments : /\ Segments[k].id = session
                                       /\ Segments[k].start + 3 <= t
                                       /\ lastEnd <= Segments[k].end
      BY <2>2 DEF LiveGapsAreContiguous
    <3>3. i = k
      BY <1>2, <2>3, <3>1, <3>2, SegmentsAre, SameSegment
    <3>. QED  BY <1>2, <3>1, <3>2, <3>3
  <2>. QED  BY <2>1, <2>2, <2>4, <2>5, <2>6 DEF LeftRight, WindowRight
<1>. QED  BY <1>1, <1>2

(* What a bar forms is a gap of its own end, and takes three bars.         *)
FormedRight(gap, bars, end) ==
    \/ gap = NoGap /\ gap.id = None
    \/ /\ IsGap(gap) /\ gap.id = end /\ gap.age = 0 /\ gap.retests = 0 /\ Alive(gap)
       /\ ~ (Len(bars) < 3)

(* A gap that forms is named by its bar, untested, after three bars.       *)
LEMMA FormationRight ==
    ASSUME NEW bars, NEW end \in Nat \ {0}, NEW ready, NEW eligible
    PROVE  FormedRight(Formation(bars, end, ready, eligible).formed, bars, end)
<1>1. \A direction, bot, top :
        LET gap == NewGap(end, direction, bot, top)
        IN  IsGap(gap) /\ gap.id = end /\ gap.age = 0 /\ gap.retests = 0 /\ Alive(gap)
  BY DEF NewGap, IsGap, Alive
<1>2. NoGap.id = None
  BY DEF NoGap, NewGap
<1>3. \/ Shaped(bars, end) = NoGap
      \/ \E direction, bot, top : Shaped(bars, end) = NewGap(end, direction, bot, top)
  BY DEF Shaped
<1>4. \/ Formation(bars, end, ready, eligible).formed = NoGap
      \/ Formation(bars, end, ready, eligible).formed = Shaped(bars, end) /\ ~ (Len(bars) < 3)
  BY DEF Formation
<1>. QED  BY <1>1, <1>2, <1>3, <1>4 DEF FormedRight

(* No two snapshots of a bar that differ share an identity: those of its   *)
(* first retests are of different gaps, and its own, when it is of one of  *)
(* them, is of the gap as its retest left it.                              *)
LEMMA NoCollision ==
    ASSUME NEW list, NEW in, NEW t, NEW walk, WalkRight(walk, t, list, in),
           NEW shown, walk.selected # NoGap => shown = walk.selected,
           NEW active, NEW flags, NEW whole,
           whole = Snapshot(in.end, shown, walk.metrics, active, flags, in.ready)
    PROVE  ~ Collides([retests |-> walk.snapshots, bar |-> {whole}])
<1>1. ASSUME NEW r, NEW s, SnapshotId(r) = SnapshotId(s)
      PROVE  r.active = s.active /\ r.gap.id = s.gap.id /\ r.flags = s.flags
  BY <1>1 DEF SnapshotId
<1>2. ASSUME NEW s \in walk.snapshots, SnapshotId(whole) = SnapshotId(s) PROVE s = whole
  <2>1. /\ whole.active = active /\ whole.gap = shown /\ whole.flags = flags
    BY SnapshotIs
  <2>2. s.active = active /\ s.gap.id = shown.id /\ s.flags = flags
    BY <1>1, <1>2, <2>1
  <2>3. ExactRight(s, walk, t, list, in)
    BY DEF WalkRight
  <2>4. PICK g, m, a, f : s = Snapshot(in.end, g, m, a, f, in.ready)
    BY <2>3 DEF ExactRight
  <2>5. s.gap = g /\ s.metrics = m /\ s.active = a /\ s.flags = f
    BY <2>4, SnapshotIs
  <2>6. shown = walk.selected
    BY DEF WalkRight
  <2>7. walk.selected = s.gap /\ walk.metrics = s.metrics
    BY <2>2, <2>3, <2>6 DEF ExactRight
  <2>. QED  BY <2>2, <2>4, <2>5, <2>6, <2>7
<1>3. ASSUME NEW r \in walk.snapshots, NEW s \in walk.snapshots, SnapshotId(r) = SnapshotId(s)
      PROVE  r = s
  BY <1>1, <1>3 DEF WalkRight
<1>. QED  BY <1>2, <1>3 DEF Collides

FirstRetests ==
    \A s \in update'.retests :
        lastEnd' # lastEnd /\ stopped' = "none" =>
          /\ s.gap.id \notin reported
          /\ s.gap.id \in DOMAIN gaps
          /\ s.asOf = lastEnd'
          /\ s.gap.state = IF s.gap.id \in DOMAIN gaps' THEN "TESTED" ELSE "ABSORBED"
          /\ s.active >= Cardinality((DOMAIN gaps') \ {lastEnd'})

(* A bar past the input guards keeps what the reset left right, and        *)
(* reports the gaps it tests first.                                        *)
LEMMA AdvanceStep ==
    ASSUME IaeInv, stopped = "none", NEW i \in DOMAIN Segments, NEW end \in Nat,
           Segments[i].start < end, end <= Segments[i].end, lastEnd < end,
           NEW left, LeftRight(left, i, end), NEW bar \in Bars, NEW prior, NEW varied, NEW eligible,
           NEW strong, Advance(bar, end, left, prior, varied, eligible, strong),
           lastEnd' = end, session' = Segments[i].id
    PROVE  /\ stopped' = "none" /\ WindowRight' /\ GapsRight' /\ LiveGapsAreContiguous'
           /\ FirstRetests
<1>. DEFINE tod   == TodGuard(prior, varied)
            ready == seen' > AtrWindow
            in    == [bar |-> bar, end |-> end, tod |-> tod, ready |-> ready, strong |-> strong]
            early == left.flags \cup ({tod} \ {"none"})
                                \cup (IF ready THEN {} ELSE {"IAE_ATR_WARMUP"})
            walk  == AllTurns(left.gaps, early, in)
            bars  == Append(left.window, bar)
            form  == Formation(bars, end, ready, eligible)
            kept  == {t \in DOMAIN walk.gaps : Alive(walk.gaps[t])}
            born  == {form.formed.id} \ {None}
            live  == [t \in kept \cup born |-> IF t \in kept THEN walk.gaps[t] ELSE form.formed]
            shown == IF walk.selected # NoGap \/ DOMAIN live = {} THEN walk.selected
                     ELSE live[Max(DOMAIN live)]
            whole == Snapshot(end, shown, walk.metrics, Cardinality(DOMAIN live),
                              walk.flags \cup form.flags, ready)
            new   == [retests |-> walk.snapshots, bar |-> {whole}]
<1>1. /\ window' = IF Len(bars) > 2 THEN Tail(bars) ELSE bars
      /\ gaps' = live /\ update' = new
      /\ reported' = reported \cup {s.gap.id : s \in new.retests}
      /\ stopped' = IF Collides(new) THEN "IAE snapshot ID collision" ELSE "none"
  BY DEF Advance
<1>2. in.end = end /\ in.ready = ready /\ end \in Nat \ {0}
  BY SegmentsAre
<1>3. WalkRight(walk, end, left.gaps, in)
  <2>. HIDE DEF in, early
  <2>1. IsList(left.gaps, in.end)
    BY <1>2 DEF LeftRight
  <2>2. WalkRight(walk, in.end, left.gaps, in)
    BY <1>2, <2>1, AllTurnsRight
  <2>. QED  BY <1>2, <2>2
<1>4. \/ form.formed = NoGap /\ born = {}
      \/ /\ IsGap(form.formed) /\ form.formed.id = end /\ form.formed.age = 0
         /\ form.formed.retests = 0 /\ Alive(form.formed) /\ born = {end} /\ ~ (Len(bars) < 3)
  <2>. DEFINE gap == form.formed
  <2>1. FormedRight(gap, bars, end)
    <3>. HIDE DEF bars, ready
    <3>. QED  BY <1>2, FormationRight
  <2>. HIDE DEF gap
  <2>2. end # None
    BY <1>2 DEF None
  <2>3. born = {gap.id} \ {None}
    BY DEF gap
  <2>. HIDE DEF born
  <2>4. \/ gap = NoGap /\ born = {}
        \/ /\ IsGap(gap) /\ gap.id = end /\ gap.age = 0 /\ gap.retests = 0 /\ Alive(gap)
           /\ born = {end} /\ ~ (Len(bars) < 3)
    BY <2>1, <2>2, <2>3 DEF FormedRight
  <2>. QED  BY <2>4 DEF gap
<1>5. stopped' = "none"
  <2>1. ~ Collides(new)
    <3>. DEFINE active == Cardinality(DOMAIN live)
                flags == walk.flags \cup form.flags
    <3>1. walk.selected # NoGap => shown = walk.selected
      OBVIOUS
    <3>2. whole = Snapshot(in.end, shown, walk.metrics, active, flags, in.ready)
      BY <1>2
    <3>. HIDE DEF active, flags, shown, walk, in, whole
    <3>. QED  BY <1>3, <3>1, <3>2, NoCollision
  <2>. QED  BY <1>1, <2>1
<1>6. /\ left.window \in Seq(Bars) /\ Len(left.window) \in Nat /\ Len(left.window) <= 2
      /\ (Len(left.window) = 0 <=> left.window = <<>>)
      /\ left.window # <<>> => Segments[i].start + Len(left.window) <= end - 1
      /\ Segments[i].start \in Nat /\ Segments[i].end \in Nat
  BY LenProperties, EmptySeq, SegmentsAre DEF LeftRight
<1>7. bars \in Seq(Bars) /\ Len(bars) = Len(left.window) + 1
  BY <1>6, AppendProperties
<1>8. window' \in Seq(Bars) /\ Len(window') <= 2 /\ Segments[i].start + Len(window') <= end
      /\ Segments[i].start + Len(bars) <= end
  <2>0. window' = IF Len(bars) > 2 THEN Tail(bars) ELSE bars
    BY <1>1
  <2>. HIDE DEF bars
  <2>1. Segments[i].start + Len(bars) <= end
    BY <1>6, <1>7
  <2>2. CASE Len(bars) > 2
    <3>1. bars # <<>>
      BY <2>2, EmptySeq
    <3>2. Tail(bars) \in Seq(Bars) /\ Len(Tail(bars)) = Len(bars) - 1
      BY <1>7, <3>1, HeadTailProperties
    <3>3. window' = Tail(bars)
      BY <2>0, <2>2
    <3>. QED  BY <1>6, <1>7, <2>1, <3>2, <3>3
  <2>3. CASE ~ (Len(bars) > 2)
    BY <1>6, <1>7, <2>0, <2>1, <2>3
  <2>. QED  BY <2>2, <2>3
<1>9. WindowRight'
  BY <1>8 DEF WindowRight
<1>10. /\ DOMAIN walk.gaps = DOMAIN left.gaps /\ IsFiniteSet(DOMAIN left.gaps)
       /\ \A t \in DOMAIN left.gaps :
            /\ t \in 1..(end - 1) /\ IsGap(walk.gaps[t]) /\ walk.gaps[t].id = t
            /\ walk.gaps[t].age = left.gaps[t].age + 1
            /\ Alive(walk.gaps[t]) => walk.gaps[t].age <= MaxAge
            /\ walk.gaps[t].retests = 0 => left.gaps[t].retests = 0
            /\ t \in DOMAIN gaps /\ left.gaps[t] = gaps[t]
            /\ left.gaps[t].age = end - 1 - t
            /\ Segments[i].start + 3 <= t
  <2>. HIDE DEF walk
  <2>1. \A t \in DOMAIN left.gaps : t \in 1..(end - 1) /\ ~ (end < t)
    BY DEF LeftRight, IsList
  <2>. QED  BY <1>3, <2>1 DEF WalkRight, LeftRight, IsList
<1>11. /\ DOMAIN gaps \subseteq 1..lastEnd /\ reported \subseteq 1..lastEnd /\ lastEnd \in Nat
       /\ \A t \in DOMAIN gaps : gaps[t].retests = 0 => t \notin reported
  BY DEF IaeInv, GapsRight
<1>12. \A s \in walk.snapshots :
          /\ s.asOf = end
          /\ s.gap.id \in DOMAIN left.gaps /\ s.gap = walk.gaps[s.gap.id]
          /\ s.gap.retests = 1 /\ left.gaps[s.gap.id].retests = 0
          /\ s.gap.state \in {"TESTED", "ABSORBED"}
          /\ ActiveCount(walk.gaps) <= s.active
  <2>. SUFFICES ASSUME NEW s \in walk.snapshots
                PROVE  /\ s.asOf = end
                       /\ s.gap.id \in DOMAIN left.gaps /\ s.gap = walk.gaps[s.gap.id]
                       /\ s.gap.retests = 1 /\ left.gaps[s.gap.id].retests = 0
                       /\ s.gap.state \in {"TESTED", "ABSORBED"}
                       /\ ActiveCount(walk.gaps) <= s.active
    OBVIOUS
  <2>. HIDE DEF walk, in
  <2>1. ExactRight(s, walk, end, left.gaps, in)
    BY <1>3 DEF WalkRight
  <2>2. s.asOf = in.end
    BY <2>1, SnapshotIs DEF ExactRight
  <2>. QED  BY <1>2, <2>1, <2>2 DEF ExactRight
<1>13. new.retests = walk.snapshots
  OBVIOUS
<1>. HIDE DEF walk, form, born, new
<1>14. DOMAIN live = kept \cup born /\ kept \subseteq DOMAIN left.gaps
       /\ \A t \in kept : live[t] = walk.gaps[t] /\ Alive(walk.gaps[t]) /\ t # end /\ t \in Nat
  BY <1>10
<1>15. \A t \in born : t = end /\ t \notin kept /\ live[t] = form.formed
  BY <1>4, <1>14
<1>. HIDE DEF live
<1>16. LiveGapsAreContiguous'
  <2>. SUFFICES ASSUME NEW t \in DOMAIN live
                PROVE  /\ live[t].age = end - t /\ live[t].age <= MaxAge
                       /\ Segments[i].start + 3 <= t
    BY <1>1 DEF LiveGapsAreContiguous
  <2>1. CASE t \in kept
    BY <1>10, <1>14, <2>1
  <2>2. CASE t \in born
    <3>1. live[t] = form.formed /\ form.formed.age = 0 /\ ~ (Len(bars) < 3) /\ t = end
      BY <1>4, <1>15, <2>2
    <3>2. MaxAge \in Nat
      BY IAEAssumption
    <3>. HIDE DEF bars
    <3>. QED  BY <1>6, <1>7, <1>8, <3>1, <3>2
  <2>. QED  BY <1>14, <2>1, <2>2
<1>17. GapsRight'
  <2>1. IsFiniteSet(kept) /\ IsFiniteSet(born) /\ IsFiniteSet(DOMAIN live)
    <3>1. IsFiniteSet(kept)
      BY <1>10, <1>14, FS_Subset
    <3>2. IsFiniteSet(born)
      <4>1. born = {} \/ born = {end}
        BY <1>4
      <4>. QED  BY <4>1, FS_EmptySet, FS_Singleton
    <3>. HIDE DEF kept
    <3>. QED  BY <1>14, <3>1, <3>2, FS_Union
  <2>2. DOMAIN live \subseteq 1..end
    BY <1>2, <1>10, <1>14, <1>15
  <2>3. \A t \in DOMAIN live : IsGap(live[t]) /\ live[t].id = t /\ Alive(live[t])
    BY <1>4, <1>10, <1>14, <1>15
  <2>4. reported' = reported \cup {s.gap.id : s \in walk.snapshots}
    BY <1>1, <1>13
  <2>5. reported' \subseteq 1..end
    <3>1. \A s \in walk.snapshots : s.gap.id \in 1..end
      BY <1>2, <1>10, <1>12
    <3>2. reported \subseteq 1..end
      BY <1>2, <1>11
    <3>. QED  BY <2>4, <3>1, <3>2
  <2>6. ASSUME NEW t \in DOMAIN live, live[t].retests = 0 PROVE t \notin reported'
    <3>1. CASE t \in kept
      <4>1. left.gaps[t].retests = 0 /\ t \in DOMAIN gaps /\ left.gaps[t] = gaps[t]
        BY <1>10, <1>14, <2>6, <3>1
      <4>2. t \notin reported
        BY <1>11, <4>1
      <4>3. \A s \in walk.snapshots : s.gap.id = t => walk.gaps[t].retests = 1
        BY <1>12
      <4>. QED  BY <1>14, <2>4, <2>6, <3>1, <4>2, <4>3
    <3>2. CASE t \in born
      <4>1. t = end /\ end \notin reported
        BY <1>11, <1>15, <3>2
      <4>2. \A s \in walk.snapshots : s.gap.id # end
        BY <1>2, <1>10, <1>12
      <4>. QED  BY <2>4, <4>1, <4>2
    <3>. QED  BY <1>14, <3>1, <3>2
  <2>. QED  BY <1>1, <2>1, <2>2, <2>3, <2>5, <2>6 DEF GapsRight
<1>18. FirstRetests
  <2>. SUFFICES ASSUME NEW s \in walk.snapshots
                PROVE  /\ s.gap.id \notin reported /\ s.gap.id \in DOMAIN gaps
                       /\ s.asOf = end
                       /\ s.gap.state = IF s.gap.id \in DOMAIN live THEN "TESTED" ELSE "ABSORBED"
                       /\ s.active >= Cardinality((DOMAIN live) \ {end})
    BY <1>1, <1>13 DEF FirstRetests
  <2>1. s.gap.id \notin reported /\ s.gap.id \in DOMAIN gaps /\ s.asOf = end
    BY <1>10, <1>11, <1>12
  <2>2. (DOMAIN live) \ {end} = kept
    BY <1>14, <1>15
  <2>3. ActiveCount(walk.gaps) = Cardinality(kept)
    BY DEF ActiveCount
  <2>4. s.gap.id \in DOMAIN live <=> Alive(walk.gaps[s.gap.id])
    BY <1>2, <1>10, <1>12, <1>14, <1>15
  <2>5. s.gap.state = IF s.gap.id \in DOMAIN live THEN "TESTED" ELSE "ABSORBED"
    BY <1>12, <2>4 DEF Alive
  <2>6. Cardinality(kept) \in Nat /\ Cardinality(kept) <= s.active
    <3>1. IsFiniteSet(kept)
      BY <1>10, <1>14, FS_Subset
    <3>2. Cardinality(kept) <= s.active
      BY <1>12, <2>3
    <3>. HIDE DEF kept
    <3>. QED  BY <3>1, <3>2, FS_CardinalityType
  <2>7. s.active >= Cardinality(kept)
    <3>. HIDE DEF kept
    <3>. QED  BY <2>6
  <2>. QED  BY <2>1, <2>2, <2>5, <2>7
<1>. QED  BY <1>5, <1>9, <1>16, <1>17, <1>18

(* on_bar keeps the invariant, its early stop included.                    *)
LEMMA OnBarStep ==
    ASSUME IaeInv, NEW i \in DOMAIN Segments, NEW end \in Ends,
           end \in (Segments[i].start + 1)..Segments[i].end,
           NEW bar \in Bars, OnBar(bar, Segments[i], end)
    PROVE  IaeInv' /\ FirstRetests
<1>. DEFINE id    == Segments[i].id
            slot  == end - Segments[i].start
            key   == <<Segments[i].type, slot>>
            prior == Bucket(key)
            left  == Reset(id, end)
            twice == id \in ToSet(prior)
            next  == Latest(Append(prior, id))
<1>1. /\ stopped = "none" /\ lastEnd < end /\ lastEnd' = end /\ session' = id
      /\ \/ /\ twice
            /\ stopped' = "IAE TOD bucket already contains the current session"
            /\ Learn(key, prior)
         \/ /\ ~twice
            /\ \E varied, eligible : \E strong :
                 Advance(bar, end, left, prior, varied, eligible, strong)
            /\ Learn(key, next)
  BY DEF OnBar
<1>2. /\ end \in Nat /\ lastEnd \in Nat
      /\ Segments[i].start \in Nat /\ Segments[i].end \in Nat
      /\ Segments[i].start < end /\ end <= Segments[i].end
      /\ slot \in Int /\ Segments[i].start + slot = end
  BY SegmentsAre, IAEAssumption DEF IaeInv
<1>3. key[2] = slot
  OBVIOUS
<1>0. /\ \A j \in DOMAIN Segments : j \in Nat /\ Segments[j].start \in Nat
      /\ \A a \in Nat, b \in Int : a + b <= lastEnd => a + b < end
  <2>1. \A j \in DOMAIN Segments : j \in Nat /\ Segments[j].start \in Nat
    BY SegmentsAre
  <2>2. lastEnd < end /\ lastEnd \in Nat /\ end \in Nat
    BY <1>1, <1>2
  <2>. QED  BY <2>1, <2>2
<1>. HIDE DEF key, slot
<1>4. /\ prior \in Seq(SessionIds)
      /\ \A n \in DOMAIN prior :
           \E j \in DOMAIN Segments : Segments[j].id = prior[n] /\ Segments[j].start + slot <= lastEnd
  <2>1. CASE key \in DOMAIN seasonal
    BY <1>3, <2>1 DEF Bucket, IaeInv, BucketsRight
  <2>2. CASE key \notin DOMAIN seasonal
    BY <2>2, EmptySeq DEF Bucket
  <2>. QED  BY <2>1, <2>2
<1>5. LeftRight(left, i, end)
  BY <1>1, <1>2, ResetRight
<1>. HIDE DEF prior, left
<1>6. ASSUME NEW bucket \in Seq(SessionIds), Learn(key, bucket),
             \A n \in DOMAIN bucket : bucket[n] = id \/ \E m \in DOMAIN prior : bucket[n] = prior[m]
      PROVE  BucketsRight'
  <2>1. \A n \in DOMAIN bucket :
          \E j \in DOMAIN Segments : Segments[j].id = bucket[n] /\ Segments[j].start + slot <= end
    <3>. SUFFICES ASSUME NEW n \in DOMAIN bucket
                  PROVE  \E j \in DOMAIN Segments : /\ Segments[j].id = bucket[n]
                                                    /\ Segments[j].start + slot <= end
      OBVIOUS
    <3>1. CASE bucket[n] = id
      BY <1>2, <3>1
    <3>2. ASSUME NEW m \in DOMAIN prior, bucket[n] = prior[m]
          PROVE  \E j \in DOMAIN Segments : /\ Segments[j].id = bucket[n]
                                            /\ Segments[j].start + slot <= end
      <4>1. PICK j \in DOMAIN Segments : /\ Segments[j].id = prior[m]
                                         /\ Segments[j].start + slot <= lastEnd
        BY <1>4
      <4>2. Segments[j].start + slot <= end
        <5>1. Segments[j].start \in Nat /\ slot \in Int
          BY <1>0, <1>2
        <5>2. Segments[j].start + slot < end
          BY <1>0, <4>1, <5>1
        <5>. QED  BY <1>2, <5>1, <5>2
      <4>. QED  BY <3>2, <4>1, <4>2
    <3>. QED  BY <1>6, <3>1, <3>2
  <2>2. \A k \in DOMAIN seasonal \cup {key} :
          seasonal'[k] = IF k = key THEN bucket ELSE seasonal[k]
    BY <1>6 DEF Learn
  <2>3. DOMAIN seasonal' = DOMAIN seasonal \cup {key}
    BY <1>6 DEF Learn
  <2>. SUFFICES ASSUME NEW k \in DOMAIN seasonal'
                PROVE  /\ k[2] \in Int /\ seasonal'[k] \in Seq(SessionIds)
                       /\ \A n \in DOMAIN seasonal'[k] :
                            \E j \in DOMAIN Segments : /\ Segments[j].id = seasonal'[k][n]
                                                      /\ Segments[j].start + k[2] <= end
    BY <1>1 DEF BucketsRight
  <2>4. CASE k = key
    BY <1>2, <1>3, <1>6, <2>1, <2>2, <2>3, <2>4
  <2>5. CASE k # key
    <3>1. k \in DOMAIN seasonal /\ seasonal'[k] = seasonal[k]
      BY <2>2, <2>3, <2>5
    <3>2. /\ k[2] \in Int /\ seasonal[k] \in Seq(SessionIds)
          /\ \A n \in DOMAIN seasonal[k] :
               \E j \in DOMAIN Segments : /\ Segments[j].id = seasonal[k][n]
                                         /\ Segments[j].start + k[2] <= lastEnd
      BY <3>1 DEF IaeInv, BucketsRight
    <3>3. \A j \in DOMAIN Segments :
            Segments[j].start + k[2] <= lastEnd => Segments[j].start + k[2] <= end
      <4>. SUFFICES ASSUME NEW j \in DOMAIN Segments, Segments[j].start + k[2] <= lastEnd
                    PROVE  Segments[j].start + k[2] <= end
        OBVIOUS
      <4>1. Segments[j].start \in Nat
        BY <1>0
      <4>2. Segments[j].start + k[2] < end
        BY <1>0, <3>2, <4>1
      <4>. QED  BY <1>2, <3>2, <4>1, <4>2
    <3>. QED  BY <3>1, <3>2, <3>3
  <2>. QED  BY <2>4, <2>5
<1>7. ASSUME twice, stopped' = "IAE TOD bucket already contains the current session", Learn(key, prior)
      PROVE  IaeInv' /\ FirstRetests
  <2>1. BucketsRight'
    BY <1>4, <1>6, <1>7
  <2>2. GuardsNeverStop'
    <3>1. PICK n \in DOMAIN prior : id = prior[n]
      BY <1>7 DEF ToSet
    <3>2. PICK j \in DOMAIN Segments : Segments[j].id = id /\ Segments[j].start + slot <= lastEnd
      BY <1>4, <3>1
    <3>3. Segments[j].start < Segments[i].start /\ j # i
      <4>1. Segments[j].start \in Nat /\ slot \in Int
        BY <1>0, <1>2
      <4>2. Segments[j].start + slot < end
        BY <1>0, <3>2, <4>1
      <4>. QED  BY <1>2, <4>1, <4>2
    <3>4. ~ (i < j)
      BY <3>3, SegmentsAre
    <3>5. j < i
      BY <3>3, <3>4, SegmentsAre
    <3>. QED  BY <1>1, <1>7, <3>2, <3>5 DEF GuardsNeverStop
  <2>. QED  BY <1>1, <1>2, <1>7, <2>1, <2>2 DEF IaeInv, LiveGapsAreContiguous, FirstRetests
<1>8. ASSUME ~twice, Learn(key, next), NEW varied, NEW eligible, NEW strong,
             Advance(bar, end, left, prior, varied, eligible, strong)
      PROVE  IaeInv' /\ FirstRetests
  <2>1. /\ stopped' = "none" /\ WindowRight' /\ GapsRight' /\ LiveGapsAreContiguous'
        /\ FirstRetests
    BY <1>1, <1>2, <1>5, <1>8, AdvanceStep
  <2>2. /\ next \in Seq(SessionIds)
        /\ \A n \in DOMAIN next : next[n] = id \/ \E m \in DOMAIN prior : next[n] = prior[m]
    <3>. DEFINE all == Append(prior, id)
                size == Len(prior)
    <3>1. id \in SessionIds
      BY DEF SessionIds
    <3>2. size \in Nat /\ DOMAIN prior = 1..size
      BY <1>4, LenProperties
    <3>3. all \in Seq(SessionIds) /\ Len(all) = size + 1 /\ DOMAIN all = 1..(size + 1)
      BY <1>4, <3>1, AppendProperties, LenProperties
    <3>4. \A n \in 1..(size + 1) : all[n] = IF n <= size THEN prior[n] ELSE id
      BY <1>4, <3>1, <3>2, AppendProperties
    <3>. HIDE DEF all, size
    <3>5. \A n \in DOMAIN all : all[n] = id \/ \E m \in DOMAIN prior : all[n] = prior[m]
      BY <3>2, <3>3, <3>4
    <3>6. next = all \/ next = Tail(all)
      BY DEF Latest, all
    <3>. HIDE DEF next
    <3>7. CASE next = Tail(all)
      <4>1. all # <<>>
        BY <3>2, <3>3, EmptySeq
      <4>2. Tail(all) \in Seq(SessionIds) /\ Len(Tail(all)) = Len(all) - 1
        BY <3>3, <4>1, HeadTailProperties
      <4>3. \A n \in 1..Len(Tail(all)) : Tail(all)[n] = all[n + 1]
        BY <3>3, <4>1, HeadTailProperties
      <4>4. \A n \in DOMAIN Tail(all) : n + 1 \in DOMAIN all /\ Tail(all)[n] = all[n + 1]
        BY <3>2, <3>3, <4>2, <4>3, LenProperties
      <4>. QED  BY <3>5, <3>7, <4>2, <4>4
    <3>. QED  BY <3>3, <3>5, <3>6, <3>7
  <2>3. BucketsRight'
    <3>. HIDE DEF next
    <3>. QED  BY <1>6, <1>8, <2>2
  <2>4. GuardsNeverStop'
    BY <2>1 DEF GuardsNeverStop
  <2>. QED  BY <1>1, <1>2, <2>1, <2>3, <2>4 DEF IaeInv
<1>. QED  BY <1>1, <1>7, <1>8

(* The engine starts with nothing.                                         *)
LEMMA IaeStarts == Init => IaeInv
<1>. SUFFICES ASSUME Init PROVE IaeInv
  OBVIOUS
<1>1. /\ lastEnd = 0 /\ window = <<>> /\ DOMAIN gaps = {} /\ DOMAIN seasonal = {}
      /\ stopped = "none" /\ reported = {}
  BY DEF Init, None
<1>2. <<>> \in Seq(Bars) /\ Len(<<>>) = 0
  BY EmptySeq
<1>3. WindowRight
  BY <1>1, <1>2 DEF WindowRight
<1>4. GapsRight
  BY <1>1, FS_EmptySet DEF GapsRight
<1>. QED  BY <1>1, <1>3, <1>4 DEF IaeInv, BucketsRight, GuardsNeverStop, LiveGapsAreContiguous

(* A step that changes none of its variables keeps its invariant.          *)
LEMMA IaeStutters == IaeInv /\ UNCHANGED vars => IaeInv'
<1>. SUFFICES ASSUME IaeInv, UNCHANGED vars PROVE IaeInv'
  OBVIOUS
<1>1. /\ lastEnd' = lastEnd /\ session' = session /\ window' = window /\ gaps' = gaps
      /\ seasonal' = seasonal /\ stopped' = stopped /\ reported' = reported
  BY DEF vars
<1>2. BucketsRight'
  BY <1>1 DEF IaeInv, BucketsRight
<1>3. GuardsNeverStop'
  BY <1>1 DEF IaeInv, GuardsNeverStop
<1>4. LiveGapsAreContiguous'
  BY <1>1 DEF IaeInv, LiveGapsAreContiguous
<1>5. WindowRight => WindowRight'
  BY <1>1 DEF WindowRight
<1>6. GapsRight => GapsRight'
  BY <1>1 DEF GapsRight
<1>. QED  BY <1>1, <1>2, <1>3, <1>4, <1>5, <1>6 DEF IaeInv

(* Every step keeps the invariant of the gap engine.                       *)
LEMMA IaeStep == IaeInv /\ [IndicatorNext]_indicatorVars => IaeInv' /\ (UNCHANGED vars \/ FirstRetests)
<1>. SUFFICES ASSUME IaeInv, [IndicatorNext]_indicatorVars
              PROVE  IaeInv' /\ (UNCHANGED vars \/ FirstRetests)
  OBVIOUS
<1>1. Next \/ UNCHANGED vars
  BY DEF IndicatorNext, indicatorVars
<1>2. CASE UNCHANGED vars
  BY <1>2, IaeStutters
<1>3. CASE Next
  <2>1. PICK i \in DOMAIN Segments :
          \E end \in Ends \cap ((Segments[i].start + 1)..Segments[i].end) :
            \E bar \in Bars : OnBar(bar, Segments[i], end)
    BY <1>3 DEF Next
  <2>2. PICK end \in Ends \cap ((Segments[i].start + 1)..Segments[i].end) :
          \E bar \in Bars : OnBar(bar, Segments[i], end)
    BY <2>1
  <2>3. PICK bar \in Bars : OnBar(bar, Segments[i], end)
    BY <2>2
  <2>. QED  BY <2>3, OnBarStep
<1>. QED  BY <1>1, <1>2, <1>3

(* The invariant of the gap engine: what it holds is of one segment of the *)
(* session and of consecutive bars, and the gaps it has not yet reported   *)
(* are those no bar has tested.                                            *)
THEOREM GapEngineInvariance == IndicatorSpec => []IaeInv
<1>1. IndicatorInit => IaeInv
  BY IaeStarts DEF IndicatorInit
<1>2. IaeInv /\ [IndicatorNext]_indicatorVars => IaeInv'
  BY IaeStep
<1>. QED  BY <1>1, <1>2, PTL DEF IndicatorSpec

(* A live gap is as old as the bars since it formed, all of its session    *)
(* and none missing, and never above the age limit.                        *)
THEOREM GapsAreContiguous == IndicatorSpec => []LiveGapsAreContiguous
<1>1. IaeInv => LiveGapsAreContiguous
  BY DEF IaeInv
<1>. QED  BY <1>1, GapEngineInvariance, PTL

(* The identities of the snapshots of a bar never collide, and a bucket    *)
(* meets a session twice only when a closure had cut the session.          *)
THEOREM GuardsHold == IndicatorSpec => []GuardsNeverStop
<1>1. IaeInv => GuardsNeverStop
  BY DEF IaeInv
<1>. QED  BY <1>1, GapEngineInvariance, PTL

(* A first retest is reported once in the life of a gap, by a bar after    *)
(* the one that formed it, with the gap as that bar leaves it.             *)
THEOREM RetestsReportedOnce == IndicatorSpec => FirstRetestOnce
<1>1. IaeInv /\ [IndicatorNext]_indicatorVars =>
        [\A s \in update'.retests :
           lastEnd' # lastEnd /\ stopped' = "none" =>
             /\ s.gap.id \notin reported
             /\ s.gap.id \in DOMAIN gaps
             /\ s.asOf = lastEnd'
             /\ s.gap.state = IF s.gap.id \in DOMAIN gaps' THEN "TESTED" ELSE "ABSORBED"
             /\ s.active >= Cardinality((DOMAIN gaps') \ {lastEnd'})]_vars
  BY IaeStep DEF FirstRetests
<1>. QED  BY <1>1, GapEngineInvariance, PTL DEF IndicatorSpec, FirstRetestOnce

-----------------------------------------------------------------------------
(* The memories of the medium clock *)

Increasing(list) == \A i, j \in DOMAIN list : i < j => list[i] < list[j]

(* A memory is bounded, in order, and what it forgot of the bars is older  *)
(* than what it holds; it forgets nothing before it is full.               *)
Memory(list, S, size) ==
    /\ list \in Seq(Nat) /\ Len(list) <= size
    /\ Increasing(list)
    /\ ToSet(list) \subseteq S
    /\ Len(list) = size \/ ToSet(list) = S
    /\ \A b \in S \ ToSet(list), i \in DOMAIN list : b < list[i]

Dropped(list, size) == IF Len(list) < size THEN 0 ELSE 1

Shifted(next, list, x, n, d) ==
    /\ n \in Nat /\ DOMAIN list = 1..n /\ d \in Nat /\ d <= 1 /\ d <= n
    /\ Len(next) = n + 1 - d /\ DOMAIN next = 1..(n + 1 - d)
    /\ \A i \in 1..(n + 1 - d) : IF i + d <= n THEN next[i] = list[i + d] ELSE next[i] = x

(* What appending to a bounded list leaves. *)
LEMMA BoundedIs ==
    ASSUME NEW T, NEW list \in Seq(T), NEW x \in T, NEW size \in Nat \ {0}, Len(list) <= size
    PROVE  /\ Bounded(Append(list, x), size) \in Seq(T)
           /\ Shifted(Bounded(Append(list, x), size), list, x, Len(list), Dropped(list, size))
<1>. DEFINE all == Append(list, x)
            n   == Len(list)
<1>1. n \in Nat /\ DOMAIN list = 1..n /\ n <= size
  BY LenProperties
<1>2. all \in Seq(T) /\ Len(all) = n + 1 /\ DOMAIN all = 1..(n + 1)
  BY AppendProperties, LenProperties
<1>3. \A i \in 1..(n + 1) : all[i] = IF i <= n THEN list[i] ELSE x
  BY AppendProperties, LenProperties
<1>4. CASE n < size
  <2>1. Dropped(list, size) = 0
    BY <1>4 DEF Dropped
  <2>2. Bounded(all, size) = all
    <3>1. ~ (Len(all) > size)
      BY <1>1, <1>2, <1>4
    <3>. QED  BY <3>1 DEF Bounded
  <2>. HIDE DEF all, n
  <2>3. \A i \in 1..(n + 1) : IF i + 0 <= n THEN all[i] = list[i + 0] ELSE all[i] = x
    BY <1>1, <1>3
  <2>4. n + 1 - 0 = n + 1 /\ 0 <= n /\ 0 \in Nat /\ 0 <= 1
    BY <1>1
  <2>5. Shifted(all, list, x, n, 0)
    BY <1>1, <1>2, <2>3, <2>4 DEF Shifted
  <2>. QED  BY <1>2, <2>1, <2>2, <2>5 DEF all, n
<1>5. CASE ~ (n < size)
  <2>1. Dropped(list, size) = 1
    BY <1>5 DEF Dropped
  <2>0. n >= 1
    <3>. HIDE DEF n
    <3>. QED  BY <1>1, <1>5
  <2>2. Bounded(all, size) = Tail(all)
    <3>1. Len(all) > size
      BY <1>1, <1>2, <1>5
    <3>. QED  BY <3>1 DEF Bounded
  <2>3. all # <<>>
    BY <1>1, <1>2, EmptySeq
  <2>4. Tail(all) \in Seq(T) /\ Len(Tail(all)) = n
    BY <1>1, <1>2, <2>3, HeadTailProperties
  <2>5. \A i \in 1..n : Tail(all)[i] = all[i + 1]
    BY <1>2, <2>3, <2>4, HeadTailProperties
  <2>6. DOMAIN Tail(all) = 1..n
    BY <2>4, LenProperties
  <2>. HIDE DEF all, n
  <2>7. \A i \in 1..n : IF i + 1 <= n THEN Tail(all)[i] = list[i + 1] ELSE Tail(all)[i] = x
    <3>. SUFFICES ASSUME NEW i \in 1..n
                  PROVE  IF i + 1 <= n THEN Tail(all)[i] = list[i + 1] ELSE Tail(all)[i] = x
      OBVIOUS
    <3>1. i + 1 \in 1..(n + 1)
      BY <1>1
    <3>. QED  BY <1>3, <2>5, <3>1
  <2>8. n + 1 - 1 = n /\ 1 <= n /\ 1 \in Nat /\ 1 <= 1
    BY <1>1, <2>0
  <2>9. Shifted(Tail(all), list, x, n, 1)
    BY <1>1, <2>4, <2>6, <2>7, <2>8 DEF Shifted
  <2>. QED  BY <2>1, <2>2, <2>4, <2>9 DEF all, n
<1>. QED  BY <1>4, <1>5

(* A memory that takes a bar younger than all before it stays one. *)
LEMMA MemoryLearns ==
    ASSUME NEW list, NEW S, NEW size \in Nat \ {0}, Memory(list, S, size),
           NEW x \in Nat, \A b \in S : b \in Nat /\ b < x
    PROVE  Memory(Bounded(Append(list, x), size), S \cup {x}, size)
<1>. DEFINE next == Bounded(Append(list, x), size)
            n    == Len(list)
            d    == Dropped(list, size)
<1>1. /\ list \in Seq(Nat) /\ n <= size /\ Increasing(list) /\ ToSet(list) \subseteq S
      /\ n = size \/ ToSet(list) = S
      /\ \A b \in S \ ToSet(list), i \in DOMAIN list : b < list[i]
  BY DEF Memory
<1>0. next \in Seq(Nat) /\ Shifted(next, list, x, n, d)
  BY <1>1, BoundedIs
<1>3. d = (IF n < size THEN 0 ELSE 1)
  BY DEF Dropped
<1>. HIDE DEF next, n, d
<1>2. /\ next \in Seq(Nat) /\ n \in Nat /\ DOMAIN list = 1..n /\ d \in Nat /\ d <= 1 /\ d <= n
      /\ Len(next) = n + 1 - d /\ DOMAIN next = 1..(n + 1 - d)
  BY <1>0 DEF Shifted
<1>13. \A i \in 1..(n + 1 - d) : i + d <= n => i + d \in 1..n /\ next[i] = list[i + d]
  BY <1>0 DEF Shifted
<1>14. \A i \in 1..(n + 1 - d) : ~(i + d <= n) => i + d = n + 1 /\ next[i] = x
  BY <1>0 DEF Shifted
<1>4. Len(next) <= size /\ (n < size \/ Len(next) = size)
  BY <1>1, <1>2, <1>3
<1>5. \A i \in 1..n : list[i] \in Nat /\ list[i] \in S /\ list[i] < x
  BY <1>1, <1>2 DEF ToSet
<1>6. \A i, j \in 1..n : i < j => list[i] < list[j]
  BY <1>1, <1>2 DEF Increasing
<1>7. Increasing(next)
  <2>. SUFFICES ASSUME NEW i \in 1..(n + 1 - d), NEW j \in 1..(n + 1 - d), i < j
                PROVE  next[i] < next[j]
    BY <1>2 DEF Increasing
  <2>1. i + d \in 1..n /\ (j + d \in 1..n \/ j + d = n + 1) /\ i + d < j + d
    BY <1>2
  <2>2. CASE j + d \in 1..n
    <3>1. next[i] = list[i + d] /\ next[j] = list[j + d]
      <4>1. i + d <= n /\ j + d <= n
        BY <1>2, <2>1, <2>2
      <4>. QED  BY <1>13, <4>1
    <3>. QED  BY <1>6, <2>1, <2>2, <3>1
  <2>3. CASE j + d = n + 1
    <3>1. next[i] = list[i + d] /\ next[j] = x
      <4>1. i + d <= n /\ ~(j + d <= n)
        BY <1>2, <2>1, <2>3
      <4>. QED  BY <1>13, <1>14, <4>1
    <3>. QED  BY <1>5, <2>1, <3>1
  <2>. QED  BY <2>1, <2>2, <2>3
<1>8. ToSet(next) = {list[i] : i \in (d + 1)..n} \cup {x}
  <2>1. \A i \in 1..(n + 1 - d) : next[i] = x \/ \E j \in (d + 1)..n : next[i] = list[j]
    <3>. SUFFICES ASSUME NEW i \in 1..(n + 1 - d), next[i] # x
                  PROVE  \E j \in (d + 1)..n : next[i] = list[j]
      OBVIOUS
    <3>1. i + d <= n /\ next[i] = list[i + d]
      BY <1>13, <1>14
    <3>2. i + d \in (d + 1)..n
      BY <1>2, <3>1
    <3>. QED  BY <3>1, <3>2
  <2>2. next[n + 1 - d] = x /\ n + 1 - d \in 1..(n + 1 - d)
    <3>1. n + 1 - d \in 1..(n + 1 - d) /\ ~((n + 1 - d) + d <= n)
      BY <1>2
    <3>. QED  BY <1>14, <3>1
  <2>3. \A j \in (d + 1)..n : \E i \in 1..(n + 1 - d) : next[i] = list[j]
    <3>. SUFFICES ASSUME NEW j \in (d + 1)..n
                  PROVE  \E i \in 1..(n + 1 - d) : next[i] = list[j]
      OBVIOUS
    <3>1. j - d \in 1..(n + 1 - d) /\ (j - d) + d = j /\ j <= n
      BY <1>2
    <3>2. next[j - d] = list[j]
      BY <1>13, <3>1
    <3>. QED  BY <3>1, <3>2
  <2>4. ToSet(next) = {next[i] : i \in 1..(n + 1 - d)}
    BY <1>2 DEF ToSet
  <2>. QED  BY <2>1, <2>2, <2>3, <2>4
<1>9. ToSet(list) = {list[i] : i \in 1..n}
  BY <1>2 DEF ToSet
<1>10. ToSet(next) \subseteq S \cup {x}
  <2>1. (d + 1)..n \subseteq 1..n
    BY <1>2
  <2>. QED  BY <1>5, <1>8, <2>1
<1>11. Len(next) = size \/ ToSet(next) = S \cup {x}
  <2>. SUFFICES ASSUME n < size PROVE ToSet(next) = S \cup {x}
    BY <1>4
  <2>1. d = 0 /\ (d + 1)..n = 1..n
    BY <1>2, <1>3
  <2>2. ToSet(list) = S
    BY <1>1, <1>2
  <2>. QED  BY <1>8, <1>9, <2>1, <2>2
<1>12. ASSUME NEW b \in (S \cup {x}) \ ToSet(next), NEW i \in DOMAIN next PROVE b < next[i]
  <2>1. b \in S /\ b < x /\ b \in Nat
    BY <1>8
  <2>2. CASE next[i] = x
    BY <2>1, <2>2
  <2>3. CASE next[i] # x
    <3>0. i \in 1..(n + 1 - d)
      BY <1>2
    <3>4. i + d \in 1..n /\ next[i] = list[i + d]
      BY <1>13, <1>14, <2>3, <3>0
    <3>1. i \in Nat /\ i >= 1 /\ i + d \in 1..n /\ i + d >= d + 1 /\ next[i] = list[i + d]
      BY <1>2, <3>0, <3>4
    <3>2. CASE b \notin ToSet(list)
      <4>1. b \in S \ ToSet(list) /\ i + d \in DOMAIN list
        BY <1>2, <2>1, <3>2, <3>4
      <4>. QED  BY <1>1, <3>4, <4>1
    <3>3. CASE b \in ToSet(list)
      <4>1. PICK j \in 1..n : b = list[j]
        BY <1>9, <3>3
      <4>2. j \notin (d + 1)..n
        BY <1>8, <4>1
      <4>3. j < i + d
        BY <1>2, <3>1, <4>2
      <4>. QED  BY <1>6, <3>1, <4>1, <4>3
    <3>. QED  BY <3>2, <3>3
  <2>. QED  BY <2>2, <2>3
<1>. QED  BY <1>2, <1>4, <1>7, <1>10, <1>11, <1>12 DEF Memory, next

(* An empty memory holds the latest of no bars.                            *)
LEMMA MemoryEmpty ==
    ASSUME NEW size \in Nat
    PROVE  Memory(<<>>, {}, size)
<1>1. <<>> \in Seq(Nat) /\ Len(<<>>) = 0 /\ DOMAIN <<>> = {}
  BY EmptySeq, LenProperties
<1>. QED  BY <1>1 DEF Memory, Increasing, ToSet

(* As many values as indices, when no two are alike. *)
LEMMA ImageSize ==
    ASSUME NEW I, IsFiniteSet(I), NEW f, \A i, j \in I : f[i] = f[j] => i = j
    PROVE  /\ IsFiniteSet({f[i] : i \in I})
           /\ Cardinality({f[i] : i \in I}) = Cardinality(I)
<1>. DEFINE T == {f[i] : i \in I}
            g == [i \in I |-> f[i]]
<1>1. g \in Bijection(I, T)
  BY DEF Bijection, Injection, Surjection, IsInjective
<1>2. ExistsBijection(I, T)
  <2>. HIDE DEF g, T
  <2>. QED  BY <1>1 DEF ExistsBijection
<1>. HIDE DEF T
<1>3. IsFiniteSet(T) /\ Cardinality(T) = Cardinality(I)
  BY <1>2, FS_Bijection
<1>. QED  BY <1>3 DEF T

(* The elements of a memory: increasing, so distinct, and as many as its   *)
(* length.                                                                 *)
LEMMA MemoryIs ==
    ASSUME NEW list, NEW S, NEW size \in Nat, Memory(list, S, size)
    PROVE  /\ Len(list) \in Nat /\ Len(list) <= size
           /\ DOMAIN list = 1..Len(list)
           /\ \A i \in 1..Len(list) : list[i] \in Nat /\ list[i] \in S
           /\ \A i, j \in 1..Len(list) : i < j => list[i] < list[j]
           /\ \A i, j \in 1..Len(list) : list[i] = list[j] => i = j
           /\ ToSet(list) = {list[i] : i \in 1..Len(list)}
           /\ IsFiniteSet(ToSet(list)) /\ Cardinality(ToSet(list)) = Len(list)
<1>. DEFINE n == Len(list)
<1>1. n \in Nat /\ n <= size /\ DOMAIN list = 1..n
  BY LenProperties DEF Memory
<1>2. ToSet(list) = {list[i] : i \in 1..n}
  BY <1>1 DEF ToSet
<1>3. \A i \in 1..n : list[i] \in Nat /\ list[i] \in S
  <2>1. list \in Seq(Nat) /\ ToSet(list) \subseteq S
    BY DEF Memory
  <2>2. \A i \in 1..n : list[i] \in Nat
    BY <2>1, ElementOfSeq
  <2>. QED  BY <1>2, <2>1, <2>2
<1>4. \A i, j \in 1..n : i < j => list[i] < list[j]
  BY <1>1 DEF Memory, Increasing
<1>5. \A i, j \in 1..n : list[i] = list[j] => i = j
  <2>. HIDE DEF n
  <2>. SUFFICES ASSUME NEW i \in 1..n, NEW j \in 1..n, list[i] = list[j], i # j PROVE FALSE
    OBVIOUS
  <2>1. i < j \/ j < i
    BY <1>1
  <2>2. list[i] \in Nat /\ list[j] \in Nat
    BY <1>3
  <2>. QED  BY <1>4, <2>1, <2>2
<1>. HIDE DEF n
<1>6. IsFiniteSet(1..n) /\ Cardinality(1..n) = n
  <2>1. 1 \in Int /\ n \in Int
    BY <1>1
  <2>2. IsFiniteSet(1..n) /\ Cardinality(1..n) = IF 1 > n THEN 0 ELSE n - 1 + 1
    BY ONLY <2>1, FS_Interval
  <2>. QED  BY <1>1, <2>2
<1>7. IsFiniteSet(ToSet(list)) /\ Cardinality(ToSet(list)) = n
  <2>. DEFINE I == 1..n
  <2>1. IsFiniteSet(I) /\ Cardinality(I) = n /\ ToSet(list) = {list[i] : i \in I}
    BY <1>2, <1>6
  <2>2. \A i, j \in I : list[i] = list[j] => i = j
    BY <1>5
  <2>. HIDE DEF I
  <2>. QED  BY <2>1, <2>2, ImageSize
<1>. QED  BY <1>1, <1>2, <1>3, <1>4, <1>5, <1>7 DEF n

(* A memory is full exactly when there is enough to fill it. *)
LEMMA MemoryCounts ==
    ASSUME NEW list, NEW S, IsFiniteSet(S), NEW size \in Nat, Memory(list, S, size),
           NEW m \in Nat, m <= size
    PROVE  Len(list) >= m <=> Cardinality(S) >= m
<1>1. /\ Len(list) \in Nat /\ Len(list) <= size
      /\ IsFiniteSet(ToSet(list)) /\ Cardinality(ToSet(list)) = Len(list)
  BY MemoryIs
<1>2. ToSet(list) \subseteq S /\ (Len(list) = size \/ ToSet(list) = S)
  BY DEF Memory
<1>3. Cardinality(ToSet(list)) <= Cardinality(S)
  BY <1>2, FS_Subset
<1>4. Cardinality(S) \in Nat
  BY FS_CardinalityType
<1>5. Len(list) <= Cardinality(S)
  BY <1>1, <1>3
<1>6. Len(list) = size \/ Len(list) = Cardinality(S)
  BY <1>1, <1>2
<1>. QED  BY <1>1, <1>4, <1>5, <1>6

(* What a memory holds is the latest of the bars. *)
LEMMA MemoryHolds ==
    ASSUME NEW list, NEW S, IsFiniteSet(S), S \subseteq Nat, NEW size \in Nat, Memory(list, S, size)
    PROVE  HoldsLatest(list, S, size)
<1>. DEFINE n == Len(list)
            later(b) == {c \in S : b < c}
<1>1. /\ n \in Nat /\ n <= size /\ DOMAIN list = 1..n
      /\ \A i \in 1..n : list[i] \in Nat /\ list[i] \in S
      /\ \A i, j \in 1..n : i < j => list[i] < list[j]
      /\ \A i, j \in 1..n : list[i] = list[j] => i = j
      /\ ToSet(list) = {list[i] : i \in 1..n}
      /\ IsFiniteSet(ToSet(list)) /\ Cardinality(ToSet(list)) = n
  BY MemoryIs
<1>2. /\ n = size \/ ToSet(list) = S
      /\ \A b \in S \ ToSet(list), i \in 1..n : b < list[i]
  BY <1>1 DEF Memory
<1>. HIDE DEF n
<1>3. ASSUME NEW i \in 1..n PROVE Cardinality(later(list[i])) < size
  <2>1. later(list[i]) = {list[j] : j \in (i + 1)..n}
    <3>1. ASSUME NEW c \in S, list[i] < c PROVE \E j \in (i + 1)..n : c = list[j]
      <4>1. c \in Nat /\ list[i] \in Nat
        BY <1>1
      <4>2. c \in ToSet(list)
        <5>. SUFFICES ASSUME c \notin ToSet(list) PROVE FALSE
          OBVIOUS
        <5>1. c < list[i]
          BY <1>2
        <5>. QED  BY <3>1, <4>1, <5>1
      <4>3. PICK j \in 1..n : c = list[j]
        BY <1>1, <4>2
      <4>4. ~ (j < i) /\ j # i
        BY <1>1, <3>1, <4>1, <4>3
      <4>5. j \in (i + 1)..n
        BY <1>1, <4>4
      <4>. QED  BY <4>3, <4>5
    <3>2. ASSUME NEW j \in (i + 1)..n PROVE list[j] \in S /\ list[i] < list[j]
      BY <1>1
    <3>. QED  BY <3>1, <3>2
  <2>. DEFINE lo == i + 1
              I  == lo..n
  <2>2. lo \in Int /\ n \in Int
    BY <1>1
  <2>. HIDE DEF lo
  <2>3. IsFiniteSet(I) /\ Cardinality(I) = IF lo > n THEN 0 ELSE n - lo + 1
    BY <2>2, FS_Interval
  <2>4. \A j, k \in I : list[j] = list[k] => j = k
    BY <1>1 DEF lo
  <2>5. Cardinality(I) < size
    BY <1>1, <2>3 DEF lo
  <2>6. later(list[i]) = {list[j] : j \in I}
    BY <2>1 DEF lo
  <2>. HIDE DEF I, later
  <2>7. Cardinality({list[j] : j \in I}) = Cardinality(I)
    BY <2>3, <2>4, ImageSize
  <2>. QED  BY <2>5, <2>6, <2>7
<1>4. ASSUME NEW b \in S, b \notin ToSet(list) PROVE ~ (Cardinality(later(b)) < size)
  <2>1. n = size
    BY <1>2, <1>4
  <2>2. ToSet(list) \subseteq later(b)
    BY <1>1, <1>2, <1>4
  <2>3. IsFiniteSet(later(b))
    BY FS_Subset
  <2>4. Cardinality(ToSet(list)) <= Cardinality(later(b)) /\ Cardinality(later(b)) \in Nat
    <3>. HIDE DEF later
    <3>. QED  BY <2>2, <2>3, FS_Subset, FS_CardinalityType
  <2>. QED  BY <1>1, <2>1, <2>4
<1>5. ToSet(list) = LatestOf(S, size)
  <2>1. LatestOf(S, size) = {b \in S : Cardinality(later(b)) < size}
    BY DEF LatestOf
  <2>. HIDE DEF later
  <2>2. ASSUME NEW b \in S PROVE b \in ToSet(list) <=> Cardinality(later(b)) < size
    <3>1. CASE b \in ToSet(list)
      <4>1. PICK i \in 1..n : b = list[i]
        BY <1>1, <3>1
      <4>. QED  BY <1>3, <3>1, <4>1
    <3>2. CASE b \notin ToSet(list)
      BY <1>4, <3>2
    <3>. QED  BY <3>1, <3>2
  <2>3. ToSet(list) \subseteq S
    BY DEF Memory
  <2>. QED  BY <2>1, <2>2, <2>3
<1>. QED  BY <1>1, <1>5 DEF HoldsLatest

(* The bars of a list of pairs *)
LEMMA BarsOfBounded ==
    ASSUME NEW P, \A p \in P : p[2] \in Nat, NEW list \in Seq(P), NEW pair \in P,
           NEW size \in Nat \ {0}, Len(list) <= size
    PROVE  /\ Bounded(Append(list, pair), size) \in Seq(P)
           /\ BarsOf(list) \in Seq(Nat) /\ Len(BarsOf(list)) = Len(list)
           /\ BarsOf(Bounded(Append(list, pair), size)) = Bounded(Append(BarsOf(list), pair[2]), size)
<1>. DEFINE bar == pair[2]
            next == Bounded(Append(list, pair), size)
            bars == BarsOf(list)
            last == Bounded(Append(bars, bar), size)
            n == Len(list)
            d == Dropped(list, size)
<1>1. n \in Nat /\ DOMAIN list = 1..n /\ \A i \in 1..n : list[i] \in P
  BY LenProperties, ElementOfSeq
<1>2. bars = [i \in 1..n |-> list[i][2]] /\ \A i \in 1..n : bars[i] = list[i][2] /\ bars[i] \in Nat
  BY <1>1 DEF BarsOf
<1>3. bars \in Seq(Nat) /\ Len(bars) = n
  <2>. HIDE DEF n
  <2>. QED  BY <1>1, <1>2, IsASeq, LenProperties
<1>4. next \in Seq(P) /\ Shifted(next, list, pair, n, d)
  BY BoundedIs
<1>5. last \in Seq(Nat) /\ Shifted(last, bars, bar, n, d)
  <2>1. Dropped(bars, size) = d
    BY <1>3 DEF Dropped
  <2>2. Len(bars) <= size
    BY <1>3
  <2>3. bar \in Nat
    OBVIOUS
  <2>. HIDE DEF bars, d, n, bar
  <2>. QED  BY <1>3, <2>1, <2>2, <2>3, BoundedIs
<1>6. BarsOf(next) = [i \in DOMAIN next |-> next[i][2]]
  BY DEF BarsOf
<1>7. pair[2] = bar
  OBVIOUS
<1>. HIDE DEF next, last, bars, n, d, bar
<1>8. DOMAIN next = 1..(n + 1 - d) /\ DOMAIN last = 1..(n + 1 - d)
  BY <1>4, <1>5 DEF Shifted
<1>9. ASSUME NEW i \in 1..(n + 1 - d) PROVE next[i][2] = last[i]
  <2>1. CASE i + d <= n
    <3>1. next[i] = list[i + d] /\ last[i] = bars[i + d]
      BY <1>4, <1>5, <2>1 DEF Shifted
    <3>2. i + d \in 1..n
      BY <1>4, <2>1 DEF Shifted
    <3>. QED  BY <1>2, <3>1, <3>2
  <2>2. CASE ~ (i + d <= n)
    <3>1. next[i] = pair /\ last[i] = bar
      BY <1>4, <1>5, <2>2 DEF Shifted
    <3>. QED  BY <1>7, <3>1
  <2>. QED  BY <2>1, <2>2
<1>10. last = [i \in DOMAIN last |-> last[i]]
  BY <1>5 DEF last
<1>11. BarsOf(next) = last
  BY <1>6, <1>8, <1>9, <1>10
<1>. QED  BY <1>3, <1>4, <1>11 DEF next, last, bars, n, bar

-----------------------------------------------------------------------------
(* The bars of the medium clock and their segments *)

InSegment(bar) ==
    \E i \in DOMAIN MediumSegments : MediumSegments[i].start < bar /\ bar <= MediumSegments[i].end

(* Segments of the medium clock follow each other.                         *)
LEMMA MediumSegmentsAre ==
    ASSUME NEW i \in DOMAIN MediumSegments, NEW k \in DOMAIN MediumSegments
    PROVE  /\ i \in Nat /\ k \in Nat
           /\ MediumSegments[i].start \in Nat /\ MediumSegments[i].end \in Nat
           /\ MediumSegments[i].start < MediumSegments[i].end
           /\ i < k => MediumSegments[i].end <= MediumSegments[k].start
<1>1. MediumSegments[i].start \in Nat /\ MediumSegments[i].end \in Nat
  BY MediumAssumption
<1>2. MediumSegments[i].start < MediumSegments[i].end
  BY MediumAssumption
<1>3. i < k => MediumSegments[i].end <= MediumSegments[k].start
  BY MediumAssumption
<1>4. i \in Nat /\ k \in Nat
  BY MediumAssumption
<1>. QED  BY <1>1, <1>2, <1>3, <1>4

(* The segment of a bar is the one that contains it. *)
LEMMA SegmentOfIs ==
    ASSUME NEW bar \in Nat, InSegment(bar)
    PROVE  /\ SegmentOf(bar) \in DOMAIN MediumSegments
           /\ MediumSegments[SegmentOf(bar)].start < bar
           /\ bar <= MediumSegments[SegmentOf(bar)].end
<1>. QED  BY DEF SegmentOf, InSegment

(* Segments follow each other as their bars do. *)
LEMMA SegmentsFollow ==
    ASSUME NEW b \in Nat, NEW c \in Nat, InSegment(b), InSegment(c), b <= c
    PROVE  SegmentOf(b) \in Nat /\ SegmentOf(c) \in Nat /\ SegmentOf(b) <= SegmentOf(c)
<1>. DEFINE i == SegmentOf(b)
            k == SegmentOf(c)
<1>1. /\ i \in DOMAIN MediumSegments /\ k \in DOMAIN MediumSegments
      /\ MediumSegments[i].start < b /\ c <= MediumSegments[k].end
  BY SegmentOfIs
<1>. HIDE DEF i, k
<1>2. /\ i \in Nat /\ k \in Nat
      /\ MediumSegments[i].start \in Nat /\ MediumSegments[k].end \in Nat
      /\ k < i => MediumSegments[k].end <= MediumSegments[i].start
  <2>1. i \in Nat /\ MediumSegments[i].start \in Nat
    BY <1>1, MediumSegmentsAre
  <2>2. k \in Nat /\ MediumSegments[k].end \in Nat
    BY <1>1, MediumSegmentsAre
  <2>3. k < i => MediumSegments[k].end <= MediumSegments[i].start
    BY <1>1, MediumSegmentsAre
  <2>. QED  BY <2>1, <2>2, <2>3
<1>3. ~ (k < i)
  BY <1>1, <1>2
<1>. QED  BY <1>2, <1>3 DEF i, k

(* A session that a bar has left does not come back. *)
LEMMA SessionsDoNotReturn ==
    ASSUME NEW b \in Nat, NEW c \in Nat, NEW d \in Nat, InSegment(b), InSegment(c), InSegment(d),
           b <= c, c <= d, SessionOfBar(b) = SessionOfBar(d)
    PROVE  SessionOfBar(c) = SessionOfBar(d)
<1>. DEFINE i == SegmentOf(b)
            k == SegmentOf(c)
            j == SegmentOf(d)
<1>1. i \in Nat /\ k \in Nat /\ j \in Nat /\ i <= k /\ k <= j
  BY SegmentsFollow
<1>2. i \in DOMAIN MediumSegments /\ k \in DOMAIN MediumSegments /\ j \in DOMAIN MediumSegments
  BY SegmentOfIs
<1>3. MediumSegments[i].id = MediumSegments[j].id
  BY DEF SessionOfBar
<1>. SUFFICES MediumSegments[k].id = MediumSegments[j].id
  BY DEF SessionOfBar
<1>. HIDE DEF i, k, j
<1>4. CASE k = i \/ k = j
  BY <1>3, <1>4
<1>5. CASE i < k /\ k < j
  <2>1. MediumSegments[k].id = MediumSegments[i].id
    BY <1>2, <1>3, <1>5, MediumAssumption
  <2>. QED  BY <1>3, <2>1
<1>. QED  BY <1>1, <1>4, <1>5

(* Two bars of one slot and one session, the later in a later segment: a   *)
(* closure cut the session.                                                *)
LEMMA SlotRepeats ==
    ASSUME NEW b \in Nat, NEW c \in Nat, InSegment(b), InSegment(c), b < c,
           KeyOf(b) = KeyOf(c), SessionOfBar(b) = SessionOfBar(c)
    PROVE  \E i, j \in DOMAIN MediumSegments :
             /\ i < j /\ MediumSegments[i].id = MediumSegments[j].id
             /\ MediumSegments[j].id = SessionOfBar(c)
<1>. DEFINE i == SegmentOf(b)
            k == SegmentOf(c)
<1>1. i \in Nat /\ k \in Nat /\ i <= k
  BY SegmentsFollow
<1>2. i \in DOMAIN MediumSegments /\ k \in DOMAIN MediumSegments
  BY SegmentOfIs
<1>3. MediumSegments[i].start \in Nat /\ MediumSegments[k].start \in Nat
  BY <1>2, MediumSegmentsAre
<1>4. b - 1 - MediumSegments[i].start = c - 1 - MediumSegments[k].start
  BY DEF KeyOf
<1>5. MediumSegments[i].id = SessionOfBar(b) /\ MediumSegments[k].id = SessionOfBar(c)
  BY DEF SessionOfBar
<1>. HIDE DEF i, k
<1>6. i # k
  BY <1>3, <1>4
<1>7. i < k
  BY <1>1, <1>6
<1>. QED  BY <1>2, <1>5, <1>7

-----------------------------------------------------------------------------
(* The bars delivered *)

DeliveredRight ==
    /\ delivered \in Seq(Nat) /\ Increasing(delivered)
    /\ \A n \in DOMAIN delivered : InSegment(delivered[n])

(* The bars delivered: increasing, in segments, finitely many.             *)
LEMMA DeliveredIs ==
    ASSUME DeliveredRight
    PROVE  /\ Len(delivered) \in Nat /\ DOMAIN delivered = 1..Len(delivered)
           /\ \A n \in 1..Len(delivered) : delivered[n] \in Nat /\ InSegment(delivered[n])
           /\ \A m, n \in 1..Len(delivered) : m < n => delivered[m] < delivered[n]
           /\ \A m, n \in 1..Len(delivered) : delivered[m] = delivered[n] => m = n
           /\ ToSet(delivered) = {delivered[n] : n \in 1..Len(delivered)}
           /\ \A bar \in ToSet(delivered) : bar \in Nat /\ InSegment(bar)
           /\ Opened \subseteq ToSet(delivered) /\ IsFiniteSet(Opened)
           /\ delivered = <<>> => Opened = {}
<1>. DEFINE size == Len(delivered)
<1>1. size \in Nat /\ DOMAIN delivered = 1..size
  BY LenProperties DEF DeliveredRight
<1>2. \A n \in 1..size : delivered[n] \in Nat
  BY ElementOfSeq DEF DeliveredRight
<1>3. \A n \in 1..size : InSegment(delivered[n])
  BY <1>1 DEF DeliveredRight
<1>4. \A m, n \in 1..size : m < n => delivered[m] < delivered[n]
  BY <1>1 DEF DeliveredRight, Increasing
<1>5. ToSet(delivered) = {delivered[n] : n \in 1..size}
  BY <1>1 DEF ToSet
<1>6. Opened = {delivered[n] : n \in 2..size}
  BY DEF Opened
<1>7. delivered = <<>> => size = 0
  BY EmptySeq
<1>. HIDE DEF size
<1>8. \A m, n \in 1..size : delivered[m] = delivered[n] => m = n
  <2>. SUFFICES ASSUME NEW m \in 1..size, NEW n \in 1..size, delivered[m] = delivered[n], m # n
                PROVE  FALSE
    OBVIOUS
  <2>1. m < n \/ n < m
    BY <1>1
  <2>2. delivered[m] \in Nat /\ delivered[n] \in Nat
    BY <1>2
  <2>. QED  BY <1>4, <2>1, <2>2
<1>9. Opened \subseteq ToSet(delivered) /\ (size = 0 => Opened = {})
  BY <1>1, <1>5, <1>6
<1>10. IsFiniteSet(Opened)
  <2>. DEFINE I == 2..size
  <2>1. 2 \in Int /\ size \in Int
    BY <1>1
  <2>2. IsFiniteSet(I)
    BY <2>1, FS_Interval
  <2>3. \A m, n \in I : delivered[m] = delivered[n] => m = n
    BY <1>1, <1>8
  <2>4. Opened = {delivered[n] : n \in I}
    BY <1>6
  <2>. HIDE DEF I
  <2>. QED  BY <2>2, <2>3, <2>4, ImageSize
<1>11. \A bar \in ToSet(delivered) : bar \in Nat /\ InSegment(bar)
  BY <1>2, <1>3, <1>5
<1>. QED  BY <1>1, <1>2, <1>3, <1>4, <1>5, <1>7, <1>8, <1>9, <1>10, <1>11 DEF size

(* What the next bar adds to the bars delivered. *)
Delivers(bar) ==
    /\ Len(delivered') = Len(delivered) + 1
    /\ \A n \in 1..Len(delivered) : delivered'[n] = delivered[n]
    /\ delivered'[Len(delivered) + 1] = bar
    /\ Last(delivered') = bar /\ delivered' # <<>>
    /\ ToSet(delivered') = ToSet(delivered) \cup {bar}
    /\ \A b \in ToSet(delivered) : b < bar
    /\ Opened' = IF delivered = <<>> THEN {} ELSE Opened \cup {bar}

(* A later bar joins the delivered ones at their end.                      *)
LEMMA Delivery ==
    ASSUME DeliveredRight, NEW bar \in Nat, InSegment(bar), bar > LastBar,
           delivered' = Append(delivered, bar)
    PROVE  DeliveredRight' /\ Delivers(bar)
<1>. DEFINE size == Len(delivered)
            next == Append(delivered, bar)
<1>1. /\ size \in Nat /\ DOMAIN delivered = 1..size
      /\ \A n \in 1..size : delivered[n] \in Nat /\ InSegment(delivered[n])
      /\ \A m, n \in 1..size : m < n => delivered[m] < delivered[n]
      /\ ToSet(delivered) = {delivered[n] : n \in 1..size}
  BY DeliveredIs
<1>2. next \in Seq(Nat) /\ Len(next) = size + 1 /\ DOMAIN next = 1..(size + 1)
  BY AppendProperties, LenProperties DEF DeliveredRight
<1>3. \A n \in 1..(size + 1) : next[n] = IF n <= size THEN delivered[n] ELSE bar
  BY AppendProperties, LenProperties DEF DeliveredRight
<1>4. size = 0 <=> delivered = <<>>
  BY EmptySeq DEF DeliveredRight
<1>5. size # 0 => LastBar = delivered[size]
  BY <1>4 DEF LastBar, Last
<1>6. Opened = {delivered[n] : n \in 2..size} /\ Opened' = {next[n] : n \in 2..Len(next)}
  BY DEF Opened
<1>7. Last(next) = next[Len(next)]
  BY DEF Last
<1>. HIDE DEF size, next
<1>8. \A n \in 1..size : delivered[n] < bar
  <2>. SUFFICES ASSUME NEW n \in 1..size PROVE delivered[n] < bar
    OBVIOUS
  <2>1. size # 0 /\ size \in 1..size /\ delivered[size] < bar /\ (n < size \/ n = size)
    BY <1>1, <1>5
  <2>2. delivered[n] \in Nat /\ delivered[size] \in Nat /\ (n < size => delivered[n] < delivered[size])
    BY <1>1, <2>1
  <2>. QED  BY <2>1, <2>2
<1>9. /\ \A n \in 1..size : n \in 1..(size + 1) /\ next[n] = delivered[n]
      /\ size + 1 \in 1..(size + 1) /\ next[size + 1] = bar
  BY <1>1, <1>3
<1>10. \A n \in 1..(size + 1) : n \in 1..size \/ n = size + 1
  BY <1>1
<1>11. Increasing(next)
  <2>. SUFFICES ASSUME NEW m \in 1..(size + 1), NEW n \in 1..(size + 1), m < n
                PROVE  next[m] < next[n]
    BY <1>2 DEF Increasing
  <2>1. m \in 1..size
    BY <1>1
  <2>2. CASE n \in 1..size
    BY <1>1, <1>9, <2>1, <2>2
  <2>3. CASE n = size + 1
    BY <1>8, <1>9, <2>1, <2>3
  <2>. QED  BY <1>10, <2>2, <2>3
<1>12. \A n \in DOMAIN next : InSegment(next[n])
  BY <1>1, <1>2, <1>9, <1>10
<1>13. ToSet(next) = ToSet(delivered) \cup {bar}
  <2>1. ToSet(next) = {next[n] : n \in 1..(size + 1)}
    BY <1>2 DEF ToSet
  <2>. QED  BY <1>1, <1>9, <1>10, <2>1
<1>14. next # <<>>
  BY <1>1, <1>2, EmptySeq
<1>15. Opened' = IF delivered = <<>> THEN {} ELSE Opened \cup {bar}
  <2>1. CASE size = 0
    <3>1. 2..Len(next) = {}
      BY <1>2, <2>1
    <3>. QED  BY <1>4, <1>6, <2>1, <3>1
  <2>2. CASE size # 0
    <3>1. /\ \A n \in 2..Len(next) : n \in 2..size \/ n = size + 1
          /\ \A n \in 2..size : n \in 2..Len(next) /\ n \in 1..size
          /\ size + 1 \in 2..Len(next)
      BY <1>1, <1>2, <2>2
    <3>2. {next[n] : n \in 2..Len(next)} = {delivered[n] : n \in 2..size} \cup {bar}
      BY <1>9, <3>1
    <3>. QED  BY <1>4, <1>6, <2>2, <3>2
  <2>. QED  BY <2>1, <2>2
<1>16. DeliveredRight'
  BY <1>2, <1>11, <1>12 DEF DeliveredRight, Increasing, next
<1>17. Last(next) = bar
  BY <1>2, <1>7, <1>9
<1>18. \A b \in ToSet(delivered) : b < bar
  BY <1>1, <1>8
<1>. QED  BY <1>2, <1>9, <1>13, <1>14, <1>15, <1>16, <1>17, <1>18 DEF Delivers, size, next

-----------------------------------------------------------------------------
(* The invariant of the medium clock *)

MediumIds == {MediumSegments[i].id : i \in DOMAIN MediumSegments}

BucketIs(bucket, key) ==
    /\ bucket \in Seq(MediumIds \X Nat)
    /\ \A n \in DOMAIN bucket : bucket[n][1] = SessionOfBar(bucket[n][2])
    /\ Memory(BarsOf(bucket), SameSlot(Opened, key), MaxPrior)

BucketMemories ==
    /\ \A key \in DOMAIN buckets : BucketIs(buckets[key], key)
    /\ \A bar \in Opened : KeyOf(bar) \in DOMAIN buckets

(* a state carries the number of its bar *)
StateMemory ==
    /\ states \in Seq(Nat \X Nat)
    /\ \A n \in DOMAIN states :
         states[n][1] \in DOMAIN delivered /\ delivered[states[n][1]] = states[n][2]
    /\ Memory(BarsOf(states), WithState(Opened), MaxStates)

DistanceMemory ==
    /\ measured \in Seq(Nat) /\ ToSet(measured) \subseteq ToSet(delivered)
    /\ Memory(distances, ToSet(measured), MaxStates)

SessionVwap ==
    delivered # <<>> =>
      vwap = {bar \in ToSet(delivered) : SessionOfBar(bar) = SessionOfBar(Last(delivered))}

PriorSnapshot ==
    imsi # NoSnapshot =>
      LET now   == Last(delivered)
          prior == Opened \ {now}
          old   == LatestOf(WithState(prior), MaxStates)
      IN  /\ imsi.bar = now /\ imsi.vwap = vwap
          /\ imsi.adjusted # {} => {pair[2] : pair \in imsi.adjusted}
                                     = LatestOf(SameSlot(prior, KeyOf(now)), MaxPrior)
          /\ imsi.estimated # {} => imsi.estimated = old
          /\ imsi.distance =>
               imsi.support = Min({MaxNeighbors, Cardinality(
                 {bar \in old : Place(bar) + Embargo <= Len(delivered)})})

MediumInv ==
    /\ DeliveredRight /\ MediumStopsOnlyAfterClosure
    /\ delivered = <<>> => imsi = NoSnapshot
    /\ halted = "none" => /\ BucketMemories /\ StateMemory /\ DistanceMemory
                          /\ SessionVwap /\ PriorSnapshot

(* The limits of the memories, as the proofs use them.                     *)
LEMMA MediumConstants ==
    /\ MaxPrior \in Nat \ {0} /\ MaxStates \in Nat \ {0} /\ MaxNeighbors \in Nat \ {0}
    /\ MinPrior \in Nat \ {0} /\ MinPrior <= MaxPrior /\ Embargo \in Nat \ {0}
    /\ MediumEnds \subseteq Nat
<1>. QED  BY MediumAssumption

(* The bars a memory is drawn from are finitely many.                      *)
LEMMA MemoriesAreFinite ==
    ASSUME DeliveredRight
    PROVE  /\ \A key : IsFiniteSet(SameSlot(Opened, key)) /\ SameSlot(Opened, key) \subseteq Nat
           /\ IsFiniteSet(WithState(Opened)) /\ WithState(Opened) \subseteq Nat
<1>1. IsFiniteSet(Opened) /\ Opened \subseteq Nat
  BY DeliveredIs
<1>2. ASSUME NEW key PROVE IsFiniteSet(SameSlot(Opened, key)) /\ SameSlot(Opened, key) \subseteq Nat
  <2>1. SameSlot(Opened, key) \subseteq Opened
    BY DEF SameSlot
  <2>. QED  BY <1>1, <2>1, FS_Subset
<1>3. WithState(Opened) \subseteq Opened
  BY DEF WithState
<1>. QED  BY <1>1, <1>2, <1>3, FS_Subset

(* The bucket of a slot, there or not, holds the latest bars of the slot.  *)
LEMMA BucketOfIs ==
    ASSUME BucketMemories, NEW key
    PROVE  BucketIs(BucketOf(key), key)
<1>1. CASE key \in DOMAIN buckets
  BY <1>1 DEF BucketOf, BucketMemories
<1>2. CASE key \notin DOMAIN buckets
  <2>1. SameSlot(Opened, key) = {}
    BY <1>2 DEF SameSlot, BucketMemories
  <2>2. BucketOf(key) = <<>>
    BY <1>2 DEF BucketOf
  <2>3. <<>> \in Seq(MediumIds \X Nat) /\ DOMAIN <<>> = {} /\ Len(<<>>) = 0
    BY EmptySeq, LenProperties
  <2>4. BarsOf(<<>>) = <<>>
    BY <2>3 DEF BarsOf
  <2>5. Memory(<<>>, {}, MaxPrior)
    BY MediumConstants, MemoryEmpty
  <2>. QED  BY <2>1, <2>2, <2>3, <2>4, <2>5 DEF BucketIs
<1>. QED  BY <1>1, <1>2

(* The engines start with empty memories.                                  *)
LEMMA MediumStarts == MediumInit => MediumInv
<1>. SUFFICES ASSUME MediumInit PROVE MediumInv
  OBVIOUS
<1>1. /\ delivered = <<>> /\ measured = <<>> /\ vwap = {} /\ DOMAIN buckets = {}
      /\ states = <<>> /\ distances = <<>> /\ halted = "none" /\ imsi = NoSnapshot
  BY DEF MediumInit
<1>2. /\ <<>> \in Seq(Nat) /\ <<>> \in Seq(Nat \X Nat) /\ DOMAIN <<>> = {} /\ Len(<<>>) = 0
  BY EmptySeq, LenProperties
<1>3. DeliveredRight
  BY <1>1, <1>2 DEF DeliveredRight, Increasing
<1>4. Opened = {} /\ ToSet(measured) = {} /\ ToSet(delivered) = {} /\ WithState(Opened) = {}
  <2>1. Opened = {}
    BY <1>1, <1>3, DeliveredIs
  <2>. QED  BY <1>1, <1>2, <2>1 DEF ToSet, WithState
<1>5. BarsOf(<<>>) = <<>>
  BY <1>2 DEF BarsOf
<1>6. Memory(<<>>, {}, MaxStates)
  BY MediumConstants, MemoryEmpty
<1>7. BucketMemories
  BY <1>1, <1>4 DEF BucketMemories
<1>8. StateMemory
  BY <1>1, <1>2, <1>4, <1>5, <1>6 DEF StateMemory
<1>9. DistanceMemory
  BY <1>1, <1>2, <1>4, <1>6 DEF DistanceMemory
<1>10. SessionVwap /\ PriorSnapshot /\ MediumStopsOnlyAfterClosure
  BY <1>1 DEF SessionVwap, PriorSnapshot, MediumStopsOnlyAfterClosure
<1>. QED  BY <1>1, <1>3, <1>7, <1>8, <1>9, <1>10 DEF MediumInv

(* A step that changes none of their variables keeps their invariant.      *)
LEMMA MediumStutters == MediumInv /\ UNCHANGED mediumVars => MediumInv'
<1>. SUFFICES ASSUME MediumInv, UNCHANGED mediumVars PROVE MediumInv'
  OBVIOUS
<1>1. /\ delivered' = delivered /\ measured' = measured /\ vwap' = vwap /\ buckets' = buckets
      /\ states' = states /\ distances' = distances /\ halted' = halted /\ imsi' = imsi
  BY DEF mediumVars
<1>2. Opened' = Opened
  BY <1>1 DEF Opened
<1>3. WithState(Opened)' = WithState(Opened)
  BY <1>2 DEF WithState, SameSlot
<1>4. DeliveredRight' /\ MediumStopsOnlyAfterClosure'
  BY <1>1 DEF MediumInv, DeliveredRight, MediumStopsOnlyAfterClosure
<1>5. BucketMemories => BucketMemories'
  BY <1>1, <1>2 DEF BucketMemories, BucketIs, SameSlot
<1>6. StateMemory => StateMemory'
  BY <1>1, <1>3 DEF StateMemory
<1>7. (DistanceMemory => DistanceMemory') /\ (SessionVwap => SessionVwap')
  BY <1>1 DEF DistanceMemory, SessionVwap
<1>8. PriorSnapshot => PriorSnapshot'
  <2>. DEFINE prior == Opened \ {Last(delivered)}
              old == LatestOf(WithState(prior), MaxStates)
              support == {bar \in old : Place(bar) + Embargo <= Len(delivered)}
  <2>1. WithState(prior)' = WithState(prior) /\ prior' = prior
    BY <1>1, <1>2 DEF WithState, SameSlot
  <2>2. old' = old
    <3>. HIDE DEF prior
    <3>. QED  BY <2>1 DEF LatestOf
  <2>3. \A bar : Place(bar)' = Place(bar)
    BY <1>1 DEF Place
  <2>4. support' = support
    <3>. HIDE DEF old
    <3>. QED  BY <1>1, <2>2, <2>3
  <2>5. SameSlot(prior, KeyOf(Last(delivered)))' = SameSlot(prior, KeyOf(Last(delivered)))
    BY <1>1, <2>1 DEF SameSlot
  <2>6. PriorSnapshot <=>
          (imsi # NoSnapshot =>
             /\ imsi.bar = Last(delivered) /\ imsi.vwap = vwap
             /\ imsi.adjusted # {} => {pair[2] : pair \in imsi.adjusted}
                  = LatestOf(SameSlot(prior, KeyOf(Last(delivered))), MaxPrior)
             /\ imsi.estimated # {} => imsi.estimated = old
             /\ imsi.distance => imsi.support = Min({MaxNeighbors, Cardinality(support)}))
    BY DEF PriorSnapshot
  <2>7. PriorSnapshot' <=>
          (imsi' # NoSnapshot =>
             /\ imsi'.bar = Last(delivered') /\ imsi'.vwap = vwap'
             /\ imsi'.adjusted # {} => {pair[2] : pair \in imsi'.adjusted}
                  = LatestOf(SameSlot(prior, KeyOf(Last(delivered)))', MaxPrior)
             /\ imsi'.estimated # {} => imsi'.estimated = old'
             /\ imsi'.distance => imsi'.support = Min({MaxNeighbors, Cardinality(support')}))
    BY DEF PriorSnapshot, LatestOf
  <2>. HIDE DEF prior, old, support
  <2>. QED  BY <1>1, <2>2, <2>4, <2>5, <2>6, <2>7
<1>. QED  BY <1>1, <1>4, <1>5, <1>6, <1>7, <1>8 DEF MediumInv

-----------------------------------------------------------------------------
(* One bar of the medium clock *)

(* The session VWAP holds the bars of the running session.                 *)
LEMMA VwapRestarts ==
    ASSUME DeliveredRight, SessionVwap, NEW bar \in Nat, InSegment(bar), Delivers(bar),
           vwap' = VwapWithin(bar)
    PROVE  SessionVwap' /\ vwap' = {b \in ToSet(delivered') : SessionOfBar(b) = SessionOfBar(bar)}
<1>. DEFINE old == ToSet(delivered)
            last == Last(delivered)
<1>1. /\ ToSet(delivered') = old \cup {bar} /\ Last(delivered') = bar
      /\ \A b \in old : b < bar
  BY DEF Delivers
<1>2. \A b \in old : b \in Nat /\ InSegment(b)
  BY DeliveredIs
<1>3. delivered # <<>> => last \in old /\ \A b \in old : b <= last
  <2>. SUFFICES ASSUME delivered # <<>> PROVE last \in old /\ \A b \in old : b <= last
    OBVIOUS
  <2>. DEFINE size == Len(delivered)
  <2>1. /\ size \in Nat
        /\ \A n \in 1..size : delivered[n] \in Nat
        /\ \A m, n \in 1..size : m < n => delivered[m] < delivered[n]
        /\ old = {delivered[n] : n \in 1..size}
    BY DeliveredIs
  <2>2. size # 0
    BY EmptySeq DEF DeliveredRight
  <2>3. last = delivered[size]
    BY DEF Last
  <2>. HIDE DEF old, last, size
  <2>4. size \in 1..size /\ \A n \in 1..size : n < size \/ n = size
    BY <2>1, <2>2
  <2>. QED  BY <2>1, <2>3, <2>4
<1>4. delivered = <<>> => old = {}
  BY EmptySeq DEF ToSet
<1>5. delivered # <<>> => vwap = {b \in old : SessionOfBar(b) = SessionOfBar(last)}
  BY DEF SessionVwap
<1>6. vwap' = IF delivered # <<>> /\ SessionOfBar(last) = SessionOfBar(bar)
              THEN vwap \cup {bar} ELSE {bar}
  BY DEF VwapWithin
<1>. HIDE DEF old, last
<1>7. vwap' = {b \in old \cup {bar} : SessionOfBar(b) = SessionOfBar(bar)}
  <2>1. CASE delivered = <<>>
    BY <1>4, <1>6, <2>1
  <2>2. CASE delivered # <<>> /\ SessionOfBar(last) = SessionOfBar(bar)
    BY <1>5, <1>6, <2>2
  <2>3. CASE delivered # <<>> /\ SessionOfBar(last) # SessionOfBar(bar)
    <3>1. ASSUME NEW b \in old PROVE SessionOfBar(b) # SessionOfBar(bar)
      <4>1. b \in Nat /\ InSegment(b) /\ last \in Nat /\ InSegment(last) /\ b <= last /\ last < bar
        BY <1>1, <1>2, <1>3, <2>3
      <4>2. last <= bar
        BY <4>1
      <4>. QED  BY <2>3, <4>1, <4>2, SessionsDoNotReturn
    <3>. QED  BY <1>6, <2>3, <3>1
  <2>. QED  BY <2>1, <2>2, <2>3
<1>8. vwap' = {b \in ToSet(delivered') : SessionOfBar(b) = SessionOfBar(bar)}
  BY <1>1, <1>7
<1>. QED  BY <1>1, <1>8 DEF SessionVwap

(* The bars of a slot, and those with a state, when the next bar is one of *)
(* the contract's later bars.                                              *)
LEMMA OpenedGrows ==
    ASSUME DeliveredRight, NEW bar \in Nat, Delivers(bar), delivered # <<>>
    PROVE  /\ \A key : SameSlot(Opened, key)' =
                         IF key = KeyOf(bar) THEN SameSlot(Opened, key) \cup {bar}
                         ELSE SameSlot(Opened, key)
           /\ WithState(Opened)' =
                IF Cardinality(SameSlot(Opened, KeyOf(bar))) >= MinPrior
                THEN WithState(Opened) \cup {bar} ELSE WithState(Opened)
           /\ WithState(Opened \ {bar})' = WithState(Opened)
           /\ Opened' = Opened \cup {bar} /\ Opened' \ {bar} = Opened
           /\ \A b \in Opened : b \in Nat /\ b < bar
<1>. DEFINE Before(S, b) == {c \in SameSlot(S, KeyOf(b)) : c < b}
<1>1. Opened' = Opened \cup {bar}
  BY DEF Delivers
<1>2. \A b \in Opened : b \in Nat /\ b < bar
  BY DeliveredIs DEF Delivers
<1>3. Opened' \ {bar} = Opened
  BY <1>1, <1>2
<1>4. \A b \in Opened : Before(Opened', b) = Before(Opened, b)
  BY <1>1, <1>2 DEF SameSlot
<1>5. Before(Opened', bar) = SameSlot(Opened, KeyOf(bar))
  BY <1>1, <1>2 DEF SameSlot
<1>6. /\ WithState(Opened) = {b \in Opened : Cardinality(Before(Opened, b)) >= MinPrior}
      /\ WithState(Opened)' = {b \in Opened' : Cardinality(Before(Opened', b)) >= MinPrior}
      /\ WithState(Opened \ {bar})' = {b \in Opened' \ {bar} : Cardinality(Before(Opened', b)) >= MinPrior}
  <2>1. WithState(Opened) = {b \in Opened : Cardinality(Before(Opened, b)) >= MinPrior}
    BY DEF WithState
  <2>2. WithState(Opened)' = {b \in Opened' : Cardinality(Before(Opened', b)) >= MinPrior}
    BY DEF WithState, SameSlot
  <2>3. WithState(Opened \ {bar})'
          = {b \in Opened' \ {bar} : Cardinality(Before(Opened', b)) >= MinPrior}
    BY DEF WithState, SameSlot
  <2>. QED  BY <2>1, <2>2, <2>3
<1>7. \A key : SameSlot(Opened, key)' = IF key = KeyOf(bar) THEN SameSlot(Opened, key) \cup {bar}
                                        ELSE SameSlot(Opened, key)
  BY <1>1 DEF SameSlot
<1>. HIDE DEF Before
<1>8. WithState(Opened \ {bar})' = WithState(Opened)
  BY <1>3, <1>4, <1>6
<1>9. WithState(Opened)' = IF Cardinality(SameSlot(Opened, KeyOf(bar))) >= MinPrior
                           THEN WithState(Opened) \cup {bar} ELSE WithState(Opened)
  BY <1>1, <1>4, <1>5, <1>6
<1>. QED  BY <1>1, <1>2, <1>3, <1>7, <1>8, <1>9

(* A memory of pairs is as long as its list of bars.                       *)
LEMMA BarsOfLength ==
    ASSUME NEW T, NEW list \in Seq(T), BarsOf(list) \in Seq(Nat)
    PROVE  Len(list) \in Nat /\ Len(BarsOf(list)) = Len(list)
<1>1. DOMAIN BarsOf(list) = DOMAIN list
  BY DEF BarsOf
<1>2. Len(list) \in Nat /\ DOMAIN list = 1..Len(list)
  BY LenProperties
<1>3. Len(BarsOf(list)) \in Nat /\ DOMAIN BarsOf(list) = 1..Len(BarsOf(list))
  BY LenProperties
<1>. QED  BY <1>1, <1>2, <1>3

Learnt(next, list, pair, P, S, size) ==
    /\ next \in Seq(P)
    /\ Memory(BarsOf(next), S \cup {pair[2]}, size)
    /\ \A n \in DOMAIN next : next[n] = pair \/ \E m \in DOMAIN list : next[n] = list[m]

(* A memory of pairs learns as that of their bars. *)
LEMMA PairsLearn ==
    ASSUME NEW P, \A p \in P : p[2] \in Nat, NEW list \in Seq(P), NEW pair \in P,
           NEW size \in Nat \ {0}, NEW S, Memory(BarsOf(list), S, size),
           \A b \in S : b \in Nat /\ b < pair[2],
           NEW next, next = Bounded(Append(list, pair), size)
    PROVE  Learnt(next, list, pair, P, S, size)
<1>. DEFINE m == Len(list)
            d == Dropped(list, size)
<1>2. BarsOf(list) \in Seq(Nat) /\ Len(BarsOf(list)) <= size
  BY DEF Memory
<1>3. Len(list) <= size
  BY <1>2, BarsOfLength
<1>4. next \in Seq(P)
  BY <1>3, BarsOfBounded
<1>9. BarsOf(next) = Bounded(Append(BarsOf(list), pair[2]), size)
  BY <1>3, BarsOfBounded
<1>5. Memory(Bounded(Append(BarsOf(list), pair[2]), size), S \cup {pair[2]}, size)
  BY MemoryLearns
<1>7. Shifted(next, list, pair, m, d)
  BY <1>3, BoundedIs
<1>. HIDE DEF m, d
<1>8. ASSUME NEW k \in DOMAIN next PROVE next[k] = pair \/ \E i \in DOMAIN list : next[k] = list[i]
  <2>1. k \in 1..(m + 1 - d) /\ m \in Nat /\ d \in Nat /\ DOMAIN list = 1..m
    BY <1>7 DEF Shifted
  <2>2. IF k + d <= m THEN next[k] = list[k + d] ELSE next[k] = pair
    BY <1>7, <2>1 DEF Shifted
  <2>3. k + d <= m => k + d \in DOMAIN list
    BY <2>1
  <2>. QED  BY <2>2, <2>3
<1>. QED  BY <1>4, <1>5, <1>8, <1>9 DEF Learnt

(* The first bar of all opens no interval, and no memory learns it.        *)
LEMMA FirstBar ==
    ASSUME DeliveredRight, BucketMemories, StateMemory, DistanceMemory, NEW bar \in Nat,
           Delivers(bar), delivered = <<>>, imsi = NoSnapshot,
           UNCHANGED <<measured, buckets, states, distances, imsi>>
    PROVE  BucketMemories' /\ StateMemory' /\ DistanceMemory' /\ PriorSnapshot'
<1>1. Opened = {} /\ Opened' = {}
  BY DeliveredIs DEF Delivers
<1>2. /\ measured' = measured /\ buckets' = buckets /\ states' = states
      /\ distances' = distances /\ imsi' = imsi
  OBVIOUS
<1>3. WithState(Opened) = {} /\ WithState(Opened)' = {}
  BY <1>1 DEF WithState
<1>4. DOMAIN states = {}
  <2>1. DOMAIN delivered = {}
    BY EmptySeq
  <2>. QED  BY <2>1 DEF StateMemory
<1>5. \A key : SameSlot(Opened, key)' = SameSlot(Opened, key)
  BY <1>1 DEF SameSlot
<1>6. BucketMemories'
  BY <1>1, <1>2, <1>5 DEF BucketMemories, BucketIs
<1>7. StateMemory'
  <2>1. Memory(BarsOf(states), {}, MaxStates) /\ states \in Seq(Nat \X Nat)
    BY <1>3 DEF StateMemory
  <2>. QED  BY <1>2, <1>3, <1>4, <2>1 DEF StateMemory
<1>8. DistanceMemory'
  <2>1. ToSet(delivered) \subseteq ToSet(delivered')
    BY DEF Delivers
  <2>. QED  BY <1>2, <2>1 DEF DistanceMemory
<1>. QED  BY <1>2, <1>6, <1>7, <1>8 DEF PriorSnapshot

(* The time-of-day bucket of a bar learns it and forgets its oldest.       *)
LEMMA BucketsLearn ==
    ASSUME DeliveredRight, BucketMemories, NEW bar \in Nat, InSegment(bar), Delivers(bar),
           delivered # <<>>, LearnBar(bar)
    PROVE  BucketMemories'
<1>. DEFINE key    == KeyOf(bar)
            id     == SessionOfBar(bar)
            prior  == BucketOf(key)
            bucket == Bounded(Append(prior, <<id, bar>>), MaxPrior)
<1>1. /\ \A k \in DOMAIN buckets \cup {key} :
           buckets'[k] = IF k = key THEN bucket ELSE buckets[k]
      /\ DOMAIN buckets' = DOMAIN buckets \cup {key}
  BY DEF LearnBar
<1>2. BucketIs(prior, key)
  BY BucketOfIs
<1>3. id \in MediumIds
  BY SegmentOfIs DEF SessionOfBar, MediumIds
<1>4. /\ \A k : SameSlot(Opened, k)' = IF k = KeyOf(bar) THEN SameSlot(Opened, k) \cup {bar}
                                       ELSE SameSlot(Opened, k)
      /\ Opened' = Opened \cup {bar}
      /\ \A b \in Opened : b \in Nat /\ b < bar
  BY OpenedGrows
<1>5. MaxPrior \in Nat \ {0}
  BY MediumConstants
<1>6. /\ prior \in Seq(MediumIds \X Nat)
      /\ \A n \in DOMAIN prior : prior[n][1] = SessionOfBar(prior[n][2])
      /\ Memory(BarsOf(prior), SameSlot(Opened, key), MaxPrior)
  BY <1>2 DEF BucketIs
<1>. HIDE DEF prior, id
<1>. HIDE DEF bucket
<1>7. /\ bucket \in Seq(MediumIds \X Nat)
      /\ Memory(BarsOf(bucket), SameSlot(Opened, key) \cup {bar}, MaxPrior)
      /\ \A n \in DOMAIN bucket :
           bucket[n] = <<id, bar>> \/ \E m \in DOMAIN prior : bucket[n] = prior[m]
  <2>1. \A b \in SameSlot(Opened, key) : b \in Nat /\ b < bar
    BY <1>4 DEF SameSlot
  <2>2. bucket = Bounded(Append(prior, <<id, bar>>), MaxPrior)
    BY DEF bucket
  <2>. DEFINE P == MediumIds \X Nat
              pair == <<id, bar>>
  <2>3. pair \in P /\ pair[2] = bar /\ (\A p \in P : p[2] \in Nat) /\ prior \in Seq(P)
    BY <1>3, <1>6
  <2>4. Memory(BarsOf(prior), SameSlot(Opened, key), MaxPrior)
    BY <1>6
  <2>5. bucket = Bounded(Append(prior, pair), MaxPrior)
    BY <2>2
  <2>. HIDE DEF key, P, pair
  <2>6. Learnt(bucket, prior, pair, P, SameSlot(Opened, key), MaxPrior)
    BY <1>5, <2>1, <2>3, <2>4, <2>5, PairsLearn
  <2>. QED  BY <2>3, <2>6 DEF P, pair, Learnt
<1>9. \A n \in DOMAIN bucket : bucket[n][1] = SessionOfBar(bucket[n][2])
  <2>. SUFFICES ASSUME NEW n \in DOMAIN bucket PROVE bucket[n][1] = SessionOfBar(bucket[n][2])
    OBVIOUS
  <2>1. CASE bucket[n] = <<id, bar>>
    BY <2>1 DEF id
  <2>2. ASSUME NEW m \in DOMAIN prior, bucket[n] = prior[m]
        PROVE  bucket[n][1] = SessionOfBar(bucket[n][2])
    BY <1>6, <2>2
  <2>. QED  BY <1>7, <2>1, <2>2
<1>11. ASSUME NEW k \in DOMAIN buckets' PROVE BucketIs(buckets[k], k)'
  <2>1. CASE k = key
    <3>1. buckets'[k] = bucket
      BY <1>1, <2>1
    <3>2. SameSlot(Opened, k)' = SameSlot(Opened, key) \cup {bar}
      BY <1>4, <2>1
    <3>. QED  BY <1>7, <1>9, <3>1, <3>2 DEF BucketIs
  <2>2. CASE k # key
    <3>1. k \in DOMAIN buckets /\ buckets'[k] = buckets[k] /\ SameSlot(Opened, k)' = SameSlot(Opened, k)
      BY <1>1, <1>4, <2>2
    <3>2. BucketIs(buckets[k], k)
      BY <3>1 DEF BucketMemories
    <3>. QED  BY <3>1, <3>2 DEF BucketIs
  <2>. QED  BY <2>1, <2>2
<1>12. \A b \in Opened' : KeyOf(b) \in DOMAIN buckets'
  BY <1>1, <1>4 DEF BucketMemories
<1>. QED  BY <1>11, <1>12 DEF BucketMemories

(* The bucket of a slot is long enough for a baseline exactly when the     *)
(* contract had that many bars of the slot.                                *)
LEMMA PriorCounts ==
    ASSUME DeliveredRight, BucketMemories, NEW key
    PROVE  Len(BucketOf(key)) >= MinPrior <=> Cardinality(SameSlot(Opened, key)) >= MinPrior
<1>. DEFINE prior == BucketOf(key)
<1>1. prior \in Seq(MediumIds \X Nat) /\ Memory(BarsOf(prior), SameSlot(Opened, key), MaxPrior)
  BY BucketOfIs DEF BucketIs
<1>. HIDE DEF prior
<1>2. Len(BarsOf(prior)) >= MinPrior <=> Cardinality(SameSlot(Opened, key)) >= MinPrior
  BY <1>1, MediumConstants, MemoriesAreFinite, MemoryCounts
<1>3. Len(BarsOf(prior)) = Len(prior)
  <2>1. BarsOf(prior) \in Seq(Nat)
    BY <1>1 DEF Memory
  <2>. QED  BY <1>1, <2>1, BarsOfLength
<1>. QED  BY <1>2, <1>3 DEF prior

(* The memory of states learns a bar whose bucket was warm.                *)
LEMMA StatesLearn ==
    ASSUME DeliveredRight, DeliveredRight', BucketMemories, StateMemory, NEW bar \in Nat,
           Delivers(bar), delivered # <<>>,
           states' = IF Len(BucketOf(KeyOf(bar))) >= MinPrior
                     THEN Bounded(Append(states, <<Len(delivered) + 1, bar>>), MaxStates) ELSE states
    PROVE  StateMemory'
<1>. DEFINE place == Len(delivered) + 1
            pair  == <<place, bar>>
            next  == Bounded(Append(states, pair), MaxStates)
<1>1. /\ WithState(Opened)' =
           IF Cardinality(SameSlot(Opened, KeyOf(bar))) >= MinPrior
           THEN WithState(Opened) \cup {bar} ELSE WithState(Opened)
      /\ \A b \in Opened : b \in Nat /\ b < bar
  BY OpenedGrows
<1>2. /\ states \in Seq(Nat \X Nat) /\ Memory(BarsOf(states), WithState(Opened), MaxStates)
      /\ \A n \in DOMAIN states :
           states[n][1] \in DOMAIN delivered /\ delivered[states[n][1]] = states[n][2]
  BY DEF StateMemory
<1>3. Len(delivered) \in Nat /\ DOMAIN delivered = 1..Len(delivered)
  BY DeliveredIs
<1>4. /\ \A n \in DOMAIN delivered : n \in DOMAIN delivered' /\ delivered'[n] = delivered[n]
      /\ place \in DOMAIN delivered' /\ delivered'[place] = bar
      /\ place \in Nat
  <2>1. DOMAIN delivered' = 1..(Len(delivered) + 1)
    <3>1. delivered' \in Seq(Nat)
      BY DEF DeliveredRight
    <3>. QED  BY <3>1, LenProperties DEF Delivers
  <2>. QED  BY <1>3, <2>1 DEF Delivers
<1>5. MaxStates \in Nat \ {0}
  BY MediumConstants
<1>6. CASE Len(BucketOf(KeyOf(bar))) >= MinPrior
  <2>1. WithState(Opened)' = WithState(Opened) \cup {bar}
    BY <1>1, <1>6, PriorCounts
  <2>2. states' = next
    BY <1>6
  <2>3. \A b \in WithState(Opened) : b \in Nat /\ b < bar
    BY <1>1 DEF WithState
  <2>. HIDE DEF place, next
  <2>4. /\ next \in Seq(Nat \X Nat)
        /\ Memory(BarsOf(next), WithState(Opened) \cup {bar}, MaxStates)
        /\ \A n \in DOMAIN next : next[n] = <<place, bar>> \/ \E m \in DOMAIN states : next[n] = states[m]
    <3>1. next = Bounded(Append(states, <<place, bar>>), MaxStates)
      BY DEF next
    <3>. DEFINE P == Nat \X Nat
                new == <<place, bar>>
                old == WithState(Opened)
    <3>2. new \in P /\ new[2] = bar /\ (\A p \in P : p[2] \in Nat) /\ states \in Seq(P)
      BY <1>2, <1>4
    <3>3. next = Bounded(Append(states, new), MaxStates)
      BY <3>1
    <3>4. Memory(BarsOf(states), old, MaxStates)
      BY <1>2
    <3>. HIDE DEF P, new
    <3>6. \A b \in old : b \in Nat /\ b < new[2]
      BY <2>3, <3>2
    <3>. HIDE DEF old
    <3>5. Learnt(next, states, new, P, old, MaxStates)
      BY <1>5, <3>2, <3>3, <3>4, <3>6, PairsLearn
    <3>. QED  BY <3>2, <3>5 DEF P, new, old, Learnt
  <2>5. \A n \in DOMAIN next : next[n][1] \in DOMAIN delivered' /\ delivered'[next[n][1]] = next[n][2]
    <3>. SUFFICES ASSUME NEW n \in DOMAIN next
                  PROVE  next[n][1] \in DOMAIN delivered' /\ delivered'[next[n][1]] = next[n][2]
      OBVIOUS
    <3>1. CASE next[n] = <<place, bar>>
      BY <1>4, <3>1
    <3>2. ASSUME NEW m \in DOMAIN states, next[n] = states[m]
          PROVE  next[n][1] \in DOMAIN delivered' /\ delivered'[next[n][1]] = next[n][2]
      BY <1>2, <1>4, <3>2
    <3>. QED  BY <2>4, <3>1, <3>2
  <2>. QED  BY <2>1, <2>2, <2>4, <2>5 DEF StateMemory
<1>7. CASE ~ (Len(BucketOf(KeyOf(bar))) >= MinPrior)
  <2>1. WithState(Opened)' = WithState(Opened)
    BY <1>1, <1>7, PriorCounts
  <2>2. states' = states
    BY <1>7
  <2>. QED  BY <1>2, <1>4, <2>1, <2>2 DEF StateMemory
<1>. QED  BY <1>6, <1>7

(* The memory of distances learns a bar whose covariance was asked for.    *)
LEMMA DistancesLearn ==
    ASSUME DistanceMemory, NEW bar \in Nat, Delivers(bar), NEW asked \in BOOLEAN,
           distances' = IF asked THEN Bounded(Append(distances, bar), MaxStates) ELSE distances,
           measured' = IF asked THEN Append(measured, bar) ELSE measured
    PROVE  DistanceMemory'
<1>1. /\ measured \in Seq(Nat) /\ ToSet(measured) \subseteq ToSet(delivered)
      /\ Memory(distances, ToSet(measured), MaxStates)
      /\ ToSet(delivered') = ToSet(delivered) \cup {bar}
  BY DEF DistanceMemory, Delivers
<1>2. CASE asked
  <2>. DEFINE all == Append(measured, bar)
              n   == Len(measured)
  <2>1. n \in Nat /\ DOMAIN measured = 1..n /\ \A i \in 1..n : measured[i] \in Nat
    BY <1>1, LenProperties, ElementOfSeq
  <2>2. all \in Seq(Nat) /\ DOMAIN all = 1..(n + 1)
    BY <1>1, AppendProperties, LenProperties
  <2>3. \A i \in 1..(n + 1) : all[i] = IF i <= n THEN measured[i] ELSE bar
    BY <1>1, AppendProperties, LenProperties
  <2>. HIDE DEF all, n
  <2>4. ToSet(all) = ToSet(measured) \cup {bar}
    <3>1. /\ \A i \in 1..n : i \in 1..(n + 1) /\ all[i] = measured[i]
          /\ n + 1 \in 1..(n + 1) /\ all[n + 1] = bar
          /\ \A i \in 1..(n + 1) : i \in 1..n \/ i = n + 1
      BY <2>1, <2>3
    <3>2. ToSet(all) = {all[i] : i \in 1..(n + 1)} /\ ToSet(measured) = {measured[i] : i \in 1..n}
      BY <2>1, <2>2 DEF ToSet
    <3>. QED  BY <3>1, <3>2
  <2>5. \A b \in ToSet(measured) : b \in Nat /\ b < bar
    <3>1. \A b \in ToSet(measured) : b \in Nat
      BY <2>1 DEF ToSet
    <3>. QED  BY <1>1, <3>1 DEF Delivers
  <2>6. MaxStates \in Nat \ {0}
    BY MediumConstants
  <2>7. Memory(Bounded(Append(distances, bar), MaxStates), ToSet(measured) \cup {bar}, MaxStates)
    BY <1>1, <2>5, <2>6, MemoryLearns
  <2>8. measured' = all /\ distances' = Bounded(Append(distances, bar), MaxStates)
    BY <1>2 DEF all
  <2>. QED  BY <1>1, <2>2, <2>4, <2>7, <2>8 DEF DistanceMemory
<1>3. CASE ~ asked
  BY <1>1, <1>3 DEF DistanceMemory
<1>. QED  BY <1>2, <1>3

-----------------------------------------------------------------------------
(* The snapshot of a bar *)

(* The smaller of two numbers.                                             *)
LEMMA MinOfTwo ==
    ASSUME NEW a \in Nat, NEW b \in Nat
    PROVE  Min({a, b}) = IF a <= b THEN a ELSE b
<1>. DEFINE m == IF a <= b THEN a ELSE b
<1>1. m \in {a, b} /\ \A y \in {a, b} : m <= y
  OBVIOUS
<1>2. \A x \in {a, b} : (\A y \in {a, b} : x <= y) => x = m
  OBVIOUS
<1>. HIDE DEF m
<1>3. Min({a, b}) = m
  BY <1>1, <1>2 DEF Min
<1>. QED  BY <1>3 DEF m

(* A snapshot has finitely many neighbors, none when their set is empty.   *)
LEMMA NeighborsAreFew ==
    ASSUME StateMemory, NEW sequence \in Nat
    PROVE  /\ IsFiniteSet(Neighbors(sequence)) /\ Cardinality(Neighbors(sequence)) \in Nat
           /\ Cardinality(Neighbors(sequence)) = 0 <=> Neighbors(sequence) = {}
<1>1. Len(states) \in Nat /\ DOMAIN states = 1..Len(states)
  BY LenProperties DEF StateMemory
<1>. DEFINE n == Len(states)
            all == 1..n
<1>2. Neighbors(sequence) \subseteq all
  BY <1>1 DEF Neighbors
<1>3. 1 \in Int /\ n \in Int
  BY <1>1
<1>. HIDE DEF n
<1>4. IsFiniteSet(all)
  BY <1>3, FS_Interval
<1>. HIDE DEF all
<1>5. IsFiniteSet(Neighbors(sequence))
  BY <1>2, <1>4, FS_Subset
<1>. QED  BY <1>5, FS_CardinalityType, FS_EmptySet

(* The fields of a snapshot *)
ImsiIs(s, bar, sequence, prior, covariance) ==
    /\ s.bar = bar /\ s.vwap = vwap'
    /\ s.adjusted = IF Len(prior) >= MinPrior THEN ToSet(prior) ELSE {}
    /\ s.distance = (covariance = "ok")
    /\ s.diagnostics = (covariance \in {"ok", "unstable"})
    /\ s.estimated = IF covariance = "none" THEN {} ELSE {states[i][2] : i \in DOMAIN states}
    /\ s.neighbors = (covariance = "ok" /\ Neighbors(sequence) # {})
    /\ s.support = IF covariance = "ok" THEN Min({MaxNeighbors, Cardinality(Neighbors(sequence))}) ELSE 0
    /\ s.rarity = IF covariance = "ok" /\ Len(distances) >= MinDistances THEN ToSet(distances) ELSE {}
    /\ s.ready = (covariance = "ok" /\ Len(distances) >= MinDistances)

(* A snapshot has the fields ImsiIs names.                                 *)
LEMMA ImsiSnapshotIs ==
    ASSUME NEW bar, NEW sequence, NEW prior, NEW covariance
    PROVE  ImsiIs(ImsiSnapshot(bar, sequence, prior, covariance), bar, sequence, prior, covariance)
<1>. QED  BY DEF ImsiIs, ImsiSnapshot

(* No snapshot the core builds is refused. *)
LEMMA ImsiNeverRefused ==
    ASSUME StateMemory, DistanceMemory, NEW s, NEW bar, NEW sequence \in Nat, NEW prior, NEW covariance,
           ImsiIs(s, bar, sequence, prior, covariance)
    PROVE  ~ ImsiRefused(s)
<1>. DEFINE count == Cardinality(Neighbors(sequence))
            ok == covariance = "ok"
<1>1. count \in Nat /\ (count = 0 <=> Neighbors(sequence) = {})
  BY NeighborsAreFew
<1>2. MaxNeighbors \in Nat \ {0} /\ MinDistances \in Nat \ {0}
  BY MediumAssumption
<1>3. s.support = IF ok THEN (IF MaxNeighbors <= count THEN MaxNeighbors ELSE count) ELSE 0
  <2>. HIDE DEF count
  <2>1. Min({MaxNeighbors, count}) = IF MaxNeighbors <= count THEN MaxNeighbors ELSE count
    BY <1>1, <1>2, MinOfTwo
  <2>. QED  BY <2>1 DEF ImsiIs, count
<1>4. s.neighbors = (ok /\ Neighbors(sequence) # {}) /\ s.distance = ok
      /\ s.diagnostics = (covariance \in {"ok", "unstable"})
      /\ s.ready = (ok /\ Len(distances) >= MinDistances)
  BY DEF ImsiIs
<1>5. s.rarity = IF ok /\ Len(distances) >= MinDistances THEN ToSet(distances) ELSE {}
  BY DEF ImsiIs
<1>6. Len(distances) >= MinDistances => ToSet(distances) # {}
  <2>1. Len(distances) \in Nat /\ DOMAIN distances = 1..Len(distances)
    BY LenProperties DEF DistanceMemory, Memory
  <2>2. Len(distances) >= MinDistances => 1 \in DOMAIN distances
    BY <1>2, <2>1
  <2>. QED  BY <2>2 DEF ToSet
<1>. HIDE DEF count
<1>7. (s.support = 0) = ~ s.neighbors
  <2>1. s.support = 0 <=> ~ (ok /\ count # 0)
    BY <1>1, <1>2, <1>3
  <2>. QED  BY <1>1, <1>4, <2>1
<1>8. s.support \in 0..MaxNeighbors
  BY <1>1, <1>2, <1>3
<1>9. s.distance => s.diagnostics
  BY <1>4
<1>10. s.ready = (s.distance /\ s.rarity # {})
  BY <1>4, <1>5, <1>6
<1>. QED  BY <1>7, <1>8, <1>9, <1>10 DEF ImsiRefused

(* The places of the bars before the last do not change. *)
LEMMA PlaceIs ==
    ASSUME DeliveredRight, DeliveredRight', NEW bar \in Nat, Delivers(bar),
           NEW n \in DOMAIN delivered, NEW b, b = delivered[n]
    PROVE  Place(b)' = n
<1>. DEFINE size == Len(delivered)
<1>1. /\ size \in Nat /\ DOMAIN delivered = 1..size
      /\ \A k \in 1..size : delivered[k] \in Nat
      /\ \A k, m \in 1..size : delivered[k] = delivered[m] => k = m
      /\ ToSet(delivered) = {delivered[k] : k \in 1..size}
  BY DeliveredIs
<1>2. DOMAIN delivered' = 1..(size + 1)
  <2>1. DOMAIN delivered' = 1..Len(delivered')
    BY LenProperties DEF DeliveredRight
  <2>. QED  BY <2>1 DEF Delivers
<1>3. /\ \A k \in 1..size : delivered'[k] = delivered[k]
      /\ delivered'[size + 1] = bar /\ \A c \in ToSet(delivered) : c < bar
  BY DEF Delivers
<1>. HIDE DEF size
<1>4. n \in 1..(size + 1) /\ delivered'[n] = b
  BY <1>1, <1>3
<1>5. ASSUME NEW k \in 1..(size + 1), delivered'[k] = b PROVE k = n
  <2>1. b \in ToSet(delivered) /\ b < bar /\ b \in Nat
    BY <1>1, <1>3
  <2>2. k # size + 1
    BY <1>3, <1>5, <2>1
  <2>3. k \in 1..size
    BY <1>1, <2>2
  <2>4. delivered[k] = delivered[n]
    BY <1>3, <1>5, <2>3
  <2>. QED  BY <1>1, <2>3, <2>4
<1>6. Place(b)' = CHOOSE k \in DOMAIN delivered' : delivered'[k] = b
  BY DEF Place
<1>. QED  BY <1>2, <1>4, <1>5, <1>6

(* The numbers of a snapshot come from the bars before it.                 *)
LEMMA SnapshotIsPrior ==
    ASSUME DeliveredRight, DeliveredRight', BucketMemories, StateMemory, NEW bar \in Nat,
           Delivers(bar), delivered # <<>>, NEW covariance,
           ImsiIs(imsi', bar, Len(delivered) + 1, BucketOf(KeyOf(bar)), covariance)
    PROVE  PriorSnapshot'
<1>. DEFINE key   == KeyOf(bar)
            prior == BucketOf(key)
            place == Len(delivered) + 1
            old   == LatestOf(WithState(Opened), MaxStates)
            few   == Neighbors(place)
            far   == {b \in old : Place(b)' + Embargo <= place}
<1>1. /\ WithState(Opened \ {bar})' = WithState(Opened) /\ Opened' \ {bar} = Opened
  BY OpenedGrows
<1>2. Last(delivered') = bar /\ Len(delivered') = place /\ Len(delivered) \in Nat
  BY DeliveredIs DEF Delivers
<1>3. ToSet(BarsOf(states)) = old
  <2>1. Memory(BarsOf(states), WithState(Opened), MaxStates)
    BY DEF StateMemory
  <2>2. HoldsLatest(BarsOf(states), WithState(Opened), MaxStates)
    BY <2>1, MemoriesAreFinite, MemoryHolds, MediumConstants
  <2>. QED  BY <2>2 DEF HoldsLatest
<1>4. ToSet(BarsOf(states)) = {states[i][2] : i \in DOMAIN states}
  BY DEF BarsOf, ToSet
<1>5. {pair[2] : pair \in ToSet(prior)} = LatestOf(SameSlot(Opened, key), MaxPrior)
  <2>1. Memory(BarsOf(prior), SameSlot(Opened, key), MaxPrior)
    BY BucketOfIs DEF BucketIs
  <2>2. HoldsLatest(BarsOf(prior), SameSlot(Opened, key), MaxPrior)
    BY <2>1, MemoriesAreFinite, MemoryHolds, MediumConstants
  <2>3. ToSet(BarsOf(prior)) = LatestOf(SameSlot(Opened, key), MaxPrior)
    BY <2>2 DEF HoldsLatest
  <2>4. ToSet(BarsOf(prior)) = {pair[2] : pair \in ToSet(prior)}
    <3>. HIDE DEF prior
    <3>. QED  BY DEF BarsOf, ToSet
  <2>. QED  BY <2>3, <2>4
<1>6. Cardinality(few) = Cardinality(far)
  <2>1. /\ \A i \in DOMAIN states : states[i] \in Nat \X Nat
        /\ \A i \in DOMAIN states :
             states[i][1] \in DOMAIN delivered /\ delivered[states[i][1]] = states[i][2]
    <3>1. states \in Seq(Nat \X Nat) /\ DOMAIN states = 1..Len(states)
      BY LenProperties DEF StateMemory
    <3>2. \A i \in DOMAIN states : states[i] \in Nat \X Nat
      BY <3>1, ElementOfSeq
    <3>. QED  BY <3>2 DEF StateMemory
  <2>2. ASSUME NEW i \in DOMAIN states, NEW b, b = states[i][2] PROVE Place(b)' = states[i][1]
    <3>. QED  BY <2>1, <2>2, PlaceIs
  <2>3. few = {i \in DOMAIN states : states[i][1] + Embargo <= place}
    <3>1. \A i \in DOMAIN states : states[i][1] \in Nat /\ states[i][1] <= Len(delivered)
      BY <2>1, DeliveredIs
    <3>2. Embargo \in Nat \ {0}
      BY MediumConstants
    <3>3. \A i \in DOMAIN states :
            (states[i][1] < place /\ states[i][1] <= place - Embargo) <=> states[i][1] + Embargo <= place
      BY <1>2, <3>1, <3>2
    <3>. QED  BY <3>3 DEF Neighbors
  <2>4. far = {states[i][2] : i \in few}
    <3>. HIDE DEF few, old, place
    <3>1. \A b \in old : \E i \in DOMAIN states : b = states[i][2]
      BY <1>3, <1>4
    <3>2. \A i \in DOMAIN states : states[i][2] \in old
      BY <1>3, <1>4
    <3>3. ASSUME NEW b PROVE b \in far <=> \E i \in few : b = states[i][2]
      <4>1. ASSUME b \in far PROVE \E i \in few : b = states[i][2]
        <5>1. b \in old /\ Place(b)' + Embargo <= place
          BY <4>1
        <5>2. PICK i \in DOMAIN states : b = states[i][2]
          BY <3>1, <5>1
        <5>3. Place(b)' = states[i][1]
          BY <2>2, <5>2
        <5>. QED  BY <2>3, <5>1, <5>2, <5>3
      <4>2. ASSUME NEW i \in few, b = states[i][2] PROVE b \in far
        <5>1. i \in DOMAIN states /\ states[i][1] + Embargo <= place
          BY <2>3
        <5>2. Place(b)' = states[i][1]
          BY <2>2, <4>2, <5>1
        <5>. QED  BY <3>2, <4>2, <5>1, <5>2
      <4>. QED  BY <4>1, <4>2
    <3>. HIDE DEF far
    <3>. QED  BY <3>3
  <2>. DEFINE bars == BarsOf(states)
  <2>5. far = {bars[i] : i \in few}
    <3>1. \A i \in few : bars[i] = states[i][2]
      BY <2>3 DEF BarsOf
    <3>. HIDE DEF far, few, bars
    <3>. QED  BY <2>4, <3>1
  <2>6. \A i, j \in few : bars[i] = bars[j] => i = j
    <3>1. Memory(bars, WithState(Opened), MaxStates)
      BY DEF StateMemory
    <3>2. DOMAIN bars = 1..Len(bars) /\ \A i, j \in 1..Len(bars) : bars[i] = bars[j] => i = j
      <4>. HIDE DEF bars
      <4>. QED  BY <3>1, MediumConstants, MemoryIs
    <3>3. few \subseteq DOMAIN bars
      BY <2>3 DEF BarsOf
    <3>. HIDE DEF bars, few
    <3>. QED  BY <3>2, <3>3
  <2>7. IsFiniteSet(few)
    BY <1>2, NeighborsAreFew
  <2>. HIDE DEF few, far, bars
  <2>. QED  BY <2>5, <2>6, <2>7, ImageSize
<1>7. /\ imsi'.bar = bar /\ imsi'.vwap = vwap'
      /\ imsi'.adjusted # {} => {pair[2] : pair \in imsi'.adjusted} = LatestOf(SameSlot(Opened, key), MaxPrior)
      /\ imsi'.estimated # {} => imsi'.estimated = old
      /\ imsi'.distance => imsi'.support = Min({MaxNeighbors, Cardinality(far)})
  <2>1. imsi'.adjusted # {} => imsi'.adjusted = ToSet(prior)
    BY DEF ImsiIs
  <2>2. imsi'.estimated # {} => imsi'.estimated = {states[i][2] : i \in DOMAIN states}
    BY DEF ImsiIs
  <2>3. imsi'.distance => imsi'.support = Min({MaxNeighbors, Cardinality(few)})
    BY DEF ImsiIs
  <2>4. imsi'.bar = bar /\ imsi'.vwap = vwap'
    BY DEF ImsiIs
  <2>. HIDE DEF few, far, old, prior
  <2>. QED  BY <1>3, <1>4, <1>5, <1>6, <2>1, <2>2, <2>3, <2>4
<1>8. (Opened \ {Last(delivered)})' = Opened
  BY <1>1, <1>2
<1>9. WithState(Opened \ {Last(delivered)})' = WithState(Opened)
  <2>1. WithState(Opened \ {Last(delivered)})' = WithState(Opened \ {bar})'
    BY <1>2 DEF WithState
  <2>. QED  BY <1>1, <2>1
<1>10. SameSlot(Opened \ {Last(delivered)}, KeyOf(Last(delivered)))' = SameSlot(Opened, key)
  BY <1>1, <1>2 DEF SameSlot
<1>11. PriorSnapshot' <=>
         (imsi' # NoSnapshot =>
            /\ imsi'.bar = Last(delivered') /\ imsi'.vwap = vwap'
            /\ imsi'.adjusted # {} => {pair[2] : pair \in imsi'.adjusted}
                 = LatestOf(SameSlot(Opened \ {Last(delivered)}, KeyOf(Last(delivered)))', MaxPrior)
            /\ imsi'.estimated # {} =>
                 imsi'.estimated = LatestOf(WithState(Opened \ {Last(delivered)})', MaxStates)
            /\ imsi'.distance =>
                 imsi'.support = Min({MaxNeighbors, Cardinality(
                   {b \in LatestOf(WithState(Opened \ {Last(delivered)})', MaxStates) :
                      Place(b)' + Embargo <= Len(delivered')})}))
  BY DEF PriorSnapshot, LatestOf
<1>. HIDE DEF key
<1>. QED  BY <1>2, <1>7, <1>9, <1>10, <1>11

-----------------------------------------------------------------------------
(* The steps of the medium clock *)

(* What a step learns, when it is not the first bar and its bucket does    *)
(* not hold its session yet.                                               *)
LEMMA MeasureStep ==
    ASSUME DeliveredRight, DeliveredRight', BucketMemories, StateMemory, DistanceMemory,
           NEW bar \in Nat, InSegment(bar), Delivers(bar), delivered # <<>>, NEW covariance,
           MeasureState(bar, BucketOf(KeyOf(bar)), covariance)
    PROVE  /\ BucketMemories' /\ StateMemory' /\ DistanceMemory' /\ PriorSnapshot'
           /\ ~ ImsiRefused(imsi')
<1>. DEFINE prior    == BucketOf(KeyOf(bar))
            sequence == Len(delivered) + 1
            snapshot == ImsiSnapshot(bar, sequence, prior, covariance)
            asked    == covariance = "ok"
<1>1. /\ states' = IF Len(prior) >= MinPrior
                   THEN Bounded(Append(states, <<sequence, bar>>), MaxStates) ELSE states
      /\ distances' = IF snapshot.distance THEN Bounded(Append(distances, bar), MaxStates) ELSE distances
      /\ measured' = IF snapshot.distance THEN Append(measured, bar) ELSE measured
      /\ LearnBar(bar) /\ imsi' = snapshot
  BY DEF MeasureState
<1>2. sequence \in Nat
  BY DeliveredIs
<1>3. ImsiIs(snapshot, bar, sequence, prior, covariance)
  BY ImsiSnapshotIs
<1>4. snapshot.distance = asked
  BY <1>3 DEF ImsiIs
<1>. HIDE DEF snapshot
<1>5. BucketMemories'
  BY <1>1, BucketsLearn
<1>6. StateMemory'
  BY <1>1, StatesLearn
<1>7. DistanceMemory'
  <2>1. asked \in BOOLEAN
    OBVIOUS
  <2>2. /\ distances' = IF asked THEN Bounded(Append(distances, bar), MaxStates) ELSE distances
        /\ measured' = IF asked THEN Append(measured, bar) ELSE measured
    BY <1>1, <1>4
  <2>. HIDE DEF asked
  <2>. QED  BY <2>1, <2>2, DistancesLearn
<1>8. PriorSnapshot'
  BY <1>1, <1>3, SnapshotIsPrior
<1>9. ~ ImsiRefused(imsi')
  <2>1. ~ ImsiRefused(snapshot)
    <3>. HIDE DEF sequence, prior
    <3>. QED  BY <1>2, <1>3, ImsiNeverRefused
  <2>. QED  BY <1>1, <2>1
<1>. QED  BY <1>5, <1>6, <1>7, <1>8, <1>9

(* The ICM record never refuses the geometry the engine fits.              *)
LEMMA GeometryNeverRefused ==
    ASSUME NEW bar, FitGeometry(bar)
    PROVE  ~ (icm' # NoSnapshot /\ IcmRefused(icm'))
<1>1. CASE icm' = NoSnapshot
  BY <1>1
<1>2. ASSUME NEW blend \in {"zero", "tiny", "normal"},
             NEW regime \in IF blend = "zero" THEN {FALSE} ELSE BOOLEAN,
             icm' = IcmSnapshot(bar, blend, regime)
      PROVE  ~ IcmRefused(icm')
  <2>1. regime \in BOOLEAN
    OBVIOUS
  <2>2. /\ icm'.blend = blend /\ icm'.normalized = (blend # "zero") /\ icm'.z = (blend = "normal")
        /\ icm'.effective = (blend = "normal" /\ ~regime)
        /\ icm'.ready = (blend = "normal" /\ ~regime)
    BY <1>2 DEF IcmSnapshot
  <2>. QED  BY <2>1, <2>2 DEF IcmRefused
<1>. QED  BY <1>1, <1>2 DEF FitGeometry

(* A medium bar keeps the invariant, its early stops included.             *)
LEMMA OnMediumBarStep ==
    ASSUME MediumInv, NEW bar \in MediumEnds, InSegment(bar), OnMediumBar(bar)
    PROVE  MediumInv'
<1>. DEFINE prior == BucketOf(KeyOf(bar))
            first == delivered = <<>>
            twice == ~first /\ \E i \in DOMAIN prior : prior[i][1] = SessionOfBar(bar)
<1>1. /\ halted = "none" /\ bar > LastBar /\ delivered' = Append(delivered, bar)
      /\ vwap' = VwapWithin(bar)
      /\ \/ /\ first
            /\ UNCHANGED <<measured, buckets, states, distances, imsi, halted>>
         \/ /\ twice
            /\ halted' = "IMSI TOD bucket already contains the current session"
         \/ /\ ~first
            /\ \E covariance : MeasureState(bar, prior, covariance)
            /\ IF ImsiRefused(imsi') THEN halted' = "IMSI snapshot refused"
               ELSE /\ FitGeometry(bar)
                    /\ halted' = IF icm' # NoSnapshot /\ IcmRefused(icm')
                                 THEN "ICM snapshot refused" ELSE "none"
  BY DEF OnMediumBar, StreamStops
<1>2. /\ DeliveredRight /\ BucketMemories /\ StateMemory /\ DistanceMemory /\ SessionVwap
      /\ first => imsi = NoSnapshot
  BY <1>1 DEF MediumInv
<1>3. bar \in Nat
  BY MediumConstants
<1>4. DeliveredRight' /\ Delivers(bar)
  BY <1>1, <1>2, <1>3, Delivery
<1>5. delivered' # <<>> /\ Last(delivered') = bar
  BY <1>4 DEF Delivers
<1>6. SessionVwap'
  BY <1>1, <1>2, <1>3, <1>4, VwapRestarts
<1>7. ASSUME halted' = "none" PROVE MediumStopsOnlyAfterClosure'
  BY <1>7 DEF MediumStopsOnlyAfterClosure
<1>8. CASE first /\ UNCHANGED <<measured, buckets, states, distances, imsi, halted>>
  <2>1. BucketMemories' /\ StateMemory' /\ DistanceMemory' /\ PriorSnapshot'
    BY <1>2, <1>3, <1>4, <1>8, FirstBar
  <2>2. halted' = "none"
    BY <1>1, <1>8
  <2>. QED  BY <1>4, <1>5, <1>6, <1>7, <2>1, <2>2 DEF MediumInv
<1>9. CASE twice /\ halted' = "IMSI TOD bucket already contains the current session"
  <2>1. PICK i \in DOMAIN prior : prior[i][1] = SessionOfBar(bar)
    BY <1>9
  <2>2. BucketIs(prior, KeyOf(bar))
    BY <1>2, BucketOfIs
  <2>. DEFINE b == prior[i][2]
  <2>3. b \in SameSlot(Opened, KeyOf(bar))
    <3>1. BarsOf(prior)[i] = b /\ i \in DOMAIN BarsOf(prior)
      BY DEF BarsOf
    <3>2. ToSet(BarsOf(prior)) \subseteq SameSlot(Opened, KeyOf(bar))
      BY <2>2 DEF BucketIs, Memory
    <3>. HIDE DEF b, prior
    <3>. QED  BY <3>1, <3>2 DEF ToSet
  <2>4. SessionOfBar(b) = SessionOfBar(bar)
    BY <2>1, <2>2 DEF BucketIs
  <2>. HIDE DEF b, prior
  <2>5. b \in Nat /\ InSegment(b) /\ b < bar /\ KeyOf(b) = KeyOf(bar)
    BY <1>2, <1>4, <2>3, DeliveredIs DEF SameSlot, Delivers
  <2>6. \E m, j \in DOMAIN MediumSegments :
          /\ m < j /\ MediumSegments[m].id = MediumSegments[j].id
          /\ MediumSegments[j].id = SessionOfBar(bar)
    BY <1>3, <2>4, <2>5, SlotRepeats
  <2>7. MediumStopsOnlyAfterClosure'
    BY <1>5, <1>9, <2>6 DEF MediumStopsOnlyAfterClosure
  <2>8. halted' # "none"
    BY <1>9
  <2>. QED  BY <1>4, <1>5, <2>7, <2>8 DEF MediumInv
<1>10. ASSUME ~first, NEW covariance, MeasureState(bar, prior, covariance),
              IF ImsiRefused(imsi') THEN halted' = "IMSI snapshot refused"
              ELSE /\ FitGeometry(bar)
                   /\ halted' = IF icm' # NoSnapshot /\ IcmRefused(icm')
                                THEN "ICM snapshot refused" ELSE "none"
       PROVE  MediumInv'
  <2>1. /\ BucketMemories' /\ StateMemory' /\ DistanceMemory' /\ PriorSnapshot'
        /\ ~ ImsiRefused(imsi')
    BY <1>2, <1>3, <1>4, <1>10, MeasureStep
  <2>2. halted' = "none"
    BY <1>10, <2>1, GeometryNeverRefused
  <2>. QED  BY <1>4, <1>5, <1>6, <1>7, <2>1, <2>2 DEF MediumInv
<1>. QED  BY <1>1, <1>8, <1>9, <1>10

(* Every step keeps the invariant of the medium engines.                   *)
LEMMA MediumStep == MediumInv /\ [IndicatorNext]_indicatorVars => MediumInv'
<1>. SUFFICES ASSUME MediumInv, [IndicatorNext]_indicatorVars PROVE MediumInv'
  OBVIOUS
<1>1. MediumNext \/ UNCHANGED mediumVars
  BY DEF IndicatorNext, indicatorVars
<1>2. CASE UNCHANGED mediumVars
  BY <1>2, MediumStutters
<1>3. CASE MediumNext
  <2>1. PICK bar \in MediumEnds :
          /\ \E i \in DOMAIN MediumSegments :
               MediumSegments[i].start < bar /\ bar <= MediumSegments[i].end
          /\ OnMediumBar(bar)
    BY <1>3 DEF MediumNext
  <2>2. InSegment(bar)
    BY <2>1 DEF InSegment
  <2>. QED  BY <2>1, <2>2, OnMediumBarStep
<1>. QED  BY <1>1, <1>2, <1>3

(* The bars delivered are finitely many.                                   *)
LEMMA DeliveredFinite ==
    ASSUME DeliveredRight
    PROVE  IsFiniteSet(ToSet(delivered))
<1>. DEFINE n == Len(delivered)
            I == 1..n
<1>1. /\ n \in Nat
      /\ \A i, j \in I : delivered[i] = delivered[j] => i = j
      /\ ToSet(delivered) = {delivered[i] : i \in I}
  BY DeliveredIs
<1>2. 1 \in Int /\ n \in Int
  BY <1>1
<1>. HIDE DEF n
<1>3. IsFiniteSet(I)
  BY <1>2, FS_Interval
<1>. HIDE DEF I
<1>. QED  BY <1>1, <1>3, ImageSize

(* The invariant of the medium engines: every memory holds, in order, the  *)
(* latest of the bars that belong in it, so its length tells how many      *)
(* there were.                                                             *)
THEOREM MediumInvariance == IndicatorSpec => []MediumInv
<1>1. IndicatorInit => MediumInv
  BY MediumStarts DEF IndicatorInit
<1>2. MediumInv /\ [IndicatorNext]_indicatorVars => MediumInv'
  BY MediumStep
<1>. QED  BY <1>1, <1>2, PTL DEF IndicatorSpec

(* A snapshot is computed from the bars before it alone, and every memory  *)
(* holds the latest bars that belong in it (IMSIStateCore.on_bar).         *)
THEOREM PriorOnly == IndicatorSpec => []BaselinesArePriorOnly
<1>1. MediumInv => BaselinesArePriorOnly
  <2>. SUFFICES ASSUME MediumInv, halted = "none", delivered # <<>> PROVE BaselinesArePriorOnly
    BY DEF BaselinesArePriorOnly
  <2>1. DeliveredRight /\ BucketMemories /\ StateMemory /\ DistanceMemory /\ SessionVwap /\ PriorSnapshot
    BY DEF MediumInv
  <2>2. \A key \in DOMAIN buckets : HoldsLatest(BarsOf(buckets[key]), SameSlot(Opened, key), MaxPrior)
    <3>. SUFFICES ASSUME NEW key \in DOMAIN buckets
                  PROVE  HoldsLatest(BarsOf(buckets[key]), SameSlot(Opened, key), MaxPrior)
      OBVIOUS
    <3>1. Memory(BarsOf(buckets[key]), SameSlot(Opened, key), MaxPrior)
      BY <2>1 DEF BucketMemories, BucketIs
    <3>. QED  BY <2>1, <3>1, MemoriesAreFinite, MemoryHolds, MediumConstants
  <2>3. HoldsLatest(BarsOf(states), WithState(Opened), MaxStates)
    <3>1. Memory(BarsOf(states), WithState(Opened), MaxStates)
      BY <2>1 DEF StateMemory
    <3>. QED  BY <2>1, <3>1, MemoriesAreFinite, MemoryHolds, MediumConstants
  <2>4. HoldsLatest(distances, ToSet(measured), MaxStates)
    <3>1. measured \in Seq(Nat) /\ Memory(distances, ToSet(measured), MaxStates)
      BY <2>1 DEF DistanceMemory
    <3>2. ToSet(measured) \subseteq Nat
      <4>1. DOMAIN measured = 1..Len(measured) /\ \A i \in 1..Len(measured) : measured[i] \in Nat
        BY <3>1, LenProperties, ElementOfSeq
      <4>. QED  BY <4>1 DEF ToSet
    <3>3. IsFiniteSet(ToSet(measured))
      BY <2>1, DeliveredFinite, FS_Subset DEF DistanceMemory
    <3>. QED  BY <3>1, <3>2, <3>3, MemoryHolds, MediumConstants
  <2>5. vwap = {bar \in ToSet(delivered) : SessionOfBar(bar) = SessionOfBar(Last(delivered))}
    BY <2>1 DEF SessionVwap
  <2>. QED  BY <2>1, <2>2, <2>3, <2>4, <2>5 DEF BaselinesArePriorOnly, PriorSnapshot
<1>. QED  BY <1>1, MediumInvariance, PTL

(* Nothing stops the medium engines but a bucket that meets a session      *)
(* twice, and that only in a session a closure has cut.                    *)
THEOREM StopsOnlyAfterClosure == IndicatorSpec => []MediumStopsOnlyAfterClosure
<1>1. MediumInv => MediumStopsOnlyAfterClosure
  BY DEF MediumInv
<1>. QED  BY <1>1, MediumInvariance, PTL

-----------------------------------------------------------------------------
(* The local clock *)

(* What the calendars asked about have in common *)
AskedAbout(cal) ==
    /\ cal.day \in Nat \ {0} /\ cal.change \in Int /\ cal.shift \in Int
    /\ TimesOfDay(cal, cal.windows)
    /\ \A e \in cal.exceptions : e.date \in Int /\ TimesOfDay(cal, e.closures)
    /\ Accepted(cal) /\ PartitionsTheDay(cal) /\ ClearOfTheChange(cal)

(* A wall that is not inside the hour skipped or repeated divides the      *)
(* instants, though the clock may go back: it has passed exactly since the *)
(* instant Utc gives it.                                                   *)
LEMMA WallDividesTime ==
    ASSUME NEW cal, cal.change \in Int, cal.shift \in Int, NEW wall \in Int \ Jumped(cal), NEW t \in Int
    PROVE  /\ Local(cal, t) \in Int /\ Utc(cal, wall) \in Int
           /\ wall <= Local(cal, t) <=> Utc(cal, wall) <= t
<1>. DEFINE a == cal.change
            b == cal.shift
<1>1. a \in Int /\ b \in Int
  OBVIOUS
<1>2. ~(a < wall /\ wall < a + b) /\ ~(a + b < wall /\ wall < a)
  BY <1>1 DEF Jumped
<1>3. /\ Local(cal, t) = IF t < a THEN t ELSE t + b
      /\ Utc(cal, wall) = IF wall < a \/ wall < a + b THEN wall ELSE wall - b
  BY DEF Local, Utc
<1>. HIDE DEF a, b
<1>. QED  BY <1>1, <1>2, <1>3

(* Two walls have one instant only around an hour that is skipped.         *)
LEMMA WallsMeetAtTheSkip ==
    ASSUME NEW cal, cal.change \in Int, cal.shift \in Int,
           NEW v \in Int \ Jumped(cal), NEW wall \in Int \ Jumped(cal), v < wall, Utc(cal, v) = Utc(cal, wall)
    PROVE  cal.change <= v /\ wall <= cal.change + cal.shift
<1>. DEFINE a == cal.change
            b == cal.shift
<1>1. a \in Int /\ b \in Int
  OBVIOUS
<1>2. \A w \in {v, wall} : ~(a < w /\ w < a + b) /\ ~(a + b < w /\ w < a)
  BY <1>1 DEF Jumped
<1>3. \A w \in {v, wall} : Utc(cal, w) = IF w < a \/ w < a + b THEN w ELSE w - b
  BY DEF Utc
<1>. HIDE DEF a, b
<1>4. a <= v /\ wall <= a + b
  BY <1>1, <1>2, <1>3
<1>. QED  BY <1>4 DEF a, b

-----------------------------------------------------------------------------
(* Days *)

(* A wall is a date and a time of day.                                     *)
LEMMA DateAndTime ==
    ASSUME NEW day \in Nat \ {0}, NEW wall \in Int
    PROVE  /\ wall \div day \in Int /\ wall % day \in 0..(day - 1)
           /\ wall = (day * (wall \div day)) + (wall % day)
<1>1. wall \div day \in Int
  OBVIOUS
<1>2. wall % day \in 0..(day - 1)
  OBVIOUS
<1>3. wall = (day * (wall \div day)) + (wall % day)
  OBVIOUS
<1>. QED  BY <1>1, <1>2, <1>3

(* and has no other.                                                       *)
LEMMA DateOf ==
    ASSUME NEW day \in Nat \ {0}, NEW date \in Int, NEW time \in 0..(day - 1)
    PROVE  (date * day + time) \div day = date /\ (date * day + time) % day = time
OBVIOUS

(* A wall lies in the span of a window on a date when its time lies in the *)
(* window and the date is the one the window is anchored to.               *)
LEMMA SpanIs ==
    ASSUME NEW day \in Nat \ {0}, NEW start \in 0..(day - 1), NEW end \in 0..(day - 1),
           NEW date \in Int, NEW wall \in Int,
           NEW time \in 0..(day - 1), NEW today \in Int, wall = (day * today) + time
    PROVE  /\ start < end =>
                ((date * day + start <= wall /\ wall < date * day + end)
                   <=> (date = today /\ start <= time /\ time < end))
           /\ end < start =>
                ((date * day + start <= wall /\ wall < (date + 1) * day + end)
                   <=> ((start <= time /\ date = today) \/ (time < end /\ date = today - 1)))
<1>. DEFINE p == date * day
            q == day * today
<1>1. p \in Int /\ q \in Int /\ wall = q + time /\ (date + 1) * day = p + day
  OBVIOUS
<1>2. date = today => p = q
  OBVIOUS
<1>3. date = today - 1 => p + day = q
  OBVIOUS
<1>4. today < date => q + day <= p
  OBVIOUS
<1>5. date < today - 1 => p + day + day <= q
  OBVIOUS
<1>6. date = today \/ date = today - 1 \/ today < date \/ date < today - 1
  OBVIOUS
<1>7. ASSUME start < end
      PROVE  (p + start <= wall /\ wall < p + end) <=> (date = today /\ start <= time /\ time < end)
  <2>. HIDE DEF p, q
  <2>. QED  BY <1>1, <1>2, <1>3, <1>4, <1>5, <1>6, <1>7
<1>8. ASSUME end < start
      PROVE  (p + start <= wall /\ wall < p + day + end)
               <=> ((start <= time /\ date = today) \/ (time < end /\ date = today - 1))
  <2>. HIDE DEF p, q
  <2>. QED  BY <1>1, <1>2, <1>3, <1>4, <1>5, <1>6, <1>8
<1>. HIDE DEF p, q
<1>9. p + day = (date + 1) * day
  BY <1>1
<1>. QED  BY <1>7, <1>8, <1>9 DEF p

(* A bounded set of integers has a largest, or least, element.             *)
LEMMA LargestExists ==
    ASSUME NEW S \in SUBSET Int, S # {}, NEW b \in Int, \A x \in S : x <= b
    PROVE  Max(S) \in S /\ \A x \in S : x <= Max(S)
<1>. DEFINE D == {b - x : x \in S}
<1>1. D \in SUBSET Nat /\ D # {}
  OBVIOUS
<1>2. PICK d \in D : \A e \in D : d <= e
  <2>. HIDE DEF D
  <2>. QED  BY <1>1, LeastExists
<1>3. \E x \in S : \A y \in S : x >= y
  <2>1. PICK x \in S : d = b - x
    BY <1>2
  <2>2. \A y \in S : b - x <= b - y
    BY <1>2, <2>1
  <2>3. \A y \in S : x >= y
    BY <2>2
  <2>. QED  BY <2>3
<1>4. Max(S) \in S /\ \A y \in S : Max(S) >= y
  BY <1>3, Zenon DEF Max
<1>. QED  BY <1>4

(* See LargestExists.                                                      *)
LEMMA SmallestExists ==
    ASSUME NEW S \in SUBSET Int, S # {}, NEW b \in Int, \A x \in S : b <= x
    PROVE  Min(S) \in S /\ \A x \in S : Min(S) <= x
<1>. DEFINE D == {x - b : x \in S}
<1>1. D \in SUBSET Nat /\ D # {}
  <2>1. \A x \in S : x - b \in Nat
    OBVIOUS
  <2>. QED  BY <2>1
<1>2. PICK d \in D : \A e \in D : d <= e
  <2>. HIDE DEF D
  <2>. QED  BY <1>1, LeastExists
<1>3. \E x \in S : \A y \in S : x <= y
  <2>1. PICK x \in S : d = x - b
    BY <1>2
  <2>2. \A y \in S : x - b <= y - b
    BY <1>2, <2>1
  <2>3. \A y \in S : x <= y
    BY <2>2
  <2>. QED  BY <2>3
<1>4. Min(S) \in S /\ \A y \in S : Min(S) <= y
  BY <1>3, Zenon DEF Min
<1>. QED  BY <1>4

-----------------------------------------------------------------------------
(* Windows and closures of a calendar asked about *)

(* A window begins and ends at different times of the day, and crosses     *)
(* midnight when it ends at the earlier one.                               *)
LEMMA WindowIs ==
    ASSUME NEW cal, AskedAbout(cal), NEW w \in cal.windows
    PROVE  /\ w.start \in 0..(cal.day - 1) /\ w.end \in 0..(cal.day - 1)
           /\ w.start < w.end => ~w.crosses
           /\ ~(w.start < w.end) => w.end < w.start /\ w.crosses
<1>1. w.start \in 0..(cal.day - 1) /\ w.end \in 0..(cal.day - 1)
  BY DEF AskedAbout, TimesOfDay
<1>2. w.start # w.end /\ w.crosses = (w.start > w.end)
  BY DEF AskedAbout, Accepted, WindowsAccepted
<1>3. cal.day \in Int
  BY DEF AskedAbout
<1>5. w.start \in Int /\ w.end \in Int
  BY <1>1, <1>3
<1>6. CASE w.start < w.end
  <2>1. ~(w.start > w.end)
    BY <1>5, <1>6
  <2>. QED  BY <1>1, <1>2, <1>6, <2>1
<1>7. CASE ~(w.start < w.end)
  <2>1. w.start > w.end /\ w.end < w.start
    BY <1>2, <1>5, <1>7
  <2>. QED  BY <1>1, <1>2, <1>7, <2>1
<1>. QED  BY <1>6, <1>7

(* A closure begins before it ends, neither of them inside the hour that   *)
(* the clock skips or repeats.                                             *)
LEMMA ClosureIs ==
    ASSUME NEW cal, AskedAbout(cal), NEW c \in Closures(cal)
    PROVE  /\ c = <<c[1], c[2], c[3]>>
           /\ c[3].start \in Int \ Jumped(cal) /\ c[3].end \in Int \ Jumped(cal) /\ c[3].start < c[3].end
<1>1. cal.day \in Nat \ {0}
  BY DEF AskedAbout
<1>0. PICK e \in cal.exceptions :
         c \in {<<e.name, k.name, Span(cal, k, e.date)>> :
                  k \in IF e.allDay THEN {WholeDay(cal)} ELSE e.closures}
  BY DEF Closures
<1>2. PICK k \in (IF e.allDay THEN {WholeDay(cal)} ELSE e.closures) :
         c = <<e.name, k.name, Span(cal, k, e.date)>>
  BY <1>0
<1>3. e.date \in Int
  BY DEF AskedAbout
<1>. DEFINE p == e.date * cal.day
<1>4. p \in Int /\ (e.date + 1) * cal.day = p + cal.day
  BY <1>1, <1>3
<1>5. c[3].start \in Int /\ c[3].end \in Int /\ c[3].start < c[3].end
  <2>1. CASE e.allDay
    <3>1. k = [name |-> "all_day", start |-> 0, end |-> cal.day, crosses |-> FALSE]
      BY <1>2, <2>1 DEF WholeDay
    <3>2. c[3].start = p + 0 /\ c[3].end = p + cal.day
      BY <1>2, <3>1 DEF Span
    <3>. HIDE DEF p
    <3>. QED  BY <1>1, <1>4, <3>2
  <2>2. CASE ~e.allDay
    <3>1. k \in e.closures
      BY <1>2, <2>2
    <3>2. k.start \in 0..(cal.day - 1) /\ k.end \in 0..(cal.day - 1)
      BY <3>1 DEF AskedAbout, TimesOfDay
    <3>3. k.start # k.end /\ k.crosses = (k.start > k.end)
      BY <3>1 DEF AskedAbout, Accepted, ClosuresAccepted
    <3>4. CASE k.start > k.end
      <4>1. c[3].start = p + k.start /\ c[3].end = p + cal.day + k.end
        BY <1>2, <1>4, <3>3, <3>4 DEF Span
      <4>. HIDE DEF p
      <4>. QED  BY <1>1, <1>4, <3>2, <4>1
    <3>5. CASE ~(k.start > k.end)
      <4>1. c[3].start = p + k.start /\ c[3].end = p + k.end
        BY <1>2, <1>4, <3>3, <3>5 DEF Span
      <4>. HIDE DEF p
      <4>. QED  BY <1>1, <1>4, <3>2, <3>3, <3>5, <4>1
    <3>. QED  BY <3>4, <3>5
  <2>. QED  BY <2>1, <2>2
<1>6. c[3].start \notin Jumped(cal) /\ c[3].end \notin Jumped(cal)
  BY DEF AskedAbout, ClearOfTheChange
<1>7. c = <<c[1], c[2], c[3]>>
  BY <1>2
<1>. QED  BY <1>5, <1>6, <1>7

(* The closures accepted do not overlap.                                   *)
LEMMA OneClosure ==
    ASSUME NEW cal, AskedAbout(cal), NEW c \in Closures(cal), NEW d \in Closures(cal), NEW wall \in Int,
           Covers(c[3], wall), Covers(d[3], wall)
    PROVE  c = d
<1>. DEFINE Of(x) == [start |-> x[3].start, end |-> x[3].end, of |-> x]
<1>1. Disjoint({Of(x) : x \in Closures(cal)})
  BY DEF AskedAbout, Accepted, ClosuresAccepted
<1>2. Of(c) = Of(d) \/ c[3].end <= d[3].start \/ d[3].end <= c[3].start
  BY <1>1 DEF Disjoint
<1>3. c[3].start <= wall /\ wall < c[3].end /\ d[3].start <= wall /\ wall < d[3].end
  BY DEF Covers
<1>4. c[3].start \in Int /\ c[3].end \in Int /\ d[3].start \in Int /\ d[3].end \in Int
  BY ClosureIs
<1>5. Of(c) = Of(d)
  <2>. HIDE DEF Of
  <2>. QED  BY <1>2, <1>3, <1>4
<1>. QED  BY <1>5

(* The windows accepted do not overlap.                                    *)
LEMMA OneWindow ==
    ASSUME NEW cal, AskedAbout(cal), NEW v \in cal.windows, NEW w \in cal.windows,
           NEW time \in 0..(cal.day - 1), InWindow(v, time), InWindow(w, time)
    PROVE  v = w
<1>0. cal.day \in Nat \ {0}
  BY DEF AskedAbout
<1>. DEFINE Pieces == UNION {PiecesOf(cal, x) : x \in cal.windows}
<1>1. Disjoint(Pieces)
  BY DEF AskedAbout, Accepted, WindowsAccepted
<1>2. ASSUME NEW x \in cal.windows, InWindow(x, time)
      PROVE  \E a \in Pieces : a.of = x /\ a.start \in Int /\ a.end \in Int /\ a.start <= time /\ time < a.end
  <2>1. /\ x.start \in 0..(cal.day - 1) /\ x.end \in 0..(cal.day - 1)
        /\ x.start < x.end => ~x.crosses
        /\ ~(x.start < x.end) => x.end < x.start /\ x.crosses
    BY WindowIs
  <2>2. CASE x.start < x.end
    <3>1. x.start <= time /\ time < x.end
      BY <1>2, <2>1, <2>2 DEF InWindow
    <3>2. [start |-> x.start, end |-> x.end, of |-> x] \in PiecesOf(cal, x)
      BY <2>1, <2>2 DEF PiecesOf
    <3>. QED  BY <1>0, <2>1, <3>1, <3>2
  <2>3. CASE ~(x.start < x.end) /\ time < x.end
    <3>1. [start |-> 0, end |-> x.end, of |-> x] \in PiecesOf(cal, x)
      BY <2>1, <2>3 DEF PiecesOf
    <3>. QED  BY <1>0, <2>1, <2>3, <3>1
  <2>4. CASE ~(x.start < x.end) /\ ~(time < x.end)
    <3>1. x.start <= time
      BY <1>0, <1>2, <2>1, <2>4 DEF InWindow
    <3>2. [start |-> x.start, end |-> cal.day, of |-> x] \in PiecesOf(cal, x)
      BY <2>1, <2>4 DEF PiecesOf
    <3>. QED  BY <1>0, <2>1, <3>1, <3>2
  <2>. QED  BY <2>2, <2>3, <2>4
<1>3. PICK a \in Pieces : a.of = v /\ a.start \in Int /\ a.end \in Int /\ a.start <= time /\ time < a.end
  BY <1>2
<1>4. PICK b \in Pieces : b.of = w /\ b.start \in Int /\ b.end \in Int /\ b.start <= time /\ time < b.end
  BY <1>2
<1>5. a = b \/ a.end <= b.start \/ b.end <= a.start
  BY <1>1 DEF Disjoint
<1>6. time \in Int
  BY <1>0
<1>7. a = b
  BY <1>3, <1>4, <1>5, <1>6
<1>. QED  BY <1>3, <1>4, <1>7

-----------------------------------------------------------------------------
(* The questions *)

Date(cal, t) == Anchor(cal, TheWindow(cal, t), t)
Whole(cal, t) == Span(cal, TheWindow(cal, t), Date(cal, t))

(* The local clock of an instant is a date and a time of day.              *)
LEMMA LocalIs ==
    ASSUME NEW cal, AskedAbout(cal), NEW t \in Int
    PROVE  /\ Local(cal, t) \in Int /\ LocalDate(cal, t) \in Int /\ LocalTime(cal, t) \in 0..(cal.day - 1)
           /\ Local(cal, t) = (cal.day * LocalDate(cal, t)) + LocalTime(cal, t)
<1>1. cal.day \in Nat \ {0} /\ cal.change \in Int /\ cal.shift \in Int
  BY DEF AskedAbout
<1>2. Local(cal, t) \in Int
  BY <1>1 DEF Local
<1>. QED  BY <1>1, <1>2, DateAndTime DEF LocalDate, LocalTime

(* At every instant one window matches, and no two closures.               *)
LEMMA AnswerIs ==
    ASSUME NEW cal, AskedAbout(cal), NEW t \in Int
    PROVE  /\ TheWindow(cal, t) \in cal.windows /\ Matching(cal, t) = {TheWindow(cal, t)}
           /\ Open(cal, t) <=> ClosedBy(cal, t) = {}
           /\ Classify(cal, t) = IF Open(cal, t) THEN TheWindow(cal, t).type ELSE "CLOSED"
           /\ Open(cal, t) => SessionId(cal, t) = <<TheWindow(cal, t).name, Date(cal, t)>>
           /\ ~Open(cal, t) => \E c \in Closures(cal) : SessionId(cal, t) = <<c[1], c[2]>>
<1>. DEFINE time == LocalTime(cal, t)
            wall == Local(cal, t)
<1>1. time \in 0..(cal.day - 1) /\ wall \in Int
  BY LocalIs
<1>2. PICK w \in cal.windows : InWindow(w, time)
  BY <1>1 DEF AskedAbout, PartitionsTheDay
<1>3. Matching(cal, t) = {w}
  <2>1. ASSUME NEW v \in Matching(cal, t) PROVE v = w
    <3>1. v \in cal.windows /\ InWindow(v, time)
      BY DEF Matching
    <3>. HIDE DEF time
    <3>. QED  BY <1>1, <1>2, <3>1, OneWindow
  <2>2. w \in Matching(cal, t)
    BY <1>2 DEF Matching
  <2>. QED  BY <2>1, <2>2
<1>4. TheWindow(cal, t) = w
  BY <1>3 DEF TheWindow
<1>5. Cardinality(Matching(cal, t)) = 1
  BY <1>3, FS_Singleton
<1>6. Open(cal, t) <=> ClosedBy(cal, t) = {}
  BY <1>5 DEF Open
<1>7. CASE ClosedBy(cal, t) = {}
  <2>1. Cardinality(ClosedBy(cal, t)) = 0
    BY <1>7, FS_EmptySet
  <2>2. Classify(cal, t) = w.type
    BY <1>3, <1>4, <1>5, <1>7, <2>1 DEF Classify
  <2>3. SessionId(cal, t) = <<w.name, Date(cal, t)>>
    BY <1>4, <1>6, <1>7, <2>1 DEF SessionId, Date
  <2>. QED  BY <1>2, <1>3, <1>4, <1>6, <1>7, <2>2, <2>3
<1>8. CASE ClosedBy(cal, t) # {}
  <2>1. PICK c \in ClosedBy(cal, t) : TRUE
    BY <1>8
  <2>2. ClosedBy(cal, t) = {c}
    <3>1. \A d \in ClosedBy(cal, t) : d \in Closures(cal) /\ Covers(d[3], wall)
      BY DEF ClosedBy
    <3>. HIDE DEF wall
    <3>2. \A d \in ClosedBy(cal, t) : d = c
      BY <1>1, <2>1, <3>1, OneClosure
    <3>. QED  BY <2>1, <3>2
  <2>3. Cardinality(ClosedBy(cal, t)) = 1
    BY <2>2, FS_Singleton
  <2>4. Classify(cal, t) = "CLOSED"
    BY <1>8, <2>3 DEF Classify
  <2>5. (CHOOSE d \in ClosedBy(cal, t) : TRUE) = c
    BY <2>2
  <2>6. SessionId(cal, t) = <<c[1], c[2]>>
    <3>1. ~(Cardinality(ClosedBy(cal, t)) > 1)
      BY <2>3
    <3>2. SessionId(cal, t) = <<(CHOOSE d \in ClosedBy(cal, t) : TRUE)[1],
                                (CHOOSE d \in ClosedBy(cal, t) : TRUE)[2]>>
      BY <1>8, <3>1, Zenon DEF SessionId
    <3>. QED  BY <2>5, <3>2
  <2>7. c \in Closures(cal)
    BY <2>1 DEF ClosedBy
  <2>. QED  BY <1>2, <1>3, <1>4, <1>6, <1>8, <2>4, <2>6, <2>7
<1>. QED  BY <1>7, <1>8

(* A window of a date covers the walls of which it is the window and whose *)
(* session has that date.                                                  *)
LEMMA SpanOfWindow ==
    ASSUME NEW cal, AskedAbout(cal), NEW t \in Int, NEW w \in cal.windows, NEW date \in Int
    PROVE  /\ Span(cal, w, date).start \in Int \ Jumped(cal) /\ Span(cal, w, date).end \in Int \ Jumped(cal)
           /\ Covers(Span(cal, w, date), Local(cal, t)) <=> (w = TheWindow(cal, t) /\ date = Date(cal, t))
<1>. DEFINE day   == cal.day
            wall  == Local(cal, t)
            today == LocalDate(cal, t)
            time  == LocalTime(cal, t)
<1>1. day \in Nat \ {0}
  BY DEF AskedAbout
<1>2. wall \in Int /\ today \in Int /\ time \in 0..(day - 1) /\ wall = (day * today) + time
  BY LocalIs
<1>3. /\ w.start \in 0..(day - 1) /\ w.end \in 0..(day - 1)
      /\ w.start < w.end => ~w.crosses
      /\ ~(w.start < w.end) => w.end < w.start /\ w.crosses
  BY WindowIs
<1>. DEFINE last == IF w.crosses THEN date + 1 ELSE date
            from == date * day + w.start
            to   == last * day + w.end
<1>4. Span(cal, w, date).start = from /\ Span(cal, w, date).end = to
  BY DEF Span
<1>5. from \in Int \ Jumped(cal) /\ to \in Int \ Jumped(cal)
  <2>1. last \in Int
    OBVIOUS
  <2>2. from % day = w.start /\ to % day = w.end
    <3>. HIDE DEF day, last
    <3>. QED  BY <1>1, <1>3, <2>1, DateOf
  <2>3. \A x \in Jumped(cal) : x % day # w.start /\ x % day # w.end
    BY DEF AskedAbout, ClearOfTheChange
  <2>4. from \in Int /\ to \in Int
    <3>. HIDE DEF last, day
    <3>. QED  BY <1>1, <1>3, <2>1
  <2>. HIDE DEF from, to
  <2>. QED  BY <2>2, <2>3, <2>4
<1>6. (from <= wall /\ wall < to) <=> (InWindow(w, time) /\ date = Anchor(cal, w, t))
  <2>1. CASE w.start < w.end
    <3>1. (from <= wall /\ wall < date * day + w.end) <=> (date = today /\ w.start <= time /\ time < w.end)
      <4>. HIDE DEF day, wall, today, time
      <4>. QED  BY <1>1, <1>2, <1>3, <2>1, SpanIs
    <3>2. last = date /\ Anchor(cal, w, t) = today
      BY <1>3, <2>1 DEF Anchor
    <3>3. InWindow(w, time) <=> (w.start <= time /\ time < w.end)
      BY <1>3, <2>1 DEF InWindow
    <3>4. to = date * day + w.end
      BY <3>2
    <3>. HIDE DEF day, wall, today, time, from, to, last
    <3>. QED  BY <3>1, <3>2, <3>3, <3>4
  <2>2. CASE ~(w.start < w.end)
    <3>0. w.end < w.start /\ w.crosses
      BY <1>3, <2>2
    <3>1. (from <= wall /\ wall < (date + 1) * day + w.end)
             <=> ((w.start <= time /\ date = today) \/ (time < w.end /\ date = today - 1))
      <4>. HIDE DEF day, wall, today, time
      <4>. QED  BY <1>1, <1>2, <1>3, <3>0, SpanIs
    <3>2. last = date + 1 /\ Anchor(cal, w, t) = IF time < w.end THEN today - 1 ELSE today
      BY <3>0 DEF Anchor
    <3>3. InWindow(w, time) <=> (time >= w.start \/ time < w.end)
      BY <3>0 DEF InWindow
    <3>4. to = (date + 1) * day + w.end
      BY <3>2
    <3>5. time \in Int /\ w.start \in Int /\ w.end \in Int
      BY <1>1, <1>2, <1>3
    <3>. HIDE DEF day, wall, today, time, from, to, last
    <3>. QED  BY <3>0, <3>1, <3>2, <3>3, <3>4, <3>5
  <2>. QED  BY <2>1, <2>2
<1>7. InWindow(w, time) <=> w = TheWindow(cal, t)
  <2>1. Matching(cal, t) = {TheWindow(cal, t)}
    BY AnswerIs
  <2>. QED  BY <2>1 DEF Matching
<1>. HIDE DEF from, to, wall
<1>8. Covers(Span(cal, w, date), wall) <=> (w = TheWindow(cal, t) /\ date = Date(cal, t))
  BY <1>4, <1>6, <1>7 DEF Covers, Date
<1>. QED  BY <1>4, <1>5, <1>8 DEF wall

(* The date of a session is an integer.                                    *)
LEMMA DateIs ==
    ASSUME NEW cal, AskedAbout(cal), NEW t \in Int
    PROVE  Date(cal, t) \in Int
BY LocalIs DEF Date, Anchor

-----------------------------------------------------------------------------
(* Cells: what the closures leave of a session *)

Cuts(cal, t) == {s \in {c[3] : c \in Closures(cal)} : s.start < Whole(cal, t).end /\ s.end > Whole(cal, t).start}
CellStart(cal, t) ==
    Max({Whole(cal, t).start} \cup {s.end : s \in {s \in Cuts(cal, t) : s.end <= Local(cal, t)}})
CellEnd(cal, t) ==
    Min({Whole(cal, t).end} \cup {s.start : s \in {s \in Cuts(cal, t) : s.start > Local(cal, t)}})

(* A cell contains the wall it is made for.  It begins with its session or *)
(* where a closure ends, ends alike, and no closure reaches into it.       *)
LEMMA CellIs ==
    ASSUME NEW cal, AskedAbout(cal), NEW t \in Int, Open(cal, t)
    PROVE  /\ CellStart(cal, t) \in Int \ Jumped(cal) /\ CellEnd(cal, t) \in Int \ Jumped(cal)
           /\ Whole(cal, t).start <= CellStart(cal, t) /\ CellStart(cal, t) <= Local(cal, t)
           /\ Local(cal, t) < CellEnd(cal, t) /\ CellEnd(cal, t) <= Whole(cal, t).end
           /\ \/ CellStart(cal, t) = Whole(cal, t).start
              \/ \E c \in Closures(cal) : CellStart(cal, t) = c[3].end
           /\ \/ CellEnd(cal, t) = Whole(cal, t).end
              \/ \E c \in Closures(cal) : CellEnd(cal, t) = c[3].start
           /\ \A c \in Closures(cal) : c[3].end <= CellStart(cal, t) \/ CellEnd(cal, t) <= c[3].start
           /\ SessionBounds(cal, t) = [start |-> Utc(cal, CellStart(cal, t)), end |-> Utc(cal, CellEnd(cal, t))]
<1>. DEFINE wall == Local(cal, t)
            from == Whole(cal, t).start
            to   == Whole(cal, t).end
            ends == {s.end : s \in {s \in Cuts(cal, t) : s.end <= wall}}
            starts == {s.start : s \in {s \in Cuts(cal, t) : s.start > wall}}
            a == CellStart(cal, t)
            b == CellEnd(cal, t)
<1>0. wall \in Int
  BY LocalIs
<1>1. from \in Int \ Jumped(cal) /\ to \in Int \ Jumped(cal) /\ from <= wall /\ wall < to
  <2>1. TheWindow(cal, t) \in cal.windows /\ Date(cal, t) \in Int
    BY AnswerIs, DateIs
  <2>. QED  BY <2>1, SpanOfWindow DEF Whole, Covers
<1>2. \A c \in Closures(cal) :
         /\ c[3].start \in Int \ Jumped(cal) /\ c[3].end \in Int \ Jumped(cal) /\ c[3].start < c[3].end
         /\ c[3].end <= wall \/ wall < c[3].start
  <2>1. ASSUME NEW c \in Closures(cal)
        PROVE  /\ c[3].start \in Int \ Jumped(cal) /\ c[3].end \in Int \ Jumped(cal) /\ c[3].start < c[3].end
               /\ c[3].end <= wall \/ wall < c[3].start
    <3>1. c[3].start \in Int \ Jumped(cal) /\ c[3].end \in Int \ Jumped(cal) /\ c[3].start < c[3].end
      BY ClosureIs
    <3>2. ~Covers(c[3], wall)
      BY AnswerIs DEF ClosedBy
    <3>. HIDE DEF wall
    <3>. QED  BY <1>0, <3>1, <3>2 DEF Covers
  <2>. QED  BY <2>1
<1>3. \A s \in Cuts(cal, t) : \E c \in Closures(cal) : s = c[3]
  BY DEF Cuts
<1>4. \A x \in ends : x \in Int \ Jumped(cal) /\ x <= wall /\ \E c \in Closures(cal) : x = c[3].end
  BY <1>2, <1>3
<1>5. \A x \in starts : x \in Int \ Jumped(cal) /\ wall + 1 <= x /\ \E c \in Closures(cal) : x = c[3].start
  <2>1. ASSUME NEW x \in starts
        PROVE  x \in Int \ Jumped(cal) /\ wall + 1 <= x /\ \E c \in Closures(cal) : x = c[3].start
    <3>1. PICK s \in Cuts(cal, t) : s.start > wall /\ x = s.start
      OBVIOUS
    <3>2. PICK c \in Closures(cal) : s = c[3]
      BY <1>3
    <3>. HIDE DEF wall, starts
    <3>. QED  BY <1>0, <1>2, <3>1, <3>2
  <2>. QED  BY <2>1
<1>6. a = Max({from} \cup ends) /\ b = Min({to} \cup starts)
  BY DEF CellStart, CellEnd
<1>. HIDE DEF a, b, ends, starts
<1>7. a \in {from} \cup ends /\ \A x \in {from} \cup ends : x <= a
  <2>. DEFINE all == {from} \cup ends
  <2>1. all \in SUBSET Int /\ all # {} /\ \A x \in all : x <= wall
    BY <1>1, <1>4
  <2>2. a = Max(all)
    BY <1>6
  <2>. HIDE DEF all, wall, from
  <2>3. Max(all) \in all /\ \A x \in all : x <= Max(all)
    BY <1>0, <2>1, LargestExists
  <2>. QED  BY <2>2, <2>3 DEF all
<1>8. b \in {to} \cup starts /\ \A x \in {to} \cup starts : b <= x
  <2>. DEFINE all == {to} \cup starts
  <2>. HIDE DEF wall, to
  <2>1. all \in SUBSET Int /\ all # {} /\ \A x \in all : wall + 1 <= x
    BY <1>0, <1>1, <1>5
  <2>2. b = Min(all)
    BY <1>6
  <2>. DEFINE next == wall + 1
  <2>3. next \in Int
    BY <1>0
  <2>4. \A x \in all : next <= x
    BY <2>1
  <2>. HIDE DEF all, next
  <2>5. Min(all) \in all /\ \A x \in all : Min(all) <= x
    BY <2>1, <2>3, <2>4, SmallestExists
  <2>. QED  BY <2>2, <2>5 DEF all
<1>9. a \in Int \ Jumped(cal) /\ from <= a /\ a <= wall
  BY <1>1, <1>4, <1>7
<1>10. b \in Int \ Jumped(cal) /\ wall < b /\ b <= to
  <2>1. wall + 1 <= b /\ b \in Int \ Jumped(cal) /\ b <= to
    <3>. HIDE DEF wall, to
    <3>. QED  BY <1>0, <1>1, <1>5, <1>8
  <2>. HIDE DEF wall, to
  <2>. QED  BY <1>0, <2>1
<1>11. ASSUME NEW c \in Closures(cal) PROVE c[3].end <= a \/ b <= c[3].start
  <2>. DEFINE s == c[3]
  <2>1. CASE s.start < to /\ s.end > from
    <3>1. s \in Cuts(cal, t)
      BY <2>1 DEF Cuts
    <3>2. s.end <= wall => s.end \in ends
      BY <3>1 DEF ends
    <3>3. s.start > wall => s.start \in starts
      BY <3>1 DEF starts
    <3>4. s.end <= wall \/ s.start > wall
      <4>1. s.start \in Int /\ (s.end <= wall \/ wall < s.start)
        BY <1>2
      <4>. HIDE DEF wall, s
      <4>. QED  BY <1>0, <4>1
    <3>. HIDE DEF wall, from, to, s
    <3>5. s.end <= a \/ b <= s.start
      BY <1>7, <1>8, <3>2, <3>3, <3>4
    <3>. QED  BY <3>5 DEF s
  <2>2. CASE ~(s.start < to /\ s.end > from)
    <3>1. s.start \in Int /\ s.end \in Int
      BY <1>2
    <3>. HIDE DEF wall, from, to, s
    <3>2. s.end <= a \/ b <= s.start
      BY <1>0, <1>1, <1>9, <1>10, <2>2, <3>1
    <3>. QED  BY <3>2 DEF s
  <2>. QED  BY <2>1, <2>2
<1>12. SessionBounds(cal, t) = [start |-> Utc(cal, a), end |-> Utc(cal, b)]
  <2>1. Covers([start |-> a, end |-> b], wall)
    BY <1>9, <1>10 DEF Covers
  <2>2. SessionBounds(cal, t) = IF Covers([start |-> CellStart(cal, t), end |-> CellEnd(cal, t)], Local(cal, t))
                                THEN [start |-> Utc(cal, CellStart(cal, t)), end |-> Utc(cal, CellEnd(cal, t))]
                                ELSE NoBounds
    BY DEF SessionBounds, CellStart, CellEnd, Cuts, Whole, Date
  <2>. QED  BY <2>1, <2>2 DEF a, b
<1>13. a = from \/ \E c \in Closures(cal) : a = c[3].end
  BY <1>4, <1>7
<1>14. b = to \/ \E c \in Closures(cal) : b = c[3].start
  BY <1>5, <1>8
<1>. QED  BY <1>9, <1>10, <1>11, <1>12, <1>13, <1>14 DEF a, b

(* An instant whose wall lies in the session of an open one is of the same *)
(* session.                                                                *)
LEMMA SameSession ==
    ASSUME NEW cal, AskedAbout(cal), NEW t \in Int, NEW u \in Int,
           Whole(cal, t).start <= Local(cal, u), Local(cal, u) < Whole(cal, t).end
    PROVE  TheWindow(cal, u) = TheWindow(cal, t) /\ Date(cal, u) = Date(cal, t) /\ Whole(cal, u) = Whole(cal, t)
<1>1. TheWindow(cal, t) \in cal.windows /\ Date(cal, t) \in Int
  BY AnswerIs, DateIs
<1>2. Covers(Span(cal, TheWindow(cal, t), Date(cal, t)), Local(cal, u))
  BY DEF Covers, Whole
<1>3. TheWindow(cal, t) = TheWindow(cal, u) /\ Date(cal, t) = Date(cal, u)
  BY <1>1, <1>2, SpanOfWindow
<1>. QED  BY <1>3 DEF Whole

(* An instant whose wall lies in the cell of another is open and has that  *)
(* cell.                                                                   *)
LEMMA SameCell ==
    ASSUME NEW cal, AskedAbout(cal), NEW t \in Int, NEW u \in Int, Open(cal, t),
           CellStart(cal, t) <= Local(cal, u), Local(cal, u) < CellEnd(cal, t)
    PROVE  /\ Open(cal, u) /\ SessionId(cal, u) = SessionId(cal, t)
           /\ CellStart(cal, u) = CellStart(cal, t) /\ CellEnd(cal, u) = CellEnd(cal, t)
<1>. DEFINE wall == Local(cal, u)
            a == CellStart(cal, t)
            b == CellEnd(cal, t)
            c == CellStart(cal, u)
            d == CellEnd(cal, u)
            from == Whole(cal, t).start
            to   == Whole(cal, t).end
<1>0. wall \in Int
  BY LocalIs
<1>1. /\ a \in Int /\ b \in Int /\ from <= a /\ b <= to
      /\ a = from \/ \E k \in Closures(cal) : a = k[3].end
      /\ b = to \/ \E k \in Closures(cal) : b = k[3].start
      /\ \A k \in Closures(cal) : k[3].end <= a \/ b <= k[3].start
  BY CellIs
<1>2. \A k \in Closures(cal) : k[3].start \in Int /\ k[3].end \in Int /\ k[3].start < k[3].end
  BY ClosureIs
<1>3. from \in Int /\ to \in Int
  <2>1. TheWindow(cal, t) \in cal.windows /\ Date(cal, t) \in Int
    BY AnswerIs, DateIs
  <2>. QED  BY <2>1, SpanOfWindow DEF Whole
<1>4. a <= wall /\ wall < b
  OBVIOUS
<1>5. TheWindow(cal, u) = TheWindow(cal, t) /\ Date(cal, u) = Date(cal, t) /\ Whole(cal, u) = Whole(cal, t)
  <2>1. from <= wall /\ wall < to
    <3>. HIDE DEF a, b, wall, from, to
    <3>. QED  BY <1>0, <1>1, <1>3, <1>4
  <2>. QED  BY <2>1, SameSession
<1>6. Open(cal, u)
  <2>1. \A k \in Closures(cal) : ~Covers(k[3], wall)
    <3>. HIDE DEF a, b, wall
    <3>. QED  BY <1>0, <1>1, <1>2, <1>4 DEF Covers
  <2>2. ClosedBy(cal, u) = {}
    BY <2>1 DEF ClosedBy
  <2>. QED  BY <2>2, AnswerIs
<1>7. SessionId(cal, u) = SessionId(cal, t)
  BY <1>5, <1>6, AnswerIs
<1>8. /\ c \in Int /\ d \in Int /\ from <= c /\ c <= wall /\ wall < d /\ d <= to
      /\ c = from \/ \E k \in Closures(cal) : c = k[3].end
      /\ d = to \/ \E k \in Closures(cal) : d = k[3].start
      /\ \A k \in Closures(cal) : k[3].end <= c \/ d <= k[3].start
  BY <1>5, <1>6, CellIs
<1>9. c = a /\ b = d
  <2>. HIDE DEF a, b, c, d, wall, from, to
  <2>1. a <= c
    BY <1>0, <1>1, <1>2, <1>3, <1>4, <1>8
  <2>2. c <= a
    BY <1>0, <1>1, <1>2, <1>3, <1>4, <1>8
  <2>3. b <= d
    BY <1>0, <1>1, <1>2, <1>3, <1>4, <1>8
  <2>4. d <= b
    BY <1>0, <1>1, <1>2, <1>3, <1>4, <1>8
  <2>. QED  BY <1>1, <1>8, <2>1, <2>2, <2>3, <2>4
<1>. QED  BY <1>6, <1>7, <1>9

(* The segment of an open instant contains it.                             *)
LEMMA SegmentContains ==
    ASSUME NEW cal, AskedAbout(cal), NEW t \in Int, Open(cal, t)
    PROVE  /\ SessionBounds(cal, t).start \in Int /\ SessionBounds(cal, t).end \in Int
           /\ SessionBounds(cal, t).start <= t /\ t < SessionBounds(cal, t).end
           /\ \A u \in Int : /\ SessionBounds(cal, t).start <= u <=> CellStart(cal, t) <= Local(cal, u)
                             /\ u < SessionBounds(cal, t).end <=> Local(cal, u) < CellEnd(cal, t)
<1>. DEFINE a == CellStart(cal, t)
            b == CellEnd(cal, t)
<1>1. /\ a \in Int \ Jumped(cal) /\ b \in Int \ Jumped(cal) /\ a <= Local(cal, t) /\ Local(cal, t) < b
      /\ SessionBounds(cal, t) = [start |-> Utc(cal, a), end |-> Utc(cal, b)]
  BY CellIs
<1>2. cal.change \in Int /\ cal.shift \in Int
  BY DEF AskedAbout
<1>. HIDE DEF a, b
<1>3. ASSUME NEW u \in Int
      PROVE  /\ Utc(cal, a) \in Int /\ Utc(cal, b) \in Int
             /\ Utc(cal, a) <= u <=> a <= Local(cal, u)
             /\ u < Utc(cal, b) <=> Local(cal, u) < b
  <2>1. Local(cal, u) \in Int
    BY LocalIs
  <2>2. Utc(cal, a) \in Int /\ (a <= Local(cal, u) <=> Utc(cal, a) <= u)
    BY <1>1, <1>2, WallDividesTime
  <2>3. Utc(cal, b) \in Int /\ (b <= Local(cal, u) <=> Utc(cal, b) <= u)
    BY <1>1, <1>2, WallDividesTime
  <2>. QED  BY <1>1, <2>1, <2>2, <2>3
<1>4. Utc(cal, a) \in Int /\ Utc(cal, b) \in Int
  BY <1>3
<1>5. Utc(cal, a) <= t /\ t < Utc(cal, b)
  BY <1>1, <1>3
<1>. QED  BY <1>1, <1>3, <1>4, <1>5 DEF a, b

(* Where a segment starts, the one before has another session, or the      *)
(* instant before is closed.                                               *)
LEMMA SegmentFollows ==
    ASSUME NEW cal, AskedAbout(cal), NEW t \in Int, Open(cal, t), Open(cal, t - 1),
           SessionBounds(cal, t).start = t
    PROVE  SessionBounds(cal, t - 1).end = t /\ SessionId(cal, t - 1) # SessionId(cal, t)
<1>. DEFINE s == t - 1
            wall == Local(cal, t)
            before == Local(cal, s)
            a == CellStart(cal, t)
            b == CellEnd(cal, s)
<1>0. s \in Int /\ wall \in Int /\ before \in Int /\ cal.change \in Int /\ cal.shift \in Int /\ s < t
  BY LocalIs DEF AskedAbout
<1>1. a \in Int \ Jumped(cal) /\ b \in Int \ Jumped(cal)
  BY <1>0, CellIs
<1>2. \A u \in Int : t <= u <=> a <= Local(cal, u)
  BY SegmentContains
<1>3. /\ SessionBounds(cal, s).end \in Int /\ s < SessionBounds(cal, s).end
      /\ \A u \in Int : u < SessionBounds(cal, s).end <=> Local(cal, u) < b
      /\ \A u \in Int : SessionBounds(cal, s).start <= u <=> CellStart(cal, s) <= Local(cal, u)
      /\ SessionBounds(cal, s).start \in Int /\ SessionBounds(cal, s).start <= s
  BY <1>0, SegmentContains
<1>4. before < a /\ a <= wall
  <2>1. a <= wall /\ ~(a <= before)
    BY <1>0, <1>2
  <2>. HIDE DEF a, before
  <2>. QED  BY <1>0, <1>1, <2>1
<1>5. ~(t < SessionBounds(cal, s).end)
  <2>. SUFFICES ASSUME t < SessionBounds(cal, s).end PROVE FALSE
    OBVIOUS
  <2>1. wall < b
    BY <1>3
  <2>2. CellStart(cal, s) <= wall
    BY <1>0, <1>3
  <2>3. CellStart(cal, t) = CellStart(cal, s)
    BY <1>0, <2>1, <2>2, SameCell
  <2>4. CellStart(cal, s) <= before
    BY <1>0, <1>3
  <2>. HIDE DEF before
  <2>. QED  BY <1>0, <1>1, <1>4, <2>3, <2>4
<1>6. SessionBounds(cal, s).end = t
  <2>. HIDE DEF s
  <2>1. SessionBounds(cal, s).end <= t /\ s < SessionBounds(cal, s).end
    BY <1>0, <1>3, <1>5
  <2>. QED  BY <1>0, <1>3, <2>1 DEF s
<1>7. SessionId(cal, s) # SessionId(cal, t)
  <2>. SUFFICES ASSUME SessionId(cal, s) = SessionId(cal, t) PROVE FALSE
    OBVIOUS
  <2>1. TheWindow(cal, s) = TheWindow(cal, t) /\ Date(cal, s) = Date(cal, t)
    <3>1. /\ SessionId(cal, t) = <<TheWindow(cal, t).name, Date(cal, t)>>
          /\ SessionId(cal, s) = <<TheWindow(cal, s).name, Date(cal, s)>>
          /\ TheWindow(cal, t) \in cal.windows /\ TheWindow(cal, s) \in cal.windows
      BY <1>0, AnswerIs
    <3>2. \A v, w \in cal.windows : v.name = w.name => v = w
      BY DEF AskedAbout, PartitionsTheDay
    <3>3. TheWindow(cal, s).name = TheWindow(cal, t).name /\ Date(cal, s) = Date(cal, t)
      BY <3>1
    <3>. QED  BY <3>1, <3>2, <3>3
  <2>2. Whole(cal, t).start <= before
    <3>1. Whole(cal, s).start <= CellStart(cal, s) /\ CellStart(cal, s) <= before /\ CellStart(cal, s) \in Int
      BY <1>0, CellIs
    <3>2. Whole(cal, s) = Whole(cal, t)
      BY <2>1 DEF Whole
    <3>3. Whole(cal, s).start \in Int
      <4>1. TheWindow(cal, s) \in cal.windows /\ Date(cal, s) \in Int
        BY <1>0, AnswerIs, DateIs
      <4>. QED  BY <1>0, <4>1, SpanOfWindow DEF Whole
    <3>. HIDE DEF before
    <3>. QED  BY <1>0, <3>1, <3>2, <3>3
  <2>3. PICK c \in Closures(cal) : a = c[3].end
    <3>1. a = Whole(cal, t).start \/ \E c \in Closures(cal) : a = c[3].end
      BY CellIs
    <3>2. a # Whole(cal, t).start
      <4>. HIDE DEF a, before
      <4>. QED  BY <1>0, <1>1, <1>4, <2>2
    <3>. QED  BY <3>1, <3>2
  <2>. DEFINE d == c[3].start
  <2>4. d \in Int \ Jumped(cal) /\ d < a
    BY <2>3, ClosureIs
  <2>5. b <= d
    <3>1. c[3].end <= CellStart(cal, s) \/ b <= d
      BY <1>0, CellIs
    <3>2. CellStart(cal, s) <= before /\ CellStart(cal, s) \in Int
      BY <1>0, CellIs
    <3>. HIDE DEF a, before, b, d
    <3>. QED  BY <1>0, <1>1, <1>4, <2>3, <3>1, <3>2
  <2>6. \A u \in Int : t <= u <=> d <= Local(cal, u)
    <3>1. ASSUME NEW u \in Int PROVE t <= u <=> d <= Local(cal, u)
      <4>1. Local(cal, u) \in Int
        BY LocalIs
      <4>2. t <= u => a <= Local(cal, u)
        BY <1>2
      <4>3. u < t => Local(cal, u) < b
        BY <1>3, <1>6
      <4>. HIDE DEF a, b, d
      <4>. QED  BY <1>1, <2>4, <2>5, <4>1, <4>2, <4>3
    <3>. QED  BY <3>1
  <2>7. ASSUME NEW x \in Int \ Jumped(cal), \A u \in Int : t <= u <=> x <= Local(cal, u)
        PROVE  Utc(cal, x) = t
    <3>. DEFINE v == Utc(cal, x)
    <3>1. \A u \in Int : x <= Local(cal, u) <=> v <= u
      BY <1>0, <2>7, WallDividesTime
    <3>2. v \in Int
      BY <1>0, <2>7, WallDividesTime
    <3>. HIDE DEF v
    <3>3. v <= t /\ t <= v
      BY <2>7, <3>1, <3>2
    <3>4. v = t
      BY <3>2, <3>3
    <3>. QED  BY <3>4 DEF v
  <2>8. Utc(cal, d) = t /\ Utc(cal, a) = t
    <3>. HIDE DEF a, d
    <3>. QED  BY <1>1, <1>2, <2>4, <2>6, <2>7
  <2>9. cal.change <= d /\ a <= cal.change + cal.shift
    <3>. HIDE DEF a, d
    <3>. QED  BY <1>0, <1>1, <2>4, <2>8, WallsMeetAtTheSkip
  <2>10. ~(cal.change <= c[3].start /\ c[3].end <= cal.change + cal.shift)
    BY DEF AskedAbout, ClearOfTheChange
  <2>. QED  BY <2>3, <2>9, <2>10
<1>. QED  BY <1>6, <1>7

-----------------------------------------------------------------------------
(* What the questions about an accepted calendar are answered, instant by  *)
(* instant.                                                                *)
LEMMA QuestionsAgree ==
    ASSUME NEW cal, AskedAbout(cal), NEW t \in Int
    PROVE  /\ SessionId(cal, t) # NoId /\ Classify(cal, t) # NoType
           /\ Classify(cal, t) = "CLOSED" <=> ~Open(cal, t)
           /\ SessionBounds(cal, t) = NoBounds <=> ~Open(cal, t)
<1>1. /\ TheWindow(cal, t) \in cal.windows
      /\ Classify(cal, t) = IF Open(cal, t) THEN TheWindow(cal, t).type ELSE "CLOSED"
      /\ Open(cal, t) => SessionId(cal, t) = <<TheWindow(cal, t).name, Date(cal, t)>>
      /\ ~Open(cal, t) => \E c \in Closures(cal) : SessionId(cal, t) = <<c[1], c[2]>>
  BY AnswerIs
<1>2. SessionId(cal, t) # NoId
  <2>1. PICK x, y : SessionId(cal, t) = <<x, y>>
    BY <1>1
  <2>2. Len(<<x, y>>) = 2 /\ Len(NoId) = 1
    BY DEF NoId
  <2>. QED  BY <2>1, <2>2
<1>3. TheWindow(cal, t).type # "CLOSED" /\ TheWindow(cal, t).type # NoType
  BY <1>1 DEF AskedAbout, PartitionsTheDay
<1>4. "CLOSED" # NoType
  BY DEF NoType
<1>5. Open(cal, t) => SessionBounds(cal, t) # NoBounds
  <2>. SUFFICES ASSUME Open(cal, t) PROVE SessionBounds(cal, t) # NoBounds
    OBVIOUS
  <2>1. SessionBounds(cal, t) = [start |-> Utc(cal, CellStart(cal, t)), end |-> Utc(cal, CellEnd(cal, t))]
    BY CellIs
  <2>2. "start" \in DOMAIN SessionBounds(cal, t)
    BY <2>1
  <2>3. "start" \notin DOMAIN NoBounds
    BY DEF NoBounds
  <2>. QED  BY <2>2, <2>3
<1>6. ~Open(cal, t) => SessionBounds(cal, t) = NoBounds
  BY DEF SessionBounds
<1>7. Classify(cal, t) # NoType /\ (Classify(cal, t) = "CLOSED" <=> ~Open(cal, t))
  BY <1>1, <1>3, <1>4
<1>. QED  BY <1>2, <1>5, <1>6, <1>7

(* The segments of two open instants that start there and share a session  *)
(* have a closed instant in between.                                       *)
LEMMA ClosureInBetween ==
    ASSUME NEW cal, AskedAbout(cal), NEW s \in Int, NEW t \in Int, s < t, Open(cal, s), Open(cal, t),
           SessionBounds(cal, t).start = t, SessionId(cal, s) = SessionId(cal, t)
    PROVE  ~Open(cal, t - 1)
<1>. SUFFICES ASSUME Open(cal, t - 1) PROVE FALSE
  OBVIOUS
<1>. DEFINE r == t - 1
            from == Whole(cal, t).start
            to == Whole(cal, t).end
<1>0. r \in Int /\ s <= r /\ r < t /\ cal.change \in Int /\ cal.shift \in Int
  BY DEF AskedAbout
<1>1. /\ SessionId(cal, t) = <<TheWindow(cal, t).name, Date(cal, t)>>
      /\ SessionId(cal, s) = <<TheWindow(cal, s).name, Date(cal, s)>>
      /\ TheWindow(cal, t) \in cal.windows /\ TheWindow(cal, s) \in cal.windows
      /\ Date(cal, t) \in Int
  BY AnswerIs, DateIs
<1>2. TheWindow(cal, s) = TheWindow(cal, t) /\ Date(cal, s) = Date(cal, t)
  <2>1. \A v, w \in cal.windows : v.name = w.name => v = w
    BY DEF AskedAbout, PartitionsTheDay
  <2>2. TheWindow(cal, s).name = TheWindow(cal, t).name /\ Date(cal, s) = Date(cal, t)
    BY <1>1
  <2>. QED  BY <1>1, <2>1, <2>2
<1>3. from \in Int \ Jumped(cal) /\ to \in Int \ Jumped(cal)
  BY <1>1, SpanOfWindow DEF Whole
<1>4. Whole(cal, s) = Whole(cal, t)
  BY <1>2 DEF Whole
<1>5. from <= Local(cal, s) /\ Local(cal, t) < to
  <2>1. Covers(Whole(cal, s), Local(cal, s)) /\ Covers(Whole(cal, t), Local(cal, t))
    BY <1>1, <1>2, SpanOfWindow DEF Whole
  <2>. QED  BY <1>4, <2>1 DEF Covers
<1>. HIDE DEF from, to, r
<1>6. from <= Local(cal, r)
  <2>1. from <= Local(cal, s) <=> Utc(cal, from) <= s
    BY <1>0, <1>3, WallDividesTime
  <2>2. Utc(cal, from) \in Int /\ (from <= Local(cal, r) <=> Utc(cal, from) <= r)
    BY <1>0, <1>3, WallDividesTime
  <2>. QED  BY <1>0, <1>5, <2>1, <2>2
<1>7. Local(cal, r) < to
  <2>1. Local(cal, t) \in Int /\ (to <= Local(cal, t) <=> Utc(cal, to) <= t)
    BY <1>0, <1>3, WallDividesTime
  <2>2. Local(cal, r) \in Int /\ Utc(cal, to) \in Int /\ (to <= Local(cal, r) <=> Utc(cal, to) <= r)
    BY <1>0, <1>3, WallDividesTime
  <2>. QED  BY <1>0, <1>3, <1>5, <2>1, <2>2
<1>8. TheWindow(cal, r) = TheWindow(cal, t) /\ Date(cal, r) = Date(cal, t)
  BY <1>0, <1>6, <1>7, SameSession DEF from, to
<1>9. SessionId(cal, r) = SessionId(cal, t)
  <2>1. SessionId(cal, r) = <<TheWindow(cal, r).name, Date(cal, r)>>
    BY <1>0, AnswerIs DEF r
  <2>. QED  BY <1>1, <1>8, <2>1
<1>. QED  BY <1>9, SegmentFollows DEF r

(* An accepted calendar cuts time into segments.                           *)
LEMMA TimeIsPartitioned ==
    ASSUME AskedAbout(calendar)
    PROVE  SegmentsPartitionTime
<1>0. Horizon \in Nat
  BY CalendarAssumption
<1>. DEFINE cal    == calendar
            times  == 0..Horizon
            bounds == [t \in times |-> SessionBounds(cal, t)]
            id     == [t \in times |-> SessionId(cal, t)]
            shut   == {t \in times : Classify(cal, t) = "CLOSED"}
            Contained == \A t \in times :
               /\ id[t] # NoId /\ Classify(cal, t) # NoType
               /\ (bounds[t] = NoBounds) = (t \in shut)
               /\ t \notin shut => bounds[t].start <= t /\ t < bounds[t].end
            Adjoining == \A t \in 1..Horizon : t \notin shut =>
               IF bounds[t].start < t THEN bounds[t - 1] = bounds[t] /\ id[t - 1] = id[t]
               ELSE /\ t - 1 \in shut \/ bounds[t - 1].end = t
                    /\ t - 1 \notin shut => id[t - 1] # id[t]
            Separated == \A s, t \in {t \in (1..Horizon) \ shut : bounds[t].start = t} :
               s < t /\ id[s] = id[t] => \E u \in s..t : u \in shut
<1>1. \A t \in times : t \in Int /\ bounds[t] = SessionBounds(cal, t) /\ id[t] = SessionId(cal, t)
  OBVIOUS
<1>2. \A t \in times : t \in shut <=> ~Open(cal, t)
  BY QuestionsAgree
<1>3. Contained
  <2>1. ASSUME NEW t \in times
        PROVE  /\ id[t] # NoId /\ Classify(cal, t) # NoType
               /\ bounds[t] = NoBounds <=> t \in shut
               /\ t \notin shut => bounds[t].start <= t /\ t < bounds[t].end
    <3>. HIDE DEF bounds, id, shut, cal
    <3>1. /\ SessionId(cal, t) # NoId /\ Classify(cal, t) # NoType
          /\ SessionBounds(cal, t) = NoBounds <=> ~Open(cal, t)
      BY QuestionsAgree DEF cal
    <3>2. Open(cal, t) => SessionBounds(cal, t).start <= t /\ t < SessionBounds(cal, t).end
      BY SegmentContains DEF cal
    <3>. QED  BY <1>1, <1>2, <3>1, <3>2
  <2>. HIDE DEF bounds, id, shut, times
  <2>. QED  BY <2>1
<1>4. Adjoining
  <2>1. ASSUME NEW t \in 1..Horizon, t \notin shut
        PROVE  IF bounds[t].start < t THEN bounds[t - 1] = bounds[t] /\ id[t - 1] = id[t]
               ELSE /\ t - 1 \in shut \/ bounds[t - 1].end = t
                    /\ t - 1 \notin shut => id[t - 1] # id[t]
    <3>. DEFINE r == t - 1
    <3>0. t \in times /\ r \in times /\ t \in Int /\ r \in Int /\ r < t
      BY <1>0
    <3>. HIDE DEF bounds, id, shut, times, cal
    <3>1. Open(cal, t) /\ bounds[t] = SessionBounds(cal, t) /\ id[t] = SessionId(cal, t)
      BY <1>1, <1>2, <2>1, <3>0
    <3>2. bounds[r] = SessionBounds(cal, r) /\ id[r] = SessionId(cal, r) /\ (r \in shut <=> ~Open(cal, r))
      BY <1>1, <1>2, <3>0
    <3>3. /\ SessionBounds(cal, t).start \in Int /\ SessionBounds(cal, t).end \in Int
          /\ SessionBounds(cal, t).start <= t /\ t < SessionBounds(cal, t).end
          /\ SessionBounds(cal, t).start <= r <=> CellStart(cal, t) <= Local(cal, r)
          /\ r < SessionBounds(cal, t).end <=> Local(cal, r) < CellEnd(cal, t)
      BY <3>0, <3>1, SegmentContains DEF cal
    <3>4. CASE SessionBounds(cal, t).start < t
      <4>1. SessionBounds(cal, t).start <= r /\ r < SessionBounds(cal, t).end
        BY <3>0, <3>3, <3>4
      <4>2. /\ Open(cal, r) /\ SessionId(cal, r) = SessionId(cal, t)
            /\ CellStart(cal, r) = CellStart(cal, t) /\ CellEnd(cal, r) = CellEnd(cal, t)
        <5>. HIDE DEF r
        <5>. QED  BY <3>0, <3>1, <3>3, <4>1, SameCell DEF cal
      <4>3. \A u \in {r, t} : SessionBounds(cal, u) = [start |-> Utc(cal, CellStart(cal, u)),
                                                       end   |-> Utc(cal, CellEnd(cal, u))]
        <5>. HIDE DEF r
        <5>. QED  BY <3>0, <3>1, <4>2, CellIs DEF cal
      <4>4. SessionBounds(cal, r) = SessionBounds(cal, t)
        BY <4>2, <4>3
      <4>. QED  BY <3>1, <3>2, <3>4, <4>2, <4>4
    <3>5. CASE ~(SessionBounds(cal, t).start < t)
      <4>1. SessionBounds(cal, t).start = t
        BY <3>0, <3>3, <3>5
      <4>2. Open(cal, r) => SessionBounds(cal, r).end = t /\ SessionId(cal, r) # SessionId(cal, t)
        BY <3>0, <3>1, <4>1, SegmentFollows DEF cal
      <4>. QED  BY <3>1, <3>2, <3>5, <4>2
    <3>. QED  BY <3>4, <3>5
  <2>. HIDE DEF bounds, id, shut
  <2>. QED  BY <2>1
<1>5. Separated
  <2>1. ASSUME NEW s \in 1..Horizon, NEW t \in 1..Horizon, s \notin shut, t \notin shut, bounds[t].start = t,
               s < t, id[s] = id[t]
        PROVE  \E u \in s..t : u \in shut
    <3>0. /\ t \in times /\ s \in times /\ t - 1 \in times /\ t \in Int /\ s \in Int
          /\ t - 1 \in s..t
      BY <1>0, <2>1
    <3>. HIDE DEF bounds, id, shut, times, cal
    <3>1. /\ Open(cal, s) /\ Open(cal, t) /\ SessionBounds(cal, t).start = t
          /\ SessionId(cal, s) = SessionId(cal, t)
      BY <1>1, <1>2, <2>1, <3>0
    <3>2. ~Open(cal, t - 1)
      BY <2>1, <3>0, <3>1, ClosureInBetween DEF cal
    <3>3. t - 1 \in shut
      BY <1>2, <3>0, <3>2
    <3>. QED  BY <3>0, <3>3
  <2>. HIDE DEF bounds, id, shut
  <2>. QED  BY <2>1
<1>. QED  BY <1>3, <1>4, <1>5 DEF SegmentsPartitionTime

(* The calendar asked about is an accepted one, and stays.                 *)
CalendarInv == running = "calendar" => AskedAbout(calendar)

(* Under any accepted calendar whose windows partition the day, time is    *)
(* cut into segments (classify, session_id and session_bounds agree).      *)
THEOREM CalendarsPartitionTime == IndicatorSpec => []SegmentsPartitionTime
<1>1. IndicatorInit => CalendarInv
  <2>. SUFFICES ASSUME IndicatorInit, running = "calendar" PROVE AskedAbout(calendar)
    BY DEF CalendarInv
  <2>1. calendar \in Calendars /\ ClearOfTheChange(calendar) /\ Accepted(calendar) /\ PartitionsTheDay(calendar)
    BY DEF IndicatorInit
  <2>. QED  BY <2>1, CalendarAssumption DEF AskedAbout
<1>2. CalendarInv /\ [IndicatorNext]_indicatorVars => CalendarInv'
  <2>. SUFFICES ASSUME CalendarInv, [IndicatorNext]_indicatorVars PROVE CalendarInv'
    OBVIOUS
  <2>1. UNCHANGED <<running, calendar>>
    BY DEF IndicatorNext, indicatorVars
  <2>. QED  BY <2>1 DEF CalendarInv
<1>3. CalendarInv => SegmentsPartitionTime
  <2>1. CASE running = "calendar"
    BY <2>1, TimeIsPartitioned DEF CalendarInv
  <2>2. CASE running # "calendar"
    BY <2>2 DEF SegmentsPartitionTime
  <2>. QED  BY <2>1, <2>2
<1>. QED  BY <1>1, <1>2, <1>3, PTL DEF IndicatorSpec

=============================================================================
