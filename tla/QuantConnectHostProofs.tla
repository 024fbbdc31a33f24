------------------------- MODULE QuantConnectHostProofs -------------------------
(***************************************************************************)
(* The runtime on QuantConnect's clock, for any contracts, slices and      *)
(* failing calls.  The invariant speaks of the runtime as a value, so that *)
(* the parts a handler calls in turn each keep it: RuntimeRight holds of   *)
(* every value, Accounted of one that has not stopped.  What makes it      *)
(* inductive is the clock: an observation takes effect at the time it is   *)
(* made, so it leaves the roll state of earlier trades alone, and a trade  *)
(* of this time was measured under this time's mapping, which the runtime  *)
(* has observed.                                                           *)
(*                                                                         *)
(* The probes' recorders are values too: until one raises, its counts,     *)
(* clocks and keys are those of the bars, chains and objects it was given. *)
(***************************************************************************)
EXTENDS QuantConnectHost, SequenceTheorems, FiniteSetTheorems, TLAPS

RollStates  == {"NORMAL", "ROLL_TRANSITION", "POST_ROLL"}
Observation == [old : Contracts \cup {None}, new : Contracts, observed : Nat, effective : Nat]
Trade       == [contract : Contracts, at : Nat, roll : RollStates]
Stream      == [contract : Contracts, trades : Seq(Trade)]

RuntimeValue ==
    [symbol : Contracts \cup {None}, history : Seq(Observation), stream : Seq(Stream),
     completed : Seq(Stream), contracts : SUBSET Contracts, rollCount : Nat, stopped : BOOLEAN]

(* The clock and what LEAN maps the continuous symbol to. *)
ClockRight ==
    /\ time \in Nat
    /\ mapped \in Seq(Contracts) /\ Len(mapped) <= 1
    /\ mappedAt \in Seq(Seq(Contracts)) /\ Len(mappedAt) = time
    /\ mapped # <<>> => time > 0 /\ mappedAt[time] = mapped

(* A trade t of a stream of the contract, in the runtime r. *)
TradeRight(t, contract, r) ==
    /\ t.contract = contract
    /\ t.at \in 1..time /\ mappedAt[t.at] = <<contract>>
    /\ t.roll = RollState(r.history, t.at)
    /\ t.at = time /\ ~ r.stopped => mapped = <<contract>> /\ r.symbol = contract

StreamRight(s, r) == \A i \in DOMAIN s.trades : TradeRight(s.trades[i], s.contract, r)

RuntimeRight(r) ==
    /\ r \in RuntimeValue /\ Len(r.stream) <= 1
    /\ \A i \in DOMAIN r.completed : StreamRight(r.completed[i], r)
    /\ \A i \in DOMAIN r.stream : StreamRight(r.stream[i], r)

(* One stream per observation; the last one is open. *)
Accounted(r) ==
    /\ Len(r.completed) = r.rollCount
    /\ \A i \in DOMAIN r.completed : r.completed[i].contract = r.history[i].new
    /\ r.contracts = {r.history[i].new : i \in DOMAIN r.history}
    /\ IF r.history = <<>> THEN r.symbol = None /\ r.stream = <<>> /\ r.rollCount = 0
       ELSE /\ Len(r.stream) = 1 /\ r.rollCount = Len(r.history) - 1
            /\ r.symbol = r.history[Len(r.history)].new /\ r.stream[1].contract = r.symbol

(* The accounts of a runtime that did not stop, and those of any. *)
MappingsAccounted ==
    ~stopped =>
        LET all == completed \o stream
        IN  /\ [i \in DOMAIN all |-> all[i].contract] = [i \in DOMAIN history |-> history[i].new]
            /\ history # <<>> => rollCount = Len(history) - 1 /\ symbol = Last(history).new
            /\ contracts = {history[i].new : i \in DOMAIN history}
            /\ summary # <<>> => stream = <<>> /\ summary = <<[i \in DOMAIN all |-> all[i].trades]>>

SwitchesAccounted ==
    /\ Len(history) - Len(Opened) \in {0, 1}
    /\ \A i \in DOMAIN Opened : Opened[i].contract = history[i].new
    /\ symbol = IF Opened = <<>> THEN None ELSE Last(Opened).contract
    /\ contracts = {Opened[i].contract : i \in DOMAIN Opened}
    /\ summary = <<>> => rollCount = Len(completed)
    /\ (StillCurrent \/ Len(history) # Len(Opened)) => (stopped /\ summary = <<>>)
    /\ Len(history) # Len(Opened) => (StillCurrent \/ Opened = <<>>)
    /\ summary # <<>> =>
         stream = <<>> /\ summary = <<[i \in DOMAIN completed |-> completed[i].trades]>>

RuntimeInv ==
    /\ ClockRight
    /\ RuntimeRight(Runtime)
    /\ mapped = <<>> => symbol = None
    /\ summary = <<>> /\ ~ stopped => Accounted(Runtime)
    /\ summary # <<>> => MappingsAccounted

-----------------------------------------------------------------------------
(* Operators *)

(* A roll state is one of three.                                           *)
LEMMA RollStateType == \A history_, at : RollState(history_, at) \in RollStates
  BY DEF RollState, RollStates

(* An observation visible later does not change the roll state of a time.  *)
LEMMA LaterObservation ==
    ASSUME NEW h \in Seq(Observation), NEW o \in Observation, NEW at \in Nat, VisibleAt(o) > at
    PROVE  RollState(Append(h, o), at) = RollState(h, at)
<1>. DEFINE g == Append(h, o)
<1>1. /\ g \in Seq(Observation) /\ Len(h) \in Nat /\ Len(g) = Len(h) + 1
      /\ DOMAIN h = 1..Len(h) /\ DOMAIN g = 1..(Len(h) + 1)
      /\ \A i \in 1..Len(h) : g[i] = h[i]
      /\ g[Len(h) + 1] = o
  BY AppendProperties, LenProperties
<1>2. VisibleAt(o) \in Nat
  BY DEF VisibleAt, Observation
<1>. HIDE DEF g
<1>3. Visible(g, at) = Visible(h, at)
  BY <1>1, <1>2 DEF Visible
<1>4. \A i \in Visible(h, at) : g[i] = h[i]
  BY <1>1 DEF Visible
<1>5. \A i \in {i \in Visible(h, at) : \A j \in Visible(h, at) : j <= i} : g[i] = h[i]
  BY <1>4
<1>6. RollState(g, at) = RollState(h, at)
  BY <1>3, <1>5 DEF RollState
<1>. QED  BY <1>6 DEF g

(* An optional contract that is one is the contract mapped.                *)
LEMMA OneMapped ==
    ASSUME ClockRight, mapped # <<>>
    PROVE  mapped = <<mapped[1]>> /\ mapped[1] \in Contracts
<1>1. mapped \in Seq(Contracts) /\ Len(mapped) <= 1
  BY DEF ClockRight
<1>2. Len(mapped) \in Nat \ {0}
  BY <1>1, EmptySeq, Zenon
<1>3. Len(mapped) = 1 /\ mapped[1] \in Contracts
  <2>1. \A n \in Nat \ {0} : n <= 1 => n = 1
    OBVIOUS
  <2>2. Len(mapped) = 1
    BY <1>1, <1>2, <2>1, Zenon
  <2>. QED  BY <1>1, <2>2
<1>4. /\ <<mapped[1]>> \in Seq(Contracts) /\ Len(<<mapped[1]>>) = 1
      /\ <<mapped[1]>>[1] = mapped[1]
  BY <1>3
<1>. QED  BY <1>1, <1>3, <1>4, SeqEqual

(* The elements of a concatenation.                                        *)
LEMMA Concatenated ==
    ASSUME NEW S, NEW a \in Seq(S), NEW b \in Seq(S)
    PROVE  /\ a \o b \in Seq(S) /\ Len(a) \in Nat /\ Len(b) \in Nat
           /\ Len(a \o b) = Len(a) + Len(b)
           /\ DOMAIN (a \o b) = 1..(Len(a) + Len(b))
           /\ \A i \in DOMAIN (a \o b) :
                 \/ i \in DOMAIN a /\ (a \o b)[i] = a[i]
                 \/ \E j \in DOMAIN b : i = Len(a) + j /\ (a \o b)[i] = b[j]
<1>. DEFINE c == a \o b
<1>1. /\ c \in Seq(S) /\ Len(a) \in Nat /\ Len(b) \in Nat
      /\ Len(c) = Len(a) + Len(b)
      /\ DOMAIN a = 1..Len(a) /\ DOMAIN b = 1..Len(b)
      /\ DOMAIN c = 1..Len(c)
      /\ \A i \in 1..(Len(a) + Len(b)) :
            c[i] = IF i <= Len(a) THEN a[i] ELSE b[i - Len(a)]
  BY ConcatProperties, LenProperties
<1>. HIDE DEF c
<1>2. ASSUME NEW i \in DOMAIN c
      PROVE  \/ i \in DOMAIN a /\ c[i] = a[i]
             \/ \E j \in DOMAIN b : i = Len(a) + j /\ c[i] = b[j]
  <2>1. CASE i <= Len(a)
    BY <2>1, <1>1
  <2>2. CASE i > Len(a)
    <3>1. i - Len(a) \in DOMAIN b /\ i = Len(a) + (i - Len(a)) /\ c[i] = b[i - Len(a)]
      BY <2>2, <1>1
    <3>. QED  BY <3>1
  <2>. QED  BY <2>1, <2>2, <1>1
<1>. QED  BY <1>1, <1>2 DEF c

(* An element of two sequences of streams, or of trades, put together.     *)
LEMMA StreamsTogether ==
    ASSUME NEW a \in Seq(Stream), NEW b \in Seq(Stream), NEW i \in DOMAIN (a \o b)
    PROVE  \/ i \in DOMAIN a /\ (a \o b)[i] = a[i]
           \/ \E j \in DOMAIN b : i = Len(a) + j /\ (a \o b)[i] = b[j]
  BY Concatenated

(* A trade of two lists in one is a trade of either.                       *)
LEMMA TradesTogether ==
    ASSUME NEW a \in Seq(Trade), NEW b \in Seq(Trade), NEW i \in DOMAIN (a \o b)
    PROVE  \/ i \in DOMAIN a /\ (a \o b)[i] = a[i]
           \/ \E j \in DOMAIN b : i = Len(a) + j /\ (a \o b)[i] = b[j]
  BY Concatenated

(* The fields of a runtime.                                                *)
LEMMA RuntimeFields ==
    ASSUME NEW r \in RuntimeValue
    PROVE  /\ r.symbol \in Contracts \cup {None} /\ r.history \in Seq(Observation)
           /\ r.stream \in Seq(Stream) /\ r.completed \in Seq(Stream)
           /\ r.contracts \in SUBSET Contracts /\ r.rollCount \in Nat /\ r.stopped \in BOOLEAN
  BY DEF RuntimeValue

(* The streams of an accounted runtime are one per observation, in order.  *)
LEMMA AllAccounted ==
    ASSUME NEW r \in RuntimeValue, Accounted(r)
    PROVE  LET all == r.completed \o r.stream
           IN  /\ all \in Seq(Stream) /\ Len(all) = Len(r.history)
               /\ Len(all) = r.rollCount + Len(r.stream)
               /\ DOMAIN all = 1..Len(r.history) /\ DOMAIN r.history = 1..Len(r.history)
               /\ \A i \in DOMAIN all : all[i].contract = r.history[i].new
<1>. DEFINE all == r.completed \o r.stream
<1>1. /\ r.history \in Seq(Observation) /\ r.stream \in Seq(Stream)
      /\ r.completed \in Seq(Stream) /\ r.rollCount \in Nat
  BY RuntimeFields
<1>2. /\ Len(r.history) \in Nat /\ DOMAIN r.history = 1..Len(r.history)
      /\ Len(r.stream) \in Nat /\ DOMAIN r.stream = 1..Len(r.stream)
  BY <1>1, LenProperties
<1>3. all \in Seq(Stream)
  BY <1>1, Concatenated
<1>4. Len(all) = Len(r.completed) + Len(r.stream)
  BY <1>1, Concatenated
<1>5. DOMAIN all = 1..Len(all)
  BY <1>3
<1>6. Len(all) = Len(r.history) /\ Len(all) = r.rollCount + Len(r.stream)
  <2>1. CASE r.history = <<>>
    <3>1. Len(r.history) = 0 /\ Len(r.stream) = 0
      BY <2>1 DEF Accounted
    <3>. QED  BY <2>1, <3>1, <1>4, <1>1 DEF Accounted
  <2>2. CASE r.history # <<>>
    <3>1. /\ Len(r.completed) = r.rollCount /\ Len(r.stream) = 1
          /\ r.rollCount = Len(r.history) - 1
      BY <2>2, Zenon DEF Accounted
    <3>. QED  BY <3>1, <1>1, <1>2, <1>4
  <2>. QED  BY <2>1, <2>2
<1>7. ASSUME NEW i \in DOMAIN all PROVE all[i].contract = r.history[i].new
  <2>0. i \in 1..Len(r.history)
    BY <1>5, <1>6
  <2>1. CASE i \in DOMAIN r.completed /\ all[i] = r.completed[i]
    BY <2>1 DEF Accounted
  <2>2. ASSUME NEW j \in DOMAIN r.stream, i = Len(r.completed) + j, all[i] = r.stream[j]
        PROVE  all[i].contract = r.history[i].new
    <3>1. r.history # <<>>
      BY <2>0
    <3>2. /\ Len(r.completed) = r.rollCount /\ Len(r.stream) = 1
          /\ r.rollCount = Len(r.history) - 1
          /\ r.stream[1].contract = r.history[Len(r.history)].new
      BY <3>1, Zenon DEF Accounted
    <3>3. j = 1 /\ i = Len(r.history)
      BY <2>2, <3>2, <1>1, <1>2
    <3>. QED  BY <2>2, <3>2, <3>3
  <2>. QED  BY <2>1, <2>2, <1>1, StreamsTogether
<1>. QED  BY <1>2, <1>3, <1>5, <1>6, <1>7

-----------------------------------------------------------------------------
(* The parts of a handler *)

(* A trade of an earlier time does not see what is observed now.           *)
LEMMA EarlierTradeKeeps ==
    ASSUME ClockRight, NEW r, r.history \in Seq(Observation), NEW t \in Trade, NEW contract,
           TradeRight(t, contract, r), t.at # time,
           NEW o \in Observation, o.observed = time, o.effective = time,
           NEW n, n.history = r.history \/ n.history = Append(r.history, o)
    PROVE  TradeRight(t, contract, n)
<1>1. t.at \in Nat /\ time \in Nat /\ t.at < time
  BY DEF TradeRight, ClockRight
<1>2. VisibleAt(o) = time
  BY DEF VisibleAt
<1>3. RollState(n.history, t.at) = RollState(r.history, t.at)
  BY <1>1, <1>2, LaterObservation
<1>. QED  BY <1>1, <1>3 DEF TradeRight

(* _switch_contract to the mapped contract keeps the streams right; if it  *)
(* does not raise, the runtime has observed the mapping.                   *)
LEMMA SwitchedKeeps ==
    ASSUME ClockRight, mapped # <<>>, NEW r, RuntimeRight(r), ~ r.stopped, Accounted(r),
           NEW failing
    PROVE  LET new == Switched(r, mapped[1], failing)
           IN  /\ RuntimeRight(new)
               /\ ~ new.stopped => Accounted(new) /\ new.symbol = mapped[1]
<1>. DEFINE contract == mapped[1]
            o == Observed(r.symbol, contract, time)
            closed == [r EXCEPT !.completed = @ \o r.stream, !.rollCount = @ + Len(r.stream)]
            observed == [closed EXCEPT !.history = Append(@, o)]
            new == Switched(r, contract, failing)
<1>1. /\ r \in RuntimeValue /\ Len(r.stream) <= 1
      /\ \A i \in DOMAIN r.completed : StreamRight(r.completed[i], r)
      /\ \A i \in DOMAIN r.stream : StreamRight(r.stream[i], r)
  BY DEF RuntimeRight
<1>2. contract \in Contracts /\ mapped = <<contract>>
  BY OneMapped
<1>3. CASE contract = r.symbol
  BY <1>3 DEF Switched
<1>4. CASE contract # r.symbol
  <2>1. o \in Observation /\ o.observed = time /\ o.effective = time /\ o.new = contract
    BY <1>1, <1>2, RuntimeFields DEF Observed, Observation, ClockRight
  <2>2. /\ r.history \in Seq(Observation) /\ r.stream \in Seq(Stream)
        /\ r.completed \in Seq(Stream) /\ r.rollCount \in Nat /\ Len(r.stream) \in Nat
    BY <1>1, RuntimeFields
  <2>. HIDE DEF contract, o
  <2>3. ASSUME NEW s \in Stream, StreamRight(s, r), NEW n,
               n.history = r.history \/ n.history = Append(r.history, o)
        PROVE  StreamRight(s, n)
    <3>. SUFFICES ASSUME NEW i \in DOMAIN s.trades
                  PROVE  TradeRight(s.trades[i], s.contract, n)
      BY DEF StreamRight
    <3>1. s.trades[i] \in Trade
      BY DEF Stream
    <3>2. TradeRight(s.trades[i], s.contract, r)
      BY <2>3 DEF StreamRight
    <3>3. s.trades[i].at # time
      BY <3>2, <1>2, <1>4 DEF TradeRight
    <3>. QED  BY <2>1, <2>2, <2>3, <3>1, <3>2, <3>3, EarlierTradeKeeps
  <2>. DEFINE all == r.completed \o r.stream
  <2>4. /\ all \in Seq(Stream) /\ Len(all) = Len(r.completed) + Len(r.stream)
        /\ DOMAIN all = 1..(Len(r.completed) + Len(r.stream))
        /\ \A i \in DOMAIN all :
              \/ i \in DOMAIN r.completed /\ all[i] = r.completed[i]
              \/ \E j \in DOMAIN r.stream : i = Len(r.completed) + j /\ all[i] = r.stream[j]
    <3>1. all \in Seq(Stream)
      BY <2>2, Concatenated
    <3>2. Len(all) = Len(r.completed) + Len(r.stream)
      BY <2>2, Concatenated
    <3>3. DOMAIN all = 1..(Len(r.completed) + Len(r.stream))
      BY <2>2, Concatenated
    <3>4. ASSUME NEW i \in DOMAIN all
          PROVE  \/ i \in DOMAIN r.completed /\ all[i] = r.completed[i]
                 \/ \E j \in DOMAIN r.stream : i = Len(r.completed) + j /\ all[i] = r.stream[j]
      BY <2>2, StreamsTogether
    <3>. QED  BY <3>1, <3>2, <3>3, <3>4
  <2>5. \A i \in DOMAIN all : all[i] \in Stream /\ StreamRight(all[i], r)
    <3>. HIDE DEF all
    <3>1. \A i \in DOMAIN all : all[i] \in Stream
      BY <2>4, ElementOfSeq
    <3>2. ASSUME NEW i \in DOMAIN all PROVE StreamRight(all[i], r)
      BY <1>1, <2>4
    <3>. QED  BY <3>1, <3>2
  <2>. HIDE DEF all
  <2>a. r.rollCount + Len(r.stream) \in Nat
    BY <2>2
  <2>6. CASE new = [r EXCEPT !.stopped = TRUE]
    <3>1. new \in RuntimeValue /\ new.stopped
      BY <2>6, <1>1 DEF RuntimeValue
    <3>2. /\ new.history = r.history /\ new.completed = r.completed /\ new.stream = r.stream
      BY <2>6, <1>1 DEF RuntimeValue
    <3>3. RuntimeRight(new)
      BY <1>1, <2>2, <2>3, <3>1, <3>2 DEF RuntimeRight
    <3>. QED  BY <3>1, <3>3 DEF contract
  <2>7. CASE new = [closed EXCEPT !.stopped = TRUE]
    <3>0. closed \in RuntimeValue
      BY <1>1, <2>a, <2>4 DEF RuntimeValue, all
    <3>1. new \in RuntimeValue /\ new.stopped
      BY <2>7, <3>0 DEF RuntimeValue
    <3>2. /\ new.history = r.history /\ new.completed = all /\ new.stream = r.stream
      BY <2>7, <1>1 DEF RuntimeValue, all
    <3>3. RuntimeRight(new)
      BY <1>1, <2>2, <2>3, <2>5, <3>1, <3>2 DEF RuntimeRight
    <3>. QED  BY <3>1, <3>3 DEF contract
  <2>8. CASE new = [observed EXCEPT !.stopped = TRUE]
    <3>0. Append(r.history, o) \in Seq(Observation)
      BY <2>1, <2>2
    <3>4. observed \in RuntimeValue
      BY <1>1, <2>a, <2>4, <3>0 DEF RuntimeValue, all
    <3>1. new \in RuntimeValue /\ new.stopped
      BY <2>8, <3>4 DEF RuntimeValue
    <3>2. /\ new.history = Append(r.history, o) /\ new.completed = all
          /\ new.stream = r.stream
      BY <2>8, <1>1 DEF RuntimeValue, all
    <3>3. RuntimeRight(new)
      BY <1>1, <2>2, <2>3, <2>5, <3>1, <3>2 DEF RuntimeRight
    <3>. QED  BY <3>1, <3>3 DEF contract
  <2>9. CASE new = [observed EXCEPT !.symbol = contract, !.contracts = @ \cup {contract},
                                    !.stream = <<NewStream(contract)>>]
    <3>0. /\ Append(r.history, o) \in Seq(Observation)
          /\ Len(Append(r.history, o)) = Len(r.history) + 1
          /\ \A i \in 1..Len(r.history) : Append(r.history, o)[i] = r.history[i]
          /\ Append(r.history, o)[Len(r.history) + 1] = o
          /\ Len(r.history) \in Nat /\ DOMAIN r.history = 1..Len(r.history)
          /\ DOMAIN Append(r.history, o) = 1..(Len(r.history) + 1)
      BY <2>1, <2>2, AppendProperties, LenProperties
    <3>1. NewStream(contract) \in Stream /\ NewStream(contract).trades = <<>>
          /\ NewStream(contract).contract = contract
      BY <1>2 DEF NewStream, Stream
    <3>2. /\ new.history = Append(r.history, o) /\ new.completed = all
          /\ new.stream = <<NewStream(contract)>> /\ new.symbol = contract
          /\ new.contracts = r.contracts \cup {contract}
          /\ new.rollCount = r.rollCount + Len(r.stream) /\ new.stopped = r.stopped
      BY <2>9, <1>1 DEF RuntimeValue, all
    <3>3. new \in RuntimeValue
      <4>1. observed \in RuntimeValue
        BY <1>1, <2>a, <2>4, <3>0 DEF RuntimeValue, all
      <4>2. <<NewStream(contract)>> \in Seq(Stream)
        BY <3>1
      <4>. HIDE DEF observed
      <4>. QED  BY <2>9, <4>1, <4>2, <1>2 DEF RuntimeValue
    <3>4. RuntimeRight(new)
      <4>1. StreamRight(NewStream(contract), new)
        BY <3>1 DEF StreamRight
      <4>. HIDE DEF new
      <4>. QED  BY <2>3, <2>5, <3>1, <3>2, <3>3, <4>1 DEF RuntimeRight
    <3>5. Accounted(new)
      <4>. HIDE DEF new, closed, observed
      <4>2. Len(all) = Len(r.history) /\ Len(all) = r.rollCount + Len(r.stream)
        BY <1>1, AllAccounted DEF all
      <4>3. \A i \in DOMAIN all : all[i].contract = new.history[i].new
        BY <1>1, <3>0, <3>2, AllAccounted DEF all
      <4>4. new.contracts = {new.history[i].new : i \in DOMAIN new.history}
        <5>1. r.contracts = {r.history[i].new : i \in DOMAIN r.history}
          BY DEF Accounted
        <5>. QED  BY <5>1, <3>0, <3>2, <2>1
      <4>5. /\ new.history # <<>> /\ Len(new.history) = Len(r.history) + 1
            /\ new.history[Len(new.history)].new = contract
        BY <3>0, <3>2, <2>1
      <4>6. Len(new.stream) = 1 /\ new.stream[1].contract = contract
        BY <3>1, <3>2
      <4>7. Len(new.completed) = new.rollCount /\ new.rollCount = Len(new.history) - 1
        BY <4>2, <4>5, <3>2, <2>2, <3>0
      <4>8. \A i \in DOMAIN new.completed : new.completed[i].contract = new.history[i].new
        BY <4>3, <3>2
      <4>9. new.symbol = contract
        BY <3>2
      <4>. QED  BY <4>4, <4>5, <4>6, <4>7, <4>8, <4>9, Zenon DEF Accounted
    <3>. QED  BY <3>2, <3>4, <3>5 DEF contract
  <2>. QED  BY <1>4, <2>6, <2>7, <2>8, <2>9 DEF Switched, o
<1>. QED  BY <1>3, <1>4

(* The trades of a slice, measured under the mapping of this time.         *)
LEMMA MeasuredKeeps ==
    ASSUME ClockRight, NEW r, RuntimeRight(r), ~ r.stopped => Accounted(r),
           ~ r.stopped /\ r.stream # <<>> => mapped = <<r.symbol>>,
           NEW ticks \in Seq(Contracts), NEW fails \in Nat
    PROVE  LET new == Measured(r, ticks, fails)
           IN  /\ RuntimeRight(new) /\ (~ new.stopped => Accounted(new))
               /\ new.symbol = r.symbol /\ new.history = r.history
               /\ (Accounted(r) => Accounted(new)) /\ (r.stopped => new = r)
<1>. DEFINE heard == IF fails \in DOMAIN ticks THEN SubSeq(ticks, 1, fails - 1) ELSE ticks
            own == {i \in DOMAIN heard : heard[i] = r.symbol}
            trade == [contract |-> r.symbol, at |-> time, roll |-> RollState(r.history, time)]
            added == [i \in 1..Cardinality(own) |-> trade]
            stops == fails \in DOMAIN ticks /\ ticks[fails] = r.symbol
            new == Measured(r, ticks, fails)
<1>1. CASE r.stopped \/ r.stream = <<>>
  BY <1>1 DEF Measured
<1>2. CASE ~ r.stopped /\ r.stream # <<>>
  <2>1. /\ r \in RuntimeValue /\ Len(r.stream) <= 1 /\ Accounted(r)
        /\ \A i \in DOMAIN r.completed : StreamRight(r.completed[i], r)
        /\ \A i \in DOMAIN r.stream : StreamRight(r.stream[i], r)
    BY <1>2 DEF RuntimeRight
  <2>2. /\ r.stream \in Seq(Stream) /\ r.history \in Seq(Observation)
        /\ r.completed \in Seq(Stream)
    BY <2>1, RuntimeFields
  <2>3. /\ r.history # <<>> /\ Len(r.stream) = 1 /\ r.stream[1].contract = r.symbol
    BY <1>2, <2>1, Zenon DEF Accounted
  <2>4. mapped = <<r.symbol>> /\ mapped # <<>> /\ mapped[1] = r.symbol
    BY <1>2
  <2>5. r.symbol \in Contracts
    BY <2>4, OneMapped
  <2>6. time \in Nat /\ time > 0 /\ mappedAt[time] = <<r.symbol>>
    BY <2>4 DEF ClockRight
  <2>7. Cardinality(own) \in Nat
    <3>1. heard \in Seq(Contracts)
      <4>1. CASE fails \in DOMAIN ticks
        <5>1. \A i \in 1..(fails - 1) : ticks[i] \in Contracts
          BY <4>1
        <5>. QED  BY <4>1, <5>1, SubSeqProperties
      <4>. QED  BY <4>1
    <3>. HIDE DEF heard
    <3>2. DOMAIN heard = 1..Len(heard) /\ Len(heard) \in Nat
      BY <3>1
    <3>3. IsFiniteSet(DOMAIN heard)
      BY <3>2, FS_Interval
    <3>4. own \in SUBSET DOMAIN heard
      OBVIOUS
    <3>. QED  BY <3>3, <3>4, FS_Subset, FS_CardinalityType
  <2>. HIDE DEF own
  <2>8. trade \in Trade
    BY <2>5, <2>6, RollStateType DEF Trade
  <2>9. /\ added \in Seq(Trade) /\ DOMAIN added = 1..Cardinality(own)
        /\ \A i \in DOMAIN added : added[i] = trade
    BY <2>7, <2>8
  <2>. DEFINE old == r.stream[1]
              all == old.trades \o added
              stream_ == [old EXCEPT !.trades = all]
  <2>. HIDE DEF added
  <2>10. old \in Stream /\ old.trades \in Seq(Trade) /\ old.contract = r.symbol
    <3>1. old \in Stream
      BY <2>2, <2>3, ElementOfSeq
    <3>2. old.contract = r.symbol
      BY <2>3
    <3>. HIDE DEF old
    <3>. QED  BY <3>1, <3>2 DEF Stream
  <2>11. all \in Seq(Trade)
    BY <2>9, <2>10, Concatenated
  <2>12. ASSUME NEW i \in DOMAIN all
         PROVE  \/ i \in DOMAIN old.trades /\ all[i] = old.trades[i]
                \/ all[i] = trade
    <3>1. \/ i \in DOMAIN old.trades /\ all[i] = old.trades[i]
          \/ \E j \in DOMAIN added : i = Len(old.trades) + j /\ all[i] = added[j]
      BY <2>9, <2>10, TradesTogether
    <3>. QED  BY <3>1, <2>9
  <2>13. /\ stream_ \in Stream /\ stream_.contract = r.symbol /\ stream_.trades = all
    BY <2>10, <2>11 DEF Stream
  <2>14. new = [r EXCEPT !.stream = [r.stream EXCEPT ![1] = stream_], !.stopped = stops]
    BY <1>2, <2>1 DEF Measured, RuntimeValue, added, own
  <2>15. [r.stream EXCEPT ![1] = stream_] = <<stream_>>
    <3>. HIDE DEF stream_
    <3>1. /\ [r.stream EXCEPT ![1] = stream_] \in Seq(Stream)
          /\ Len([r.stream EXCEPT ![1] = stream_]) = 1
          /\ [r.stream EXCEPT ![1] = stream_][1] = stream_
      BY <2>2, <2>3, <2>13, ExceptSeq
    <3>2. <<stream_>> \in Seq(Stream) /\ Len(<<stream_>>) = 1 /\ <<stream_>>[1] = stream_
      BY <2>13
    <3>. QED  BY <3>1, <3>2, SeqEqual
  <2>. HIDE DEF stream_, trade, all, old
  <2>16. /\ new \in RuntimeValue /\ new.history = r.history /\ new.symbol = r.symbol
         /\ new.completed = r.completed /\ new.contracts = r.contracts
         /\ new.rollCount = r.rollCount /\ new.stream = <<stream_>>
    <3>1. stops \in BOOLEAN
      OBVIOUS
    <3>2. <<stream_>> \in Seq(Stream)
      BY <2>13
    <3>. HIDE DEF stops, new
    <3>. QED  BY <2>1, <2>14, <2>15, <3>1, <3>2 DEF RuntimeValue
  <2>. HIDE DEF new
  <2>17. ASSUME NEW s, StreamRight(s, r) PROVE StreamRight(s, new)
    BY <1>2, <2>16, <2>17 DEF StreamRight, TradeRight
  <2>18. StreamRight(stream_, new)
    <3>1. ASSUME NEW i \in DOMAIN all PROVE TradeRight(all[i], r.symbol, new)
      <4>1. CASE i \in DOMAIN old.trades /\ all[i] = old.trades[i]
        <5>1. StreamRight(old, new)
          BY <2>1, <2>2, <2>3, <2>17 DEF old
        <5>. QED  BY <4>1, <5>1, <2>10 DEF StreamRight
      <4>2. CASE all[i] = trade
        BY <4>2, <2>4, <2>6, <2>16 DEF TradeRight, trade
      <4>. QED  BY <4>1, <4>2, <2>12
    <3>. QED  BY <3>1, <2>13 DEF StreamRight
  <2>19. RuntimeRight(new)
    BY <2>1, <2>16, <2>17, <2>18 DEF RuntimeRight
  <2>20. Accounted(new)
    <3>1. Len(new.stream) = 1 /\ new.stream[1].contract = r.symbol
      BY <2>13, <2>16
    <3>. QED  BY <2>1, <2>3, <2>16, <3>1 DEF Accounted
  <2>. QED  BY <1>2, <2>16, <2>19, <2>20 DEF new
<1>. QED  BY <1>1, <1>2

-----------------------------------------------------------------------------
(* The handlers *)

(* The runtime a handler becomes.                                          *)
LEMMA BecomeRight ==
    ASSUME RuntimeInv, Running, NEW r, RuntimeRight(r), ~ r.stopped => Accounted(r),
           mapped = <<>> => r.symbol = None,
           Become(r), UNCHANGED <<time, mapped, summary, mappedAt>>
    PROVE  RuntimeInv'
<1>1. r \in RuntimeValue
  BY DEF RuntimeRight
<1>2. Runtime' = r
  BY <1>1 DEF Runtime, Become, RuntimeValue
<1>3. ClockRight'
  BY DEF RuntimeInv, ClockRight
<1>4. RuntimeRight(Runtime)'
  BY <1>2 DEF RuntimeRight, StreamRight, TradeRight
<1>5. (summary = <<>> /\ ~ stopped => Accounted(Runtime))'
  BY <1>2 DEF Accounted, Become
<1>6. (mapped = <<>> => symbol = None)' /\ summary' = <<>>
  BY DEF Become, Running
<1>. QED  BY <1>3, <1>4, <1>5, <1>6 DEF RuntimeInv

(* What SwitchToMapped makes of the runtime.                               *)
LEMMA SwitchToMappedKeeps ==
    ASSUME RuntimeInv, Running, NEW failing
    PROVE  LET new == SwitchToMapped(Runtime, failing)
           IN  /\ RuntimeRight(new) /\ (~ new.stopped => Accounted(new))
               /\ mapped = <<>> => new.symbol = None
               /\ ~ new.stopped /\ new.stream # <<>> => mapped = <<new.symbol>>
<1>. DEFINE r == Runtime
            new == SwitchToMapped(r, failing)
<1>1. /\ ClockRight /\ RuntimeRight(r) /\ r.stopped = stopped /\ r.symbol = symbol
      /\ Accounted(r) /\ ~ r.stopped
  BY DEF RuntimeInv, Running, Runtime
<1>2. CASE mapped = <<>>
  <2>1. new = r /\ r.symbol = None
    BY <1>1, <1>2 DEF SwitchToMapped, RuntimeInv
  <2>2. r.history \in Seq(Observation)
    BY <1>1, RuntimeFields DEF RuntimeRight
  <2>3. r.stream = <<>>
    <3>1. CASE r.history # <<>>
      <4>1. r.history[Len(r.history)] \in Observation
        BY <2>2, <3>1
      <4>2. r.symbol \in Contracts
        BY <1>1, <3>1, <4>1 DEF Accounted, Observation
      <4>. QED  BY <2>1, <4>2, RuntimeAssumption
    <3>2. CASE r.history = <<>>
      BY <1>1, <3>2 DEF Accounted
    <3>. QED  BY <3>1, <3>2
  <2>. HIDE DEF r
  <2>. QED  BY <1>1, <2>1, <2>3 DEF r
<1>3. CASE mapped # <<>>
  <2>1. new = Switched(r, mapped[1], failing)
    BY <1>3 DEF SwitchToMapped
  <2>2. RuntimeRight(new) /\ (~ new.stopped => Accounted(new) /\ new.symbol = mapped[1])
    BY <1>1, <1>3, <2>1, SwitchedKeeps
  <2>3. mapped = <<mapped[1]>>
    BY <1>1, <1>3, OneMapped
  <2>. HIDE DEF new
  <2>. QED  BY <1>3, <2>2, <2>3 DEF new
<1>. QED  BY <1>2, <1>3

(* The clock moves on, and leaves every trade in the past.                 *)
LEMMA NextTimeKeeps ==
    ASSUME RuntimeInv, NEW mapping \in {<<>>} \cup {<<c>> : c \in Contracts}, NextTime(mapping)
    PROVE  RuntimeInv'
<1>1. /\ time' = time + 1 /\ mapped' = mapping /\ mappedAt' = Append(mappedAt, mapping)
      /\ mapping = <<>> => mapped = <<>>
      /\ UNCHANGED runtime /\ summary = <<>> /\ ~ stopped
  BY DEF NextTime, Running
<1>2. UNCHANGED <<symbol, history, stream, completed, contracts, rollCount, summary, stopped>>
  BY <1>1 DEF runtime
<1>3. /\ time \in Nat /\ mappedAt \in Seq(Seq(Contracts)) /\ Len(mappedAt) = time
  BY DEF RuntimeInv, ClockRight
<1>4. mapping \in Seq(Contracts) /\ Len(mapping) <= 1
  <2>1. CASE mapping = <<>>
    BY <2>1
  <2>2. ASSUME NEW c \in Contracts, mapping = <<c>>
        PROVE  mapping \in Seq(Contracts) /\ Len(mapping) <= 1
    BY <2>2
  <2>. QED  BY <2>1, <2>2
<1>5. /\ mappedAt' \in Seq(Seq(Contracts)) /\ Len(mappedAt') = time' /\ mappedAt'[time'] = mapped'
      /\ \A i \in 1..time : mappedAt'[i] = mappedAt[i]
  BY <1>1, <1>3, <1>4, AppendProperties
<1>6. ClockRight'
  BY <1>1, <1>3, <1>4, <1>5 DEF ClockRight
<1>7. Runtime' = Runtime
  BY <1>2 DEF Runtime
<1>8. RuntimeRight(Runtime)'
  <2>1. ASSUME NEW t, NEW contract, TradeRight(t, contract, Runtime)
        PROVE  TradeRight(t, contract, Runtime)'
    <3>1. t.at \in 1..time /\ t.at \in 1..time' /\ t.at # time'
      BY <2>1, <1>1, <1>3 DEF TradeRight
    <3>. QED  BY <2>1, <3>1, <1>5, <1>7 DEF TradeRight
  <2>2. RuntimeRight(Runtime)
    BY DEF RuntimeInv
  <2>. QED  BY <2>1, <2>2, <1>7 DEF RuntimeRight, StreamRight
<1>9. /\ (mapped = <<>> => symbol = None)'
      /\ (summary = <<>> /\ ~ stopped => Accounted(Runtime))'
  BY <1>1, <1>2, <1>7 DEF RuntimeInv, Accounted
<1>. QED  BY <1>1, <1>2, <1>6, <1>8, <1>9 DEF RuntimeInv

(* The end of the algorithm: the open stream joins the completed ones.     *)
LEMMA FinalizeKeeps ==
    ASSUME RuntimeInv, NEW fails \in BOOLEAN, Finalize(fails)
    PROVE  RuntimeInv'
<1>. DEFINE r == Runtime
<1>1. /\ Running
      /\ UNCHANGED <<time, mapped, symbol, history, contracts, rollCount, mappedAt>>
  BY DEF Finalize
<1>2. /\ ClockRight /\ RuntimeRight(r) /\ Accounted(r) /\ r \in RuntimeValue
      /\ ~ r.stopped /\ summary = <<>>
  BY <1>1 DEF RuntimeInv, Running, Runtime, RuntimeRight
<1>3. ClockRight' /\ (mapped = <<>> => symbol = None)'
  BY <1>1, <1>2 DEF ClockRight, RuntimeInv
<1>4. /\ r.symbol = symbol /\ r.history = history /\ r.stream = stream
      /\ r.completed = completed /\ r.contracts = contracts /\ r.rollCount = rollCount
      /\ r.stopped = stopped
  BY DEF Runtime
<1>5. /\ r.symbol \in Contracts \cup {None} /\ r.history \in Seq(Observation)
      /\ r.stream \in Seq(Stream) /\ r.completed \in Seq(Stream)
      /\ r.contracts \in SUBSET Contracts /\ r.rollCount \in Nat
  BY <1>2, RuntimeFields
<1>6. CASE fails /\ stream # <<>>
  <2>1. stopped' = TRUE /\ UNCHANGED <<stream, completed, summary>>
    BY <1>6 DEF Finalize
  <2>2. Runtime' = [symbol |-> r.symbol, history |-> r.history, stream |-> r.stream,
                    completed |-> r.completed, contracts |-> r.contracts,
                    rollCount |-> r.rollCount, stopped |-> TRUE]
    BY <1>1, <1>4, <2>1, Zenon DEF Runtime
  <2>. HIDE DEF r
  <2>3. Runtime' \in RuntimeValue
    BY <1>5, <2>2 DEF RuntimeValue
  <2>4. Runtime'.history = r.history /\ Runtime'.stream = r.stream
        /\ Runtime'.completed = r.completed /\ Runtime'.stopped = TRUE
    BY <2>2
  <2>5. RuntimeRight(Runtime)'
    <3>1. ASSUME NEW t, NEW contract, TradeRight(t, contract, r)
          PROVE  TradeRight(t, contract, Runtime)'
      BY <1>1, <2>4, <3>1 DEF TradeRight
    <3>. QED  BY <1>2, <2>3, <2>4, <3>1 DEF RuntimeRight, StreamRight
  <2>. QED  BY <1>2, <1>3, <2>1, <2>5 DEF RuntimeInv
<1>7. CASE ~ (fails /\ stream # <<>>)
  <2>. DEFINE all == completed \o stream
  <2>1. /\ completed' = all /\ stream' = <<>> /\ stopped' = stopped
        /\ summary' = <<[i \in DOMAIN all |-> all[i].trades]>>
    BY <1>7 DEF Finalize, AllCompleted
  <2>2. /\ all \in Seq(Stream) /\ Len(all) = Len(history)
        /\ Len(all) = rollCount + Len(stream)
        /\ DOMAIN all = 1..Len(history) /\ DOMAIN history = 1..Len(history)
        /\ \A i \in DOMAIN all : all[i].contract = history[i].new
    BY <1>2, <1>4, AllAccounted
  <2>3. \A i \in DOMAIN all : StreamRight(all[i], r)
    <3>1. ASSUME NEW i \in DOMAIN all
          PROVE  \/ i \in DOMAIN completed /\ all[i] = completed[i]
                 \/ \E j \in DOMAIN stream : i = Len(completed) + j /\ all[i] = stream[j]
      BY <1>4, <1>5, StreamsTogether
    <3>. QED  BY <3>1, <1>2, <1>4 DEF RuntimeRight
  <2>. HIDE DEF all
  <2>4. Runtime' = [symbol |-> r.symbol, history |-> r.history, stream |-> <<>>,
                    completed |-> all, contracts |-> r.contracts,
                    rollCount |-> r.rollCount, stopped |-> r.stopped]
    BY <1>1, <1>4, <2>1, Zenon DEF Runtime
  <2>7. RuntimeRight(Runtime)'
    <3>. HIDE DEF r
    <3>1. Runtime' \in RuntimeValue
      BY <1>2, <1>5, <2>2, <2>4 DEF RuntimeValue
    <3>2. /\ Runtime'.history = r.history /\ Runtime'.stream = <<>>
          /\ Runtime'.completed = all /\ Runtime'.stopped = r.stopped
          /\ Runtime'.symbol = r.symbol
      BY <2>4
    <3>. QED
      BY <1>1, <1>2, <2>3, <3>1, <3>2 DEF RuntimeRight, StreamRight, TradeRight
  <2>5. MappingsAccounted'
    <3>1. completed' \o stream' = all
      BY <2>1, <2>2, ConcatEmptySeq
    <3>2. [i \in DOMAIN all |-> all[i].contract] = [i \in DOMAIN history |-> history[i].new]
      BY <2>2
    <3>3. history # <<>> => rollCount = Len(history) - 1 /\ symbol = history[Len(history)].new
      BY <1>2, <1>4 DEF Accounted
    <3>4. contracts = {history[i].new : i \in DOMAIN history}
      BY <1>2, <1>4 DEF Accounted
    <3>. QED
      BY <1>1, <2>1, <3>1, <3>2, <3>3, <3>4 DEF MappingsAccounted, Last
  <2>6. summary' # <<>>
    BY <2>1
  <2>. QED  BY <1>3, <2>5, <2>6, <2>7 DEF RuntimeInv
<1>. QED  BY <1>6, <1>7

(* The handlers of the runtime keep the invariant.                         *)
LEMMA RuntimeStep == RuntimeInv /\ Next => RuntimeInv'
<1>. SUFFICES ASSUME RuntimeInv, Next PROVE RuntimeInv'
  OBVIOUS
<1>1. ASSUME NEW mapping \in {<<>>} \cup {<<c>> : c \in Contracts}, NextTime(mapping)
      PROVE  RuntimeInv'
  BY <1>1, NextTimeKeeps
<1>2. ASSUME NEW failing \in Failing, OnMappingEvents(failing)
      PROVE  RuntimeInv'
  <2>. DEFINE r == SwitchToMapped(Runtime, failing)
  <2>1. Running /\ Become(r) /\ UNCHANGED <<time, mapped, summary, mappedAt>>
    BY <1>2 DEF OnMappingEvents
  <2>2. RuntimeRight(r) /\ (~ r.stopped => Accounted(r)) /\ (mapped = <<>> => r.symbol = None)
    BY <2>1, SwitchToMappedKeeps
  <2>. HIDE DEF r
  <2>. QED  BY <2>1, <2>2, BecomeRight
<1>3. ASSUME NEW ticks \in SeqOf(Contracts, MaxTicks), NEW failing \in Failing,
             NEW fails \in 0..MaxTicks, OnSlice(ticks, failing, fails)
      PROVE  RuntimeInv'
  <2>. DEFINE r == SwitchToMapped(Runtime, failing)
              new == Measured(r, ticks, fails)
  <2>1. Running /\ Become(new) /\ UNCHANGED <<time, mapped, summary, mappedAt>>
    BY <1>3 DEF OnSlice, Slice
  <2>2. /\ RuntimeRight(r) /\ (~ r.stopped => Accounted(r)) /\ (mapped = <<>> => r.symbol = None)
        /\ ~ r.stopped /\ r.stream # <<>> => mapped = <<r.symbol>>
    BY <2>1, SwitchToMappedKeeps
  <2>3. ticks \in Seq(Contracts) /\ fails \in Nat /\ ClockRight
    BY DEF SeqOf, RuntimeInv
  <2>. HIDE DEF r
  <2>4. RuntimeRight(new) /\ (~ new.stopped => Accounted(new)) /\ new.symbol = r.symbol
    BY <2>2, <2>3, MeasuredKeeps
  <2>. HIDE DEF new
  <2>. QED  BY <2>1, <2>2, <2>4, BecomeRight
<1>4. ASSUME NEW fails \in BOOLEAN, Finalize(fails) PROVE RuntimeInv'
  BY <1>4, FinalizeKeeps
<1>. QED  BY <1>1, <1>2, <1>3, <1>4 DEF Next

(* A step that leaves the runtime and its clock alone keeps the invariant. *)
LEMMA RuntimeStutter ==
    RuntimeInv /\ UNCHANGED <<runtime, time, mapped, mappedAt>> => RuntimeInv'
<1>. SUFFICES ASSUME RuntimeInv, UNCHANGED <<runtime, time, mapped, mappedAt>>
              PROVE  RuntimeInv'
  OBVIOUS
<1>1. UNCHANGED <<time, mapped, mappedAt, symbol, history, stream, completed, contracts,
                  rollCount, summary, stopped>>
  BY DEF runtime
<1>. QED
  BY <1>1 DEF RuntimeInv, ClockRight, Runtime, RuntimeRight, StreamRight, TradeRight,
              Accounted, MappingsAccounted

(* Whatever is deployed, a step of the host keeps the runtime's invariant. *)
LEMMA HostStep == RuntimeInv /\ [HostNext]_hostVars => RuntimeInv'
<1>. SUFFICES ASSUME RuntimeInv, [HostNext]_hostVars PROVE RuntimeInv'
  OBVIOUS
<1>1. CASE Next
  BY <1>1, RuntimeStep
<1>2. ASSUME NEW mapping \in {<<>>} \cup {<<c>> : c \in Contracts}, NextTime(mapping)
      PROVE  RuntimeInv'
  BY <1>2, NextTimeKeeps
<1>3. CASE UNCHANGED <<runtime, time, mapped, mappedAt>>
  BY <1>3, RuntimeStutter
<1>4. UNCHANGED hostVars => UNCHANGED <<runtime, time, mapped, mappedAt>>
  BY DEF hostVars, vars, runtime
<1>5. HostNext => \/ Next
                  \/ \E mapping \in {<<>>} \cup {<<c>> : c \in Contracts} : NextTime(mapping)
                  \/ UNCHANGED <<runtime, time, mapped, mappedAt>>
  BY DEF HostNext, ProbeTime, ProbeSlice, ProbeEvent, CftcSlice, vars, runtime
<1>. QED  BY <1>1, <1>2, <1>3, <1>4, <1>5

(* The runtime starts right. *)
LEMMA HostInitRight == HostInit => RuntimeInv
<1>. SUFFICES ASSUME HostInit PROVE RuntimeInv
  OBVIOUS
<1>1. /\ time = 0 /\ mapped = <<>> /\ mappedAt = <<>> /\ symbol = None /\ history = <<>>
      /\ stream = <<>> /\ completed = <<>> /\ contracts = {} /\ rollCount = 0
      /\ summary = <<>> /\ stopped = FALSE
  BY DEF HostInit, Init
<1>2. ClockRight
  BY <1>1 DEF ClockRight
<1>3. Runtime \in RuntimeValue
  <2>1. history \in Seq(Observation) /\ stream \in Seq(Stream) /\ completed \in Seq(Stream)
    BY <1>1
  <2>. QED  BY <1>1, <2>1 DEF Runtime, RuntimeValue
<1>4. RuntimeRight(Runtime) /\ Accounted(Runtime)
  BY <1>1, <1>3 DEF RuntimeRight, Accounted, Runtime
<1>. QED  BY <1>1, <1>2, <1>4 DEF RuntimeInv

(* The runtime's invariant over every behaviour of the host: observations  *)
(* are in time order, and every stream and trade carries what was visible  *)
(* at its time.                                                            *)
THEOREM RuntimeInvariance == HostSpec => []RuntimeInv
  BY HostInitRight, HostStep, PTL DEF HostSpec

-----------------------------------------------------------------------------
(* The results *)

(* The trades of every stream are right.                                   *)
LEMMA StreamsRight ==
    ASSUME RuntimeInv, NEW s \in Streams, NEW i \in DOMAIN s.trades
    PROVE  TradeRight(s.trades[i], s.contract, Runtime)
<1>1. /\ \A j \in DOMAIN completed : StreamRight(completed[j], Runtime)
      /\ \A j \in DOMAIN stream : StreamRight(stream[j], Runtime)
  <2>1. Runtime.completed = completed /\ Runtime.stream = stream
    BY DEF Runtime
  <2>. QED  BY <2>1 DEF RuntimeInv, RuntimeRight
<1>2. StreamRight(s, Runtime)
  BY <1>1 DEF Streams, Range
<1>. QED  BY <1>2 DEF StreamRight

(* A trade is measured by the stream of the contract mapped at its time.   *)
THEOREM TradesUnderTheirMapping == HostSpec => []TradesFollowTheMapping
<1>1. RuntimeInv => TradesFollowTheMapping
  BY StreamsRight DEF TradeRight, TradesFollowTheMapping
<1>. QED  BY <1>1, RuntimeInvariance, PTL

(* No mapping observed after a trade revises its roll state.               *)
THEOREM RollStatesStay == HostSpec => []RollStatesAreFinal
<1>1. Runtime.history = history
  BY DEF Runtime
<1>2. RuntimeInv => RollStatesAreFinal
  BY <1>1, StreamsRight DEF TradeRight, RollStatesAreFinal
<1>. QED  BY <1>2, RuntimeInvariance, PTL

(* While no handler has raised, every mapping observed has its one stream, *)
(* and a summary counts each of them once.                                 *)
THEOREM MappingsAreAccounted == HostSpec => []MappingsAccounted
<1>1. RuntimeInv => MappingsAccounted
  <2>. SUFFICES ASSUME RuntimeInv, summary = <<>>, ~ stopped PROVE MappingsAccounted
    BY DEF RuntimeInv, MappingsAccounted
  <2>1. /\ Accounted(Runtime) /\ Runtime \in RuntimeValue
        /\ Runtime.history = history /\ Runtime.stream = stream
        /\ Runtime.completed = completed /\ Runtime.contracts = contracts
        /\ Runtime.rollCount = rollCount /\ Runtime.symbol = symbol
    BY DEF RuntimeInv, RuntimeRight, Runtime
  <2>. DEFINE all == completed \o stream
  <2>2. /\ DOMAIN all = 1..Len(history) /\ DOMAIN history = 1..Len(history)
        /\ \A i \in DOMAIN all : all[i].contract = history[i].new
    BY <2>1, AllAccounted
  <2>3. [i \in DOMAIN all |-> all[i].contract] = [i \in DOMAIN history |-> history[i].new]
    BY <2>2
  <2>4. /\ history # <<>> => rollCount = Len(history) - 1 /\ symbol = history[Len(history)].new
        /\ contracts = {history[i].new : i \in DOMAIN history}
    BY <2>1 DEF Accounted
  <2>. QED  BY <2>3, <2>4 DEF MappingsAccounted, Last
<1>. QED  BY <1>1, RuntimeInvariance, PTL

-----------------------------------------------------------------------------
(* The switches that fail *)

(* A mapping observed is not the one observed before it. *)
NewsDiffer(h) == \A i, j \in DOMAIN h : j = i + 1 => h[i].new # h[j].new

(* A switch failed after it completed the stream that is still current,    *)
(* the first switch of all with no stream to complete.                     *)
Interrupted(r) ==
    /\ Len(r.completed) = r.rollCount
    /\ \A i \in DOMAIN r.completed : r.completed[i].contract = r.history[i].new
    /\ r.contracts = {r.completed[i].contract : i \in DOMAIN r.completed}
    /\ Len(r.history) - Len(r.completed) \in {0, 1}
    /\ IF r.completed = <<>> THEN r.stream = <<>> /\ r.symbol = None
       ELSE r.stream = <<Last(r.completed)>> /\ r.symbol = Last(r.completed).contract

Settled(r) ==
    /\ NewsDiffer(r.history)
    /\ Accounted(r) \/ (r.stopped /\ Interrupted(r))

SwitchInv ==
    /\ summary = <<>> => Settled(Runtime)
    /\ summary # <<>> => SwitchesAccounted

(* The streams of an accounted runtime, closed and open, are all there is  *)
(* to its symbol and contracts, and the open one is the last of them.      *)
LEMMA AllOpened ==
    ASSUME NEW r \in RuntimeValue, Len(r.stream) <= 1, Accounted(r)
    PROVE  LET all == r.completed \o r.stream
           IN  /\ r.contracts = {all[i].contract : i \in DOMAIN all}
               /\ all = <<>> => r.stream = <<>> /\ r.symbol = None
               /\ all # <<>> => r.stream = <<Last(all)>> /\ r.symbol = Last(all).contract
<1>. DEFINE all == r.completed \o r.stream
<1>1. /\ r.history \in Seq(Observation) /\ r.stream \in Seq(Stream)
      /\ r.completed \in Seq(Stream) /\ r.rollCount \in Nat
  BY RuntimeFields
<1>2. /\ all \in Seq(Stream) /\ Len(all) = Len(r.history)
      /\ Len(all) = r.rollCount + Len(r.stream)
      /\ DOMAIN all = 1..Len(r.history) /\ DOMAIN r.history = 1..Len(r.history)
      /\ \A i \in DOMAIN all : all[i].contract = r.history[i].new
  BY AllAccounted
<1>3. r.contracts = {all[i].contract : i \in DOMAIN all}
  <2>1. r.contracts = {r.history[i].new : i \in DOMAIN r.history}
    BY DEF Accounted
  <2>. HIDE DEF all
  <2>. QED  BY <2>1, <1>2
<1>4. CASE r.history = <<>>
  <2>1. r.stream = <<>> /\ r.symbol = None
    BY <1>4 DEF Accounted
  <2>2. Len(all) = 0
    BY <1>2, <1>4
  <2>. HIDE DEF all
  <2>3. all = <<>>
    BY <1>2, <2>2, EmptySeq
  <2>. QED  BY <1>3, <2>1, <2>3 DEF all
<1>5. CASE r.history # <<>>
  <2>1. /\ Len(r.stream) = 1 /\ Len(r.completed) = r.rollCount
        /\ r.symbol = r.stream[1].contract
    BY <1>5, Zenon DEF Accounted
  <2>2. Len(all) = r.rollCount + 1 /\ Len(all) # 0 /\ all # <<>>
    BY <1>1, <1>2, <2>1
  <2>3. all[Len(all)] = r.stream[1]
    <3>1. /\ Len(r.completed) \in Nat
          /\ \A i \in 1..(Len(r.completed) + Len(r.stream)) :
                all[i] = IF i <= Len(r.completed) THEN r.completed[i]
                         ELSE r.stream[i - Len(r.completed)]
      BY <1>1, ConcatProperties, LenProperties
    <3>. HIDE DEF all
    <3>2. /\ Len(all) \in 1..(Len(r.completed) + Len(r.stream))
          /\ ~ (Len(all) <= Len(r.completed)) /\ Len(all) - Len(r.completed) = 1
      BY <1>1, <2>1, <2>2, <3>1
    <3>. QED  BY <3>1, <3>2
  <2>4. r.stream = <<r.stream[1]>>
    <3>1. /\ r.stream[1] \in Stream /\ <<r.stream[1]>> \in Seq(Stream)
          /\ Len(<<r.stream[1]>>) = 1 /\ <<r.stream[1]>>[1] = r.stream[1]
      BY <1>1, <2>1
    <3>. QED  BY <1>1, <2>1, <3>1, SeqEqual
  <2>. HIDE DEF all
  <2>5. Last(all) = r.stream[1]
    BY <2>3 DEF Last
  <2>. QED  BY <1>3, <2>1, <2>2, <2>4, <2>5 DEF all
<1>. QED  BY <1>4, <1>5

(* A switch that stops once the old stream is completed, before or after   *)
(* it observed the mapping.                                                *)
LEMMA StopsInterrupted ==
    ASSUME NEW r \in RuntimeValue, Len(r.stream) <= 1, Accounted(r), NEW o \in Observation,
           NEW n, n.history = r.history \/ n.history = Append(r.history, o),
           n.completed = r.completed \o r.stream, n.stream = r.stream,
           n.symbol = r.symbol, n.contracts = r.contracts,
           n.rollCount = r.rollCount + Len(r.stream)
    PROVE  Interrupted(n)
<1>. DEFINE all == r.completed \o r.stream
<1>1. /\ all \in Seq(Stream) /\ Len(all) = Len(r.history)
      /\ Len(all) = r.rollCount + Len(r.stream)
      /\ DOMAIN all = 1..Len(r.history) /\ DOMAIN r.history = 1..Len(r.history)
      /\ \A i \in DOMAIN all : all[i].contract = r.history[i].new
  BY AllAccounted
<1>2. /\ r.contracts = {all[i].contract : i \in DOMAIN all}
      /\ all = <<>> => r.stream = <<>> /\ r.symbol = None
      /\ all # <<>> => r.stream = <<Last(all)>> /\ r.symbol = Last(all).contract
  BY AllOpened
<1>3. n.completed = all
  OBVIOUS
<1>4. r.history \in Seq(Observation) /\ Len(r.history) \in Nat
  BY RuntimeFields
<1>. HIDE DEF all
<1>5. /\ Len(n.history) - Len(all) \in {0, 1}
      /\ \A i \in DOMAIN all : n.history[i] = r.history[i]
  BY <1>1, <1>4, AppendProperties
<1>6. \A i \in DOMAIN all : all[i].contract = n.history[i].new
  BY <1>1, <1>5
<1>7. Len(all) = n.rollCount
  BY <1>1
<1>. QED  BY <1>2, <1>3, <1>5, <1>6, <1>7 DEF Interrupted

(* Wherever _switch_contract stops, it leaves the runtime settled.         *)
LEMMA SwitchedSettles ==
    ASSUME ClockRight, mapped # <<>>, NEW r, RuntimeRight(r), ~ r.stopped, Settled(r), NEW failing
    PROVE  Settled(Switched(r, mapped[1], failing))
<1>. DEFINE contract == mapped[1]
            o == Observed(r.symbol, contract, time)
            closed == [r EXCEPT !.completed = @ \o r.stream, !.rollCount = @ + Len(r.stream)]
            observed == [closed EXCEPT !.history = Append(@, o)]
            new == Switched(r, contract, failing)
<1>1. /\ r \in RuntimeValue /\ Len(r.stream) <= 1 /\ Accounted(r) /\ NewsDiffer(r.history)
  BY DEF RuntimeRight, Settled
<1>2. contract \in Contracts
  BY OneMapped
<1>3. CASE contract = r.symbol
  BY <1>3 DEF Switched
<1>4. CASE contract # r.symbol
  <2>1. o \in Observation /\ o.new = contract
    BY <1>1, <1>2, RuntimeFields DEF Observed, Observation, ClockRight
  <2>2. r.history \in Seq(Observation) /\ Len(r.history) \in Nat
    BY <1>1, RuntimeFields
  <2>3. ~ new.stopped => Accounted(new)
    BY <1>1, SwitchedKeeps
  <2>. HIDE DEF contract, o
  <2>4. NewsDiffer(Append(r.history, o))
    <3>. DEFINE h == Append(r.history, o)
                n == Len(r.history)
    <3>1. /\ DOMAIN h = 1..(n + 1) /\ DOMAIN r.history = 1..n
          /\ \A i \in 1..n : h[i] = r.history[i]
          /\ h[n + 1] = o
      BY <2>1, <2>2, AppendProperties
    <3>2. n # 0 => r.symbol = r.history[n].new
      BY <1>1, <2>2 DEF Accounted
    <3>. HIDE DEF h, n
    <3>3. n \in Nat
      BY <2>2 DEF n
    <3>4. ASSUME NEW i \in DOMAIN h, NEW j \in DOMAIN h, j = i + 1
          PROVE  h[i].new # h[j].new
      <4>1. CASE j \in 1..n
        <5>1. i \in DOMAIN r.history /\ j \in DOMAIN r.history
          BY <3>1, <3>3, <3>4, <4>1
        <5>. QED  BY <1>1, <3>1, <3>4, <5>1 DEF NewsDiffer
      <4>2. CASE j \notin 1..n
        <5>1. j = n + 1 /\ i = n /\ n # 0 /\ i \in 1..n
          BY <3>1, <3>3, <3>4, <4>2
        <5>. QED  BY <1>4, <2>1, <3>1, <3>2, <5>1
      <4>. QED  BY <4>1, <4>2
    <3>. QED  BY <3>4 DEF NewsDiffer, h
  <2>5. CASE new = [r EXCEPT !.stopped = TRUE]
    <3>1. /\ new.history = r.history /\ new.completed = r.completed /\ new.stream = r.stream
          /\ new.symbol = r.symbol /\ new.contracts = r.contracts /\ new.rollCount = r.rollCount
      BY <2>5, <1>1 DEF RuntimeValue
    <3>2. Accounted(new)
      BY <1>1, <3>1 DEF Accounted
    <3>. QED  BY <1>1, <3>1, <3>2 DEF Settled, contract
  <2>6. CASE new = [closed EXCEPT !.stopped = TRUE]
    <3>1. /\ new.history = r.history /\ new.completed = r.completed \o r.stream
          /\ new.stream = r.stream /\ new.symbol = r.symbol /\ new.contracts = r.contracts
          /\ new.rollCount = r.rollCount + Len(r.stream) /\ new.stopped
      BY <2>6, <1>1 DEF RuntimeValue
    <3>. HIDE DEF new
    <3>2. Interrupted(new)
      BY <1>1, <2>1, <3>1, StopsInterrupted
    <3>. QED  BY <1>1, <3>1, <3>2 DEF Settled, contract, new
  <2>7. CASE new = [observed EXCEPT !.stopped = TRUE]
    <3>1. /\ new.history = Append(r.history, o) /\ new.completed = r.completed \o r.stream
          /\ new.stream = r.stream /\ new.symbol = r.symbol /\ new.contracts = r.contracts
          /\ new.rollCount = r.rollCount + Len(r.stream) /\ new.stopped
      BY <2>7, <1>1 DEF RuntimeValue
    <3>. HIDE DEF new
    <3>2. Interrupted(new)
      BY <1>1, <2>1, <3>1, StopsInterrupted
    <3>. QED  BY <2>4, <3>1, <3>2 DEF Settled, contract, new
  <2>8. CASE new = [observed EXCEPT !.symbol = contract, !.contracts = @ \cup {contract},
                                    !.stream = <<NewStream(contract)>>]
    <3>1. new.history = Append(r.history, o) /\ ~ new.stopped
      BY <2>8, <1>1 DEF RuntimeValue
    <3>. HIDE DEF new
    <3>. QED  BY <2>3, <2>4, <3>1 DEF Settled, contract, new
  <2>. QED  BY <1>4, <2>5, <2>6, <2>7, <2>8 DEF Switched, o
<1>. QED  BY <1>3, <1>4

(* A settled runtime has the accounts the property asks for.               *)
LEMMA SettledAccounts ==
    ASSUME RuntimeInv, Settled(Runtime), summary = <<>>
    PROVE  SwitchesAccounted
<1>. DEFINE r == Runtime
            all == completed \o stream
<1>1. /\ r.symbol = symbol /\ r.history = history /\ r.stream = stream
      /\ r.completed = completed /\ r.contracts = contracts /\ r.rollCount = rollCount
      /\ r.stopped = stopped
  BY DEF Runtime
<1>2. r \in RuntimeValue /\ Len(r.stream) <= 1
  BY DEF RuntimeInv, RuntimeRight
<1>3. /\ history \in Seq(Observation) /\ stream \in Seq(Stream)
      /\ completed \in Seq(Stream) /\ rollCount \in Nat
      /\ Len(history) \in Nat /\ Len(completed) \in Nat /\ Len(stream) \in Nat
  BY <1>1, <1>2, RuntimeFields
<1>. HIDE DEF r
<1>4. CASE Accounted(r)
  <2>1. /\ all \in Seq(Stream) /\ Len(all) = Len(history)
        /\ Len(all) = rollCount + Len(stream)
        /\ DOMAIN all = 1..Len(history) /\ DOMAIN history = 1..Len(history)
        /\ \A i \in DOMAIN all : all[i].contract = history[i].new
    BY <1>1, <1>2, <1>4, AllAccounted
  <2>2. /\ contracts = {all[i].contract : i \in DOMAIN all}
        /\ all = <<>> => stream = <<>> /\ symbol = None
        /\ all # <<>> => stream = <<Last(all)>> /\ symbol = Last(all).contract
    BY <1>1, <1>2, <1>4, AllOpened
  <2>3. Len(completed) = rollCount
    BY <1>1, <1>4 DEF Accounted
  <2>4. ~ StillCurrent
    <3>. SUFFICES ASSUME StillCurrent PROVE FALSE
      OBVIOUS
    <3>. DEFINE n == Len(completed)
    <3>1. /\ completed # <<>> /\ stream = <<completed[n]>> /\ Len(stream) = 1
          /\ stream[1] = completed[n]
      BY DEF StillCurrent, Last
    <3>2. n # 0
      BY <1>3, <3>1, EmptySeq
    <3>3. n \in DOMAIN completed /\ n \in 1..Len(history) /\ n + 1 \in 1..Len(history)
          /\ n + 1 = Len(history)
      BY <1>3, <2>1, <2>3, <3>1, <3>2
    <3>. HIDE DEF n
    <3>4. completed[n].contract = history[n].new
      BY <1>1, <1>4, <3>3 DEF Accounted
    <3>5. history # <<>>
      BY <3>3
    <3>6. stream[1].contract = history[n + 1].new
      BY <1>1, <1>4, <3>3, <3>5, Zenon DEF Accounted
    <3>7. history[n].new # history[n + 1].new
      BY <1>1, <2>1, <3>3 DEF Settled, NewsDiffer, r
    <3>. QED  BY <3>1, <3>4, <3>6, <3>7
  <2>5. Opened = all
    BY <2>4 DEF Opened
  <2>. HIDE DEF all
  <2>6. Len(history) - Len(all) \in {0, 1}
    BY <2>1, <1>3
  <2>. QED  BY <2>1, <2>2, <2>3, <2>4, <2>5, <2>6 DEF SwitchesAccounted
<1>5. CASE r.stopped /\ Interrupted(r)
  <2>1. /\ Len(completed) = rollCount
        /\ \A i \in DOMAIN completed : completed[i].contract = history[i].new
        /\ contracts = {completed[i].contract : i \in DOMAIN completed}
        /\ Len(history) - Len(completed) \in {0, 1}
        /\ completed = <<>> => stream = <<>> /\ symbol = None
        /\ completed # <<>> => stream = <<Last(completed)>> /\ symbol = Last(completed).contract
    BY <1>1, <1>5 DEF Interrupted
  <2>2. Opened = completed
    <3>1. CASE completed = <<>>
      <4>1. completed \o stream = <<>>
        BY <3>1, <2>1
      <4>. QED  BY <3>1, <4>1 DEF Opened, StillCurrent
    <3>2. CASE completed # <<>>
      BY <3>2, <2>1 DEF Opened, StillCurrent
    <3>. QED  BY <3>1, <3>2
  <2>3. StillCurrent \/ Opened = <<>>
    BY <2>1, <2>2 DEF StillCurrent
  <2>. QED  BY <1>1, <1>5, <2>1, <2>2, <2>3 DEF SwitchesAccounted
<1>. QED  BY <1>4, <1>5 DEF Settled, r

(* The end of the algorithm leaves an accounted runtime accounted.         *)
LEMMA FinalizeSettles ==
    ASSUME RuntimeInv, SwitchInv, NEW fails \in BOOLEAN, Finalize(fails)
    PROVE  SwitchInv'
<1>. DEFINE r == Runtime
            all == completed \o stream
<1>1. /\ UNCHANGED <<symbol, history, contracts, rollCount>>
      /\ summary = <<>> /\ ~ stopped
  BY DEF Finalize, Running
<1>2. /\ r \in RuntimeValue /\ Len(r.stream) <= 1 /\ Accounted(r) /\ NewsDiffer(r.history)
  BY <1>1 DEF RuntimeInv, RuntimeRight, SwitchInv, Settled
<1>3. /\ r.symbol = symbol /\ r.history = history /\ r.stream = stream
      /\ r.completed = completed /\ r.contracts = contracts /\ r.rollCount = rollCount
  BY DEF Runtime
<1>. HIDE DEF r
<1>4. CASE fails /\ stream # <<>>
  <2>1. summary' = <<>> /\ UNCHANGED <<stream, completed>>
    BY <1>1, <1>4 DEF Finalize
  <2>2. /\ Runtime'.symbol = r.symbol /\ Runtime'.history = r.history
        /\ Runtime'.stream = r.stream /\ Runtime'.completed = r.completed
        /\ Runtime'.contracts = r.contracts /\ Runtime'.rollCount = r.rollCount
    BY <1>1, <1>3, <2>1 DEF Runtime
  <2>3. Accounted(Runtime')
    BY <1>2, <2>2 DEF Accounted
  <2>4. Settled(Runtime')
    BY <1>2, <2>2, <2>3 DEF Settled
  <2>. QED  BY <2>1, <2>4 DEF SwitchInv
<1>5. CASE ~ (fails /\ stream # <<>>)
  <2>1. completed' = all /\ stream' = <<>> /\ summary' = <<[i \in DOMAIN all |-> all[i].trades]>>
    BY <1>5 DEF Finalize, AllCompleted
  <2>2. /\ all \in Seq(Stream) /\ Len(all) = Len(history)
        /\ \A i \in DOMAIN all : all[i].contract = history[i].new
    BY <1>2, <1>3, AllAccounted
  <2>3. /\ contracts = {all[i].contract : i \in DOMAIN all}
        /\ symbol = IF all = <<>> THEN None ELSE Last(all).contract
    BY <1>2, <1>3, AllOpened
  <2>4. all \o <<>> = all
    BY <2>2, ConcatEmptySeq
  <2>5. summary' # <<>>
    BY <2>1
  <2>6. Len(history) - Len(all) \in {0, 1} /\ Len(history) = Len(all)
    BY <2>2
  <2>. HIDE DEF all
  <2>7. ~ StillCurrent'
    BY <2>1 DEF StillCurrent
  <2>8. Opened' = all
    BY <2>1, <2>4, <2>7 DEF Opened
  <2>9. stream' = <<>> /\ summary' = <<[i \in DOMAIN completed' |-> completed'[i].trades]>>
    BY <2>1
  <2>10. SwitchesAccounted'
    BY <1>1, <2>2, <2>3, <2>5, <2>6, <2>7, <2>8, <2>9 DEF SwitchesAccounted
  <2>. QED  BY <2>5, <2>10 DEF SwitchInv
<1>. QED  BY <1>4, <1>5

(* The handlers leave the runtime settled, whatever they stop at.          *)
LEMMA HandlerSettles ==
    ASSUME RuntimeInv, SwitchInv, NEW failing, Running
    PROVE  Settled(SwitchToMapped(Runtime, failing))
<1>1. /\ ClockRight /\ RuntimeRight(Runtime) /\ ~ Runtime.stopped /\ Settled(Runtime)
  BY DEF RuntimeInv, SwitchInv, Running, Runtime
<1>2. CASE mapped = <<>>
  BY <1>1, <1>2 DEF SwitchToMapped
<1>3. CASE mapped # <<>>
  BY <1>1, <1>3, SwitchedSettles DEF SwitchToMapped
<1>. QED  BY <1>2, <1>3

(* The runtime that settles.                                               *)
LEMMA BecomeSettled ==
    ASSUME NEW r \in RuntimeValue, Settled(r), Become(r), summary' = <<>>
    PROVE  SwitchInv'
<1>1. Runtime' = r
  BY DEF Runtime, Become, RuntimeValue
<1>2. Settled(Runtime)'
  BY <1>1 DEF Settled, NewsDiffer, Accounted, Interrupted
<1>. QED  BY <1>2 DEF SwitchInv

(* A step that leaves the runtime alone leaves its accounts alone.         *)
LEMMA SwitchStutter == SwitchInv /\ UNCHANGED runtime => SwitchInv'
<1>. SUFFICES ASSUME SwitchInv, UNCHANGED runtime PROVE SwitchInv'
  OBVIOUS
<1>1. UNCHANGED <<symbol, history, stream, completed, contracts, rollCount, summary, stopped>>
  BY DEF runtime
<1>2. Runtime' = Runtime
  BY <1>1 DEF Runtime
<1>3. Settled(Runtime) => Settled(Runtime)'
  BY <1>2 DEF Settled, NewsDiffer, Accounted, Interrupted
<1>4. SwitchesAccounted => SwitchesAccounted'
  BY <1>1 DEF SwitchesAccounted, Opened, StillCurrent
<1>. QED  BY <1>1, <1>3, <1>4 DEF SwitchInv

(* Whatever is deployed, a step of the host keeps the accounts.            *)
LEMMA SwitchStep == RuntimeInv /\ SwitchInv /\ [HostNext]_hostVars => SwitchInv'
<1>. SUFFICES ASSUME RuntimeInv, SwitchInv, [HostNext]_hostVars PROVE SwitchInv'
  OBVIOUS
<1>1. ASSUME NEW failing \in Failing, OnMappingEvents(failing)
      PROVE  SwitchInv'
  <2>. DEFINE r == SwitchToMapped(Runtime, failing)
  <2>1. Running /\ Become(r) /\ summary' = <<>>
    BY <1>1 DEF OnMappingEvents, Running
  <2>2. Settled(r)
    BY <2>1, HandlerSettles
  <2>3. r \in RuntimeValue
    BY <2>1, SwitchToMappedKeeps DEF RuntimeRight
  <2>. HIDE DEF r
  <2>. QED  BY <2>1, <2>2, <2>3, BecomeSettled
<1>2. ASSUME NEW ticks \in SeqOf(Contracts, MaxTicks), NEW failing \in Failing,
             NEW fails \in 0..MaxTicks, OnSlice(ticks, failing, fails)
      PROVE  SwitchInv'
  <2>. DEFINE r == SwitchToMapped(Runtime, failing)
              new == Measured(r, ticks, fails)
  <2>1. Running /\ Become(new) /\ summary' = <<>>
    BY <1>2 DEF OnSlice, Slice, Running
  <2>2. Settled(r)
    BY <2>1, HandlerSettles
  <2>3. /\ RuntimeRight(r) /\ (~ r.stopped => Accounted(r))
        /\ ~ r.stopped /\ r.stream # <<>> => mapped = <<r.symbol>>
    BY <2>1, SwitchToMappedKeeps
  <2>4. ticks \in Seq(Contracts) /\ fails \in Nat /\ ClockRight
    BY DEF SeqOf, RuntimeInv
  <2>. HIDE DEF r
  <2>5. /\ RuntimeRight(new) /\ new.history = r.history
        /\ (Accounted(r) => Accounted(new)) /\ (r.stopped => new = r)
    BY <2>3, <2>4, MeasuredKeeps
  <2>6. new \in RuntimeValue
    BY <2>5 DEF RuntimeRight
  <2>. HIDE DEF new
  <2>7. Settled(new)
    <3>1. CASE Accounted(r)
      BY <2>2, <2>5, <3>1 DEF Settled
    <3>2. CASE r.stopped /\ Interrupted(r)
      BY <2>2, <2>5, <3>2
    <3>. QED  BY <2>2, <3>1, <3>2 DEF Settled
  <2>. QED  BY <2>1, <2>6, <2>7, BecomeSettled
<1>3. ASSUME NEW fails \in BOOLEAN, Finalize(fails) PROVE SwitchInv'
  BY <1>3, FinalizeSettles
<1>4. CASE UNCHANGED runtime
  BY <1>4, SwitchStutter
<1>5. UNCHANGED hostVars => UNCHANGED runtime
  BY DEF hostVars, vars, runtime
<1>6. HostNext => \/ \E failing \in Failing : OnMappingEvents(failing)
                  \/ \E ticks \in SeqOf(Contracts, MaxTicks), failing \in Failing,
                        fails \in 0..MaxTicks : OnSlice(ticks, failing, fails)
                  \/ \E fails \in BOOLEAN : Finalize(fails)
                  \/ UNCHANGED runtime
  BY DEF HostNext, Next, NextTime, ProbeTime, ProbeSlice, ProbeEvent, CftcSlice, vars, runtime
<1>. QED  BY <1>1, <1>2, <1>3, <1>4, <1>5, <1>6

(* Through every failure of a switch or a tick, the runtime keeps one      *)
(* account of its streams, and a failed switch is in no summary.           *)
THEOREM StreamsAccounted == HostSpec => []OneStreamPerMapping
<1>1. HostInit => SwitchInv
  <2>. SUFFICES ASSUME HostInit PROVE SwitchInv
    OBVIOUS
  <2>1. summary = <<>> /\ ~ stopped /\ history = <<>>
    BY DEF HostInit, Init
  <2>2. Accounted(Runtime)
    BY <2>1, HostInitRight DEF RuntimeInv
  <2>3. NewsDiffer(Runtime.history)
    BY <2>1 DEF Runtime, NewsDiffer
  <2>. QED  BY <2>1, <2>2, <2>3 DEF SwitchInv, Settled
<1>2. RuntimeInv /\ SwitchInv => SwitchesAccounted
  BY SettledAccounts DEF SwitchInv
<1>3. SwitchesAccounted /\ MappingsAccounted => OneStreamPerMapping
  <2>. SUFFICES ASSUME SwitchesAccounted, MappingsAccounted PROVE OneStreamPerMapping
    OBVIOUS
  <2>1. (~ stopped /\ history # <<>>) => rollCount = Len(history) - 1
    BY DEF MappingsAccounted
  <2>. QED  BY <2>1 DEF SwitchesAccounted, OneStreamPerMapping
<1>. QED  BY <1>1, <1>2, <1>3, SwitchStep, RuntimeInvariance, MappingsAreAccounted, PTL DEF HostSpec

-----------------------------------------------------------------------------
(* The futures probe *)

ProbeFlags == {"UNADJUDICATED_MINUTE_GAP", "NON_MONOTONIC_BAR_TIME",
               "MAPPING_EVENT_PRECEDES_LAST_OBSERVED_BAR"}

ProbeValue ==
    [contracts : SUBSET Contracts, rolls : Seq(Observation), rollStates : SUBSET RollStates,
     first : Nat, last : Nat, rows : Nat, missing : Nat, events : Seq(Nat),
     openInterest : SUBSET (Contracts \X Int), nonNull : SUBSET (Contracts \X Int),
     expiries : SUBSET Contracts, sessions : SUBSET Int, chains : Nat,
     flags : SUBSET ProbeFlags, raised : BOOLEAN]

(* The contracts mapped so far.                                            *)
MappedSoFar == UNION {Range(mappedAt[t]) : t \in 1..time}

(* The minutes after which the next bar is not the one a minute later.     *)
Holes(bars, last) == {t \in bars : t # last /\ t + 1 \notin bars}

(* The count of bars and of holes between them, in the probe p.            *)
BarsCounted(p, bars) ==
    /\ p.rows = Cardinality(bars)
    /\ IF bars = {} THEN p.first = Never /\ p.last = Never
       ELSE /\ p.first \in bars /\ p.last \in bars
            /\ \A t \in bars : p.first <= t /\ t <= p.last
    /\ p.missing = Cardinality(Holes(bars, p.last))
    /\ p.missing # 0 => p.flags # {}

(* The roll state its time has in the end, of every bar since the first    *)
(* mapping, is among those the probe lists.                                *)
BarsPlaced(p, bars) ==
    Initialized(p) =>
        \A t \in bars : t >= p.rolls[1].observed => RollState(p.rolls, t) \in p.rollStates

(* The events are in time order.                                           *)
EventsInOrder(p) ==
    \A i \in DOMAIN p.events :
        /\ p.events[i] \in 1..time
        /\ p.events[1] <= p.events[i] /\ p.events[i] <= p.events[Len(p.events)]

(* What the probe has counted and listed.                                  *)
ProbeRight(p, bars) ==
    /\ p \in ProbeValue
    /\ p.contracts \subseteq MappedSoFar
    /\ BarsCounted(p, bars)
    /\ (bars = {}) = (p.sessions = {})
    /\ BarsPlaced(p, bars)
    /\ EventsInOrder(p)
    /\ IsFiniteSet(p.openInterest) /\ p.nonNull \subseteq p.openInterest

(* The event LEAN has still to raise names contracts mapped so far.        *)
EventDue ==
    /\ changes \in Seq([old : Contracts, new : Contracts])
    /\ changes # <<>> => {changes[1].old, changes[1].new} \subseteq MappedSoFar

ProbeInv ==
    deployed = "futures probe" /\ ~ probe.raised =>
        /\ ProbeRight(probe, barTimes) /\ EventDue
        /\ barTimes \subseteq 1..time
        /\ ~ sliced => time > 0 /\ time \notin barTimes

(* The fields of a probe.                                                  *)
LEMMA ProbeFields ==
    ASSUME NEW p \in ProbeValue
    PROVE  /\ p.contracts \subseteq Contracts /\ p.rolls \in Seq(Observation)
           /\ p.rollStates \subseteq RollStates
           /\ p.first \in Nat /\ p.last \in Nat /\ p.rows \in Nat /\ p.missing \in Nat
           /\ p.events \in Seq(Nat)
           /\ p.openInterest \subseteq Contracts \X Int /\ p.nonNull \subseteq Contracts \X Int
           /\ p.expiries \subseteq Contracts /\ p.sessions \subseteq Int /\ p.chains \in Nat
           /\ p.flags \subseteq ProbeFlags /\ p.raised \in BOOLEAN
  BY DEF ProbeValue

(* A bar later than the last leaves a hole there, or none if it is the one *)
(* a minute later.                                                         *)
LEMMA HolesWithBar ==
    ASSUME NEW bars \in SUBSET Nat, NEW last \in bars, \A t \in bars : t <= last,
           NEW at \in Nat, at > last
    PROVE  Holes(bars \cup {at}, at) =
             IF at > last + 1 THEN Holes(bars, last) \cup {last} ELSE Holes(bars, last)
<1>1. \A t \in bars : t \in Nat /\ t # at /\ (t # last => t + 1 <= last /\ t + 1 # at)
  OBVIOUS
<1>2. last + 1 \notin bars /\ (last + 1 = at <=> ~ (at > last + 1))
  OBVIOUS
<1>. QED  BY <1>1, <1>2 DEF Holes

(* _observe_bar_time, with a bar later than those before: the row and the  *)
(* hole before it are counted.                                             *)
LEMMA BarIsCounted ==
    ASSUME NEW p \in ProbeValue, NEW at \in Nat \ {0}, NEW bars, bars \subseteq 1..(at - 1),
           BarsCounted(p, bars)
    PROVE  /\ ObserveBarTime(p, at) \in ProbeValue
           /\ BarsCounted(ObserveBarTime(p, at), bars \cup {at})
<1>. DEFINE q == ObserveBarTime(p, at)
            gap == p.last # Never /\ at > p.last + 1
<1>0. /\ p.first \in Nat /\ p.last \in Nat /\ p.rows \in Nat /\ p.missing \in Nat
      /\ p.flags \subseteq ProbeFlags
  BY ProbeFields
<1>1. /\ q \in ProbeValue /\ q.rows = p.rows + 1
      /\ q.missing = IF gap THEN p.missing + 1 ELSE p.missing
      /\ q.first = IF p.first = Never \/ at < p.first THEN at ELSE p.first
      /\ q.last = IF at > p.last THEN at ELSE p.last
      /\ gap \/ p.flags # {} => q.flags # {}
  <2>. DEFINE flags == p.flags \cup (IF p.last # Never /\ at <= p.last
                                     THEN {"NON_MONOTONIC_BAR_TIME"} ELSE {})
                               \cup (IF gap THEN {"UNADJUDICATED_MINUTE_GAP"} ELSE {})
              missing == IF gap THEN p.missing + 1 ELSE p.missing
              first == IF p.first = Never \/ at < p.first THEN at ELSE p.first
              last == IF at > p.last THEN at ELSE p.last
  <2>1. flags \subseteq ProbeFlags /\ p.flags \subseteq flags /\ (gap => flags # {})
    BY <1>0 DEF ProbeFlags
  <2>2. missing \in Nat /\ first \in Nat /\ last \in Nat /\ p.rows + 1 \in Nat
    BY <1>0
  <2>3. q = [p EXCEPT !.first = first, !.last = last, !.rows = p.rows + 1,
                      !.missing = missing, !.flags = flags]
    BY DEF ObserveBarTime
  <2>. HIDE DEF q, flags, missing, first, last
  <2>4. /\ q \in ProbeValue /\ q.rows = p.rows + 1 /\ q.missing = missing
        /\ q.first = first /\ q.last = last /\ q.flags = flags
    BY <2>1, <2>2, <2>3 DEF ProbeValue
  <2>. QED  BY <2>1, <2>4 DEF missing, first, last
<1>. SUFFICES BarsCounted(q, bars \cup {at})
  BY <1>1
<1>. HIDE DEF q, gap
<1>2. bars \in SUBSET Nat /\ at \notin bars /\ IsFiniteSet(bars) /\ (\A t \in bars : t < at /\ t > 0)
  <2>1. IsFiniteSet(1..(at - 1))
    BY FS_Interval
  <2>2. IsFiniteSet(bars)
    BY <2>1, FS_Subset
  <2>. QED  BY <2>2
<1>3. q.rows = Cardinality(bars \cup {at})
  BY <1>1, <1>2, FS_AddElement DEF BarsCounted
<1>4. CASE bars = {}
  <2>1. p.first = Never /\ p.last = Never
    BY <1>4 DEF BarsCounted
  <2>2. q.first = at /\ q.last = at /\ q.missing = p.missing
    BY <1>0, <1>1, <2>1 DEF Never, gap
  <2>3. Holes(bars \cup {at}, at) = {} /\ Holes(bars, p.last) = {}
    BY <1>4 DEF Holes
  <2>4. q.missing = Cardinality(Holes(bars \cup {at}, q.last))
    BY <2>2, <2>3 DEF BarsCounted
  <2>5. q.missing # 0 => q.flags # {}
    <3>1. p.missing # 0 => p.flags # {}
      BY DEF BarsCounted
    <3>. QED  BY <1>1, <2>2, <3>1, Zenon
  <2>a. q.first \in bars \cup {at} /\ q.last \in bars \cup {at}
        /\ \A t \in bars \cup {at} : q.first <= t /\ t <= q.last
    BY <1>4, <2>2
  <2>. QED  BY <1>3, <2>4, <2>5, <2>a, Zenon DEF BarsCounted
<1>5. CASE bars # {}
  <2>1. /\ p.first \in bars /\ p.last \in bars /\ \A t \in bars : p.first <= t /\ t <= p.last
    BY <1>5 DEF BarsCounted
  <2>2. /\ p.first \in Nat \ {0} /\ p.last \in Nat \ {0} /\ p.first < at /\ p.last < at
    <3>1. \A t \in bars : t \in Nat \ {0} /\ t < at
      BY <1>2
    <3>. QED  BY <2>1, <3>1, Zenon
  <2>3. q.first = p.first /\ q.last = at /\ gap = (at > p.last + 1)
    BY <1>1, <2>2 DEF Never, gap
  <2>4. Holes(bars \cup {at}, at) = IF gap THEN Holes(bars, p.last) \cup {p.last}
                                    ELSE Holes(bars, p.last)
    BY <1>2, <2>1, <2>2, <2>3, HolesWithBar
  <2>5. IsFiniteSet(Holes(bars, p.last)) /\ p.last \notin Holes(bars, p.last)
    <3>1. Holes(bars, p.last) \in SUBSET bars /\ p.last \notin Holes(bars, p.last)
      BY DEF Holes
    <3>. QED  BY <1>2, <3>1, FS_Subset
  <2>6. q.missing = Cardinality(Holes(bars \cup {at}, q.last))
    <3>. DEFINE holes == Holes(bars, p.last)
    <3>1. p.missing = Cardinality(holes)
      BY DEF BarsCounted
    <3>2. IsFiniteSet(holes) /\ p.last \notin holes
      BY <2>5
    <3>3. Holes(bars \cup {at}, q.last) = IF gap THEN holes \cup {p.last} ELSE holes
      BY <2>3, <2>4
    <3>. HIDE DEF holes
    <3>4. Cardinality(holes \cup {p.last}) = Cardinality(holes) + 1
      BY <3>2, FS_AddElement
    <3>. QED  BY <1>1, <3>1, <3>3, <3>4
  <2>7. q.missing # 0 => q.flags # {}
    <3>1. p.missing # 0 => p.flags # {}
      BY DEF BarsCounted
    <3>2. ~ gap => q.missing = p.missing
      BY <1>1
    <3>. QED  BY <1>1, <3>1, <3>2, Zenon
  <2>8. \A t \in bars \cup {at} : q.first <= t /\ t <= q.last
    BY <1>2, <2>1, <2>2, <2>3
  <2>9. q.first \in bars \cup {at} /\ q.last \in bars \cup {at}
    BY <2>1, <2>3
  <2>. QED  BY <1>3, <2>6, <2>7, <2>8, <2>9, Zenon DEF BarsCounted
<1>. QED  BY <1>4, <1>5

(* A probe that differs in other fields or has more flags counts the same  *)
(* bars.                                                                   *)
LEMMA SameBars ==
    ASSUME NEW p, NEW q, NEW bars, BarsCounted(p, bars),
           q.rows = p.rows, q.first = p.first, q.last = p.last, q.missing = p.missing,
           p.flags \subseteq q.flags
    PROVE  BarsCounted(q, bars)
<1>1. p.missing # 0 => p.flags # {}
  BY DEF BarsCounted
<1>2. q.missing # 0 => q.flags # {}
  BY <1>1
<1>. QED  BY <1>2 DEF BarsCounted

(* A value of the same events has them in the same order.                  *)
LEMMA SameEvents ==
    ASSUME NEW p, NEW q, EventsInOrder(p), q.events = p.events
    PROVE  EventsInOrder(q)
  BY DEF EventsInOrder

(* The contract mapped now is one of those mapped so far.                  *)
LEMMA MappedNow == ClockRight => Range(mapped) \subseteq MappedSoFar
<1>. SUFFICES ASSUME ClockRight, NEW c \in Range(mapped) PROVE c \in MappedSoFar
  OBVIOUS
<1>1. mapped # <<>>
  BY DEF Range
<1>2. time > 0 /\ time \in Nat /\ mappedAt[time] = mapped
  BY <1>1 DEF ClockRight
<1>. QED  BY <1>2 DEF MappedSoFar

(* _observe_mapping: a first mapping starts the roll history, now.         *)
LEMMA MappingIsObserved ==
    ASSUME ClockRight, time > 0, NEW p, NEW bars, ProbeRight(p, bars), bars \subseteq 1..(time - 1)
    PROVE  ProbeRight(ObserveMapping(p, mapped, time), bars)
<1>. DEFINE q == ObserveMapping(p, mapped, time)
            contracts_ == p.contracts \cup Range(mapped)
            seen == [p EXCEPT !.contracts = contracts_]
            o == Observed(None, mapped[1], time)
<1>0. /\ p \in ProbeValue /\ p.contracts \subseteq MappedSoFar /\ BarsCounted(p, bars)
      /\ (bars = {}) = (p.sessions = {}) /\ BarsPlaced(p, bars) /\ EventsInOrder(p)
      /\ IsFiniteSet(p.openInterest) /\ p.nonNull \subseteq p.openInterest
  BY DEF ProbeRight
<1>1. time \in Nat /\ contracts_ \subseteq MappedSoFar /\ contracts_ \subseteq Contracts
  <2>1. Range(mapped) \subseteq Contracts /\ time \in Nat
    BY DEF ClockRight, Range
  <2>. QED  BY <1>0, <2>1, MappedNow, ProbeFields
<1>. HIDE DEF contracts_
<1>2. /\ seen \in ProbeValue /\ seen.contracts = contracts_
      /\ seen.rolls = p.rolls /\ seen.rollStates = p.rollStates
      /\ seen.rows = p.rows /\ seen.first = p.first /\ seen.last = p.last
      /\ seen.missing = p.missing /\ seen.flags = p.flags /\ seen.events = p.events
      /\ seen.sessions = p.sessions /\ seen.openInterest = p.openInterest
      /\ seen.nonNull = p.nonNull
  BY <1>0, <1>1 DEF ProbeValue
<1>. HIDE DEF seen
<1>3. BarsCounted(seen, bars) /\ EventsInOrder(seen)
  BY <1>0, <1>2, SameBars, SameEvents
<1>4. CASE q = seen
  <2>1. BarsPlaced(seen, bars)
    BY <1>0, <1>2 DEF BarsPlaced, Initialized
  <2>. HIDE DEF q
  <2>2. ProbeRight(seen, bars)
    BY <1>0, <1>1, <1>2, <1>3, <2>1 DEF ProbeRight
  <2>. QED  BY <1>4, <2>2 DEF q
<1>5. CASE mapped # <<>> /\ q = [seen EXCEPT !.rolls = <<o>>, !.rollStates = @ \cup {"NORMAL"}]
  <2>1. o \in Observation /\ o.observed = time
    BY <1>1, <1>5, OneMapped DEF Observed, Observation
  <2>. HIDE DEF q, o
  <2>2. <<o>> \in Seq(Observation) /\ <<o>>[1] = o
    BY <2>1
  <2>3. p.rollStates \cup {"NORMAL"} \subseteq RollStates
    BY <1>0, ProbeFields DEF RollStates
  <2>4. /\ q \in ProbeValue /\ q.rolls = <<o>> /\ q.contracts = contracts_
        /\ q.rows = p.rows /\ q.first = p.first /\ q.last = p.last
        /\ q.missing = p.missing /\ q.flags = p.flags /\ q.events = p.events
        /\ q.sessions = p.sessions /\ q.openInterest = p.openInterest
        /\ q.nonNull = p.nonNull
    BY <1>2, <1>5, <2>2, <2>3 DEF ProbeValue
  <2>5. BarsCounted(q, bars) /\ EventsInOrder(q)
    BY <1>0, <2>4, SameBars, SameEvents
  <2>6. BarsPlaced(q, bars)
    <3>1. \A t \in bars : ~ (t >= q.rolls[1].observed)
      BY <1>1, <2>1, <2>2, <2>4
    <3>. QED  BY <3>1 DEF BarsPlaced
  <2>7. ProbeRight(q, bars)
    BY <1>0, <1>1, <2>4, <2>5, <2>6 DEF ProbeRight
  <2>. QED  BY <2>7 DEF q
<1>6. \/ q = seen
      \/ mapped # <<>> /\ q = [seen EXCEPT !.rolls = <<o>>, !.rollStates = @ \cup {"NORMAL"}]
  BY DEF ObserveMapping, seen, contracts_
<1>. QED  BY <1>4, <1>5, <1>6

(* The bar of a slice whose session is known, after its mapping.           *)
BarPlaced(p, at) ==
    [ObserveBarTime(p, at) EXCEPT
        !.sessions = @ \cup {DateOf(at)},
        !.rollStates = IF Initialized(p) THEN @ \cup {RollState(p.rolls, at)} ELSE @]

(* The date of a time is a number.                                         *)
LEMMA DateIsInt == \A at \in Nat : DateOf(at) \in Int
  BY ProbeAssumption DEF DateOf

(* The bar, its session and its roll state are counted together.           *)
LEMMA BarIsPlaced ==
    ASSUME time \in Nat \ {0}, NEW p, NEW bars, ProbeRight(p, bars), bars \subseteq 1..(time - 1)
    PROVE  ProbeRight(BarPlaced(p, time), bars \cup {time})
<1>. DEFINE counted == ObserveBarTime(p, time)
            q == BarPlaced(p, time)
<1>0. /\ p \in ProbeValue /\ p.contracts \subseteq MappedSoFar /\ BarsCounted(p, bars)
      /\ BarsPlaced(p, bars) /\ EventsInOrder(p)
      /\ IsFiniteSet(p.openInterest) /\ p.nonNull \subseteq p.openInterest
  BY DEF ProbeRight
<1>1. counted \in ProbeValue /\ BarsCounted(counted, bars \cup {time})
  BY <1>0, BarIsCounted
<1>2. /\ counted.contracts = p.contracts /\ counted.rolls = p.rolls
      /\ counted.rollStates = p.rollStates /\ counted.events = p.events
      /\ counted.openInterest = p.openInterest /\ counted.nonNull = p.nonNull
  BY <1>0 DEF ObserveBarTime, ProbeValue
<1>. DEFINE dates == counted.sessions \cup {DateOf(time)}
            states == IF Initialized(p) THEN counted.rollStates \cup {RollState(p.rolls, time)}
                      ELSE counted.rollStates
<1>3. q = [counted EXCEPT !.sessions = dates, !.rollStates = states]
  BY DEF BarPlaced
<1>. HIDE DEF counted
<1>4. dates \subseteq Int /\ dates # {}
  BY <1>1, ProbeFields, DateIsInt
<1>5. states \subseteq RollStates /\ p.rollStates \subseteq states
      /\ (Initialized(p) => RollState(p.rolls, time) \in states)
  BY <1>1, <1>2, ProbeFields, RollStateType
<1>. HIDE DEF q, dates, states
<1>6. /\ q \in ProbeValue /\ q.contracts = p.contracts /\ q.rolls = p.rolls
      /\ q.events = p.events /\ q.openInterest = p.openInterest /\ q.nonNull = p.nonNull
      /\ q.sessions = dates /\ q.rollStates = states
      /\ q.rows = counted.rows /\ q.first = counted.first /\ q.last = counted.last
      /\ q.missing = counted.missing /\ q.flags = counted.flags
  BY <1>1, <1>2, <1>3, <1>4, <1>5 DEF ProbeValue
<1>7. BarsCounted(q, bars \cup {time}) /\ EventsInOrder(q)
  BY <1>0, <1>1, <1>6, SameBars, SameEvents
<1>8. BarsPlaced(q, bars \cup {time})
  BY <1>0, <1>5, <1>6 DEF BarsPlaced, Initialized
<1>9. (bars \cup {time} = {}) = (q.sessions = {})
  BY <1>4, <1>6
<1>10. ProbeRight(q, bars \cup {time})
  BY <1>0, <1>6, <1>7, <1>8, <1>9 DEF ProbeRight
<1>. QED  BY <1>10 DEF q

(* The contracts of a chain with an open interest are among those it       *)
(* lists, and there are finitely many.                                     *)
LEMMA ChainKeeps ==
    ASSUME time \in Nat, NEW p, NEW bars, ProbeRight(p, bars), NEW chain \in Chains, NEW bad
    PROVE  ProbeRight(ObserveChain(p, chain, time, bad), bars)
<1>. DEFINE listed == IF chain = <<>> THEN <<>> ELSE chain[1]
            key == [i \in DOMAIN listed |-> <<listed[i].contract, DateOf(time)>>]
            begun == {i \in DOMAIN listed : bad \in DOMAIN listed => i <= bad}
            done == begun \ {bad}
            keys == {key[i] : i \in begun}
            opens == {key[i] : i \in {i \in done : listed[i].open}}
            ends == {listed[i].contract : i \in done}
            q == ObserveChain(p, chain, time, bad)
<1>0. /\ p \in ProbeValue /\ p.contracts \subseteq MappedSoFar /\ BarsCounted(p, bars)
      /\ (bars = {}) = (p.sessions = {}) /\ BarsPlaced(p, bars) /\ EventsInOrder(p)
      /\ IsFiniteSet(p.openInterest) /\ p.nonNull \subseteq p.openInterest
  BY DEF ProbeRight
<1>1. listed \in Seq([contract : Contracts, open : BOOLEAN]) /\ Len(chain) \in Nat
  <2>1. chain \in Seq(Seq([contract : Contracts, open : BOOLEAN]))
    BY HostAssumption
  <2>2. CASE chain = <<>>
    BY <2>1, <2>2
  <2>3. CASE chain # <<>>
    <3>1. 1 \in DOMAIN chain
      BY <2>1, <2>3
    <3>. QED  BY <2>1, <2>3, <3>1
  <2>. QED  BY <2>2, <2>3
<1>2. q = [p EXCEPT !.chains = @ + Len(chain), !.openInterest = @ \cup keys,
                    !.nonNull = @ \cup opens, !.expiries = @ \cup ends,
                    !.raised = bad \in DOMAIN listed]
  <2>1. keys = {<<listed[i].contract, DateOf(time)>> : i \in begun}
    OBVIOUS
  <2>2. opens = {<<listed[i].contract, DateOf(time)>> : i \in {i \in done : listed[i].open}}
    OBVIOUS
  <2>. HIDE DEF keys, opens
  <2>. QED  BY <2>1, <2>2 DEF ObserveChain
<1>3. \A i \in DOMAIN listed : key[i] \in Contracts \X Int /\ listed[i].contract \in Contracts
  <2>1. DateOf(time) \in Int
    BY DateIsInt
  <2>. HIDE DEF listed
  <2>2. ASSUME NEW i \in DOMAIN listed PROVE listed[i].contract \in Contracts
    <3>1. listed[i] \in [contract : Contracts, open : BOOLEAN]
      <4>. DEFINE entry == [contract : Contracts, open : BOOLEAN]
      <4>1. listed \in Seq(entry)
        BY <1>1
      <4>. HIDE DEF entry
      <4>2. listed[i] \in entry
        BY <4>1
      <4>. QED  BY <4>2 DEF entry
    <3>. QED  BY <3>1
  <2>. QED  BY <2>1, <2>2
<1>4. IsFiniteSet(DOMAIN listed)
  <2>1. Len(listed) \in Nat /\ DOMAIN listed = 1..Len(listed)
    BY <1>1, LenProperties
  <2>. QED  BY <2>1, FS_Interval
<1>. HIDE DEF listed, key
<1>5. begun \subseteq DOMAIN listed /\ opens \subseteq keys
  OBVIOUS
<1>6. IsFiniteSet(keys)
  <2>1. IsFiniteSet(begun)
    BY <1>4, <1>5, FS_Subset
  <2>. DEFINE f == [i \in begun |-> key[i]]
  <2>2. f \in Surjection(begun, keys)
    BY DEF Surjection
  <2>. HIDE DEF f, begun, keys
  <2>. QED  BY <2>1, <2>2, FS_Surjection
<1>7. keys \subseteq Contracts \X Int /\ ends \subseteq Contracts
  BY <1>3, <1>5
<1>. DEFINE raise == bad \in DOMAIN listed
            total == p.chains + Len(chain)
            all == p.openInterest \cup keys
            known == p.nonNull \cup opens
            expiring == p.expiries \cup ends
<1>a. /\ raise \in BOOLEAN /\ total \in Nat /\ all \subseteq Contracts \X Int
      /\ known \subseteq Contracts \X Int /\ expiring \subseteq Contracts
  BY <1>0, <1>1, <1>5, <1>7, ProbeFields
<1>b. q = [p EXCEPT !.chains = total, !.openInterest = all, !.nonNull = known,
                    !.expiries = expiring, !.raised = raise]
  BY <1>2
<1>c. IsFiniteSet(all) /\ known \subseteq all
  <2>. HIDE DEF keys, opens
  <2>. QED  BY <1>0, <1>5, <1>6, FS_Union
<1>. HIDE DEF q, raise, total, all, known, expiring
<1>8. /\ q \in ProbeValue /\ q.contracts = p.contracts /\ q.rolls = p.rolls
      /\ q.rollStates = p.rollStates /\ q.events = p.events /\ q.sessions = p.sessions
      /\ q.openInterest = all /\ q.nonNull = known
      /\ q.rows = p.rows /\ q.first = p.first /\ q.last = p.last
      /\ q.missing = p.missing /\ q.flags = p.flags
  BY <1>0, <1>a, <1>b DEF ProbeValue
<1>9. IsFiniteSet(q.openInterest) /\ q.nonNull \subseteq q.openInterest
  BY <1>c, <1>8
<1>10. BarsCounted(q, bars) /\ EventsInOrder(q)
  BY <1>0, <1>8, SameBars, SameEvents
<1>11. BarsPlaced(q, bars)
  BY <1>0, <1>8 DEF BarsPlaced, Initialized
<1>12. ProbeRight(q, bars)
  BY <1>0, <1>8, <1>9, <1>10, <1>11 DEF ProbeRight
<1>. QED  BY <1>12 DEF q

(* _observe_mapping_event, when it is accepted: the roll states of earlier *)
(* times stay, that of a bar of this time becomes the one after the event. *)
LEMMA EventKeeps ==
    ASSUME time \in Nat \ {0}, NEW p, NEW bars, ProbeRight(p, bars), bars \subseteq 1..time,
           NEW old \in Contracts, NEW new \in Contracts, {old, new} \subseteq MappedSoFar,
           ~ ObserveEvent(p, old, new, time).raised
    PROVE  ProbeRight(ObserveEvent(p, old, new, time), bars)
<1>. DEFINE o == Observed(old, new, time)
            q == ObserveEvent(p, old, new, time)
            named == [p EXCEPT !.contracts = @ \cup ({old} \ {None})]
            listed == p.contracts \cup ({old} \ {None}) \cup {new}
            rolls == Append(p.rolls, o)
            events == Append(p.events, time)
            states == p.rollStates \cup {RollState(rolls, time)}
            flags == p.flags \cup (IF time < p.last
                                   THEN {"MAPPING_EVENT_PRECEDES_LAST_OBSERVED_BAR"} ELSE {})
<1>0. /\ p \in ProbeValue /\ p.contracts \subseteq MappedSoFar /\ BarsCounted(p, bars)
      /\ (bars = {}) = (p.sessions = {}) /\ BarsPlaced(p, bars) /\ EventsInOrder(p)
      /\ IsFiniteSet(p.openInterest) /\ p.nonNull \subseteq p.openInterest
  BY DEF ProbeRight
<1>1. /\ p.contracts \subseteq Contracts /\ p.rolls \in Seq(Observation)
      /\ p.rollStates \subseteq RollStates /\ p.events \in Seq(Nat)
      /\ p.flags \subseteq ProbeFlags
  BY <1>0, ProbeFields
<1>2. Initialized(p) /\ q = [named EXCEPT !.contracts = @ \cup {new}, !.rolls = rolls,
                                          !.events = Append(@, time),
                                          !.rollStates = @ \cup {RollState(rolls, time)},
                                          !.flags = @ \cup IF time < p.last
                                            THEN {"MAPPING_EVENT_PRECEDES_LAST_OBSERVED_BAR"}
                                            ELSE {}]
  <2>1. [named EXCEPT !.raised = TRUE].raised = TRUE
    BY <1>0 DEF ProbeValue
  <2>2. q # [named EXCEPT !.raised = TRUE]
    BY <2>1
  <2>. QED  BY <2>2 DEF ObserveEvent
<1>3. q = [p EXCEPT !.contracts = listed, !.rolls = rolls, !.events = events,
                    !.rollStates = states, !.flags = flags]
  <2>1. /\ named.contracts = p.contracts \cup ({old} \ {None}) /\ named.events = p.events
        /\ named.rollStates = p.rollStates /\ named.flags = p.flags
    BY <1>0 DEF ProbeValue
  <2>. HIDE DEF q, rolls, named
  <2>2. q = [named EXCEPT !.contracts = listed, !.rolls = rolls, !.events = events,
                          !.rollStates = states, !.flags = flags]
    BY <1>2, <2>1
  <2>. HIDE DEF listed, events, states, flags
  <2>. QED  BY <1>0, <2>2 DEF named, ProbeValue
<1>4. o \in Observation /\ VisibleAt(o) = time
  BY DEF Observed, Observation, VisibleAt
<1>. HIDE DEF o, q
<1>5. /\ rolls \in Seq(Observation) /\ rolls # <<>> /\ rolls[1] = p.rolls[1]
  <2>1. Len(p.rolls) \in Nat \ {0}
    BY <1>1, <1>2 DEF Initialized
  <2>. QED  BY <1>1, <1>4, <2>1
<1>6. events \in Seq(Nat) /\ Len(events) = Len(p.events) + 1 /\ DOMAIN p.events = 1..Len(p.events)
      /\ DOMAIN events = 1..(Len(p.events) + 1) /\ Len(p.events) \in Nat
      /\ (\A i \in DOMAIN p.events : events[i] = p.events[i]) /\ events[Len(p.events) + 1] = time
  BY <1>1
<1>7. listed \subseteq Contracts /\ listed \subseteq MappedSoFar
  BY <1>0, <1>1
<1>8. /\ states \subseteq RollStates /\ p.rollStates \subseteq states
      /\ RollState(rolls, time) \in states
  BY <1>1, RollStateType
<1>9. flags \subseteq ProbeFlags /\ p.flags \subseteq flags
  BY <1>1 DEF ProbeFlags
<1>10. ASSUME NEW t \in Nat, t < time PROVE RollState(rolls, t) = RollState(p.rolls, t)
  <2>1. VisibleAt(o) > t
    BY <1>4, <1>10
  <2>. QED  BY <1>1, <1>4, <2>1, LaterObservation
<1>. HIDE DEF listed, rolls, events, states, flags
<1>11. /\ q \in ProbeValue /\ q.contracts = listed /\ q.rolls = rolls
       /\ q.rollStates = states /\ q.events = events /\ q.sessions = p.sessions
       /\ q.openInterest = p.openInterest /\ q.nonNull = p.nonNull
       /\ q.rows = p.rows /\ q.first = p.first /\ q.last = p.last
       /\ q.missing = p.missing /\ q.flags = flags
  BY <1>0, <1>3, <1>5, <1>6, <1>7, <1>8, <1>9 DEF ProbeValue
<1>12. BarsCounted(q, bars)
  BY <1>0, <1>9, <1>11, SameBars
<1>13. BarsPlaced(q, bars)
  <2>. SUFFICES ASSUME NEW t \in bars, t >= q.rolls[1].observed
                PROVE  RollState(q.rolls, t) \in q.rollStates
    BY DEF BarsPlaced
  <2>1. t \in Nat /\ t <= time /\ t >= p.rolls[1].observed
    BY <1>5, <1>11
  <2>2. CASE t = time
    BY <1>8, <1>11, <2>2
  <2>3. CASE t < time
    <3>1. RollState(rolls, t) = RollState(p.rolls, t)
      BY <1>10, <2>1, <2>3
    <3>2. RollState(p.rolls, t) \in p.rollStates
      BY <1>0, <1>2, <2>1 DEF BarsPlaced
    <3>. QED  BY <1>8, <1>11, <3>1, <3>2
  <2>. QED  BY <2>1, <2>2, <2>3
<1>14. EventsInOrder(q)
  <2>1. \A i \in DOMAIN p.events : p.events[i] \in 1..time /\ p.events[1] <= p.events[i]
    BY <1>0 DEF EventsInOrder
  <2>2. ASSUME NEW i \in DOMAIN events
        PROVE  /\ events[i] \in 1..time
               /\ events[1] <= events[i] /\ events[i] <= events[Len(events)]
    <3>1. CASE i \in DOMAIN p.events
      <4>1. 1 \in DOMAIN p.events /\ events[1] = p.events[1] /\ events[i] = p.events[i]
        BY <1>6, <3>1
      <4>. QED  BY <1>6, <2>1, <3>1, <4>1
    <3>2. CASE i = Len(p.events) + 1
      <4>1. events[i] = time /\ (Len(p.events) = 0 => i = 1)
        BY <1>6, <3>2
      <4>2. Len(p.events) > 0 => events[1] \in 1..time
        <5>1. Len(p.events) > 0 => 1 \in DOMAIN p.events
          BY <1>6
        <5>. QED  BY <1>6, <2>1, <5>1
      <4>. QED  BY <1>6, <3>2, <4>1, <4>2
    <3>. QED  BY <1>6, <3>1, <3>2
  <2>. QED  BY <1>11, <2>2 DEF EventsInOrder
<1>15. ProbeRight(q, bars)
  BY <1>0, <1>7, <1>11, <1>12, <1>13, <1>14 DEF ProbeRight
<1>. QED  BY <1>15 DEF q

(* The times up to n, without n and with the next one.                     *)
LEMMA TimesUpTo ==
    ASSUME NEW n \in Nat
    PROVE  /\ \A t \in 1..n : t # n => t \in 1..(n - 1)
           /\ n + 1 > 0 /\ n + 1 \notin 1..n /\ 1..n \subseteq 1..(n + 1)
           /\ n > 0 => n # 0 /\ n \in 1..n
           /\ n = 0 => 1..n = {}
  OBVIOUS

(* A sequence that is not empty has a first element. *)
LEMMA FirstElement ==
    ASSUME NEW S, NEW s \in Seq(S), s # <<>>
    PROVE  1 \in DOMAIN s /\ s[1] \in S
  OBVIOUS

(* A sequence of one element. *)
LEMMA OneElement ==
    ASSUME NEW S, NEW x \in S
    PROVE  /\ <<x>> \in Seq(S) /\ <<x>> # <<>> /\ <<x>>[1] = x /\ 1 \in DOMAIN <<x>>
           /\ x \in Range(<<x>>)
  BY DEF Range

(* The empty sequence has elements of any set. *)
LEMMA NoElement == \A S : <<>> \in Seq(S)
  OBVIOUS

(* The contracts mapped so far stay so when the clock moves.               *)
LEMMA MappedGrows ==
    ASSUME ClockRight, NEW mapping \in {<<>>} \cup {<<c>> : c \in Contracts}, NextTime(mapping)
    PROVE  MappedSoFar \subseteq MappedSoFar' /\ Range(mapping) \subseteq MappedSoFar'
<1>1. /\ time' = time + 1 /\ mappedAt' = Append(mappedAt, mapping)
      /\ time \in Nat /\ mappedAt \in Seq(Seq(Contracts)) /\ Len(mappedAt) = time
  BY DEF NextTime, ClockRight
<1>2. mapping \in Seq(Contracts)
  <2>1. CASE mapping = <<>>
    BY <2>1
  <2>2. ASSUME NEW c \in Contracts, mapping = <<c>>
        PROVE  mapping \in Seq(Contracts)
    BY <2>2
  <2>. QED  BY <2>1, <2>2
<1>3. /\ \A t \in 1..time : t \in 1..time' /\ mappedAt'[t] = mappedAt[t]
      /\ time' \in 1..time' /\ mappedAt'[time'] = mapping
  BY <1>1, <1>2, AppendProperties
<1>. QED  BY <1>3 DEF MappedSoFar

(* What the probe has counted stays right as the mapped contracts grow.    *)
LEMMA ProbeRightLater ==
    ASSUME NEW p, NEW bars, ProbeRight(p, bars), time \in Nat, time' = time \/ time' = time + 1,
           MappedSoFar \subseteq MappedSoFar'
    PROVE  /\ p \in ProbeValue
           /\ p.contracts \subseteq MappedSoFar'
           /\ BarsCounted(p, bars)
           /\ (bars = {}) = (p.sessions = {})
           /\ BarsPlaced(p, bars)
           /\ \A i \in DOMAIN p.events :
                 /\ p.events[i] \in 1..time'
                 /\ p.events[1] <= p.events[i] /\ p.events[i] <= p.events[Len(p.events)]
           /\ IsFiniteSet(p.openInterest) /\ p.nonNull \subseteq p.openInterest
<1>1. \A t \in 1..time : t \in 1..time'
  OBVIOUS
<1>. QED  BY <1>1 DEF ProbeRight, EventsInOrder

(* The clock, while the probe listens.                                     *)
LEMMA ProbeTimeKeeps ==
    ASSUME ClockRight, ProbeInv, deployed = "futures probe", ~ probe.raised,
           NEW mapping \in {<<>>} \cup {<<c>> : c \in Contracts}, ProbeTime(mapping),
           UNCHANGED deployed
    PROVE  ProbeInv'
<1>1. /\ NextTime(mapping) /\ time' = time + 1 /\ time \in Nat /\ sliced' = FALSE
      /\ UNCHANGED <<probe, barTimes>> /\ (mapping = <<>> => mapped = <<>>)
      /\ changes' = IF mapped # <<>> /\ mapping # mapped
                    THEN <<[old |-> mapped[1], new |-> mapping[1]]>> ELSE <<>>
  BY DEF ProbeTime, NextTime, ClockRight
<1>2. ProbeRight(probe, barTimes) /\ barTimes \subseteq 1..time
  BY DEF ProbeInv
<1>3. MappedSoFar \subseteq MappedSoFar' /\ Range(mapping) \subseteq MappedSoFar'
  BY <1>1, MappedGrows
<1>4. ProbeRight(probe, barTimes)'
  <2>1. /\ probe \in ProbeValue
        /\ probe.contracts \subseteq MappedSoFar'
        /\ BarsCounted(probe, barTimes)
        /\ (barTimes = {}) = (probe.sessions = {})
        /\ BarsPlaced(probe, barTimes)
        /\ \A i \in DOMAIN probe.events :
              /\ probe.events[i] \in 1..time'
              /\ probe.events[1] <= probe.events[i]
              /\ probe.events[i] <= probe.events[Len(probe.events)]
        /\ IsFiniteSet(probe.openInterest) /\ probe.nonNull \subseteq probe.openInterest
    BY <1>1, <1>2, <1>3, ProbeRightLater
  <2>2. probe' = probe /\ barTimes' = barTimes
    BY <1>1
  <2>. QED  BY <2>1, <2>2 DEF ProbeRight, BarsCounted, BarsPlaced, EventsInOrder
<1>5. EventDue'
  <2>1. CASE changes' = <<>>
    <3>1. changes' \in Seq([old : Contracts, new : Contracts])
      BY <2>1, NoElement
    <3>. QED  BY <2>1, <3>1 DEF EventDue
  <2>2. CASE changes' # <<>>
    <3>1. /\ mapped # <<>> /\ mapping # <<>>
          /\ changes' = <<[old |-> mapped[1], new |-> mapping[1]]>>
      BY <1>1, <2>2
    <3>2. PICK c \in Contracts : mapping = <<c>>
      BY <3>1
    <3>3. mapping[1] \in Contracts /\ mapping[1] \in Range(mapping)
      BY <3>2, OneElement
    <3>4. mapped[1] \in Contracts /\ mapped[1] \in Range(mapped)
      <4>1. mapped = <<mapped[1]>> /\ mapped[1] \in Contracts
        BY <3>1, OneMapped
      <4>. QED  BY <4>1, OneElement
    <3>5. {mapped[1], mapping[1]} \subseteq MappedSoFar'
      BY <1>3, <3>3, <3>4, MappedNow
    <3>. DEFINE change == [old |-> mapped[1], new |-> mapping[1]]
    <3>6. change \in [old : Contracts, new : Contracts]
      BY <3>3, <3>4
    <3>7. changes'[1].old = mapped[1] /\ changes'[1].new = mapping[1]
      BY <3>1
    <3>8. changes' = <<change>>
      BY <3>1
    <3>. HIDE DEF change
    <3>9. changes' \in Seq([old : Contracts, new : Contracts])
      BY <3>6, <3>8, OneElement, Zenon
    <3>. QED  BY <3>5, <3>7, <3>9 DEF EventDue
  <2>. QED  BY <2>1, <2>2
<1>6. barTimes' \subseteq 1..time' /\ time' > 0 /\ time' \notin barTimes'
  <2>1. barTimes' = barTimes
    BY <1>1
  <2>2. time \in Nat /\ time' = time + 1
    BY <1>1
  <2>3. time' > 0 /\ time' \notin 1..time /\ 1..time \subseteq 1..time'
    BY <2>2, TimesUpTo
  <2>. QED  BY <1>2, <2>1, <2>3
<1>. QED  BY <1>1, <1>4, <1>5, <1>6 DEF ProbeInv

(* What the probe becomes in a step of this time is right.                 *)
LEMMA BecomesRight ==
    ASSUME UNCHANGED <<time, mappedAt>>, NEW p, NEW bars, ProbeRight(p, bars),
           probe' = p, barTimes' = bars
    PROVE  ProbeRight(probe, barTimes)'
<1>1. MappedSoFar' = MappedSoFar
  BY DEF MappedSoFar
<1>2. /\ p \in ProbeValue /\ p.contracts \subseteq MappedSoFar'
      /\ BarsCounted(p, bars) /\ (bars = {}) = (p.sessions = {})
      /\ BarsPlaced(p, bars)
      /\ \A i \in DOMAIN p.events :
            /\ p.events[i] \in 1..time'
            /\ p.events[1] <= p.events[i] /\ p.events[i] <= p.events[Len(p.events)]
      /\ IsFiniteSet(p.openInterest) /\ p.nonNull \subseteq p.openInterest
  BY <1>1 DEF ProbeRight, EventsInOrder
<1>. QED  BY <1>2 DEF ProbeRight, BarsCounted, BarsPlaced, EventsInOrder

(* A slice, when no part of it raises.                                     *)
LEMMA ProbeSliceKeeps ==
    ASSUME ClockRight, ProbeInv, deployed = "futures probe",
           NEW bar \in BOOLEAN, NEW chain \in Chains, NEW covered \in BOOLEAN, NEW bad,
           ProbeSlice(bar, chain, covered, bad), UNCHANGED deployed
    PROVE  ProbeInv'
<1>1. /\ ~ probe.raised /\ ~ sliced /\ sliced' = TRUE
      /\ probe' = ObserveSlice(probe, mapped, bar, chain, time, covered, bad)
      /\ barTimes' = IF bar THEN barTimes \cup {time} ELSE barTimes
      /\ UNCHANGED <<time, mappedAt, changes>>
  BY DEF ProbeSlice
<1>2. /\ ProbeRight(probe, barTimes) /\ EventDue /\ barTimes \subseteq 1..time
      /\ time > 0 /\ time \notin barTimes
  BY <1>1 DEF ProbeInv
<1>3. time \in Nat \ {0} /\ barTimes \subseteq 1..(time - 1)
  <2>1. time \in Nat
    BY DEF ClockRight
  <2>2. \A t \in 1..time : t # time => t \in 1..(time - 1)
    BY <2>1, TimesUpTo
  <2>3. barTimes \subseteq 1..(time - 1)
    BY <1>2, <2>2
  <2>4. time # 0
    BY <1>2, <2>1, TimesUpTo
  <2>. QED  BY <2>1, <2>3, <2>4
<1>. DEFINE known == ObserveMapping(probe, mapped, time)
            placed == BarPlaced(known, time)
<1>4. ProbeRight(known, barTimes)
  BY <1>2, <1>3, MappingIsObserved
<1>5. ProbeRight(placed, barTimes \cup {time})
  <2>. HIDE DEF known
  <2>. QED  BY <1>3, <1>4, BarIsPlaced
<1>6. probe' = IF bar /\ ~ covered THEN [ObserveBarTime(known, time) EXCEPT !.raised = TRUE]
               ELSE ObserveChain(IF bar THEN placed ELSE known, chain, time, bad)
  BY <1>1 DEF ObserveSlice, BarPlaced
<1>. HIDE DEF known, placed
<1>7. barTimes' \subseteq 1..time' /\ EventDue' /\ sliced' = TRUE
  <2>1. barTimes' \subseteq 1..time'
    <3>1. time \in 1..time
      BY <1>2, <1>3, TimesUpTo
    <3>. QED  BY <1>1, <1>2, <3>1
  <2>2. MappedSoFar' = MappedSoFar
    BY <1>1 DEF MappedSoFar
  <2>3. EventDue'
    BY <1>1, <1>2, <2>2 DEF EventDue
  <2>. QED  BY <1>1, <2>1, <2>3
<1>8. CASE bar /\ ~ covered
  <2>1. ObserveBarTime(known, time) \in ProbeValue
    <3>1. known \in ProbeValue /\ BarsCounted(known, barTimes)
      BY <1>4 DEF ProbeRight
    <3>. QED  BY <1>3, <3>1, BarIsCounted
  <2>2. probe'.raised = TRUE
    BY <1>6, <1>8, <2>1 DEF ProbeValue
  <2>. QED  BY <2>2 DEF ProbeInv
<1>9. CASE bar /\ covered
  <2>1. ProbeRight(ObserveChain(placed, chain, time, bad), barTimes \cup {time})
    BY <1>3, <1>5, ChainKeeps
  <2>2. /\ probe' = ObserveChain(placed, chain, time, bad)
        /\ barTimes' = barTimes \cup {time} /\ UNCHANGED <<time, mappedAt>>
    BY <1>1, <1>6, <1>9
  <2>3. ProbeRight(probe, barTimes)'
    BY <2>1, <2>2, BecomesRight
  <2>. QED  BY <1>7, <2>3 DEF ProbeInv
<1>10. CASE ~ bar
  <2>1. ProbeRight(ObserveChain(known, chain, time, bad), barTimes)
    BY <1>3, <1>4, ChainKeeps
  <2>2. /\ probe' = ObserveChain(known, chain, time, bad)
        /\ barTimes' = barTimes /\ UNCHANGED <<time, mappedAt>>
    BY <1>1, <1>6, <1>10
  <2>3. ProbeRight(probe, barTimes)'
    BY <2>1, <2>2, BecomesRight
  <2>. QED  BY <1>7, <2>3 DEF ProbeInv
<1>. QED  BY <1>8, <1>9, <1>10

(* The event of a mapping change.                                          *)
LEMMA ProbeEventKeeps ==
    ASSUME ClockRight, ProbeInv, deployed = "futures probe", ProbeEvent, UNCHANGED deployed
    PROVE  ProbeInv'
<1>1. /\ ~ probe.raised /\ changes # <<>> /\ changes' = <<>>
      /\ probe' = ObserveEvent(probe, changes[1].old, changes[1].new, time)
      /\ UNCHANGED <<time, mappedAt, sliced, barTimes>>
  BY DEF ProbeEvent, vars
<1>2. /\ ProbeRight(probe, barTimes) /\ EventDue /\ barTimes \subseteq 1..time
      /\ ~ sliced => time > 0 /\ time \notin barTimes
  BY <1>1 DEF ProbeInv
<1>. DEFINE old == changes[1].old
            new == changes[1].new
<1>3. old \in Contracts /\ new \in Contracts /\ {old, new} \subseteq MappedSoFar
  <2>1. changes \in Seq([old : Contracts, new : Contracts])
    BY <1>2 DEF EventDue
  <2>2. changes[1] \in [old : Contracts, new : Contracts]
    BY <1>1, <2>1, FirstElement
  <2>. QED  BY <1>1, <1>2, <2>2 DEF EventDue
<1>4. probe' = ObserveEvent(probe, old, new, time)
  BY <1>1
<1>. HIDE DEF old, new
<1>5. time \in Nat \ {0}
  <2>1. time \in Nat
    BY DEF ClockRight
  <2>2. time # 0
    BY <1>3, TimesUpTo DEF MappedSoFar
  <2>. QED  BY <2>1, <2>2
<1>6. CASE ObserveEvent(probe, old, new, time).raised
  BY <1>4, <1>6 DEF ProbeInv
<1>7. CASE ~ ObserveEvent(probe, old, new, time).raised
  <2>1. ProbeRight(ObserveEvent(probe, old, new, time), barTimes)
    BY <1>2, <1>3, <1>5, <1>7, EventKeeps
  <2>2. ProbeRight(probe, barTimes)'
    BY <1>1, <1>4, <2>1, BecomesRight
  <2>3. EventDue'
    <3>1. changes' \in Seq([old : Contracts, new : Contracts])
      BY <1>1, NoElement
    <3>. QED  BY <1>1, <3>1 DEF EventDue
  <2>4. barTimes' \subseteq 1..time' /\ (~ sliced' => time' > 0 /\ time' \notin barTimes')
    BY <1>1, <1>2
  <2>. QED  BY <2>2, <2>3, <2>4 DEF ProbeInv
<1>. QED  BY <1>6, <1>7

(* Whatever is deployed, a step of the host keeps the probe's invariant.   *)
LEMMA ProbeStep == RuntimeInv /\ ProbeInv /\ [HostNext]_hostVars => ProbeInv'
<1>. SUFFICES ASSUME RuntimeInv, ProbeInv, [HostNext]_hostVars PROVE ProbeInv'
  OBVIOUS
<1>0. ClockRight
  BY DEF RuntimeInv
<1>1. CASE deployed # "futures probe" /\ deployed' = deployed
  BY <1>1 DEF ProbeInv
<1>2. CASE UNCHANGED hostVars
  <2>1. UNCHANGED <<deployed, probe, changes, barTimes, time, mappedAt, sliced>>
    BY <1>2 DEF hostVars, vars, probeVars
  <2>. QED  BY <2>1 DEF ProbeInv, ProbeRight, BarsCounted, BarsPlaced, EventsInOrder,
                        EventDue, MappedSoFar
<1>3. CASE deployed = "futures probe" /\ HostNext
  <2>1. /\ deployed' = deployed
        /\ \/ /\ ~ probe.raised
              /\ \E mapping \in {<<>>} \cup {<<c>> : c \in Contracts} : ProbeTime(mapping)
           \/ \E bar \in BOOLEAN, chain \in Chains, covered \in BOOLEAN, bad \in 0..2 :
                 ProbeSlice(bar, chain, covered, bad)
           \/ ProbeEvent
    BY <1>3 DEF HostNext
  <2>2. CASE ~ probe.raised
             /\ \E mapping \in {<<>>} \cup {<<c>> : c \in Contracts} : ProbeTime(mapping)
    BY <1>0, <1>3, <2>1, <2>2, ProbeTimeKeeps
  <2>3. CASE \E bar \in BOOLEAN, chain \in Chains, covered \in BOOLEAN, bad \in 0..2 :
                ProbeSlice(bar, chain, covered, bad)
    BY <1>0, <1>3, <2>1, <2>3, ProbeSliceKeeps
  <2>4. CASE ProbeEvent
    BY <1>0, <1>3, <2>1, <2>4, ProbeEventKeeps
  <2>. QED  BY <2>1, <2>2, <2>3, <2>4
<1>. QED  BY <1>1, <1>2, <1>3 DEF HostNext

(* A registered probe has counted nothing.                                 *)
LEMMA ProbeInitRight == HostInit => ProbeInv
<1>. SUFFICES ASSUME HostInit PROVE ProbeInv
  OBVIOUS
<1>. DEFINE p == Registered(<<>>)
<1>1. /\ probe = p /\ barTimes = {} /\ changes = <<>> /\ sliced = TRUE
  BY DEF HostInit, Init
<1>2. /\ p.contracts = {} /\ p.rolls = <<>> /\ p.rollStates = {} /\ p.first = Never
      /\ p.last = Never /\ p.rows = 0 /\ p.missing = 0 /\ p.events = <<>>
      /\ p.openInterest = {} /\ p.nonNull = {} /\ p.sessions = {} /\ p.flags = {}
  BY DEF Registered, Range
<1>3. p \in ProbeValue
  <2>1. p = [contracts |-> {}, rolls |-> <<>>, rollStates |-> {},
             first |-> Never, last |-> Never, rows |-> 0, missing |-> 0,
             events |-> <<>>, openInterest |-> {}, nonNull |-> {}, expiries |-> {},
             sessions |-> {}, chains |-> 0, flags |-> {}, raised |-> FALSE]
    BY <1>2 DEF Registered
  <2>2. <<>> \in Seq(Observation) /\ <<>> \in Seq(Nat)
    OBVIOUS
  <2>. HIDE DEF p
  <2>. QED  BY <2>1, <2>2 DEF ProbeValue, Never
<1>. HIDE DEF p
<1>4. BarsCounted(p, {})
  <2>1. Holes({}, p.last) = {}
    BY DEF Holes
  <2>. QED  BY <1>2, <2>1, FS_EmptySet DEF BarsCounted
<1>5. BarsPlaced(p, {}) /\ EventsInOrder(p)
  BY <1>2 DEF BarsPlaced, EventsInOrder
<1>6. ProbeRight(p, {})
  BY <1>2, <1>3, <1>4, <1>5, FS_EmptySet DEF ProbeRight
<1>7. EventDue
  <2>1. changes \in Seq([old : Contracts, new : Contracts])
    BY <1>1, NoElement
  <2>. QED  BY <1>1, <2>1 DEF EventDue
<1>. QED  BY <1>1, <1>6, <1>7 DEF ProbeInv

(* What the probe has counted is right in every behaviour of the host.     *)
THEOREM ProbeInvariance == HostSpec => []ProbeInv
  BY ProbeInitRight, ProbeStep, RuntimeInvariance, PTL DEF HostSpec

(* The least and the greatest of a set that has one.                       *)
LEMMA MinMaxAre ==
    ASSUME NEW S \in SUBSET Int, NEW low \in S, NEW high \in S,
           \A t \in S : low <= t /\ t <= high
    PROVE  Min(S) = low /\ Max(S) = high
<1>1. \A x \in S : (\A t \in S : x <= t) => x = low
  OBVIOUS
<1>2. \A x \in S : (\A t \in S : x >= t) => x = high
  OBVIOUS
<1>3. (\A t \in S : low <= t) /\ (\A t \in S : high >= t)
  OBVIOUS
<1>. QED  BY <1>1, <1>2, <1>3 DEF Min, Max

(* What EvidenceReconciles says of the probe p and the bars it was given.  *)
Reconciles(p, bars) ==
    LET e == Evidence(p)
    IN  /\ EvidenceAccepted(e)
        /\ e.rows = Cardinality(bars)
        /\ bars # {} =>
             /\ e.first = Min(bars) /\ e.last = Max(bars)
             /\ e.missing = Cardinality({t \in bars : t # e.last /\ t + 1 \notin bars})
        /\ e.status = "VALID" => e.events > 0 /\ e.missing = 0 /\ e.rows > 0
        /\ e.contracts \subseteq UNION {Range(mappedAt[t]) : t \in 1..time}
        /\ Initialized(p) =>
             {RollState(p.rolls, t) : t \in {t \in bars : t >= p.rolls[1].observed}}
               \subseteq e.rollStates
        /\ (e.rows = 0) = (p.sessions = {})

(* The evidence of a right probe reconciles with what it saw.              *)
LEMMA RightProbeReconciles ==
    ASSUME time \in Nat, NEW p, NEW bars, ProbeRight(p, bars), bars \subseteq 1..time
    PROVE  Reconciles(p, bars)
<1>. DEFINE e == Evidence(p)
<1>2. /\ p \in ProbeValue /\ p.contracts \subseteq MappedSoFar /\ BarsCounted(p, bars)
      /\ (bars = {}) = (p.sessions = {}) /\ BarsPlaced(p, bars) /\ EventsInOrder(p)
      /\ IsFiniteSet(p.openInterest) /\ p.nonNull \subseteq p.openInterest
  BY DEF ProbeRight
<1>3. /\ p.rows = Cardinality(bars)
      /\ bars = {} => p.first = Never /\ p.last = Never
      /\ bars # {} => /\ p.first \in bars /\ p.last \in bars
                          /\ \A t \in bars : p.first <= t /\ t <= p.last
      /\ p.missing = Cardinality(Holes(bars, p.last))
      /\ p.missing # 0 => p.flags # {}
  BY <1>2 DEF BarsCounted
<1>4. /\ p.first \in Nat /\ p.last \in Nat /\ p.rows \in Nat /\ p.missing \in Nat
      /\ p.events \in Seq(Nat)
  BY <1>2, ProbeFields
<1>5. /\ e.rows = p.rows /\ e.first = p.first /\ e.last = p.last /\ e.missing = p.missing
      /\ e.contracts = p.contracts /\ e.events = Len(p.events) /\ e.rollStates = p.rollStates
      /\ e.openInterest = Cardinality(p.openInterest)
      /\ e.nonNull = Cardinality(p.nonNull)
      /\ e.firstEvent = IF p.events = <<>> THEN Never ELSE Min(Range(p.events))
      /\ e.lastEvent = IF p.events = <<>> THEN Never ELSE Max(Range(p.events))
  BY DEF Evidence
<1>6. e.status = "VALID" => p.events # <<>> /\ p.flags = {} /\ p.rows # 0
  <2>. SUFFICES ASSUME e.status = "VALID" PROVE p.events # <<>> /\ p.flags = {} /\ p.rows # 0
    OBVIOUS
  <2>. DEFINE missing == {f \in {"NO_ROWS_RECEIVED", "NO_MAPPED_CONTRACT_OBSERVED",
                                 "NO_MAPPING_EVENT_OBSERVED"} :
                            \/ f = "NO_ROWS_RECEIVED" /\ p.rows = 0
                            \/ f = "NO_MAPPED_CONTRACT_OBSERVED" /\ p.contracts = {}
                            \/ f = "NO_MAPPING_EVENT_OBSERVED" /\ p.events = <<>>}
  <2>1. e.status = IF p.rows = 0 THEN "REJECTED"
                   ELSE IF p.flags \cup missing # {} THEN "PARTIAL" ELSE "VALID"
    BY DEF Evidence
  <2>2. p.events = <<>> => "NO_MAPPING_EVENT_OBSERVED" \in missing
    OBVIOUS
  <2>. HIDE DEF missing, e
  <2>3. p.rows # 0 /\ p.flags \cup missing = {}
    BY <2>1
  <2>. QED  BY <2>2, <2>3
<1>. HIDE DEF e
<1>7. e.first <= e.last
  <2>1. CASE bars = {}
    BY <1>3, <1>5, <2>1 DEF Never
  <2>2. CASE bars # {}
    BY <1>3, <1>5, <2>2
  <2>. QED  BY <2>1, <2>2
<1>8. e.nonNull <= e.openInterest
  BY <1>2, <1>5, FS_Subset
<1>9. IF e.events = 0 THEN e.firstEvent = Never /\ e.lastEvent = Never
      ELSE e.firstEvent # Never /\ e.firstEvent <= e.lastEvent
  <2>1. CASE p.events = <<>>
    BY <1>5, <2>1
  <2>2. CASE p.events # <<>>
    <3>. DEFINE n == Len(p.events)
                times == Range(p.events)
    <3>1. /\ n \in Nat /\ n # 0 /\ 1 \in DOMAIN p.events /\ n \in DOMAIN p.events
      BY <1>4, <2>2
    <3>2. \A i \in DOMAIN p.events : /\ p.events[i] \in Nat /\ p.events[i] # 0
                                     /\ p.events[1] <= p.events[i]
                                     /\ p.events[i] <= p.events[n]
      BY <1>2 DEF EventsInOrder
    <3>3. /\ times \in SUBSET Int /\ p.events[1] \in times /\ p.events[n] \in times
          /\ \A t \in times : p.events[1] <= t /\ t <= p.events[n]
      BY <3>1, <3>2 DEF Range
    <3>. HIDE DEF times
    <3>4. Min(times) = p.events[1] /\ Max(times) = p.events[n]
      BY <3>3, MinMaxAre
    <3>5. /\ e.firstEvent = Min(times) /\ e.lastEvent = Max(times) /\ e.events = n
      BY <1>5, <2>2 DEF times
    <3>. QED  BY <3>1, <3>2, <3>4, <3>5 DEF Never
  <2>. QED  BY <2>1, <2>2
<1>10. bars # {} =>
         /\ e.first = Min(bars) /\ e.last = Max(bars)
         /\ e.missing = Cardinality({t \in bars : t # e.last /\ t + 1 \notin bars})
  <2>. SUFFICES ASSUME bars # {}
                PROVE  /\ e.first = Min(bars) /\ e.last = Max(bars)
                       /\ e.missing = Cardinality(Holes(bars, e.last))
    BY DEF Holes
  <2>1. bars \in SUBSET Int
    OBVIOUS
  <2>. QED  BY <1>3, <1>5, <2>1, MinMaxAre
<1>11. e.status = "VALID" => e.events > 0 /\ e.missing = 0 /\ e.rows > 0
  <2>. SUFFICES ASSUME e.status = "VALID" PROVE e.events > 0 /\ e.missing = 0 /\ e.rows > 0
    OBVIOUS
  <2>1. Len(p.events) \in Nat /\ Len(p.events) # 0
    BY <1>4, <1>6
  <2>. QED  BY <1>3, <1>4, <1>5, <1>6, <2>1
<1>12. e.contracts \subseteq UNION {Range(mappedAt[t]) : t \in 1..time}
  BY <1>2, <1>5 DEF MappedSoFar
<1>13. Initialized(p) =>
         {RollState(p.rolls, t) : t \in {t \in bars : t >= p.rolls[1].observed}}
           \subseteq e.rollStates
  BY <1>2, <1>5 DEF BarsPlaced
<1>14. (e.rows = 0) = (p.sessions = {})
  <2>1. IsFiniteSet(bars)
    <3>1. IsFiniteSet(1..time)
      BY FS_Interval
    <3>. QED  BY <3>1, FS_Subset
  <2>2. Cardinality(bars) = 0 <=> bars = {}
    BY <2>1, FS_EmptySet
  <2>. QED  BY <1>2, <1>3, <1>5, <2>2
<1>15. EvidenceAccepted(e) /\ e.rows = Cardinality(bars)
  BY <1>3, <1>5, <1>7, <1>8, <1>9 DEF EvidenceAccepted
<1>. QED
  BY <1>10, <1>11, <1>12, <1>13, <1>14, <1>15, Zenon DEF Reconciles, e

(* The probe's evidence reconciles with the bars, mappings and events of   *)
(* every behaviour, of any length, with any chains and contracts.          *)
THEOREM EvidenceIsRight == HostSpec => []EvidenceReconciles
<1>1. RuntimeInv /\ ProbeInv => EvidenceReconciles
  <2>. SUFFICES ASSUME RuntimeInv, ProbeInv, deployed = "futures probe" /\ ~ probe.raised
                PROVE  EvidenceReconciles
    BY DEF EvidenceReconciles
  <2>1. time \in Nat /\ ProbeRight(probe, barTimes) /\ barTimes \subseteq 1..time
    BY DEF RuntimeInv, ClockRight, ProbeInv
  <2>2. Reconciles(probe, barTimes)
    BY <2>1, RightProbeReconciles
  <2>. QED  BY <2>2, Zenon DEF Reconciles, EvidenceReconciles
<1>. QED  BY <1>1, RuntimeInvariance, ProbeInvariance, PTL

-----------------------------------------------------------------------------
(* The CFTC probe *)

Delivery == [at : Nat \ {0}, point : Deliveries]

(* The positions of the objects dated to a date, and the fields that came. *)
DatedTo(date, d) == {i \in DOMAIN d : d[i].point.endDate = date}
FieldsOf(d) == UNION {{i} \X d[i].point.nonNull : i \in DOMAIN d}
RowOf(o) == [delivered |-> o.at, endDate |-> o.point.endDate, nonNull |-> o.point.nonNull]

(* The row of a date is that of the last object dated to it.               *)
LastOfItsDate(row, date, d) ==
    \E i \in DatedTo(date, d) : row = RowOf(d[i]) /\ \A j \in DatedTo(date, d) : j <= i

(* What the recorder c keeps of the objects d delivered so far.            *)
DeliveriesRight(c, d) ==
    /\ d \in Seq(Delivery) /\ \A i \in DOMAIN d : d[i].at <= time
    /\ c.rows = Len(d)
    /\ IF d = <<>> THEN c.first = Never /\ c.last = Never
       ELSE c.first = d[1].at /\ c.last = d[Len(d)].at
    /\ IsFiniteSet(FieldsOf(d)) /\ c.fields = Cardinality(FieldsOf(d))
    /\ c.nullable = UNION {Fields \ d[i].point.nonNull : i \in DOMAIN d}
    /\ DOMAIN c.byDate = {d[i].point.endDate : i \in DOMAIN d}
    /\ \A date \in DOMAIN c.byDate : LastOfItsDate(c.byDate[date], date, d)

CftcInv ==
    deployed = "cftc probe" =>
        /\ DeliveriesRight(cftc, delivered)
        /\ ~ sliced => time > 0

(* What an object adds to the sequence of those delivered.                 *)
LEMMA WithDelivery ==
    ASSUME NEW d \in Seq(Delivery), NEW o \in Delivery
    PROVE  /\ Append(d, o) \in Seq(Delivery) /\ Len(d) \in Nat
           /\ Len(Append(d, o)) = Len(d) + 1
           /\ DOMAIN d = 1..Len(d) /\ DOMAIN Append(d, o) = 1..(Len(d) + 1)
           /\ \A i \in DOMAIN d : Append(d, o)[i] = d[i]
           /\ Append(d, o)[Len(d) + 1] = o
           /\ DOMAIN Append(d, o) = DOMAIN d \cup {Len(d) + 1} /\ Len(d) + 1 \notin DOMAIN d
<1>1. /\ Append(d, o) \in Seq(Delivery) /\ Len(d) \in Nat
      /\ Len(Append(d, o)) = Len(d) + 1
      /\ DOMAIN d = 1..Len(d) /\ DOMAIN Append(d, o) = 1..(Len(d) + 1)
      /\ \A i \in DOMAIN d : Append(d, o)[i] = d[i]
      /\ Append(d, o)[Len(d) + 1] = o
  BY AppendProperties, LenProperties
<1>2. 1..(Len(d) + 1) = (1..Len(d)) \cup {Len(d) + 1} /\ Len(d) + 1 \notin 1..Len(d)
  BY <1>1
<1>. QED  BY <1>1, <1>2

(* The fields of an object are counted apart from those before.            *)
LEMMA FieldsWithDelivery ==
    ASSUME NEW d \in Seq(Delivery), NEW o \in Delivery, IsFiniteSet(FieldsOf(d))
    PROVE  /\ IsFiniteSet(FieldsOf(Append(d, o)))
           /\ Cardinality(FieldsOf(Append(d, o))) =
                Cardinality(FieldsOf(d)) + Cardinality(o.point.nonNull)
<1>. DEFINE e == Append(d, o)
            n == Len(d) + 1
            new == {n} \X o.point.nonNull
<1>1. /\ DOMAIN e = DOMAIN d \cup {n} /\ n \notin DOMAIN d /\ e[n] = o
      /\ \A i \in DOMAIN d : e[i] = d[i]
  BY WithDelivery
<1>2. IsFiniteSet(o.point.nonNull)
  <2>1. o.point \in [endDate : Int, nonNull : SUBSET Fields]
    BY HostAssumption DEF Delivery
  <2>2. o.point.nonNull \in SUBSET Fields
    BY <2>1
  <2>. QED  BY <2>2, HostAssumption, FS_Subset
<1>3. IsFiniteSet(new) /\ Cardinality(new) = Cardinality(o.point.nonNull)
  <2>1. IsFiniteSet({n}) /\ Cardinality({n}) = 1
    BY FS_Singleton
  <2>2. IsFiniteSet(new) /\ Cardinality(new) = 1 * Cardinality(o.point.nonNull)
    BY <1>2, <2>1, FS_Product
  <2>3. Cardinality(o.point.nonNull) \in Nat
    BY <1>2, FS_CardinalityType
  <2>. HIDE DEF new, n
  <2>. QED  BY <2>2, <2>3
<1>. HIDE DEF e, n
<1>4. FieldsOf(e) = FieldsOf(d) \cup new
  <2>1. \A x : x \in FieldsOf(e) <=> \E i \in DOMAIN e : x \in {i} \X e[i].point.nonNull
    BY DEF FieldsOf
  <2>2. \A x : x \in FieldsOf(d) <=> \E i \in DOMAIN d : x \in {i} \X d[i].point.nonNull
    BY DEF FieldsOf
  <2>3. \A x : x \in new <=> x \in {n} \X e[n].point.nonNull
    BY <1>1
  <2>4. \A x : x \in FieldsOf(e) <=> x \in FieldsOf(d) \/ x \in new
    BY <1>1, <2>1, <2>2, <2>3, Zenon
  <2>. QED  BY <2>4
<1>5. FieldsOf(d) \cap new = {}
  <2>1. \A x \in FieldsOf(d) : x[1] \in DOMAIN d
    BY DEF FieldsOf
  <2>2. \A x \in new : x[1] = n
    OBVIOUS
  <2>. QED  BY <1>1, <2>1, <2>2
<1>. HIDE DEF new
<1>6. /\ IsFiniteSet(FieldsOf(d) \cup new)
      /\ Cardinality(FieldsOf(d) \cup new) =
           Cardinality(FieldsOf(d)) + Cardinality(new) - Cardinality(FieldsOf(d) \cap new)
  BY <1>3, FS_Union
<1>7. Cardinality(FieldsOf(d)) \in Nat /\ Cardinality(new) \in Nat /\ Cardinality({}) = 0
  BY <1>3, FS_CardinalityType, FS_EmptySet
<1>8. Cardinality(FieldsOf(d) \cup new) = Cardinality(FieldsOf(d)) + Cardinality(new)
  <2>1. Cardinality(FieldsOf(d) \cap new) = 0
    BY <1>5, <1>7, Zenon
  <2>2. \A k, m \in Nat : k + m - 0 = k + m
    OBVIOUS
  <2>. QED  BY <1>6, <1>7, <2>1, <2>2, Zenon
<1>. QED  BY <1>3, <1>4, <1>6, <1>8 DEF e

(* An object becomes the row of its date and leaves those of other dates.  *)
LEMMA RowsWithDelivery ==
    ASSUME NEW d \in Seq(Delivery), NEW o \in Delivery, NEW byDate,
           DOMAIN byDate = {d[i].point.endDate : i \in DOMAIN d},
           \A date \in DOMAIN byDate : LastOfItsDate(byDate[date], date, d)
    PROVE  LET key == o.point.endDate
               new == [date \in DOMAIN byDate \cup {key} |->
                         IF date = key THEN RowOf(o) ELSE byDate[date]]
           IN  /\ DOMAIN new = {Append(d, o)[i].point.endDate : i \in DOMAIN Append(d, o)}
               /\ \A date \in DOMAIN new : LastOfItsDate(new[date], date, Append(d, o))
<1>. DEFINE e == Append(d, o)
            n == Len(d) + 1
            key == o.point.endDate
            new == [date \in DOMAIN byDate \cup {key} |->
                      IF date = key THEN RowOf(o) ELSE byDate[date]]
<1>1. /\ DOMAIN e = DOMAIN d \cup {n} /\ n \notin DOMAIN d /\ e[n] = o
      /\ \A i \in DOMAIN d : e[i] = d[i]
      /\ \A i \in DOMAIN d : i \in Nat /\ i <= n
      /\ n \in Nat
  <2>1. /\ DOMAIN e = DOMAIN d \cup {n} /\ n \notin DOMAIN d /\ e[n] = o
        /\ \A i \in DOMAIN d : e[i] = d[i]
        /\ DOMAIN d = 1..Len(d) /\ Len(d) \in Nat
    BY WithDelivery
  <2>2. n \in Nat /\ \A i \in 1..Len(d) : i \in Nat /\ i <= n
    BY <2>1
  <2>. HIDE DEF e, n
  <2>. QED  BY <2>1, <2>2
<1>. HIDE DEF e, n
<1>2. DOMAIN new = {e[i].point.endDate : i \in DOMAIN e}
  BY <1>1
<1>3. ASSUME NEW date \in DOMAIN new PROVE LastOfItsDate(new[date], date, e)
  <2>1. CASE date = key
    <3>1. new[date] = RowOf(e[n]) /\ n \in DatedTo(date, e)
      BY <1>1, <2>1 DEF DatedTo
    <3>2. \A j \in DatedTo(date, e) : j <= n
      BY <1>1 DEF DatedTo
    <3>. HIDE DEF new
    <3>. QED  BY <3>1, <3>2 DEF LastOfItsDate
  <2>2. CASE date # key
    <3>1. date \in DOMAIN byDate /\ new[date] = byDate[date]
      BY <2>2
    <3>2. DatedTo(date, e) = DatedTo(date, d)
      BY <1>1, <2>2 DEF DatedTo
    <3>3. \A i \in DatedTo(date, d) : e[i] = d[i]
      BY <1>1 DEF DatedTo
    <3>4. LastOfItsDate(byDate[date], date, d)
      BY <3>1
    <3>. HIDE DEF new
    <3>. QED  BY <3>1, <3>2, <3>3, <3>4 DEF LastOfItsDate
  <2>. QED  BY <2>1, <2>2
<1>. QED  BY <1>2, <1>3 DEF e

(* _observe_point keeps the recorder right.                                *)
LEMMA DeliverKeeps ==
    ASSUME time \in Nat \ {0}, NEW c, NEW d, DeliveriesRight(c, d), NEW point \in Deliveries
    PROVE  DeliveriesRight(Deliver(c, point, time), Append(d, [at |-> time, point |-> point]))
<1>. DEFINE o == [at |-> time, point |-> point]
            e == Append(d, o)
            new == Deliver(c, point, time)
            key == point.endDate
            row == [delivered |-> time, endDate |-> point.endDate, nonNull |-> point.nonNull]
<1>0. /\ d \in Seq(Delivery) /\ (\A i \in DOMAIN d : d[i].at <= time)
      /\ c.rows = Len(d)
      /\ d = <<>> => c.first = Never /\ c.last = Never
      /\ d # <<>> => c.first = d[1].at /\ c.last = d[Len(d)].at
      /\ IsFiniteSet(FieldsOf(d)) /\ c.fields = Cardinality(FieldsOf(d))
      /\ c.nullable = UNION {Fields \ d[i].point.nonNull : i \in DOMAIN d}
      /\ DOMAIN c.byDate = {d[i].point.endDate : i \in DOMAIN d}
      /\ \A date \in DOMAIN c.byDate : LastOfItsDate(c.byDate[date], date, d)
  BY DEF DeliveriesRight
<1>1. o \in Delivery /\ o.at = time /\ o.point = point /\ RowOf(o) = row
  BY DEF Delivery, RowOf
<1>2. /\ new.rows = c.rows + 1
      /\ new.first = IF c.first = Never \/ time < c.first THEN time ELSE c.first
      /\ new.last = IF time > c.last THEN time ELSE c.last
      /\ new.fields = c.fields + Cardinality(point.nonNull)
      /\ new.nullable = c.nullable \cup (Fields \ point.nonNull)
      /\ new.byDate = [date \in DOMAIN c.byDate \cup {key} |->
                         IF date = key THEN row ELSE c.byDate[date]]
  BY DEF Deliver, ReleaseKey
<1>. HIDE DEF o, e, new, row
<1>3. /\ e \in Seq(Delivery) /\ Len(d) \in Nat /\ Len(e) = Len(d) + 1
      /\ DOMAIN d = 1..Len(d)
      /\ \A i \in DOMAIN d : e[i] = d[i]
      /\ e[Len(d) + 1] = o
      /\ DOMAIN e = DOMAIN d \cup {Len(d) + 1} /\ Len(d) + 1 \notin DOMAIN d
  BY <1>0, <1>1, WithDelivery DEF e
<1>4. \A i \in DOMAIN e : e[i].at <= time
  BY <1>0, <1>1, <1>3
<1>5. new.rows = Len(e)
  BY <1>0, <1>2, <1>3
<1>6. e # <<>> /\ new.first = e[1].at /\ new.last = e[Len(e)].at
  <2>1. e # <<>> /\ e[Len(e)].at = time
    BY <1>1, <1>3
  <2>2. CASE d = <<>>
    <3>1. Len(e) = 1
      BY <1>3, <2>2
    <3>. QED  BY <1>0, <1>2, <2>1, <2>2, <3>1 DEF Never
  <2>3. CASE d # <<>>
    <3>1. 1 \in DOMAIN d /\ Len(d) \in DOMAIN d
      BY <1>0, <1>3, <2>3
    <3>2. \A i \in DOMAIN d : d[i].at \in Nat \ {0}
      <4>1. \A i \in DOMAIN d : d[i] \in Delivery
        BY <1>0
      <4>2. \A x \in Delivery : x.at \in Nat \ {0}
        BY DEF Delivery
      <4>. QED  BY <4>1, <4>2
    <3>3. c.first \in Nat \ {0} /\ c.first <= time /\ c.last \in Nat /\ c.last <= time
      BY <1>0, <2>3, <3>1, <3>2
    <3>4. new.first = c.first /\ new.last = time
      BY <1>2, <3>3 DEF Never
    <3>. QED  BY <1>0, <1>3, <2>1, <2>3, <3>1, <3>4
  <2>. QED  BY <2>2, <2>3
<1>7. IsFiniteSet(FieldsOf(e)) /\ new.fields = Cardinality(FieldsOf(e))
  <2>1. /\ IsFiniteSet(FieldsOf(e))
        /\ Cardinality(FieldsOf(e)) = Cardinality(FieldsOf(d)) + Cardinality(o.point.nonNull)
    BY <1>0, <1>1, FieldsWithDelivery DEF e
  <2>. QED  BY <1>0, <1>1, <1>2, <2>1
<1>8. new.nullable = UNION {Fields \ e[i].point.nonNull : i \in DOMAIN e}
  <2>1. \A x : x \in UNION {Fields \ e[i].point.nonNull : i \in DOMAIN e} <=>
               \E i \in DOMAIN e : x \in Fields \ e[i].point.nonNull
    OBVIOUS
  <2>2. \A x : x \in c.nullable <=> \E i \in DOMAIN d : x \in Fields \ d[i].point.nonNull
    BY <1>0
  <2>3. \A x : x \in new.nullable <=> x \in c.nullable \/ x \in Fields \ o.point.nonNull
    BY <1>1, <1>2
  <2>4. \A x : x \in new.nullable <=> \E i \in DOMAIN e : x \in Fields \ e[i].point.nonNull
    BY <1>3, <2>2, <2>3, Zenon
  <2>. QED  BY <2>1, <2>4
<1>9. /\ DOMAIN new.byDate = {e[i].point.endDate : i \in DOMAIN e}
      /\ \A date \in DOMAIN new.byDate : LastOfItsDate(new.byDate[date], date, e)
  <2>1. o.point.endDate = key
    BY <1>1
  <2>. DEFINE rows == [date \in DOMAIN c.byDate \cup {o.point.endDate} |->
                         IF date = o.point.endDate THEN RowOf(o) ELSE c.byDate[date]]
  <2>2. new.byDate = rows
    BY <1>1, <1>2, <2>1
  <2>. HIDE DEF key
  <2>3. /\ DOMAIN rows = {e[i].point.endDate : i \in DOMAIN e}
        /\ \A date \in DOMAIN rows : LastOfItsDate(rows[date], date, e)
    BY <1>0, <1>1, RowsWithDelivery, Zenon DEF e
  <2>. HIDE DEF rows
  <2>. QED  BY <2>2, <2>3, Zenon
<1>10. DeliveriesRight(new, e)
  BY <1>3, <1>4, <1>5, <1>6, <1>7, <1>8, <1>9, Zenon DEF DeliveriesRight
<1>. QED  BY <1>10 DEF new, e, o

(* What DeliveriesReconcile says of the recorder c and the objects d.      *)
DeliveriesAgree(c, d) ==
    LET Dated(date) == {i \in DOMAIN d : d[i].point.endDate = date}
        Kept(date)  == LET o == d[Max(Dated(date))]
                       IN  [delivered |-> o.at, endDate |-> date, nonNull |-> o.point.nonNull]
    IN  /\ \A date \in AuditDates, official \in AuditDates :
             AuditRow(c, official, date).row =
               IF Dated(date) = {} THEN <<>> ELSE <<Kept(date)>>
        /\ ObservedCount(c, AuditDates \X AuditDates) =
             Cardinality(AuditDates)
               * Cardinality({o.point.endDate : o \in Range(d)} \cap AuditDates)
        /\ c.rows = Len(d)
        /\ c.fields = Cardinality(UNION {{i} \X d[i].point.nonNull : i \in DOMAIN d})
        /\ c.nullable = UNION {Fields \ o.point.nonNull : o \in Range(d)}
        /\ d # <<>> => c.first = d[1].at /\ c.last = Last(d).at

(* The audit and the summary of a right recorder agree with the objects.   *)
LEMMA RightDeliveriesAgree ==
    ASSUME NEW c, NEW d, DeliveriesRight(c, d)
    PROVE  DeliveriesAgree(c, d)
<1>. DEFINE Kept(date) == LET o == d[Max(DatedTo(date, d))]
                          IN  [delivered |-> o.at, endDate |-> date,
                               nonNull |-> o.point.nonNull]
            dates == {d[i].point.endDate : i \in DOMAIN d}
<1>0. /\ d \in Seq(Delivery)
      /\ c.rows = Len(d)
      /\ d # <<>> => c.first = d[1].at /\ c.last = d[Len(d)].at
      /\ IsFiniteSet(FieldsOf(d)) /\ c.fields = Cardinality(FieldsOf(d))
      /\ c.nullable = UNION {Fields \ d[i].point.nonNull : i \in DOMAIN d}
      /\ DOMAIN c.byDate = dates
      /\ \A date \in DOMAIN c.byDate : LastOfItsDate(c.byDate[date], date, d)
  BY DEF DeliveriesRight
<1>1. ASSUME NEW date \in AuditDates, NEW official \in AuditDates
      PROVE  AuditRow(c, official, date).row =
               IF DatedTo(date, d) = {} THEN <<>> ELSE <<Kept(date)>>
  <2>1. AuditRow(c, official, date).row =
          IF date \in DOMAIN c.byDate THEN <<c.byDate[date]>> ELSE <<>>
    BY DEF AuditRow
  <2>2. date \in DOMAIN c.byDate <=> DatedTo(date, d) # {}
    BY <1>0 DEF DatedTo
  <2>3. ASSUME date \in DOMAIN c.byDate PROVE c.byDate[date] = Kept(date)
    <3>1. PICK i \in DatedTo(date, d) :
             c.byDate[date] = RowOf(d[i]) /\ \A j \in DatedTo(date, d) : j <= i
      BY <1>0, <2>3 DEF LastOfItsDate
    <3>2. Max(DatedTo(date, d)) = i
      <4>1. DatedTo(date, d) \subseteq Nat
        BY <1>0 DEF DatedTo
      <4>2. \A j \in DatedTo(date, d) : i >= j
        BY <3>1, <4>1
      <4>3. \A x \in DatedTo(date, d) :
               (\A j \in DatedTo(date, d) : x >= j) => x = i
        BY <3>1, <4>1
      <4>. QED  BY <4>2, <4>3 DEF Max
    <3>3. d[i].point.endDate = date
      BY DEF DatedTo
    <3>. QED  BY <3>1, <3>2, <3>3 DEF RowOf
  <2>. HIDE DEF Kept
  <2>. QED  BY <2>1, <2>2, <2>3
<1>2. {o.point.endDate : o \in Range(d)} = dates
  BY DEF Range
<1>3. c.nullable = UNION {Fields \ o.point.nonNull : o \in Range(d)}
  <2>1. \A x : x \in c.nullable <=> \E i \in DOMAIN d : x \in Fields \ d[i].point.nonNull
    BY <1>0
  <2>2. \A x : x \in UNION {Fields \ o.point.nonNull : o \in Range(d)} <=>
               \E o \in Range(d) : x \in Fields \ o.point.nonNull
    OBVIOUS
  <2>3. \A x : (\E o \in Range(d) : x \in Fields \ o.point.nonNull) <=>
               \E i \in DOMAIN d : x \in Fields \ d[i].point.nonNull
    BY DEF Range
  <2>4. \A x : x \in c.nullable <=> x \in UNION {Fields \ o.point.nonNull : o \in Range(d)}
    BY <2>1, <2>2, <2>3, Zenon
  <2>. QED  BY <2>4
<1>4. ObservedCount(c, AuditDates \X AuditDates) =
        Cardinality(AuditDates) * Cardinality(dates \cap AuditDates)
  <2>1. {pair \in AuditDates \X AuditDates : pair[2] \in DOMAIN c.byDate} =
          AuditDates \X (dates \cap AuditDates)
    BY <1>0
  <2>2. IsFiniteSet(AuditDates) /\ IsFiniteSet(dates \cap AuditDates)
    BY HostAssumption, FS_Intersection
  <2>. HIDE DEF dates
  <2>. QED  BY <2>1, <2>2, FS_Product DEF ObservedCount
<1>5. d # <<>> => c.first = d[1].at /\ c.last = Last(d).at
  BY <1>0 DEF Last
<1>6. c.fields = Cardinality(UNION {{i} \X d[i].point.nonNull : i \in DOMAIN d})
  BY <1>0 DEF FieldsOf
<1>7. \A date \in AuditDates, official \in AuditDates :
         AuditRow(c, official, date).row =
           IF DatedTo(date, d) = {} THEN <<>> ELSE <<Kept(date)>>
  BY <1>1
<1>8. c.rows = Len(d)
  BY <1>0
<1>9. ObservedCount(c, AuditDates \X AuditDates) =
        Cardinality(AuditDates)
          * Cardinality({o.point.endDate : o \in Range(d)} \cap AuditDates)
  BY <1>2, <1>4
<1>. QED  BY <1>3, <1>5, <1>6, <1>7, <1>8, <1>9, Zenon DEF DeliveriesAgree, DatedTo

(* A slice with an object, in the recorder's invariant.                    *)
LEMMA CftcSliceKeeps ==
    ASSUME time \in Nat, time > 0, DeliveriesRight(cftc, delivered),
           NEW point \in Deliveries, CftcSlice(point)
    PROVE  DeliveriesRight(cftc, delivered)' /\ sliced' = TRUE
<1>1. /\ cftc' = Deliver(cftc, point, time) /\ sliced' = TRUE /\ time' = time
      /\ delivered' = Append(delivered, [at |-> time, point |-> point])
  BY DEF CftcSlice
<1>2. DeliveriesRight(Deliver(cftc, point, time),
                      Append(delivered, [at |-> time, point |-> point]))
  <2>1. time \in Nat \ {0}
    BY TimesUpTo
  <2>. QED  BY <2>1, DeliverKeeps
<1>. DEFINE c == Deliver(cftc, point, time)
            d == Append(delivered, [at |-> time, point |-> point])
<1>3. cftc' = c /\ delivered' = d /\ time' = time /\ DeliveriesRight(c, d)
  BY <1>1, <1>2
<1>. HIDE DEF c, d
<1>4. DeliveriesRight(cftc, delivered)'
  BY <1>3 DEF DeliveriesRight, LastOfItsDate, DatedTo
<1>. QED  BY <1>1, <1>4

(* Whatever is deployed, a step of the host keeps the recorder right.      *)
LEMMA CftcStep == RuntimeInv /\ CftcInv /\ [HostNext]_hostVars => CftcInv'
<1>. SUFFICES ASSUME RuntimeInv, CftcInv, [HostNext]_hostVars PROVE CftcInv'
  OBVIOUS
<1>0. time \in Nat
  BY DEF RuntimeInv, ClockRight
<1>1. CASE deployed # "cftc probe" /\ deployed' = deployed
  BY <1>1 DEF CftcInv
<1>2. CASE UNCHANGED hostVars
  <2>1. UNCHANGED <<deployed, cftc, delivered, time, sliced>>
    BY <1>2 DEF hostVars, vars, cftcVars
  <2>. QED  BY <2>1 DEF CftcInv, DeliveriesRight
<1>3. CASE deployed = "cftc probe" /\ HostNext
  <2>1. /\ deployed' = deployed
        /\ \/ NextTime(<<>>) /\ UNCHANGED cftcVars
           \/ \E point \in Deliveries : CftcSlice(point)
    BY <1>3 DEF HostNext
  <2>2. DeliveriesRight(cftc, delivered) /\ (~ sliced => time > 0)
    BY <1>3 DEF CftcInv
  <2>3. CASE NextTime(<<>>) /\ UNCHANGED cftcVars
    <3>1. UNCHANGED <<cftc, delivered>> /\ time' = time + 1
      BY <2>3 DEF cftcVars, NextTime
    <3>2. DeliveriesRight(cftc, delivered)'
      <4>1. \A i \in DOMAIN delivered : delivered[i].at <= time'
        <5>1. \A i \in DOMAIN delivered : delivered[i].at <= time /\ delivered[i].at \in Nat
          <6>1. \A i \in DOMAIN delivered : delivered[i] \in Delivery /\ delivered[i].at <= time
            BY <2>2 DEF DeliveriesRight
          <6>. QED  BY <6>1 DEF Delivery
        <5>2. \A n \in Nat : n <= time => n <= time'
          BY <1>0, <3>1
        <5>. QED  BY <5>1, <5>2
      <4>. QED  BY <2>2, <3>1, <4>1 DEF DeliveriesRight, LastOfItsDate, DatedTo
    <3>3. time' > 0
      BY <1>0, <3>1, TimesUpTo
    <3>. QED  BY <3>2, <3>3 DEF CftcInv
  <2>4. ASSUME NEW point \in Deliveries, CftcSlice(point)
        PROVE  CftcInv'
    <3>1. time > 0
      BY <2>2, <2>4 DEF CftcSlice
    <3>2. DeliveriesRight(cftc, delivered)' /\ sliced' = TRUE
      BY <1>0, <2>2, <2>4, <3>1, CftcSliceKeeps
    <3>. QED  BY <3>2 DEF CftcInv
  <2>. QED  BY <2>1, <2>3, <2>4
<1>. QED  BY <1>1, <1>2, <1>3 DEF HostNext

(* A new recorder has been delivered nothing.                              *)
LEMMA CftcInitRight == HostInit => CftcInv
<1>. SUFFICES ASSUME HostInit PROVE CftcInv
  OBVIOUS
<1>1. cftc = NothingDelivered /\ delivered = <<>> /\ sliced = TRUE
  BY DEF HostInit, Init
<1>2. FieldsOf(<<>>) = {}
  BY DEF FieldsOf
<1>3. <<>> \in Seq(Delivery) /\ Len(<<>>) = 0 /\ DOMAIN <<>> = {}
  BY NoElement
<1>. DEFINE c == NothingDelivered
<1>4. /\ c.rows = 0 /\ c.first = Never /\ c.last = Never /\ c.fields = 0 /\ c.nullable = {}
      /\ DOMAIN c.byDate = {}
  BY DEF NothingDelivered
<1>. HIDE DEF c
<1>5. DeliveriesRight(c, <<>>)
  BY <1>2, <1>3, <1>4, FS_EmptySet DEF DeliveriesRight
<1>. QED  BY <1>1, <1>5 DEF CftcInv, c

(* What the recorder keeps is right in every behaviour of the host.        *)
THEOREM CftcInvariance == HostSpec => []CftcInv
  BY CftcInitRight, CftcStep, RuntimeInvariance, PTL DEF HostSpec

(* The audit and the summary agree with what was delivered, for any        *)
(* objects, fields and dates and any number of deliveries.                 *)
THEOREM DeliveriesAreRight == HostSpec => []DeliveriesReconcile
<1>1. CftcInv => DeliveriesReconcile
  <2>. SUFFICES ASSUME CftcInv, deployed = "cftc probe" PROVE DeliveriesReconcile
    BY DEF DeliveriesReconcile
  <2>1. DeliveriesAgree(cftc, delivered)
    BY RightDeliveriesAgree DEF CftcInv
  <2>. QED  BY <2>1, Zenon DEF DeliveriesAgree, DeliveriesReconcile
<1>. QED  BY <1>1, CftcInvariance, PTL

=============================================================================
