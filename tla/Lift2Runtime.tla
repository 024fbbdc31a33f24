------------------------------ MODULE Lift2Runtime ------------------------------
(***************************************************************************)
(* The QuantConnect boundary: Lift2Runtime (qc_adapters/lift2_runtime.py), *)
(* which main.py calls, with its RollManager (data/rolls.py).  A mapping   *)
(* change reaches the runtime by an event, by the mapped property of the   *)
(* continuous contract at the next slice, or by both; either one closes    *)
(* the measurement stream of the old contract and opens that of the new.   *)
(*                                                                         *)
(* A stream is abstracted to its contract and to the trades handed to it   *)
(* (MeasurementStream has the rest); its calls may raise.  LEAN stops an   *)
(* algorithm whose handler raises: no handler runs after that, so what a   *)
(* handler did before it raised stays as it is.                            *)
(***************************************************************************)
EXTENDS Integers, Sequences, FiniteSets, SequencesExt, RollManager

CONSTANTS
    Contracts,  \* actual contracts the continuous symbol may be mapped to
    MaxTime,    \* bound: the last algorithm time
    MaxTicks    \* bound: trade ticks in a slice

ASSUME RuntimeAssumption ==
    /\ None \notin Contracts
    /\ MaxTime \in Nat /\ MaxTicks \in Nat

VARIABLES
    time,       \* host.time
    mapped,     \* mapped of the continuous contract: <<contract>>, or <<>> for None
    symbol,     \* _mapped_symbol_text
    history,    \* the mapping observations of RollManager
    stream,     \* _stream: <<stream>>, or <<>> for None
    completed,  \* _completed_streams
    contracts,  \* _contracts
    rollCount,  \* _roll_count
    summary,    \* <<the published trades of every stream>>, or <<>> before finalize
    sliced,     \* whether the slice of this time was delivered: LEAN makes one
    stopped,    \* a handler raised
    mappedAt    \* history: the contract mapped at each time so far

runtime == <<symbol, history, stream, completed, contracts, rollCount, summary, stopped>>
vars == <<time, mapped, symbol, history, stream, completed, contracts, rollCount,
          summary, stopped, sliced, mappedAt>>

-----------------------------------------------------------------------------
(* The runtime as a value, so that a handler may call its parts in turn. *)

Runtime ==
    [symbol |-> symbol, history |-> history, stream |-> stream, completed |-> completed,
     contracts |-> contracts, rollCount |-> rollCount, stopped |-> stopped]

NewStream(contract) == [contract |-> contract, trades |-> <<>>]

SwitchedKeepingStream(r, contract, failing) ==
    LET observation == Observed(r.symbol, contract, time)
    IN  IF contract = r.symbol THEN r
        ELSE [r EXCEPT !.history = Append(@, observation), !.symbol = contract,
                       !.contracts = @ \cup {contract},
                       !.stream = IF @ = <<>> THEN <<NewStream(contract)>> ELSE @]

SwitchedBeforeSubscribing(r, contract, failing) ==
    LET closed == [r EXCEPT !.completed = @ \o r.stream, !.rollCount = @ + Len(r.stream)]
        observation == Observed(r.symbol, contract, time)
        observed == [closed EXCEPT !.history = Append(@, observation),
                                   !.symbol = contract, !.contracts = @ \cup {contract}]
    IN  IF contract = r.symbol THEN r
        ELSE IF failing = "finalize" /\ r.stream # <<>> THEN [r EXCEPT !.stopped = TRUE]
        ELSE IF ~MappingAccepted(r.history, observation) THEN [closed EXCEPT !.stopped = TRUE]
        ELSE IF failing = "subscribe" THEN [observed EXCEPT !.stopped = TRUE]
        ELSE [observed EXCEPT !.stream = <<NewStream(contract)>>]

(* _switch_contract, with the call that fails: "finalize" of the stream,   *)
(* "subscribe" (the minimum tick of the new contract), or none             *)
Switched(r, contract, failing) ==
    LET closed == [r EXCEPT !.completed = @ \o r.stream, !.rollCount = @ + Len(r.stream)]
        observation == Observed(r.symbol, contract, time)
        observed == [closed EXCEPT !.history = Append(@, observation)]
    IN  IF contract = r.symbol THEN r
        ELSE IF failing = "finalize" /\ r.stream # <<>> THEN [r EXCEPT !.stopped = TRUE]
        ELSE IF ~MappingAccepted(r.history, observation) THEN [closed EXCEPT !.stopped = TRUE]
        ELSE IF failing = "subscribe" THEN [observed EXCEPT !.stopped = TRUE]
        ELSE [observed EXCEPT !.symbol = contract, !.contracts = @ \cup {contract},
                              !.stream = <<NewStream(contract)>>]

SwitchToMapped(r, failing) == IF mapped = <<>> THEN r ELSE Switched(r, mapped[1], failing)

(* the trades of one slice; on_trade raises at the tick in position fails *)
Measured(r, ticks, fails) ==
    LET heard == IF fails \in DOMAIN ticks THEN SubSeq(ticks, 1, fails - 1) ELSE ticks
        own   == {i \in DOMAIN heard : heard[i] = r.symbol}
        trade == [contract |-> r.symbol, at |-> time, roll |-> RollState(r.history, time)]
    IN  IF r.stopped \/ r.stream = <<>> THEN r
        ELSE [r EXCEPT !.stream[1].trades = @ \o [i \in 1..Cardinality(own) |-> trade],
                       !.stopped = fails \in DOMAIN ticks /\ ticks[fails] = r.symbol]

Become(r) ==
    /\ symbol' = r.symbol /\ history' = r.history /\ stream' = r.stream
    /\ completed' = r.completed /\ contracts' = r.contracts /\ rollCount' = r.rollCount
    /\ stopped' = r.stopped

-----------------------------------------------------------------------------
Init ==
    /\ time = 0 /\ mapped = <<>> /\ mappedAt = <<>>
    /\ symbol = None /\ history = <<>> /\ stream = <<>> /\ completed = <<>>
    /\ contracts = {} /\ rollCount = 0 /\ summary = <<>> /\ sliced = TRUE /\ stopped = FALSE

Running == ~stopped /\ summary = <<>>

(* LEAN moves its clock, and the mapping with it; a mapping never vanishes. *)
NextTime(mapping) ==
    /\ Running /\ time < MaxTime
    /\ time' = time + 1
    /\ mapping = <<>> => mapped = <<>>
    /\ mapped' = mapping
    /\ mappedAt' = Append(mappedAt, mapping)
    /\ sliced' = FALSE
    /\ UNCHANGED runtime

(* on_symbol_changed_events *)
OnMappingEvents(failing) ==
    /\ Running /\ mapped # <<>>
    /\ Become(SwitchToMapped(Runtime, failing))
    /\ UNCHANGED <<time, mapped, summary, sliced, mappedAt>>

(* on_data: the mapping is observed before the ticks of the slice *)
SlicePastMapping(ticks, failing, fails) ==
    SwitchToMapped(Measured(Runtime, ticks, fails), failing)
Slice(ticks, failing, fails) ==
    Measured(SwitchToMapped(Runtime, failing), ticks, fails)

OnSlice(ticks, failing, fails) ==
    /\ Running /\ ~sliced
    /\ sliced' = TRUE
    /\ Become(Slice(ticks, failing, fails))
    /\ UNCHANGED <<time, mapped, summary, mappedAt>>

(* on_end_of_algorithm *)
AllCompleted == completed \o stream
Finalize(fails) ==
    /\ Running
    /\ IF fails /\ stream # <<>> THEN stopped' = TRUE /\ UNCHANGED <<stream, completed, summary>>
       ELSE /\ completed' = AllCompleted
            /\ stream' = <<>>
            /\ summary' = <<[i \in DOMAIN AllCompleted |-> AllCompleted[i].trades]>>
            /\ UNCHANGED stopped
    /\ UNCHANGED <<time, mapped, symbol, history, contracts, rollCount, sliced,
                   mappedAt>>

Failing == {"none", "finalize", "subscribe"}

Next ==
    \/ \E mapping \in {<<>>} \cup {<<c>> : c \in Contracts} : NextTime(mapping)
    \/ \E failing \in Failing : OnMappingEvents(failing)
    \/ \E ticks \in SeqOf(Contracts, MaxTicks), failing \in Failing, fails \in 0..MaxTicks :
          OnSlice(ticks, failing, fails)
    \/ \E fails \in BOOLEAN : Finalize(fails)

Spec == Init /\ [][Next]_vars

-----------------------------------------------------------------------------
(* Properties *)

Streams == Range(completed) \cup Range(stream)

(* A stream measures trades of its own contract only, and every one of     *)
(* them while that contract was the mapped one: a slice that brings a new  *)
(* mapping is measured under the new mapping.                              *)
TradesFollowTheMapping ==
    \A s \in Streams : \A i \in DOMAIN s.trades :
        LET t == s.trades[i]
        IN  t.contract = s.contract /\ mappedAt[t.at] = <<s.contract>>

(* The roll state stamped on a trade when it was measured is the one its   *)
(* time has for ever: no mapping observed later changes it.                *)
RollStatesAreFinal ==
    \A s \in Streams : \A i \in DOMAIN s.trades :
        s.trades[i].roll = RollState(history, s.trades[i].at)

(* A switch that fails once it has completed the old stream leaves it the  *)
(* current one too: of the streams opened, it is still the last.           *)
StillCurrent == completed # <<>> /\ stream = <<Last(completed)>>
Opened == IF StillCurrent THEN completed ELSE completed \o stream

(* One stream per observed mapping, wherever a switch or a tick raised:    *)
(* the streams opened are those of the first mappings observed, in their   *)
(* order, symbol and contracts are of streams opened, and the roll count   *)
(* is that of streams completed, while the host runs that of the changes.  *)
(* What a failed switch leaves, a stream completed and current or one      *)
(* mapping observed with no stream, is left in a stopped runtime and in no *)
(* summary; a summary counts every stream once.                            *)
OneStreamPerMapping ==
    /\ Len(history) - Len(Opened) \in {0, 1}
    /\ \A i \in DOMAIN Opened : Opened[i].contract = history[i].new
    /\ symbol = IF Opened = <<>> THEN None ELSE Last(Opened).contract
    /\ contracts = {Opened[i].contract : i \in DOMAIN Opened}
    /\ summary = <<>> => rollCount = Len(completed)
    /\ (~stopped /\ history # <<>>) => rollCount = Len(history) - 1
    /\ (StillCurrent \/ Len(history) # Len(Opened)) => (stopped /\ summary = <<>>)
    /\ Len(history) # Len(Opened) => (StillCurrent \/ Opened = <<>>)
    /\ summary # <<>> =>
         stream = <<>> /\ summary = <<[i \in DOMAIN completed |-> completed[i].trades]>>
=============================================================================
