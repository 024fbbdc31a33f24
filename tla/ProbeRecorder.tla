----------------------------- MODULE ProbeRecorder -----------------------------
(***************************************************************************)
(* The coverage probes as functions of their state: FuturesProbeRecorder   *)
(* (qc_adapters/probe_recorder.py) for one root, whose roll history is     *)
(* that of RollManager, and CftcProbeRecorder (cftc_probe_recorder.py) for *)
(* one dataset.  Roots and datasets are recorded apart from each other.    *)
(* Time is counted in minutes; a day has DayLength of them.                *)
(***************************************************************************)
EXTENDS Integers, Sequences, FiniteSets, SequencesExt, FiniteSetsExt, RollManager

CONSTANTS
    DayLength,    \* minutes of a day
    Fields        \* _POSITION_FIELDS, nullable fields of a CFTC object

ASSUME ProbeAssumption == DayLength \in Nat \ {0}

Never == 0    \* None for a time: every observation is later

DateOf(minute) == minute \div DayLength

-----------------------------------------------------------------------------
(* FuturesProbeRecorder *)

(* register_subscription, with the symbol mapped then: <<contract>> or <<>> *)
Registered(mappedThen) ==
    [contracts |-> Range(mappedThen), rolls |-> <<>>, rollStates |-> {},
     first |-> Never, last |-> Never, rows |-> 0, missing |-> 0,
     events |-> <<>>, openInterest |-> {}, nonNull |-> {}, expiries |-> {},
     sessions |-> {}, chains |-> 0, flags |-> {}, raised |-> FALSE]

Initialized(p) == p.rolls # <<>>

(* the first mapped symbol seen in a slice starts the roll history *)
ObserveMapping(p, mappedNow, at) ==
    LET seen == [p EXCEPT !.contracts = @ \cup Range(mappedNow)]
    IN  IF mappedNow = <<>> \/ Initialized(p) THEN seen
        ELSE [seen EXCEPT !.rolls = <<Observed(None, mappedNow[1], at)>>,
                          !.rollStates = @ \cup {"NORMAL"}]

ObserveBarTimeFromFirst(p, at) ==
    LET gap == p.last # Never /\ at > p.first + 1
    IN  [p EXCEPT !.first = IF @ = Never THEN at ELSE @, !.last = at, !.rows = @ + 1,
                  !.missing = IF gap THEN @ + 1 ELSE @,
                  !.flags = IF gap THEN @ \cup {"UNADJUDICATED_MINUTE_GAP"} ELSE @]
ObserveBarTime(p, at) ==
    LET back == p.last # Never /\ at <= p.last
        gap  == p.last # Never /\ at > p.last + 1
    IN  [p EXCEPT !.first = IF @ = Never \/ at < @ THEN at ELSE @,
                  !.last = IF at > @ THEN at ELSE @,
                  !.rows = @ + 1,
                  !.missing = IF gap THEN @ + 1 ELSE @,
                  !.flags = @ \cup (IF back THEN {"NON_MONOTONIC_BAR_TIME"} ELSE {})
                              \cup (IF gap THEN {"UNADJUDICATED_MINUTE_GAP"} ELSE {})]

(* A chain, <<>> when the slice has none, lists contracts with or without  *)
(* an open interest.  The contract at position `bad` is refused, past the  *)
(* key of its open interest.                                               *)
ObserveChain(p, chain, at, bad) ==
    LET listed == IF chain = <<>> THEN <<>> ELSE chain[1]
        Key(i) == <<listed[i].contract, DateOf(at)>>
        begun  == {i \in DOMAIN listed : bad \in DOMAIN listed => i <= bad}
        done   == begun \ {bad}
    IN  [p EXCEPT !.chains = @ + Len(chain),
                  !.openInterest = @ \cup {Key(i) : i \in begun},
                  !.nonNull = @ \cup {Key(i) : i \in {i \in done : listed[i].open}},
                  !.expiries = @ \cup {listed[i].contract : i \in done},
                  !.raised = bad \in DOMAIN listed]

(* observe_slice for one root.  The bar is counted before its session is   *)
(* asked for, which raises when the calendar does not cover it.            *)
ObserveSlice(p, mappedNow, bar, chain, at, covered, bad) ==
    LET known   == ObserveMapping(p, mappedNow, at)
        counted == ObserveBarTime(known, at)
        placed  == [counted EXCEPT !.sessions = @ \cup {DateOf(at)},
                                   !.rollStates = IF Initialized(known)
                                                  THEN @ \cup {RollState(known.rolls, at)} ELSE @]
    IN  IF bar /\ ~covered THEN [counted EXCEPT !.raised = TRUE]
        ELSE ObserveChain(IF bar THEN placed ELSE known, chain, at, bad)

(* observe_mapping_events for one event of the root *)
ObserveEvent(p, old, new, at) ==
    LET observation == Observed(old, new, at)
        named       == [p EXCEPT !.contracts = @ \cup ({old} \ {None})]
        rolls       == Append(p.rolls, observation)
    IN  IF ~Initialized(p) \/ ~MappingAccepted(p.rolls, observation)
        THEN [named EXCEPT !.raised = TRUE]
        ELSE [named EXCEPT !.contracts = @ \cup {new}, !.rolls = rolls,
                           !.events = Append(@, at),
                           !.rollStates = @ \cup {RollState(rolls, at)},
                           !.flags = @ \cup IF at < p.last
                                            THEN {"MAPPING_EVENT_PRECEDES_LAST_OBSERVED_BAR"} ELSE {}]

(* _build_result and build_runtime_market_evidence, asked at a time not    *)
(* before the last bar                                                     *)
Evidence(p) ==
    LET missing == {f \in {"NO_ROWS_RECEIVED", "NO_MAPPED_CONTRACT_OBSERVED",
                           "NO_MAPPING_EVENT_OBSERVED"} :
                      \/ f = "NO_ROWS_RECEIVED" /\ p.rows = 0
                      \/ f = "NO_MAPPED_CONTRACT_OBSERVED" /\ p.contracts = {}
                      \/ f = "NO_MAPPING_EVENT_OBSERVED" /\ p.events = <<>>}
        unseen  == {f \in {"NO_FUTURE_CHAIN_OBSERVED", "NO_OPEN_INTEREST_OBSERVATION",
                           "NO_CONTRACT_EXPIRY_OBSERVED", "NO_SESSION_ID_OBSERVED",
                           "NO_ROLL_STATE_OBSERVED"} :
                      \/ f = "NO_FUTURE_CHAIN_OBSERVED" /\ p.chains = 0
                      \/ f = "NO_OPEN_INTEREST_OBSERVATION" /\ p.openInterest = {}
                      \/ f = "NO_CONTRACT_EXPIRY_OBSERVED" /\ p.expiries = {}
                      \/ f = "NO_SESSION_ID_OBSERVED" /\ p.sessions = {}
                      \/ f = "NO_ROLL_STATE_OBSERVED" /\ p.rollStates = {}}
        flags   == p.flags \cup missing
    IN  [status |-> IF p.rows = 0 THEN "REJECTED" ELSE IF flags # {} THEN "PARTIAL" ELSE "VALID",
         rows |-> p.rows, first |-> p.first, last |-> p.last, missing |-> p.missing,
         contracts |-> p.contracts, events |-> Len(p.events),
         firstEvent |-> IF p.events = <<>> THEN Never ELSE Min(Range(p.events)),
         lastEvent |-> IF p.events = <<>> THEN Never ELSE Max(Range(p.events)),
         openInterest |-> Cardinality(p.openInterest), nonNull |-> Cardinality(p.nonNull),
         rollStates |-> p.rollStates, flags |-> flags \cup unseen]

(* validate_data_probe_result, validate_runtime_market_probe_evidence *)
EvidenceAccepted(e) ==
    /\ e.first <= e.last
    /\ e.nonNull <= e.openInterest
    /\ IF e.events = 0 THEN e.firstEvent = Never /\ e.lastEvent = Never
       ELSE e.firstEvent # Never /\ e.firstEvent <= e.lastEvent

-----------------------------------------------------------------------------
(* CftcProbeRecorder: a delivered object has an end date and the fields    *)
(* that are not null                                                       *)

NothingDelivered ==
    [rows |-> 0, first |-> Never, last |-> Never, fields |-> 0, nullable |-> {},
     byDate |-> [date \in {} |-> <<>>]]

ReleaseKeyOfDelivery(point, at) == DateOf(at)
ReleaseKey(point, at) == point.endDate

(* _observe_point: one row a date, the last delivered *)
Deliver(c, point, at) ==
    LET key == ReleaseKey(point, at)
        row == [delivered |-> at, endDate |-> point.endDate, nonNull |-> point.nonNull]
    IN  [rows |-> c.rows + 1,
         first |-> IF c.first = Never \/ at < c.first THEN at ELSE c.first,
         last |-> IF at > c.last THEN at ELSE c.last,
         fields |-> c.fields + Cardinality(point.nonNull),
         nullable |-> c.nullable \cup (Fields \ point.nonNull),
         byDate |-> [d \in DOMAIN c.byDate \cup {key} |-> IF d = key THEN row ELSE c.byDate[d]]]

(* the audit row of an official release and the date QuantConnect dates it *)
AuditRow(c, official, date) ==
    [official |-> official, date |-> date, early |-> date < official,
     row |-> IF date \in DOMAIN c.byDate THEN <<c.byDate[date]>> ELSE <<>>]
ObservedCount(c, pairs) == Cardinality({pair \in pairs : pair[2] \in DOMAIN c.byDate})

=============================================================================
