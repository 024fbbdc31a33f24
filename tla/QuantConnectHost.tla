---------------------------- MODULE QuantConnectHost ----------------------------
(***************************************************************************)
(* The algorithms this repository puts on QuantConnect's clock: the        *)
(* measurement runtime (Lift2Runtime), or one of the probes of             *)
(* ProbeRecorder, which see the same continuous contract and the same      *)
(* mapping changes.  LEAN stops an algorithm whose handler raises.         *)
(***************************************************************************)
EXTENDS Lift2Runtime, ProbeRecorder

CONSTANTS
    Chains,       \* bound: the chains a slice may carry, as ObserveChain takes them
    Deliveries,   \* bound: CFTC objects, a set of [endDate, nonNull]
    MaxDelivered, \* bound: objects delivered
    AuditDates    \* bound: dates an audit asks about

ASSUME HostAssumption ==
    /\ \A chain \in Chains :
          chain \in Seq(Seq([contract : Contracts, open : BOOLEAN])) /\ Len(chain) <= 1
    /\ IsFiniteSet(Fields) /\ IsFiniteSet(AuditDates)
    /\ Deliveries \subseteq [endDate : Int, nonNull : SUBSET Fields]

VARIABLES
    deployed,     \* "runtime", "futures probe" or "cftc probe"
    probe,        \* FuturesProbeRecorder's state of the root
    changes,      \* mapping changes of this time whose event is still to come
    barTimes,     \* history: the times of the bars the futures probe was given
    cftc,         \* CftcProbeRecorder's state of the dataset
    delivered     \* history: the objects delivered, [at, point]

probeVars == <<probe, changes, barTimes>>
cftcVars == <<cftc, delivered>>
hostVars == <<vars, deployed, probeVars, cftcVars>>

HostInit ==
    /\ Init
    /\ deployed \in {"runtime", "futures probe", "cftc probe"}
    /\ probe = Registered(mapped)
    /\ changes = <<>> /\ barTimes = {}
    /\ cftc = NothingDelivered /\ delivered = <<>>

(* LEAN raises an event for a change of the mapped symbol, not for the     *)
(* first one                                                               *)
ProbeTime(mapping) ==
    /\ NextTime(mapping)
    /\ changes' = IF mapped # <<>> /\ mapping # mapped THEN <<[old |-> mapped[1], new |-> mapping[1]]>>
                  ELSE <<>>
    /\ UNCHANGED <<probe, barTimes, cftcVars>>

ProbeSlice(bar, chain, covered, bad) ==
    /\ ~probe.raised /\ ~sliced
    /\ sliced' = TRUE
    /\ probe' = ObserveSlice(probe, mapped, bar, chain, time, covered, bad)
    /\ barTimes' = IF bar THEN barTimes \cup {time} ELSE barTimes
    /\ UNCHANGED <<runtime, time, mapped, mappedAt, changes, cftcVars>>

ProbeEvent ==
    /\ ~probe.raised /\ changes # <<>>
    /\ probe' = ObserveEvent(probe, changes[1].old, changes[1].new, time)
    /\ changes' = <<>>
    /\ UNCHANGED <<vars, barTimes, cftcVars>>

(* a slice with a CFTC object *)
CftcSlice(point) ==
    /\ ~sliced /\ Len(delivered) < MaxDelivered
    /\ sliced' = TRUE
    /\ cftc' = Deliver(cftc, point, time)
    /\ delivered' = Append(delivered, [at |-> time, point |-> point])
    /\ UNCHANGED <<runtime, time, mapped, mappedAt, probeVars>>

HostNext ==
    /\ \/ deployed = "runtime" /\ Next /\ UNCHANGED <<probeVars, cftcVars>>
       \/ /\ deployed = "futures probe" /\ ~probe.raised
          /\ \E mapping \in {<<>>} \cup {<<c>> : c \in Contracts} : ProbeTime(mapping)
       \/ /\ deployed = "futures probe"
          /\ \E bar \in BOOLEAN, chain \in Chains, covered \in BOOLEAN, bad \in 0..2 :
               ProbeSlice(bar, chain, covered, bad)
       \/ deployed = "futures probe" /\ ProbeEvent
       \/ deployed = "cftc probe" /\ NextTime(<<>>) /\ UNCHANGED <<probeVars, cftcVars>>
       \/ deployed = "cftc probe" /\ \E point \in Deliveries : CftcSlice(point)
    /\ UNCHANGED deployed

HostSpec == HostInit /\ [][HostNext]_hostVars

-----------------------------------------------------------------------------
(* Properties *)

(* While the probe runs, the evidence it would build passes its validators *)
(* and agrees with what happened: the bars and the holes between them, the *)
(* symbols mapped at its slices and named by its events, and, for each bar *)
(* since the first mapping, the roll state its time has in the end, even   *)
(* when the event of its time came after it                                *)
(* (build_runtime_market_evidence).                                        *)
EvidenceReconciles ==
    deployed = "futures probe" /\ ~probe.raised =>
      LET e == Evidence(probe)
      IN  /\ EvidenceAccepted(e)
          /\ e.rows = Cardinality(barTimes)
          /\ barTimes # {} =>
               /\ e.first = Min(barTimes) /\ e.last = Max(barTimes)
               /\ e.missing = Cardinality({t \in barTimes : t # e.last /\ t + 1 \notin barTimes})
          /\ e.status = "VALID" => e.events > 0 /\ e.missing = 0 /\ e.rows > 0
          /\ e.contracts \subseteq UNION {Range(mappedAt[t]) : t \in 1..time}
          /\ Initialized(probe) =>
               {RollState(probe.rolls, t) : t \in {t \in barTimes : t >= probe.rolls[1].observed}}
                 \subseteq e.rollStates
          /\ (e.rows = 0) = (probe.sessions = {})

(* The audit of a release date shows the last object dated to it and finds *)
(* none where none came, whenever it was delivered, while the totals of    *)
(* the summary count also the objects whose row a later one of the date    *)
(* replaced (build_delivery_audit_json, build_summary_json).               *)
DeliveriesReconcile ==
    deployed = "cftc probe" =>
      LET Dated(date) == {i \in DOMAIN delivered : delivered[i].point.endDate = date}
          Kept(date)  == LET d == delivered[Max(Dated(date))]
                         IN  [delivered |-> d.at, endDate |-> date, nonNull |-> d.point.nonNull]
      IN  /\ \A date \in AuditDates, official \in AuditDates :
               AuditRow(cftc, official, date).row =
                 IF Dated(date) = {} THEN <<>> ELSE <<Kept(date)>>
          /\ ObservedCount(cftc, AuditDates \X AuditDates) =
               Cardinality(AuditDates)
                 * Cardinality({d.point.endDate : d \in Range(delivered)} \cap AuditDates)
          /\ cftc.rows = Len(delivered)
          /\ cftc.fields =
               Cardinality(UNION {{i} \X delivered[i].point.nonNull : i \in DOMAIN delivered})
          /\ cftc.nullable = UNION {Fields \ d.point.nonNull : d \in Range(delivered)}
          /\ delivered # <<>> => cftc.first = delivered[1].at /\ cftc.last = Last(delivered).at

=============================================================================
