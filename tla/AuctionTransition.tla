--------------------------- MODULE AuctionTransition ---------------------------
(***************************************************************************)
(* The AuctionTransitionEngine of measurement/events.py, fed one completed *)
(* fast bar at a time by MeasurementStream, and the CandidateEventGenerator*)
(* that registers what it emits.                                           *)
(*                                                                         *)
(* Ticks are abstracted to their place relative to the prior Value Area:   *)
(* -1 below VAL, 0 inside, 1 above VAH.  That is all advance compares them *)
(* with, for the close (auction_location) and for the developing POC.      *)
(***************************************************************************)
EXTENDS Integers, FiniteSets

CONSTANTS
    MaxBars,     \* bound: completed bars
    MaxSessions  \* bound: sessions

ASSUME BoundAssumption == MaxBars \in Nat /\ MaxSessions \in Nat

None        == -1
NoReference == 2     \* AuctionLocationState.NO_REFERENCE: no prior Profile
Places      == {-1, 0, 1}
Outside     == {-1, 1}

VARIABLES
    session,      \* _session_id; 0 is None
    prior,        \* whether the session has a prior_profile
    location,     \* _location
    lastPoc,      \* _last_poc_tick
    active,       \* _active_excursion_id, as the time of its exit
    direction,    \* _active_direction; 0 is None
    migrated,     \* _migration_emitted
    reentries,    \* _reentry_count
    outsideBars,  \* _consecutive_outside_bars
    time,         \* _as_of_utc; bars are numbered
    events,       \* CandidateEventGenerator._events
    visited       \* history: locations of the bars since the active exit

vars == <<session, prior, location, lastPoc, active, direction, migrated,
          reentries, outsideBars, time, events, visited>>

-----------------------------------------------------------------------------
(* advance, as functions of the engine before the bar *)

Locations(hasPrior) == IF hasPrior THEN Places ELSE {NoReference}

Exits(place) == prior /\ location = 0 /\ place \in Outside

ReentersAnySide(place) ==
    /\ location \in Outside
    /\ place = 0
    /\ active # None
Reenters(place) ==
    /\ location \in Outside
    /\ place = 0
    /\ direction = location
    /\ active # None

(* The excursion in force when the bar's POC is looked at: an exit of this *)
(* bar has just started it, a re-entry has just closed it.                 *)
ActiveAfter(place) ==
    IF Exits(place) THEN time + 1 ELSE IF Reenters(place) THEN None ELSE active
DirectionAfter(place) ==
    IF Exits(place) THEN place ELSE IF Reenters(place) THEN 0 ELSE direction
MigratedBefore(place) ==
    IF Exits(place) \/ Reenters(place) THEN FALSE ELSE migrated

(* The POC crosses to the far side of the Value Area's edge. *)
Migrates(place, poc) ==
    /\ prior
    /\ ~ MigratedBefore(place)
    /\ ActiveAfter(place) # None
    /\ lastPoc # DirectionAfter(place)
    /\ poc = DirectionAfter(place)

Event(kind, towards, parent) ==
    [kind |-> kind, time |-> time + 1, session |-> session, direction |-> towards,
     parent |-> parent]

Triggers(place, poc) ==
    (IF Exits(place) THEN {Event("exit", place, None)} ELSE {})
      \cup (IF Reenters(place) THEN {Event("reentry", - location, active)} ELSE {})
      \cup (IF Migrates(place, poc)
            THEN {Event("migration", DirectionAfter(place), ActiveAfter(place))} ELSE {})

-----------------------------------------------------------------------------

Init ==
    /\ session = 0 /\ prior = FALSE
    /\ location = NoReference /\ lastPoc = 0
    /\ active = None /\ direction = 0 /\ migrated = FALSE
    /\ reentries = 0 /\ outsideBars = 0
    /\ time = 0
    /\ events = {}
    /\ visited = {}

(* advance with the first bar of a session, whose prior Profile, if any,   *)
(* stays its reference to the end of the session: no event.                *)
FirstBarWithoutReset(hasPrior, place, poc) ==
    /\ session < MaxSessions /\ time < MaxBars
    /\ session' = session + 1
    /\ prior' = hasPrior
    /\ location' = place
    /\ lastPoc' = poc
    /\ outsideBars' = IF place \in Outside THEN 1 ELSE 0
    /\ time' = time + 1
    /\ UNCHANGED <<active, direction, migrated, reentries, events, visited>>
FirstBar(hasPrior, place, poc) ==
    /\ session < MaxSessions /\ time < MaxBars
    /\ session' = session + 1
    /\ prior' = hasPrior
    /\ location' = place
    /\ lastPoc' = poc
    /\ active' = None /\ direction' = 0 /\ migrated' = FALSE
    /\ reentries' = 0
    /\ outsideBars' = IF place \in Outside THEN 1 ELSE 0
    /\ time' = time + 1
    /\ visited' = {}
    /\ UNCHANGED events

(* advance with a later bar of the session *)
NextBar(place, poc) ==
    /\ session > 0 /\ time < MaxBars
    /\ outsideBars' = IF place \in Outside THEN outsideBars + 1 ELSE 0
    /\ active' = ActiveAfter(place)
    /\ direction' = DirectionAfter(place)
    /\ migrated' = (MigratedBefore(place) \/ Migrates(place, poc))
    /\ reentries' = IF Reenters(place) THEN reentries + 1 ELSE reentries
    /\ location' = place
    /\ lastPoc' = poc
    /\ time' = time + 1
    /\ events' = events \cup Triggers(place, poc)
    /\ visited' = IF Exits(place) THEN {place}
                  ELSE IF active' = None THEN {} ELSE visited \cup {place}
    /\ UNCHANGED <<session, prior>>

Next ==
    \/ \E hasPrior \in BOOLEAN : \E place \in Locations(hasPrior), poc \in Places :
          FirstBar(hasPrior, place, poc)
    \/ \E place \in Locations(prior), poc \in Places : NextBar(place, poc)

Spec == Init /\ [][Next]_vars

-----------------------------------------------------------------------------
(* Properties *)

(* Every field of the engine keeps its type, and every event has a side    *)
(* and the parent its kind calls for.                                      *)
TypeOK ==
    /\ session \in Nat /\ prior \in BOOLEAN
    /\ location \in Places \cup {NoReference} /\ lastPoc \in Places
    /\ active \in Nat \cup {None} /\ direction \in Places /\ migrated \in BOOLEAN
    /\ reentries \in Nat /\ outsideBars \in Nat
    /\ time \in Nat
    /\ events \subseteq [kind : {"exit", "migration", "reentry"}, time : Nat, session : Nat,
                         direction : Outside, parent : Nat \cup {None}]

(* The counters a snapshot carries agree with the events of its session:   *)
(* one re-entry counted per re-entry event, and never more re-entries than *)
(* exits.                                                                  *)
CountersMatchEvents ==
    LET mine(kind) == {e \in events : e.session = session /\ e.kind = kind}
    IN  /\ reentries = Cardinality(mine("reentry"))
        /\ Cardinality(mine("reentry")) <= Cardinality(mine("exit"))

(* An active excursion whose price is not on its own side was left through *)
(* the far side of value: a bar on the other side came in between.  Every  *)
(* direct return into value closes the excursion.                          *)
LeftOnlyByJump ==
    (active # None /\ location # direction) => - direction \in visited

Excursions == INSTANCE ExcursionLog WITH log <- events

(* The events advance emits are a log of well-formed excursions: one exit  *)
(* each, at most one migration and one re-entry, on its side, in its       *)
(* session, while it runs.                                                 *)
WellFormedExcursions == Excursions!Spec
=============================================================================
