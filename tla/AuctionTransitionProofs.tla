------------------------ MODULE AuctionTransitionProofs ------------------------
(***************************************************************************)
(* AuctionTransition implements ExcursionLog, for any number of bars and   *)
(* sessions.  The invariant says what the engine's private fields stand    *)
(* for in the log: active and direction name the latest exit, which no     *)
(* re-entry has closed, and migrated tells whether it has its migration.   *)
(* Counted exits and jumps need more of the past: the events of other      *)
(* sessions are older, and a running excursion has an exit to spare.       *)
(*                                                                         *)
(* The publication path drives the engine: each of its steps is a step of  *)
(* AuctionTransition, so what holds of the engine holds of the path, for   *)
(* every histogram, bar and length of session.                             *)
(*                                                                         *)
(* What the path reads off a histogram is proved of every histogram, from  *)
(* the sums up: the library's sum does not depend on the order it takes    *)
(* the ticks in, and the loop of the value area is followed turn by turn.  *)
(* The area is tight, and its records accept every reading but an entropy. *)
(***************************************************************************)
EXTENDS AuctionPath, FiniteSetTheorems, WellFoundedInduction, TLAPS

(* Events are in the past, and so are the exits they name. *)
EventsArePast ==
    \A e \in events :
        /\ e.time <= time /\ e.parent <= time
        /\ e.kind = "exit" => e.parent = None

ActiveIsLatestExit ==
    active # None =>
        /\ direction \in Outside
        /\ \E x \in events : /\ x.kind = "exit" /\ x.time = active
                             /\ x.session = session /\ x.direction = direction
        /\ \A y \in events : y.kind = "exit" => y.time <= active
        /\ \A c \in events : c.kind # "exit" /\ c.parent = active =>
                                c.kind = "migration" /\ migrated

Inv == TypeOK /\ EventsArePast /\ ActiveIsLatestExit

USE DEF None, Places, Outside, NoReference

(* The new engine satisfies the invariant.                                 *)
LEMMA InitInv == Init => Inv
<1>. SUFFICES ASSUME Init PROVE Inv
  OBVIOUS
<1>1. TypeOK
  BY DEF Init, TypeOK
<1>2. EventsArePast
  BY DEF Init, EventsArePast
<1>3. ActiveIsLatestExit
  BY DEF Init, ActiveIsLatestExit
<1>. QED  BY <1>1, <1>2, <1>3 DEF Inv

(* The reset of a session's first bar keeps the invariant.                 *)
LEMMA FirstBarInv ==
    ASSUME Inv, NEW hasPrior \in BOOLEAN, NEW place \in Locations(hasPrior), NEW poc \in Places,
           FirstBar(hasPrior, place, poc)
    PROVE  Inv'
<1>1. place \in Places \cup {NoReference}
  BY DEF Locations
<1>2. TypeOK'
  <2>1. prior' \in BOOLEAN /\ migrated' \in BOOLEAN
    BY Zenon DEF FirstBar
  <2>2. /\ session' \in Nat /\ location' \in Places \cup {NoReference} /\ lastPoc' \in Places
        /\ active' \in Nat \cup {None} /\ direction' \in Places
        /\ reentries' \in Nat /\ outsideBars' \in Nat /\ time' \in Nat
    BY <1>1 DEF Inv, TypeOK, FirstBar
  <2>3. events' = events
    BY DEF FirstBar
  <2>. QED  BY <2>1, <2>2, <2>3 DEF Inv, TypeOK
<1>3. EventsArePast'
  <2>1. events' = events /\ time' = time + 1
    BY DEF FirstBar
  <2>2. ASSUME NEW e \in events
        PROVE  /\ e.time <= time + 1 /\ e.parent <= time + 1
               /\ e.kind = "exit" => e.parent = None
    BY DEF Inv, TypeOK, EventsArePast
  <2>. QED  BY <2>1, <2>2 DEF EventsArePast
<1>4. ActiveIsLatestExit'
  BY DEF FirstBar, ActiveIsLatestExit
<1>. QED  BY <1>2, <1>3, <1>4 DEF Inv

(* The three triggers a bar may add. *)
LEMMA TriggerShape ==
    ASSUME Inv, NEW place \in Locations(prior), NEW poc \in Places, NEW e \in Triggers(place, poc)
    PROVE  /\ e.time = time + 1 /\ e.session = session
           /\ \/ /\ Exits(place)
                 /\ e.kind = "exit" /\ e.direction = place /\ e.parent = None
              \/ /\ Reenters(place)
                 /\ e.kind = "reentry" /\ e.direction = - location /\ e.parent = active
              \/ /\ Migrates(place, poc)
                 /\ e.kind = "migration" /\ e.direction = DirectionAfter(place)
                 /\ e.parent = ActiveAfter(place)
  BY DEF Triggers, Event

(* The events of a bar are events of its time and session.                 *)
LEMMA TriggersTyped ==
    ASSUME Inv, NEW place \in Locations(prior), NEW poc \in Places
    PROVE  Triggers(place, poc) \subseteq
             [kind : {"exit", "migration", "reentry"}, time : Nat, session : Nat,
              direction : Outside, parent : Nat \cup {None}]
<1>0. TypeOK /\ ActiveIsLatestExit
  BY DEF Inv
<1>1. Exits(place) => place \in Outside
  BY DEF Exits
<1>2. Reenters(place) => location \in Outside /\ - location \in Outside
  BY DEF Reenters
<1>3. ActiveAfter(place) \in Nat \cup {None}
  BY <1>0 DEF ActiveAfter, TypeOK
<1>4. Migrates(place, poc) => DirectionAfter(place) \in Outside
  BY <1>0, <1>1 DEF Migrates, ActiveAfter, DirectionAfter, ActiveIsLatestExit
<1>. QED  BY <1>0, <1>1, <1>2, <1>3, <1>4 DEF Triggers, Event, TypeOK

(* A later bar of the session keeps the invariant.                         *)
LEMMA NextBarInv ==
    ASSUME Inv, NEW place \in Locations(prior), NEW poc \in Places, NextBar(place, poc)
    PROVE  Inv'
<1>0. TypeOK /\ EventsArePast /\ ActiveIsLatestExit
  BY DEF Inv
<1>1. place \in Places \cup {NoReference}
  BY DEF Locations
<1>2. /\ active' = ActiveAfter(place) /\ direction' = DirectionAfter(place)
      /\ migrated' = (MigratedBefore(place) \/ Migrates(place, poc))
      /\ time' = time + 1 /\ session' = session /\ prior' = prior
      /\ events' = events \cup Triggers(place, poc)
  BY DEF NextBar
<1>3. /\ active' \in Nat \cup {None} /\ direction' \in Places /\ migrated' \in BOOLEAN
  BY <1>0, <1>2 DEF TypeOK, ActiveAfter, DirectionAfter, MigratedBefore, Exits, Migrates
<1>4. TypeOK'
  BY <1>0, <1>1, <1>2, <1>3, TriggersTyped DEF TypeOK, NextBar
<1>5. EventsArePast'
  <2>1. ASSUME NEW e \in events
        PROVE  /\ e.time <= time + 1 /\ e.parent <= time + 1
               /\ e.kind = "exit" => e.parent = None
    BY <1>0 DEF EventsArePast, TypeOK
  <2>2. ASSUME NEW e \in Triggers(place, poc)
        PROVE  /\ e.time <= time + 1 /\ e.parent <= time + 1
               /\ e.kind = "exit" => e.parent = None
    <3>1. active <= time
      <4>1. CASE active = None
        BY <4>1, <1>0 DEF TypeOK
      <4>2. CASE active # None
        BY <4>2, <1>0 DEF TypeOK, ActiveIsLatestExit, EventsArePast
      <4>. QED  BY <4>1, <4>2
    <3>2. active \in Int /\ ActiveAfter(place) \in Int /\ ActiveAfter(place) <= time + 1
      BY <3>1, <1>0 DEF TypeOK, ActiveAfter
    <3>. QED  BY <2>2, <3>1, <3>2, <1>0, TriggerShape DEF TypeOK
  <2>. QED  BY <2>1, <2>2, <1>2 DEF EventsArePast
<1>6. ActiveIsLatestExit'
  <2>1. CASE Exits(place)
    <3>1. active' = time + 1 /\ direction' = place /\ place \in Outside
      BY <2>1, <1>2 DEF ActiveAfter, DirectionAfter, Exits
    <3>2. Event("exit", place, None) \in events'
      BY <2>1, <1>2 DEF Triggers
    <3>3. \A y \in events' : y.time <= time + 1
      BY <1>0, <1>2, TriggerShape DEF EventsArePast, TypeOK
    <3>4. ASSUME NEW c \in events', c.kind # "exit", c.parent = time + 1
          PROVE  c.kind = "migration" /\ migrated'
      <4>1. c \notin events
        BY <3>4, <1>0 DEF EventsArePast, TypeOK
      <4>2. ~ Reenters(place)
        BY <2>1 DEF Exits, Reenters
      <4>. QED  BY <3>4, <4>1, <4>2, <1>2, TriggerShape
    <3>. QED  BY <3>1, <3>2, <3>3, <3>4, <1>2 DEF ActiveIsLatestExit, Event
  <2>2. CASE Reenters(place)
    <3>1. ~ Exits(place)
      BY <2>2 DEF Exits, Reenters
    <3>2. active' = None
      BY <2>2, <3>1, <1>2 DEF ActiveAfter
    <3>. QED  BY <3>2 DEF ActiveIsLatestExit
  <2>3. CASE ~ Exits(place) /\ ~ Reenters(place)
    <3>1. active' = active /\ direction' = direction /\ MigratedBefore(place) = migrated
      BY <2>3, <1>2 DEF ActiveAfter, DirectionAfter, MigratedBefore
    <3>. SUFFICES ASSUME active # None
                  PROVE  ActiveIsLatestExit'
      BY <3>1 DEF ActiveIsLatestExit
    <3>2. \A e \in Triggers(place, poc) : e.kind = "migration" /\ Migrates(place, poc)
      BY <2>3, TriggerShape
    <3>3. ASSUME NEW c \in events', c.kind # "exit", c.parent = active
          PROVE  c.kind = "migration" /\ migrated'
      BY <3>1, <3>2, <3>3, <1>0, <1>2 DEF ActiveIsLatestExit
    <3>. QED  BY <3>1, <3>2, <3>3, <1>0, <1>2 DEF ActiveIsLatestExit
  <2>. QED  BY <2>1, <2>2, <2>3
<1>. QED  BY <1>4, <1>5, <1>6 DEF Inv

(* Every step keeps the invariant.                                         *)
LEMMA NextInv == Inv /\ [Next]_vars => Inv'
<1>. SUFFICES ASSUME Inv, [Next]_vars PROVE Inv'
  OBVIOUS
<1>1. CASE \E hasPrior \in BOOLEAN : \E place \in Locations(hasPrior), poc \in Places :
             FirstBar(hasPrior, place, poc)
  BY <1>1, FirstBarInv
<1>2. CASE \E place \in Locations(prior), poc \in Places : NextBar(place, poc)
  BY <1>2, NextBarInv
<1>3. CASE UNCHANGED vars
  BY <1>3 DEF Inv, TypeOK, EventsArePast, ActiveIsLatestExit, vars
<1>. QED  BY <1>1, <1>2, <1>3 DEF Next

(* The engine's fields keep their types. *)
THEOREM TypeCorrect == Spec => []TypeOK
<1>1. Inv => TypeOK
  BY DEF Inv
<1>. QED  BY <1>1, InitInv, NextInv, PTL DEF Spec

-----------------------------------------------------------------------------
(* The bars of the engine are steps of the log *)

(* The events of a later bar are a publication of the abstract log.        *)
LEMMA NextBarPublishes ==
    ASSUME Inv, NEW place \in Locations(prior), NEW poc \in Places, NextBar(place, poc)
    PROVE  Excursions!Next
<1>. DEFINE bar == Triggers(place, poc)
<1>0. TypeOK /\ EventsArePast /\ ActiveIsLatestExit
  BY DEF Inv
<1>1. events' = events \cup bar
  BY DEF NextBar
<1>2. \A e \in bar : e.time = time + 1 /\ e.session = session /\ e \notin events
  BY <1>0, TriggerShape DEF EventsArePast, TypeOK
<1>3. events' \ events = bar
  BY <1>1, <1>2
<1>4. bar \subseteq Excursions!Event
  BY TriggersTyped DEF Excursions!Event, Excursions!Kinds, Excursions!NoParent
<1>5. \A e \in bar : \A old \in events : old.time < e.time
  BY <1>0, <1>2 DEF EventsArePast, TypeOK
<1>6. \A e, f \in bar : e.kind = f.kind => e = f
  BY DEF Triggers, Event
<1>7. \A e \in Excursions!Exits(bar) : e.parent = Excursions!NoParent
  BY TriggerShape DEF Excursions!Exits, Excursions!NoParent
<1>8. ASSUME NEW e \in bar \ Excursions!Exits(bar)
      PROVE  \E exit \in Excursions!Exits(events \cup bar) :
                /\ Excursions!Running(events \cup Excursions!Exits(bar), exit)
                /\ Excursions!Continues(e, exit)
                /\ \A child \in Excursions!Children(events, exit) : child.kind # e.kind
  <2>1. e.kind # "exit" /\ e \in bar
    BY DEF Excursions!Exits
  <2>2. CASE Exits(place)
    <3>. DEFINE x == Event("exit", place, None)
    <3>1. x \in bar /\ x.kind = "exit" /\ x.time = time + 1 /\ x.session = session
          /\ x.direction = place
      BY <2>2 DEF Triggers, Event
    <3>2. ~ Reenters(place)
      BY <2>2 DEF Exits, Reenters
    <3>3. /\ e.kind = "migration" /\ e.direction = place /\ e.parent = time + 1
          /\ e.session = session
      BY <2>1, <2>2, <3>2, TriggerShape DEF ActiveAfter, DirectionAfter
    <3>4. \A c \in events : c.parent # time + 1
      BY <1>0 DEF EventsArePast, TypeOK
    <3>5. \A y \in events \cup bar : y.time <= time + 1
      BY <1>0, <1>2 DEF EventsArePast, TypeOK
    <3>6. Excursions!Children(events \cup Excursions!Exits(bar), x) = {}
      BY <3>1, <3>4 DEF Excursions!Children, Excursions!Exits
    <3>7. Excursions!Children(events, x) = {}
      BY <3>1, <3>4 DEF Excursions!Children
    <3>8. Excursions!Running(events \cup Excursions!Exits(bar), x)
      BY <3>1, <3>5, <3>6 DEF Excursions!Running, Excursions!Exits
    <3>9. Excursions!Continues(e, x)
      BY <3>1, <3>3 DEF Excursions!Continues
    <3>. QED  BY <3>1, <3>7, <3>8, <3>9 DEF Excursions!Exits
  <2>3. CASE ~ Exits(place)
    <3>1. Excursions!Exits(bar) = {}
      BY <2>3, TriggerShape DEF Excursions!Exits
    <3>2. active # None /\ e.parent = active /\ e.session = session
      BY <2>1, <2>3, TriggerShape DEF Reenters, Migrates, ActiveAfter
    <3>3. PICK x \in events : /\ x.kind = "exit" /\ x.time = active
                              /\ x.session = session /\ x.direction = direction
      BY <3>2, <1>0 DEF ActiveIsLatestExit
    <3>4. \A y \in events : y.kind = "exit" => y.time <= active
      BY <3>2, <1>0 DEF ActiveIsLatestExit
    <3>5. \A c \in Excursions!Children(events, x) : c.kind = "migration" /\ migrated
      BY <3>2, <3>3, <1>0 DEF ActiveIsLatestExit, Excursions!Children
    <3>6. Excursions!Running(events \cup Excursions!Exits(bar), x)
      BY <3>1, <3>3, <3>4, <3>5 DEF Excursions!Running, Excursions!Exits
    <3>7. CASE e.kind = "reentry"
      <4>1. e.direction = - location /\ direction = location
        BY <3>7, <2>1, TriggerShape DEF Reenters
      <4>2. Excursions!Continues(e, x)
        BY <4>1, <3>2, <3>3, <3>7 DEF Excursions!Continues
      <4>. QED  BY <4>2, <3>3, <3>5, <3>6, <3>7 DEF Excursions!Exits
    <3>8. CASE e.kind = "migration"
      <4>1. Migrates(place, poc) /\ e.direction = DirectionAfter(place)
            /\ e.parent = ActiveAfter(place)
        BY <3>8, <2>1, TriggerShape
      <4>2. ~ Reenters(place)
        BY <4>1, <2>3 DEF Migrates, ActiveAfter
      <4>3. e.direction = direction /\ ~ migrated
        BY <4>1, <4>2, <2>3 DEF Migrates, DirectionAfter, MigratedBefore
      <4>4. Excursions!Continues(e, x)
        BY <4>3, <3>2, <3>3, <3>8 DEF Excursions!Continues
      <4>. QED  BY <4>3, <4>4, <3>3, <3>5, <3>6 DEF Excursions!Exits
    <3>. QED  BY <3>7, <3>8, <2>1, TriggerShape
  <2>. QED  BY <2>2, <2>3
<1>. HIDE DEF bar
<1>9. Excursions!Publish(bar)
  BY <1>1, <1>2, <1>4, <1>5, <1>6, <1>7, <1>8 DEF Excursions!Publish
<1>. QED  BY <1>3, <1>9 DEF Excursions!Next

(* Every exit, migration and re-entry event of the engine, through any     *)
(* sequence of bars and sessions, makes a log of well-formed excursions.   *)
THEOREM ImplementsExcursionLog == Spec => WellFormedExcursions
<1>1. Init => Excursions!Init
  BY DEF Init, Excursions!Init
<1>2. Inv /\ [Next]_vars => [Excursions!Next]_events
  <2>. SUFFICES ASSUME Inv, [Next]_vars PROVE [Excursions!Next]_events
    OBVIOUS
  <2>1. CASE \E hasPrior \in BOOLEAN : \E place \in Locations(hasPrior), poc \in Places :
               FirstBar(hasPrior, place, poc)
    BY <2>1 DEF FirstBar
  <2>2. CASE \E place \in Locations(prior), poc \in Places : NextBar(place, poc)
    BY <2>2, NextBarPublishes
  <2>3. CASE UNCHANGED vars
    BY <2>3 DEF vars
  <2>. QED  BY <2>1, <2>2, <2>3 DEF Next
<1>. QED
  BY <1>1, <1>2, InitInv, NextInv, PTL DEF Spec, WellFormedExcursions, Excursions!Spec

-----------------------------------------------------------------------------
(* Counters and jumps *)

Of(log, s, kind) == {e \in log : e.session = s /\ e.kind = kind}

(* An excursion that runs has an exit no re-entry was counted for. *)
Counted ==
    /\ IsFiniteSet(events)
    /\ \A e \in events : e.session <= session
    /\ reentries = Cardinality(Of(events, session, "reentry"))
    /\ Cardinality(Of(events, session, "reentry")) <= Cardinality(Of(events, session, "exit"))
    /\ active # None =>
          Cardinality(Of(events, session, "reentry")) < Cardinality(Of(events, session, "exit"))

RunsUnderReference == active # None => prior

(* The bar that opens a session finds no event of it.                      *)
LEMMA FirstBarCounted ==
    ASSUME Inv, Counted, NEW hasPrior \in BOOLEAN, NEW place \in Locations(hasPrior),
           NEW poc \in Places, FirstBar(hasPrior, place, poc)
    PROVE  Counted'
<1>1. events' = events /\ session' = session + 1 /\ active' = None /\ reentries' = 0
  BY DEF FirstBar
<1>2. session \in Nat /\ \A e \in events : e.session \in Nat
  BY DEF Inv, TypeOK
<1>3. \A e \in events : e.session <= session /\ e.session # session'
  BY <1>1, <1>2 DEF Counted
<1>4. Of(events', session', "reentry") = {} /\ Of(events', session', "exit") = {}
  BY <1>1, <1>3 DEF Of
<1>5. IsFiniteSet(events')
  BY <1>1 DEF Counted
<1>6. \A e \in events' : e.session <= session'
  BY <1>1, <1>2, <1>3
<1>7. Cardinality({}) = 0
  BY FS_EmptySet
<1>. QED  BY <1>1, <1>4, <1>5, <1>6, <1>7 DEF Counted

(* A later bar adds at most one event of each kind.                        *)
LEMMA NextBarCounted ==
    ASSUME Inv, Counted, NEW place \in Locations(prior), NEW poc \in Places,
           NextBar(place, poc)
    PROVE  Counted'
<1>. DEFINE bar == Triggers(place, poc)
            exit == Event("exit", place, None)
            back == Event("reentry", - location, active)
            exits == Of(events, session, "exit")
            reentered == Of(events, session, "reentry")
<1>0. TypeOK /\ EventsArePast /\ ActiveIsLatestExit
  BY DEF Inv
<1>1. /\ events' = events \cup bar /\ session' = session /\ active' = ActiveAfter(place)
      /\ reentries' = IF Reenters(place) THEN reentries + 1 ELSE reentries
  BY DEF NextBar
<1>2. exit \notin events /\ back \notin events
  BY <1>0 DEF EventsArePast, TypeOK, Event
<1>3. IsFiniteSet(events')
  <2>1. \E a, b, c : bar \subseteq {a, b, c}
    BY DEF Triggers
  <2>2. PICK a, b, c : bar \subseteq {a, b, c}
    BY <2>1
  <2>3. IsFiniteSet({a}) /\ IsFiniteSet({a} \cup {b}) /\ IsFiniteSet(({a} \cup {b}) \cup {c})
    BY FS_Singleton, FS_AddElement
  <2>4. bar \in SUBSET (({a} \cup {b}) \cup {c})
    BY <2>2
  <2>5. IsFiniteSet(bar)
    BY <2>3, <2>4, FS_Subset
  <2>. QED  BY <2>5, <1>1, FS_Union DEF Counted
<1>4. \A e \in events' : e.session <= session'
  BY <1>0, <1>1, TriggerShape DEF Counted, TypeOK
<1>5. /\ IsFiniteSet(exits) /\ IsFiniteSet(reentered)
      /\ Cardinality(exits) \in Nat /\ Cardinality(reentered) \in Nat
  <2>1. exits \in SUBSET events /\ reentered \in SUBSET events
    BY DEF Of
  <2>2. IsFiniteSet(exits) /\ IsFiniteSet(reentered)
    BY <2>1, FS_Subset DEF Counted
  <2>. QED  BY <2>2, FS_CardinalityType
<1>6. /\ Exits(place) => exits' = exits \cup {exit}
      /\ ~ Exits(place) => exits' = exits
      /\ Reenters(place) => reentered' = reentered \cup {back}
      /\ ~ Reenters(place) => reentered' = reentered
  <2>1. ASSUME NEW e \in bar
        PROVE  \/ Exits(place) /\ e = exit
               \/ Reenters(place) /\ e = back
               \/ e.kind = "migration"
    BY DEF Triggers, Event
  <2>2. /\ Exits(place) => exit \in bar
        /\ Reenters(place) => back \in bar
        /\ exit.kind = "exit" /\ back.kind = "reentry"
        /\ exit.session = session /\ back.session = session
    BY DEF Triggers, Event
  <2>. HIDE DEF exit, back, bar
  <2>. QED  BY <1>1, <2>1, <2>2 DEF Of
<1>7. ~ (Exits(place) /\ Reenters(place))
  BY DEF Exits, Reenters
<1>8. exit \notin exits /\ back \notin reentered
  BY <1>2 DEF Of
<1>. HIDE DEF exit, back, bar
<1>9. CASE Exits(place)
  <2>1. Cardinality(exits') = Cardinality(exits) + 1
    BY <1>5, <1>6, <1>8, <1>9, FS_AddElement
  <2>2. reentered' = reentered /\ reentries' = reentries
    BY <1>1, <1>6, <1>7, <1>9
  <2>. QED  BY <2>1, <2>2, <1>3, <1>4, <1>5 DEF Counted
<1>10. CASE Reenters(place)
  <2>1. Cardinality(reentered') = Cardinality(reentered) + 1
    BY <1>5, <1>6, <1>8, <1>10, FS_AddElement
  <2>2. exits' = exits /\ reentries' = reentries + 1
    BY <1>1, <1>6, <1>7, <1>10
  <2>3. active # None /\ active' = None
    BY <1>1, <1>7, <1>10 DEF Reenters, ActiveAfter
  <2>. QED  BY <2>1, <2>2, <2>3, <1>3, <1>4, <1>5 DEF Counted
<1>11. CASE ~ Exits(place) /\ ~ Reenters(place)
  <2>1. /\ exits' = exits /\ reentered' = reentered
        /\ reentries' = reentries /\ active' = active
    BY <1>1, <1>6, <1>11 DEF ActiveAfter
  <2>. QED  BY <2>1, <1>3, <1>4 DEF Counted
<1>. QED  BY <1>9, <1>10, <1>11

(* Every step keeps the counters right.                                    *)
LEMMA NextCounted == Inv /\ Counted /\ [Next]_vars => Counted'
<1>. SUFFICES ASSUME Inv, Counted, [Next]_vars PROVE Counted'
  OBVIOUS
<1>1. CASE \E hasPrior \in BOOLEAN : \E place \in Locations(hasPrior), poc \in Places :
             FirstBar(hasPrior, place, poc)
  BY <1>1, FirstBarCounted
<1>2. CASE \E place \in Locations(prior), poc \in Places : NextBar(place, poc)
  BY <1>2, NextBarCounted
<1>3. CASE UNCHANGED vars
  BY <1>3 DEF Counted, Of, vars
<1>. QED  BY <1>1, <1>2, <1>3 DEF Next

(* The re-entries a snapshot counts are the re-entry events of its         *)
(* session, and never outnumber its exits.                                 *)
THEOREM CountersAreRight == Spec => []CountersMatchEvents
<1>1. Init => Counted
  <2>. SUFFICES ASSUME Init PROVE Counted
    OBVIOUS
  <2>1. /\ Of(events, session, "reentry") = {} /\ Of(events, session, "exit") = {}
        /\ events = {} /\ reentries = 0 /\ active = None
    BY DEF Init, Of
  <2>. QED  BY <2>1, FS_EmptySet DEF Counted
<1>2. Counted => CountersMatchEvents
  BY DEF Counted, CountersMatchEvents, Of
<1>. QED  BY <1>1, <1>2, InitInv, NextInv, NextCounted, PTL DEF Spec

(* A bar inside value closes an excursion whose last bar was on its side;  *)
(* any other way off that side passes the far one.                         *)
LEMMA NextJump ==
    Inv /\ RunsUnderReference /\ LeftOnlyByJump /\ [Next]_vars
      => RunsUnderReference' /\ LeftOnlyByJump'
<1>. SUFFICES ASSUME Inv, RunsUnderReference, LeftOnlyByJump, [Next]_vars
              PROVE  RunsUnderReference' /\ LeftOnlyByJump'
  OBVIOUS
<1>1. ASSUME NEW hasPrior \in BOOLEAN, NEW place \in Locations(hasPrior), NEW poc \in Places,
             FirstBar(hasPrior, place, poc)
      PROVE  RunsUnderReference' /\ LeftOnlyByJump'
  BY <1>1 DEF FirstBar, RunsUnderReference, LeftOnlyByJump
<1>2. ASSUME NEW place \in Locations(prior), NEW poc \in Places, NextBar(place, poc)
      PROVE  RunsUnderReference' /\ LeftOnlyByJump'
  <2>1. /\ active' = ActiveAfter(place) /\ direction' = DirectionAfter(place)
        /\ location' = place /\ prior' = prior
        /\ visited' = IF Exits(place) THEN {place}
                      ELSE IF active' = None THEN {} ELSE visited \cup {place}
    BY <1>2 DEF NextBar
  <2>2. CASE Exits(place)
    BY <2>1, <2>2 DEF RunsUnderReference, LeftOnlyByJump, Exits, DirectionAfter
  <2>3. CASE ~ Exits(place) /\ Reenters(place)
    BY <2>1, <2>3 DEF RunsUnderReference, LeftOnlyByJump, ActiveAfter
  <2>4. CASE ~ Exits(place) /\ ~ Reenters(place)
    <3>1. active' = active /\ direction' = direction
      BY <2>1, <2>4 DEF ActiveAfter, DirectionAfter
    <3>2. RunsUnderReference'
      BY <2>1, <3>1 DEF RunsUnderReference
    <3>3. ASSUME active # None, place # direction
          PROVE  - direction \in visited \cup {place}
      <4>1. direction \in Outside /\ place \in Places
        BY <3>3 DEF Inv, ActiveIsLatestExit, RunsUnderReference, Locations
      <4>2. CASE place = 0
        BY <4>1, <4>2, <2>4, <3>3 DEF LeftOnlyByJump, Reenters
      <4>3. CASE place # 0
        BY <4>1, <4>3, <3>3
      <4>. QED  BY <4>2, <4>3
    <3>. QED  BY <2>1, <2>4, <3>1, <3>2, <3>3 DEF LeftOnlyByJump
  <2>. QED  BY <2>2, <2>3, <2>4
<1>3. CASE UNCHANGED vars
  BY <1>3 DEF RunsUnderReference, LeftOnlyByJump, vars
<1>. QED  BY <1>1, <1>2, <1>3 DEF Next

(* A stale excursion was left by a jump across value, and by nothing else. *)
THEOREM LeftByJump == Spec => []LeftOnlyByJump
<1>1. Init => RunsUnderReference /\ LeftOnlyByJump
  BY DEF Init, RunsUnderReference, LeftOnlyByJump
<1>. QED  BY <1>1, InitInv, NextInv, NextJump, PTL DEF Spec
-----------------------------------------------------------------------------
(* The publication path *)

(* The place of any price is one the engine distinguishes.                 *)
LEMMA PlaceRange == \A tick, area : Place(tick, area) \in Places
  BY DEF Place

Closes == {bar.close : bar \in Bars} \cup UNION {DOMAIN h : h \in Openings}

(* The engine's run of outside bars ends the closes: it reaches back to an *)
(* inner close, or to the first of the session.                            *)
RunEndsCloses(r) ==
    LET first == Len(closes) - outsideBars
    IN  /\ first \in 0..Len(closes)
        /\ \A i \in (first + 1)..Len(closes) : Place(closes[i], r) # 0
        /\ first > 0 => Place(closes[first], r) = 0

PathInv ==
    /\ closes \in Seq(Closes)
    /\ prior <=> reference # {}
    /\ \A r, s \in reference : r = s
    /\ \A r \in reference : RunEndsCloses(r)

(* The first bar of a session is a first bar of the engine.                *)
LEMMA OpenSessionStep ==
    ASSUME Inv, PathInv, NEW bar, bar.close \in Closes, OpenSession(bar)
    PROVE  [Next]_vars /\ PathInv'
<1>. DEFINE prior_ == IF session = 0 THEN {} ELSE {FinalProfile}
            p == Snapshot(bar.volume, bar.close, time + 1)
            towards == Place(bar.close, FinalProfile)
<1>1. CASE RaiseAtPublication
  <2>1. UNCHANGED <<vars, closes, reference>>
    BY <1>1 DEF RaiseAtPublication
  <2>. QED  BY <2>1 DEF PathInv, RunEndsCloses, vars
<1>2. CASE ~ RaiseAtPublication
  <2>1. /\ closes' = <<bar.close>> /\ reference' = prior_
        /\ IF prior_ = {} THEN FirstBar(FALSE, NoReference, 0)
           ELSE FirstBar(TRUE, towards, Place(p.poc, FinalProfile))
    BY <1>2 DEF OpenSession, FirstCloses
  <2>2. /\ closes' \in Seq(Closes) /\ Len(closes') = 1 /\ closes'[1] = bar.close
    BY <2>1
  <2>. HIDE DEF p, towards
  <2>3. CASE session = 0
    <3>1. FirstBar(FALSE, NoReference, 0) /\ reference' = {}
      BY <2>1, <2>3
    <3>2. NoReference \in Locations(FALSE) /\ 0 \in Places
      BY DEF Locations
    <3>3. [Next]_vars
      BY <3>1, <3>2 DEF Next
    <3>4. prior' = FALSE
      BY <3>1 DEF FirstBar
    <3>. QED  BY <2>2, <3>1, <3>3, <3>4 DEF PathInv
  <2>4. CASE session # 0
    <3>1. /\ FirstBar(TRUE, towards, Place(p.poc, FinalProfile))
          /\ reference' = {FinalProfile}
      BY <2>1, <2>4
    <3>2. towards \in Locations(TRUE) /\ Place(p.poc, FinalProfile) \in Places
      BY PlaceRange DEF Locations, towards
    <3>3. [Next]_vars
      BY <3>1, <3>2 DEF Next
    <3>4. prior' = TRUE /\ outsideBars' = IF towards \in Outside THEN 1 ELSE 0
      BY <3>1 DEF FirstBar
    <3>. HIDE DEF RaiseAtPublication
    <3>5. ASSUME NEW r \in reference' PROVE RunEndsCloses(r)'
      <4>1. Place(closes'[1], r) = towards
        BY <2>2, <3>1 DEF towards
      <4>. QED  BY <4>1, <2>2, <3>2, <3>4 DEF RunEndsCloses, Locations
    <3>. QED  BY <2>2, <3>1, <3>3, <3>4, <3>5 DEF PathInv
  <2>. QED  BY <2>3, <2>4
<1>. QED  BY <1>1, <1>2

(* A later bar of the session is a later bar of the engine.                *)
LEMMA AddBarStep ==
    ASSUME Inv, PathInv, NEW bar, bar.close \in Closes, AddBar(bar)
    PROVE  [Next]_vars /\ PathInv'
<1>. DEFINE p == Snapshot(Merge(volume, bar.volume), bar.close, time + 1)
<1>1. CASE RaiseAtPublication
  <2>1. UNCHANGED <<vars, closes, reference>>
    BY <1>1 DEF RaiseAtPublication
  <2>. QED  BY <2>1 DEF PathInv, RunEndsCloses, vars
<1>2. CASE ~ RaiseAtPublication
  <2>1. /\ closes' = Append(closes, bar.close) /\ reference' = reference
        /\ IF reference = {} THEN NextBar(NoReference, 0)
           ELSE \E r \in reference : NextBar(Place(bar.close, r), Place(p.poc, r))
    BY <1>2 DEF AddBar
  <2>. HIDE DEF p
  <2>2. /\ closes' \in Seq(Closes) /\ Len(closes) \in Nat /\ Len(closes') = Len(closes) + 1
        /\ \A i \in 1..Len(closes) : closes'[i] = closes[i]
        /\ closes'[Len(closes')] = bar.close
    BY <2>1 DEF PathInv
  <2>3. CASE reference = {}
    <3>1. NextBar(NoReference, 0) /\ prior = FALSE
      BY <2>1, <2>3 DEF PathInv, Inv, TypeOK
    <3>2. NoReference \in Locations(prior) /\ 0 \in Places
      BY <3>1 DEF Locations
    <3>3. [Next]_vars
      BY <3>1, <3>2 DEF Next
    <3>4. prior' = FALSE
      BY <3>1 DEF NextBar
    <3>. QED  BY <2>1, <2>2, <2>3, <3>3, <3>4 DEF PathInv
  <2>4. CASE reference # {}
    <3>1. PICK r \in reference : NextBar(Place(bar.close, r), Place(p.poc, r))
      BY <2>1, <2>4
    <3>. DEFINE towards == Place(bar.close, r)
    <3>2. prior /\ towards \in Locations(prior) /\ Place(p.poc, r) \in Places
      BY <2>4, PlaceRange DEF Locations, PathInv
    <3>3. [Next]_vars
      BY <3>1, <3>2 DEF Next
    <3>4. prior' = prior /\ outsideBars' = IF towards \in Outside THEN outsideBars + 1 ELSE 0
      BY <3>1 DEF NextBar
    <3>5. towards \in Places
      BY PlaceRange
    <3>6. Place(closes'[Len(closes')], r) = towards
      BY <2>2
    <3>7. RunEndsCloses(r) /\ outsideBars \in Nat
      BY DEF PathInv, Inv, TypeOK
    <3>. HIDE DEF towards, RaiseAtPublication
    <3>8. RunEndsCloses(r)'
      <4>. DEFINE first == Len(closes) - outsideBars
      <4>1. /\ first \in 0..Len(closes)
            /\ \A i \in (first + 1)..Len(closes) : Place(closes[i], r) # 0
            /\ first > 0 => Place(closes[first], r) = 0
        BY <3>7 DEF RunEndsCloses
      <4>2. CASE towards \in Outside
        <5>1. Len(closes') - outsideBars' = first
          BY <4>2, <3>4, <3>7, <2>2
        <5>2. \A i \in (first + 1)..Len(closes') : Place(closes'[i], r) # 0
          BY <4>1, <4>2, <3>6, <2>2
        <5>3. first > 0 => Place(closes'[first], r) = 0
          BY <4>1, <2>2
        <5>4. first \in 0..Len(closes')
          BY <4>1, <2>2
        <5>. QED  BY <5>1, <5>2, <5>3, <5>4 DEF RunEndsCloses
      <4>3. CASE towards = 0
        <5>1. Len(closes') - outsideBars' = Len(closes')
          BY <4>3, <3>4, <2>2
        <5>. QED  BY <5>1, <4>3, <3>6, <2>2 DEF RunEndsCloses
      <4>. QED  BY <4>2, <4>3, <3>5
    <3>. QED  BY <2>1, <2>2, <2>4, <3>2, <3>3, <3>4, <3>8 DEF PathInv
  <2>. QED  BY <2>3, <2>4
<1>. QED  BY <1>1, <1>2

(* Every step of the path is a step of the engine, or leaves it alone.     *)
LEMMA PathStep == Inv /\ PathInv /\ [PathNext]_pathVars => [Next]_vars /\ PathInv'
<1>. SUFFICES ASSUME Inv, PathInv, [PathNext]_pathVars PROVE [Next]_vars /\ PathInv'
  OBVIOUS
<1>1. ASSUME NEW h \in Openings, NEW close \in DOMAIN h,
             OpenSession([volume |-> h, close |-> close])
      PROVE  [Next]_vars /\ PathInv'
  <2>. DEFINE bar == [volume |-> h, close |-> close]
  <2>1. bar.close \in Closes
    BY DEF Closes
  <2>2. OpenSession(bar)
    BY <1>1
  <2>. HIDE DEF bar
  <2>. QED  BY <2>1, <2>2, OpenSessionStep
<1>2. ASSUME NEW bar \in Bars, OpenSession(bar)
      PROVE  [Next]_vars /\ PathInv'
  BY <1>2, OpenSessionStep DEF Closes
<1>3. ASSUME NEW bar \in Bars, AddBar(bar)
      PROVE  [Next]_vars /\ PathInv'
  BY <1>3, AddBarStep DEF Closes
<1>4. CASE UNCHANGED pathVars
  BY <1>4 DEF pathVars, vars, PathInv, RunEndsCloses
<1>. QED  BY <1>1, <1>2, <1>3, <1>4 DEF PathNext

(* The engine fed by the path is the engine fed any bars at all.           *)
THEOREM PathRunsEngine == PathSpec => Spec
<1>1. PathInit => Init /\ PathInv
  BY DEF PathInit, PathInv, Init
<1>. QED
  BY <1>1, PathStep, InitInv, NextInv, PTL DEF PathSpec, Spec

(* So what the engine guarantees holds on the publication path.            *)
THEOREM PathGuarantees ==
    PathSpec => [](TypeOK /\ CountersMatchEvents /\ LeftOnlyByJump) /\ WellFormedExcursions
  BY PathRunsEngine, TypeCorrect, CountersAreRight, LeftByJump, ImplementsExcursionLog, PTL

(* A number of a set that no other exceeds is the one Max picks.           *)
LEMMA MaxIs ==
    ASSUME NEW S \in SUBSET Int, NEW m \in S, \A y \in S : m >= y
    PROVE  Max(S) = m
<1>1. \E x \in S : \A y \in S : x >= y
  OBVIOUS
<1>2. Max(S) \in S /\ \A y \in S : Max(S) >= y
  BY <1>1, Zenon DEF Max
<1>3. Max(S) \in Int /\ m \in Int /\ m >= Max(S) /\ Max(S) >= m
  BY <1>2
<1>. QED  BY <1>3

(* The engine and the features count the same run of bars outside value.   *)
THEOREM OutsideBarsCounted == PathSpec => []OutsideBarsAgree
<1>1. PathInit => Init /\ PathInv
  BY DEF PathInit, PathInv, Init
<1>2. Inv /\ PathInv => OutsideBarsAgree
  <2>. SUFFICES ASSUME Inv, PathInv, NEW r \in reference
                PROVE  LET last  == Len(closes)
                           out   == {i \in DOMAIN closes : Place(closes[i], r) # 0}
                           inner == {0} \cup (DOMAIN closes \ out)
                       IN  outsideBars = last - Max(inner)
    BY DEF OutsideBarsAgree
  <2>. DEFINE inner == {0} \cup (DOMAIN closes
                                   \ {i \in DOMAIN closes : Place(closes[i], r) # 0})
              first == Len(closes) - outsideBars
  <2>1. RunEndsCloses(r) /\ outsideBars \in Nat
    BY DEF PathInv, Inv, TypeOK
  <2>2. Len(closes) \in Nat /\ DOMAIN closes = 1..Len(closes)
    BY DEF PathInv
  <2>3. inner \in SUBSET Int
    BY <2>2
  <2>4. first \in inner
    <3>1. first \in 0..Len(closes) /\ (first > 0 => Place(closes[first], r) = 0)
      BY <2>1 DEF RunEndsCloses
    <3>. QED  BY <3>1, <2>2
  <2>5. \A i \in inner : first >= i
    BY <2>1, <2>2 DEF RunEndsCloses
  <2>. HIDE DEF inner
  <2>6. Max(inner) = first
    BY <2>3, <2>4, <2>5, MaxIs
  <2>. QED  BY <2>1, <2>2, <2>6 DEF inner
<1>. QED
  BY <1>1, <1>2, PathStep, InitInv, NextInv, PTL DEF PathSpec

-----------------------------------------------------------------------------
(* Induction over a range and over a finite set *)

(* A nonempty set of naturals has a least element.                         *)
LEMMA LeastExists ==
    ASSUME NEW S \in SUBSET Nat, S # {}
    PROVE  \E x \in S : \A y \in S : x <= y
<1>1. OpToRel(<, Nat) = {ss \in Nat \X Nat : ss[1] < ss[2]}
  BY DEF OpToRel
<1>2. PICK x \in S : \A y \in S : ~ (<<y, x>> \in OpToRel(<, Nat))
  BY NatLessThanWellFounded, WFMin
<1>3. \A y \in S : ~ (y < x)
  BY <1>1, <1>2
<1>. QED  BY <1>3

(* A set that holds 0 and, with a number, the next one holds them all.     *)
LEMMA RangeInduction ==
    ASSUME NEW n \in Nat, NEW S, 0 \in S, \A t \in 1..n : t - 1 \in S => t \in S
    PROVE  \A t \in 0..n : t \in S
<1>. DEFINE others == {t \in 0..n : t \notin S}
<1>. SUFFICES ASSUME others # {} PROVE FALSE
  OBVIOUS
<1>1. others \in SUBSET Nat
  OBVIOUS
<1>2. PICK t \in others : \A u \in others : t <= u
  <2>. HIDE DEF others
  <2>. QED  BY <1>1, LeastExists
<1>3. t \in 1..n /\ t - 1 \in 0..n /\ t - 1 < t
  OBVIOUS
<1>4. t - 1 \notin others
  BY <1>2, <1>3
<1>. QED  BY <1>3, <1>4

(* Taking an element of a finite set away.                                 *)
LEMMA OneLess ==
    ASSUME NEW s, IsFiniteSet(s), NEW x \in s
    PROVE  /\ IsFiniteSet(s \ {x}) /\ Cardinality(s) \in Nat /\ Cardinality(s \ {x}) \in Nat
           /\ Cardinality(s) = Cardinality(s \ {x}) + 1
<1>1. IsFiniteSet(s \ {x}) /\ Cardinality(s \ {x}) = Cardinality(s) - 1
  BY FS_RemoveElement
<1>2. Cardinality(s) \in Nat /\ Cardinality(s \ {x}) \in Nat
  BY <1>1, FS_CardinalityType
<1>. QED  BY <1>1, <1>2

(* A set that holds every subset of S all of whose subsets with an element *)
(* less it holds, holds all subsets of S.                                  *)
LEMMA SubsetInduction ==
    ASSUME NEW S, IsFiniteSet(S), NEW K,
           \A T \in SUBSET S : (\A x \in T : T \ {x} \in K) => T \in K
    PROVE  \A T \in SUBSET S : T \in K
<1>. DEFINE n == Cardinality(S)
            R == {k \in 0..n : \A T \in SUBSET S : Cardinality(T) = k => T \in K}
<1>0. n \in Nat /\ \A T \in SUBSET S : IsFiniteSet(T) /\ Cardinality(T) \in 0..n
  BY FS_CardinalityType, FS_Subset
<1>1. 0 \in R
  <2>1. ASSUME NEW T \in SUBSET S, Cardinality(T) = 0 PROVE T \in K
    <3>1. T = {}
      BY <1>0, <2>1, FS_EmptySet
    <3>. QED  BY <3>1
  <2>. QED  BY <1>0, <2>1
<1>2. ASSUME NEW k \in 1..n, k - 1 \in R PROVE k \in R
  <2>1. ASSUME NEW T \in SUBSET S, Cardinality(T) = k PROVE T \in K
    <3>1. \A x \in T : T \ {x} \in SUBSET S /\ Cardinality(T \ {x}) = k - 1
      BY <1>0, <2>1, OneLess
    <3>2. \A x \in T : T \ {x} \in K
      BY <1>2, <3>1
    <3>. QED  BY <3>2
  <2>. QED  BY <1>0, <2>1
<1>3. \A k \in 0..n : k \in R
  <2>. HIDE DEF R, n
  <2>. QED  BY <1>0, <1>1, <1>2, RangeInduction
<1>. QED  BY <1>0, <1>3

-----------------------------------------------------------------------------
(* Sums over a histogram *)

Chosen(s) == CHOOSE x \in s : TRUE
Turn(g, h, s) == IF s = {} THEN 0 ELSE h[Chosen(s)] + g[s \ {Chosen(s)}]

(* The sums of h over the subsets of S, as the fold computes them.         *)
IsSums(g, h, S) == g = [s \in SUBSET S |-> Turn(g, h, s)]

Sum(h, S) == MapThenSumSet(LAMBDA t : h[t], S)

(* There are such sums.                                                    *)
LEMMA SumsExist ==
    ASSUME NEW S, IsFiniteSet(S), NEW h
    PROVE  \E g : IsSums(g, h, S)
<1>. DEFINE n == Cardinality(S)
            Small(k) == {s \in SUBSET S : Cardinality(s) <= k}
            R == {k \in 0..n : \E g : g = [s \in Small(k) |-> Turn(g, h, s)]}
<1>0. n \in Nat /\ \A s \in SUBSET S : Cardinality(s) \in 0..n
  BY FS_CardinalityType, FS_Subset
<1>1. 0 \in R
  <2>. DEFINE g == [s \in Small(0) |-> 0]
  <2>1. ASSUME NEW s \in Small(0) PROVE g[s] = Turn(g, h, s)
    <3>1. s = {}
      BY <1>0, FS_EmptySet, FS_Subset
    <3>. QED  BY <3>1 DEF Turn
  <2>2. g = [s \in Small(0) |-> g[s]]
    OBVIOUS
  <2>. HIDE DEF g
  <2>3. g = [s \in Small(0) |-> Turn(g, h, s)]
    BY <2>1, <2>2
  <2>. QED  BY <1>0, <2>3
<1>2. ASSUME NEW k \in 1..n, k - 1 \in R PROVE k \in R
  <2>1. PICK f : f = [s \in Small(k - 1) |-> Turn(f, h, s)]
    BY <1>2
  <2>. DEFINE g == [s \in Small(k) |-> IF Cardinality(s) = k THEN Turn(f, h, s) ELSE f[s]]
  <2>2. ASSUME NEW s \in Small(k) PROVE g[s] = Turn(g, h, s)
    <3>1. g[s] = Turn(f, h, s)
      <4>1. CASE Cardinality(s) = k
        BY <4>1
      <4>2. CASE Cardinality(s) # k
        <5>1. s \in Small(k - 1)
          BY <1>0, <4>2
        <5>. QED  BY <2>1, <4>2, <5>1
      <4>. QED  BY <4>1, <4>2
    <3>2. ASSUME s # {} PROVE f[s \ {Chosen(s)}] = g[s \ {Chosen(s)}]
      <4>1. Chosen(s) \in s
        BY <3>2 DEF Chosen
      <4>2. IsFiniteSet(s)
        BY FS_Subset
      <4>3. Cardinality(s \ {Chosen(s)}) + 1 = Cardinality(s) /\ Cardinality(s \ {Chosen(s)}) \in Nat
        BY <4>1, <4>2, OneLess
      <4>4. s \ {Chosen(s)} \in Small(k) /\ Cardinality(s \ {Chosen(s)}) # k
        BY <4>3, <1>0
      <4>. QED  BY <4>4
    <3>. QED  BY <3>1, <3>2 DEF Turn
  <2>3. g = [s \in Small(k) |-> g[s]]
    OBVIOUS
  <2>. HIDE DEF g
  <2>4. g = [s \in Small(k) |-> Turn(g, h, s)]
    BY <2>2, <2>3
  <2>. QED  BY <2>4
<1>3. n \in R
  <2>. HIDE DEF R
  <2>1. \A t \in 0..n : t \in R
    <3>. HIDE DEF n
    <3>. QED  BY <1>0, <1>1, <1>2, RangeInduction
  <2>. QED  BY <1>0, <2>1
<1>4. PICK g : g = [s \in Small(n) |-> Turn(g, h, s)]
  BY <1>3
<1>5. Small(n) = SUBSET S
  BY <1>0
<1>. QED  BY <1>4, <1>5 DEF IsSums

(* The library's sum is one of them.                                       *)
LEMMA SumIsSums ==
    ASSUME NEW S, IsFiniteSet(S), NEW h
    PROVE  \E g : IsSums(g, h, S) /\ Sum(h, S) = g[S]
<1>. DEFINE g == CHOOSE f : f = [s \in SUBSET S |-> Turn(f, h, s)]
<1>1. Sum(h, S) = g[S]
  BY DEF Sum, MapThenSumSet, MapThenFoldSet, Turn, Chosen
<1>2. PICK f : IsSums(f, h, S)
  BY SumsExist
<1>2a. f = [s \in SUBSET S |-> Turn(f, h, s)]
  BY <1>2 DEF IsSums
<1>3. g = [s \in SUBSET S |-> Turn(g, h, s)]
  BY <1>2a
<1>. HIDE DEF g
<1>. QED  BY <1>1, <1>3 DEF IsSums

(* Whatever element is taken first, the sum is its quantity and the rest.  *)
LEMMA SumsAnyOrder ==
    ASSUME NEW S, IsFiniteSet(S), NEW h, \A x \in S : h[x] \in Int, NEW g, IsSums(g, h, S)
    PROVE  \A s \in SUBSET S : g[s] \in Int /\ \A x \in s : g[s] = h[x] + g[s \ {x}]
<1>0. \A s \in SUBSET S : s # {} => Chosen(s) \in s
  BY DEF Chosen
<1>1. \A s \in SUBSET S : g[s] = IF s = {} THEN 0 ELSE h[Chosen(s)] + g[s \ {Chosen(s)}]
  BY DEF IsSums, Turn
<1>2. \A s \in SUBSET S : g[s] \in Int
  <2>. DEFINE K == {s \in SUBSET S : g[s] \in Int}
  <2>1. ASSUME NEW s \in SUBSET S, \A x \in s : s \ {x} \in K PROVE s \in K
    <3>1. s # {} => /\ h[Chosen(s)] \in Int /\ g[s \ {Chosen(s)}] \in Int
      BY <1>0, <2>1
    <3>2. g[s] = IF s = {} THEN 0 ELSE h[Chosen(s)] + g[s \ {Chosen(s)}]
      BY <1>1
    <3>3. g[s] \in Int
      <4>. HIDE DEF K
      <4>. QED  BY <3>1, <3>2
    <3>. QED  BY <3>3
  <2>2. \A s \in SUBSET S : s \in K
    <3>. HIDE DEF K
    <3>. QED  BY <2>1, SubsetInduction
  <2>. QED  BY <2>2
<1>3. \A s \in SUBSET S : \A x \in s : g[s] = h[x] + g[s \ {x}]
  <2>. DEFINE K == {s \in SUBSET S : \A x \in s : g[s] = h[x] + g[s \ {x}]}
  <2>1. ASSUME NEW s \in SUBSET S, \A x \in s : s \ {x} \in K PROVE s \in K
    <3>1. ASSUME NEW x \in s PROVE g[s] = h[x] + g[s \ {x}]
      <4>. DEFINE c == Chosen(s)
                  rest == (s \ {x}) \ {c}
      <4>1. c \in s /\ g[s] = h[c] + g[s \ {c}]
        BY <1>0, <1>1
      <4>. HIDE DEF c
      <4>2. CASE x = c
        BY <4>1, <4>2
      <4>3. CASE x # c
        <5>1. (s \ {c}) \ {x} = rest /\ rest \in SUBSET S
          OBVIOUS
        <5>2. g[s \ {c}] = h[x] + g[rest]
          BY <2>1, <4>1, <4>3, <5>1
        <5>3. g[s \ {x}] = h[c] + g[rest]
          BY <2>1, <4>1, <4>3
        <5>4. g[rest] \in Int /\ h[x] \in Int /\ h[c] \in Int
          BY <1>2, <4>1, <5>1
        <5>. HIDE DEF rest
        <5>. QED  BY <4>1, <5>2, <5>3, <5>4
      <4>. QED  BY <4>2, <4>3
    <3>. QED  BY <3>1
  <2>2. \A s \in SUBSET S : s \in K
    <3>. HIDE DEF K
    <3>. QED  BY <2>1, SubsetInduction
  <2>. QED  BY <2>2
<1>. QED  BY <1>2, <1>3

(* The sums over the subsets of S are those over the subsets of another.   *)
LEMMA SumsAgree ==
    ASSUME NEW S, IsFiniteSet(S), NEW h, NEW S2 \in SUBSET S,
           NEW g, IsSums(g, h, S), NEW g2, IsSums(g2, h, S2)
    PROVE  g[S2] = g2[S2]
<1>1. IsFiniteSet(S2)
  BY FS_Subset
<1>. DEFINE K == {s \in SUBSET S2 : g[s] = g2[s]}
<1>2. ASSUME NEW s \in SUBSET S2, \A x \in s : s \ {x} \in K PROVE s \in K
  <2>1. s \in SUBSET S
    OBVIOUS
  <2>2. g[s] = Turn(g, h, s) /\ g2[s] = Turn(g2, h, s)
    BY <2>1 DEF IsSums
  <2>3. s # {} => g[s \ {Chosen(s)}] = g2[s \ {Chosen(s)}]
    BY <1>2 DEF Chosen
  <2>. QED  BY <2>2, <2>3 DEF Turn
<1>3. \A s \in SUBSET S2 : s \in K
  <2>. HIDE DEF K
  <2>. QED  BY <1>1, <1>2, SubsetInduction
<1>. QED  BY <1>3

(* What a sum is.                                                          *)
LEMMA SumIs ==
    ASSUME NEW S, IsFiniteSet(S), NEW h, \A x \in S : h[x] \in Int
    PROVE  /\ Sum(h, S) \in Int
           /\ S = {} => Sum(h, S) = 0
           /\ \A x \in S : Sum(h, S) = h[x] + Sum(h, S \ {x})
<1>1. PICK g : IsSums(g, h, S) /\ Sum(h, S) = g[S]
  BY SumIsSums
<1>2. g[S] \in Int /\ \A x \in S : g[S] = h[x] + g[S \ {x}]
  BY <1>1, SumsAnyOrder
<1>3. S = {} => g[S] = 0
  BY <1>1 DEF IsSums, Turn
<1>4. ASSUME NEW x \in S PROVE Sum(h, S \ {x}) = g[S \ {x}]
  <2>1. S \ {x} \in SUBSET S /\ IsFiniteSet(S \ {x})
    BY FS_Subset
  <2>2. PICK g2 : IsSums(g2, h, S \ {x}) /\ Sum(h, S \ {x}) = g2[S \ {x}]
    BY <2>1, SumIsSums
  <2>. QED  BY <1>1, <2>1, <2>2, SumsAgree
<1>. QED  BY <1>1, <1>2, <1>3, <1>4

(* Only the quantities over the set matter, and more of them sum to more.  *)
LEMMA SumMonotone ==
    ASSUME NEW S, IsFiniteSet(S), NEW h, \A x \in S : h[x] \in Nat
    PROVE  /\ Sum(h, S) \in Nat
           /\ \A T \in SUBSET S : Sum(h, T) \in Nat /\ Sum(h, T) <= Sum(h, S)
<1>0. \A s \in SUBSET S : IsFiniteSet(s)
  BY FS_Subset
<1>1. ASSUME NEW s \in SUBSET S
      PROVE  /\ Sum(h, s) \in Int /\ (s = {} => Sum(h, s) = 0)
             /\ \A x \in s : Sum(h, s) = h[x] + Sum(h, s \ {x})
  <2>1. IsFiniteSet(s) /\ \A x \in s : h[x] \in Int
    BY <1>0
  <2>. QED  BY <2>1, SumIs
<1>2. \A s \in SUBSET S : Sum(h, s) \in Nat
  <2>. DEFINE K == {s \in SUBSET S : Sum(h, s) \in Nat}
  <2>1. ASSUME NEW s \in SUBSET S, \A x \in s : s \ {x} \in K PROVE s \in K
    <3>1. CASE s = {}
      BY <1>1, <3>1
    <3>2. CASE s # {}
      <4>1. PICK x \in s : TRUE
        BY <3>2
      <4>2. Sum(h, s) = h[x] + Sum(h, s \ {x}) /\ Sum(h, s \ {x}) \in Nat /\ h[x] \in Nat
        BY <1>1, <2>1
      <4>3. Sum(h, s) \in Nat
        BY <4>2
      <4>. QED  BY <4>3
    <3>. QED  BY <3>1, <3>2
  <2>2. \A s \in SUBSET S : s \in K
    <3>. HIDE DEF K
    <3>. QED  BY <2>1, SubsetInduction
  <2>. QED  BY <2>2
<1>3. \A s \in SUBSET S : \A T \in SUBSET s : Sum(h, T) <= Sum(h, s)
  <2>. DEFINE K == {s \in SUBSET S : \A T \in SUBSET s : Sum(h, T) <= Sum(h, s)}
  <2>1. ASSUME NEW s \in SUBSET S, \A x \in s : s \ {x} \in K PROVE s \in K
    <3>1. ASSUME NEW T \in SUBSET s PROVE Sum(h, T) <= Sum(h, s)
      <4>0. Sum(h, T) \in Nat /\ Sum(h, s) \in Nat
        BY <1>2
      <4>1. CASE T = s
        BY <4>0, <4>1
      <4>2. CASE T # s
        <5>1. PICK x \in s : x \notin T
          BY <4>2
        <5>2. Sum(h, T) <= Sum(h, s \ {x})
          BY <2>1, <5>1
        <5>3. Sum(h, s) = h[x] + Sum(h, s \ {x}) /\ Sum(h, s \ {x}) \in Nat /\ h[x] \in Nat
          BY <1>1, <1>2
        <5>. QED  BY <4>0, <5>2, <5>3
      <4>. QED  BY <4>1, <4>2
    <3>. QED  BY <3>1
  <2>2. \A s \in SUBSET S : s \in K
    <3>. HIDE DEF K
    <3>. QED  BY <2>1, SubsetInduction
  <2>. QED  BY <2>2
<1>. QED  BY <1>2, <1>3

(* The sum over two sets without a common element.                         *)
LEMMA SumUnion ==
    ASSUME NEW A, NEW B, IsFiniteSet(A), IsFiniteSet(B), A \cap B = {},
           NEW h, \A x \in A \cup B : h[x] \in Int
    PROVE  Sum(h, A \cup B) = Sum(h, A) + Sum(h, B)
<1>1. ASSUME NEW s \in SUBSET (A \cup B)
      PROVE  /\ Sum(h, s) \in Int /\ (s = {} => Sum(h, s) = 0)
             /\ \A x \in s : Sum(h, s) = h[x] + Sum(h, s \ {x})
  <2>1. IsFiniteSet(A \cup B)
    BY FS_Union
  <2>2. IsFiniteSet(s) /\ \A x \in s : h[x] \in Int
    BY <2>1, FS_Subset
  <2>. QED  BY <2>2, SumIs
<1>. DEFINE K == {s \in SUBSET B : Sum(h, A \cup s) = Sum(h, A) + Sum(h, s)}
<1>2. ASSUME NEW s \in SUBSET B, \A x \in s : s \ {x} \in K PROVE s \in K
  <2>0. Sum(h, A) \in Int /\ Sum(h, s) \in Int
    BY <1>1
  <2>1. CASE s = {}
    <3>1. A \cup s = A /\ Sum(h, s) = 0
      BY <1>1, <2>1
    <3>2. Sum(h, A \cup s) = Sum(h, A) + Sum(h, s)
      <4>1. Sum(h, A \cup s) = Sum(h, A)
        BY <3>1, Zenon
      <4>. HIDE DEF K
      <4>. QED  BY <2>0, <3>1, <4>1
    <3>. QED  BY <3>2
  <2>2. CASE s # {}
    <3>1. PICK x \in s : TRUE
      BY <2>2
    <3>2. x \in A \cup s /\ A \cup s \in SUBSET (A \cup B) /\ (A \cup s) \ {x} = A \cup (s \ {x})
      BY <3>1
    <3>3. Sum(h, A \cup s) = h[x] + Sum(h, A \cup (s \ {x}))
      BY <1>1, <3>2
    <3>4. Sum(h, s) = h[x] + Sum(h, s \ {x}) /\ Sum(h, s \ {x}) \in Int /\ h[x] \in Int
      BY <1>1
    <3>5. Sum(h, A \cup (s \ {x})) = Sum(h, A) + Sum(h, s \ {x})
      BY <1>2
    <3>6. Sum(h, A \cup s) = Sum(h, A) + Sum(h, s)
      <4>. HIDE DEF K
      <4>. QED  BY <2>0, <3>3, <3>4, <3>5
    <3>. QED  BY <3>6
  <2>. QED  BY <2>1, <2>2
<1>3. \A s \in SUBSET B : s \in K
  <2>. HIDE DEF K
  <2>. QED  BY <1>2, SubsetInduction
<1>. QED  BY <1>3

(* As many quantities, each no smaller than every one of the others, sum   *)
(* to no less than those.                                                  *)
LEMMA SumOfLarger ==
    ASSUME NEW A, NEW B, IsFiniteSet(A), IsFiniteSet(B), NEW h,
           \A x \in A \cup B : h[x] \in Nat, \A a \in A : \A b \in B : h[a] <= h[b],
           Cardinality(A) <= Cardinality(B)
    PROVE  Sum(h, A) <= Sum(h, B)
<1>1. ASSUME NEW s, s \in SUBSET A \/ s \in SUBSET B
      PROVE  /\ IsFiniteSet(s) /\ Cardinality(s) \in Nat
             /\ Sum(h, s) \in Nat /\ (s = {} => Sum(h, s) = 0)
             /\ \A x \in s : Sum(h, s) = h[x] + Sum(h, s \ {x})
  <2>1. IsFiniteSet(s) /\ \A x \in s : h[x] \in Nat /\ h[x] \in Int
    BY <1>1, FS_Subset
  <2>2. Sum(h, s) \in Nat
    BY <2>1, SumMonotone
  <2>3. Cardinality(s) \in Nat
    BY <2>1, FS_CardinalityType
  <2>. QED  BY <2>1, <2>2, <2>3, SumIs
<1>. DEFINE Below(s) == \A u \in SUBSET B : Cardinality(s) <= Cardinality(u) => Sum(h, s) <= Sum(h, u)
            K == {s \in SUBSET A : Below(s)}
<1>2. ASSUME NEW s \in SUBSET A, \A x \in s : s \ {x} \in K PROVE s \in K
  <2>1. ASSUME NEW u \in SUBSET B, Cardinality(s) <= Cardinality(u)
        PROVE  Sum(h, s) <= Sum(h, u)
    <3>1. CASE s = {}
      BY <1>1, <3>1
    <3>2. CASE s # {}
      <4>1. PICK a \in s : TRUE
        BY <3>2
      <4>2. Cardinality(s) = Cardinality(s \ {a}) + 1 /\ Cardinality(s \ {a}) \in Nat
        BY <1>1, OneLess
      <4>3. Cardinality(u) \in Nat /\ Cardinality(u) # 0
        BY <1>1, <2>1, <4>2
      <4>4. PICK b \in u : TRUE
        BY <1>1, <4>3, FS_EmptySet
      <4>5. Cardinality(u) = Cardinality(u \ {b}) + 1 /\ Cardinality(u \ {b}) \in Nat
        BY <1>1, OneLess
      <4>6. Cardinality(s \ {a}) <= Cardinality(u \ {b})
        BY <2>1, <4>2, <4>5
      <4>7. Sum(h, s \ {a}) <= Sum(h, u \ {b})
        BY <1>2, <4>1, <4>6
      <4>8. /\ Sum(h, s) = h[a] + Sum(h, s \ {a}) /\ Sum(h, u) = h[b] + Sum(h, u \ {b})
            /\ Sum(h, s \ {a}) \in Nat /\ Sum(h, u \ {b}) \in Nat
        BY <1>1
      <4>9. h[a] \in Nat /\ h[b] \in Nat /\ h[a] <= h[b]
        OBVIOUS
      <4>. HIDE DEF K
      <4>. QED  BY <4>7, <4>8, <4>9
    <3>. QED  BY <3>1, <3>2
  <2>. QED  BY <2>1
<1>3. \A s \in SUBSET A : s \in K
  <2>. HIDE DEF K
  <2>. QED  BY <1>2, SubsetInduction
<1>. QED  BY <1>3

-----------------------------------------------------------------------------
(* The point of control *)

(* The least and the largest of a finite set of integers are in it.        *)
LEMMA MinMaxExist ==
    ASSUME NEW S, IsFiniteSet(S), S # {}, S \subseteq Int
    PROVE  /\ Min(S) \in S /\ \A x \in S : Min(S) <= x
           /\ Max(S) \in S /\ \A x \in S : x <= Max(S)
<1>. DEFINE Bounded(s) == s # {} => \E a, b \in s : \A x \in s : a <= x /\ x <= b
            K == {s \in SUBSET S : Bounded(s)}
<1>1. ASSUME NEW s \in SUBSET S, \A x \in s : s \ {x} \in K PROVE s \in K
  <2>1. ASSUME NEW y \in s PROVE \E a, b \in s : \A x \in s : a <= x /\ x <= b
    <3>1. CASE s \ {y} = {}
      <4>1. \A x \in s : x = y /\ y \in Int
        BY <3>1
      <4>. QED  BY <4>1
    <3>2. CASE s \ {y} # {}
      <4>1. PICK a \in s \ {y}, b \in s \ {y} : \A x \in s \ {y} : a <= x /\ x <= b
        BY <1>1, <3>2
      <4>. DEFINE low  == IF y < a THEN y ELSE a
                  high == IF b < y THEN y ELSE b
      <4>2. low \in s /\ high \in s
        BY <4>1
      <4>3. a \in Int /\ b \in Int /\ y \in Int
        OBVIOUS
      <4>4. \A x \in s : low <= x /\ x <= high
        <5>1. ASSUME NEW x \in s PROVE low <= x /\ x <= high
          <6>1. x \in Int /\ (x = y \/ (a <= x /\ x <= b))
            BY <4>1
          <6>. QED  BY <4>3, <6>1
        <5>. QED  BY <5>1
      <4>. HIDE DEF low, high
      <4>. QED  BY <4>2, <4>4
    <3>. QED  BY <3>1, <3>2
  <2>. QED  BY <2>1
<1>2. S \in K
  <2>1. \A s \in SUBSET S : s \in K
    <3>. HIDE DEF K
    <3>. QED  BY <1>1, SubsetInduction
  <2>. QED  BY <2>1
<1>3. PICK a \in S, b \in S : \A x \in S : a <= x /\ x <= b
  BY <1>2
<1>4. \E x \in S : \A y \in S : x <= y
  BY <1>3
<1>5. \E x \in S : \A y \in S : x >= y
  BY <1>3
<1>6. Min(S) \in S /\ \A y \in S : Min(S) <= y
  BY <1>4, Zenon DEF Min
<1>7. Max(S) \in S /\ \A y \in S : Max(S) >= y
  BY <1>5, Zenon DEF Max
<1>. QED  BY <1>6, <1>7

(* The volume of a histogram over some ticks.                              *)
LEMMA VolumeIs ==
    ASSUME NEW h, Histogram(h), NEW ticks
    PROVE  /\ IsFiniteSet(DOMAIN h) /\ \A t \in DOMAIN h : h[t] \in Nat /\ h[t] \in Int
           /\ Volume(h, ticks) = Sum(h, ticks \cap DOMAIN h)
           /\ Volume(h, ticks) \in Nat /\ Total(h) \in Nat
           /\ Volume(h, ticks) <= Total(h)
<1>1. /\ IsFiniteSet(DOMAIN h) /\ \A t \in DOMAIN h : h[t] \in Nat /\ h[t] \in Int
  BY DEF Histogram
<1>2. ASSUME NEW some PROVE Volume(h, some) = Sum(h, some \cap DOMAIN h)
  BY DEF Volume, Sum
<1>3. Total(h) = Sum(h, DOMAIN h)
  <2>1. DOMAIN h \cap DOMAIN h = DOMAIN h
    OBVIOUS
  <2>. QED  BY <1>2, <2>1 DEF Total
<1>4. ticks \cap DOMAIN h \in SUBSET DOMAIN h
  OBVIOUS
<1>. QED  BY <1>1, <1>2, <1>3, <1>4, SumMonotone

(* The weighted sum of a histogram is an integer.                          *)
LEMMA MomentIsInteger ==
    ASSUME NEW h, Histogram(h)
    PROVE  MapThenSumSet(LAMBDA t : t * h[t], DOMAIN h) \in Int
<1>. DEFINE S == DOMAIN h
            w == [t \in S |-> t * h[t]]
            Body(f, s) == IF s = {} THEN 0 ELSE Chosen(s) * h[Chosen(s)] + f[s \ {Chosen(s)}]
            m == CHOOSE f : f = [s \in SUBSET S |-> Body(f, s)]
<1>1. MapThenSumSet(LAMBDA t : t * h[t], S) = m[S]
  BY DEF MapThenSumSet, MapThenFoldSet, Chosen
<1>2. IsFiniteSet(S) /\ \A t \in S : t \in Int /\ h[t] \in Int
  BY DEF Histogram
<1>3. \A t \in S : w[t] \in Int /\ w[t] = t * h[t]
  BY <1>2
<1>4. \A f : \A s \in SUBSET S : Turn(f, w, s) = Body(f, s)
  <2>1. \A s \in SUBSET S : s # {} => Chosen(s) \in S
    BY DEF Chosen
  <2>. HIDE DEF w
  <2>. QED  BY <1>3, <2>1 DEF Turn
<1>5. PICK f : IsSums(f, w, S)
  BY <1>2, SumsExist
<1>6. f = [s \in SUBSET S |-> Turn(f, w, s)]
  BY <1>5 DEF IsSums
<1>7. f = [s \in SUBSET S |-> Body(f, s)]
  <2>. HIDE DEF w, Body
  <2>. QED  BY <1>4, <1>6
<1>8. m = [s \in SUBSET S |-> Body(m, s)]
  BY <1>7
<1>9. m = [s \in SUBSET S |-> Turn(m, w, s)]
  <2>. HIDE DEF w, Body, m
  <2>. QED  BY <1>4, <1>8
<1>10. m[S] \in Int
  <2>1. IsSums(m, w, S)
    BY <1>9 DEF IsSums
  <2>2. S \in SUBSET S
    OBVIOUS
  <2>. HIDE DEF w, m, S
  <2>. QED  BY <1>2, <1>3, <2>1, <2>2, SumsAnyOrder
<1>. QED  BY <1>1, <1>10

(* The POC is an occupied tick of the largest volume.                      *)
LEMMA PocIsLargest ==
    ASSUME NEW h, Histogram(h)
    PROVE  /\ SelectPoc(h) \in DOMAIN h
           /\ \A t \in DOMAIN h : h[t] <= h[SelectPoc(h)]
<1>0. /\ IsFiniteSet(DOMAIN h) /\ DOMAIN h # {} /\ DOMAIN h \subseteq Int
      /\ \A t \in DOMAIN h : h[t] \in Nat
  BY DEF Histogram
<1>1. Largest(h) # {}
  <2>. DEFINE values == {h[t] : t \in DOMAIN h}
  <2>1. values # {} /\ values \subseteq Int
    BY <1>0
  <2>2. IsFiniteSet(values)
    <3>1. h \in Surjection(DOMAIN h, values)
      BY DEF Histogram, Surjection
    <3>. HIDE DEF values
    <3>. QED  BY <1>0, <3>1, FS_Surjection
  <2>3. Max(values) \in values /\ \A v \in values : v <= Max(values)
    <3>. HIDE DEF values
    <3>. QED  BY <2>1, <2>2, MinMaxExist
  <2>. QED  BY <2>3 DEF Largest
<1>2. \A t \in Largest(h) : MeanDistance(h, t) \in Nat
  <2>. DEFINE moment == MapThenSumSet(LAMBDA t : t * h[t], DOMAIN h)
  <2>1. moment \in Int
    BY MomentIsInteger
  <2>2. Total(h) \in Int
    <3>1. Volume(h, {}) \in Nat /\ Total(h) \in Nat
      BY VolumeIs
    <3>. QED  BY <3>1
  <2>3. ASSUME NEW t \in Largest(h) PROVE MeanDistance(h, t) \in Nat
    <3>1. t * Total(h) \in Int
      BY <1>0, <2>2 DEF Largest
    <3>2. MeanDistance(h, t) = Absolute(t * Total(h) - moment)
      BY DEF MeanDistance
    <3>. HIDE DEF moment
    <3>3. Absolute(t * Total(h) - moment) \in Nat
      BY <2>1, <3>1 DEF Absolute
    <3>. QED  BY <3>2, <3>3
  <2>. QED  BY <2>3
<1>. DEFINE nearest == {t \in Largest(h) : \A u \in Largest(h) : MeanDistance(h, t) <= MeanDistance(h, u)}
            distances == {MeanDistance(h, t) : t \in Largest(h)}
<1>3. nearest # {}
  <2>1. distances \in SUBSET Nat /\ distances # {}
    BY <1>1, <1>2
  <2>2. PICK d \in distances : \A e \in distances : d <= e
    <3>. HIDE DEF distances
    <3>. QED  BY <2>1, LeastExists
  <2>. QED  BY <2>2
<1>4. IsFiniteSet(nearest) /\ nearest \subseteq Int
  <2>1. nearest \subseteq DOMAIN h
    BY DEF Largest
  <2>. QED  BY <1>0, <2>1, FS_Subset
<1>5. Min(nearest) \in nearest
  <2>. HIDE DEF nearest
  <2>. QED  BY <1>3, <1>4, MinMaxExist
<1>6. SelectPoc(h) = Min(nearest)
  BY DEF SelectPoc
<1>. QED  BY <1>5, <1>6 DEF Largest

-----------------------------------------------------------------------------
(* The volume of ticks and levels *)

(* The volume of two sets of ticks without a common one.                   *)
LEMMA VolumeUnion ==
    ASSUME NEW h, Histogram(h), NEW A, NEW B, A \cap B = {}
    PROVE  Volume(h, A \cup B) = Volume(h, A) + Volume(h, B)
<1>. DEFINE D == DOMAIN h
<1>1. \A some : Volume(h, some) = Sum(h, some \cap D)
  BY VolumeIs
<1>2. IsFiniteSet(D) /\ \A t \in D : h[t] \in Int
  BY DEF Histogram
<1>3. IsFiniteSet(A \cap D) /\ IsFiniteSet(B \cap D)
  BY <1>2, FS_Subset
<1>4. (A \cap D) \cap (B \cap D) = {} /\ \A t \in (A \cap D) \cup (B \cap D) : h[t] \in Int
  BY <1>2
<1>5. Sum(h, (A \cap D) \cup (B \cap D)) = Sum(h, A \cap D) + Sum(h, B \cap D)
  <2>. HIDE DEF D
  <2>. QED  BY <1>3, <1>4, SumUnion
<1>6. (A \cup B) \cap D = (A \cap D) \cup (B \cap D)
  OBVIOUS
<1>7. Sum(h, (A \cup B) \cap D) = Sum(h, (A \cap D) \cup (B \cap D))
  BY <1>6, Zenon
<1>. QED  BY <1>1, <1>5, <1>7

(* The levels of a histogram, and the quantity at each.                    *)
LEMMA LevelsAre ==
    ASSUME NEW h, Histogram(h)
    PROVE  /\ Min(DOMAIN h) \in Int /\ Max(DOMAIN h) \in Int
           /\ \A t \in DOMAIN h : t \in Int /\ Min(DOMAIN h) <= t /\ t <= Max(DOMAIN h)
           /\ Levels(h) = Max(DOMAIN h) - Min(DOMAIN h) /\ Levels(h) \in Nat
           /\ \A t : At(h, t) \in Nat
<1>1. IsFiniteSet(DOMAIN h) /\ DOMAIN h # {} /\ DOMAIN h \subseteq Int
  BY DEF Histogram
<1>2. /\ Min(DOMAIN h) \in DOMAIN h /\ \A t \in DOMAIN h : Min(DOMAIN h) <= t
      /\ Max(DOMAIN h) \in DOMAIN h /\ \A t \in DOMAIN h : t <= Max(DOMAIN h)
  BY <1>1, MinMaxExist
<1>3. \A t : At(h, t) \in Nat
  BY DEF Histogram, At
<1>. QED  BY <1>1, <1>2, <1>3 DEF Levels

(* The whole histogram is not short of 70 %.                               *)
LEMMA AllIsEnough ==
    ASSUME NEW h, Histogram(h)
    PROVE  ~ Short(h, Volume(h, Min(DOMAIN h)..Max(DOMAIN h)))
<1>. DEFINE all == Min(DOMAIN h)..Max(DOMAIN h)
<1>1. all \cap DOMAIN h = DOMAIN h
  <2>1. \A t \in DOMAIN h : t \in all
    BY LevelsAre
  <2>. HIDE DEF all
  <2>. QED  BY <2>1
<1>2. Volume(h, all) = Sum(h, all \cap DOMAIN h)
  BY VolumeIs
<1>3. Volume(h, DOMAIN h) = Sum(h, DOMAIN h \cap DOMAIN h)
  BY VolumeIs
<1>4. DOMAIN h \cap DOMAIN h = DOMAIN h
  OBVIOUS
<1>5. Volume(h, all) = Total(h)
  <2>. HIDE DEF all
  <2>. QED  BY <1>1, <1>2, <1>3, <1>4, Zenon DEF Total
<1>6. Volume(h, all) \in Nat
  BY VolumeIs
<1>. HIDE DEF all
<1>7. ~ (10 * Volume(h, all) < 7 * Total(h))
  BY <1>5, <1>6
<1>. QED  BY <1>7 DEF Short, all

-----------------------------------------------------------------------------
(* The loop of the value area *)

AtPoc(h, poc) == [val |-> poc, vah |-> poc, held |-> h[poc]]

(* The loop is what its recursion says.                                    *)
LEMMA AreasAre ==
    ASSUME NEW h, NEW poc, Levels(h) \in Nat
    PROVE  /\ Areas(h, poc)[0] = AtPoc(h, poc)
           /\ \A n \in 1..Levels(h) : Areas(h, poc)[n] = Grown(h, Areas(h, poc)[n - 1])
<1>. DEFINE m == Levels(h)
            S == {k \in 0..m : \E f : f = [n \in 0..k |-> IF n = 0 THEN AtPoc(h, poc)
                                                           ELSE Grown(h, f[n - 1])]}
<1>0. m \in Nat
  OBVIOUS
<1>1. 0 \in S
  <2>. DEFINE f == [n \in 0..0 |-> AtPoc(h, poc)]
  <2>1. f = [n \in 0..0 |-> IF n = 0 THEN AtPoc(h, poc) ELSE Grown(h, f[n - 1])]
    <3>1. \A n \in 0..0 : n = 0
      OBVIOUS
    <3>. QED  BY <3>1
  <2>. HIDE DEF f
  <2>. QED  BY <2>1
<1>2. ASSUME NEW k \in 1..m, k - 1 \in S PROVE k \in S
  <2>1. PICK f : f = [n \in 0..(k - 1) |-> IF n = 0 THEN AtPoc(h, poc) ELSE Grown(h, f[n - 1])]
    BY <1>2
  <2>. DEFINE g == [n \in 0..k |-> IF n = k THEN Grown(h, f[k - 1]) ELSE f[n]]
  <2>2. ASSUME NEW n \in 0..k
        PROVE  g[n] = IF n = 0 THEN AtPoc(h, poc) ELSE Grown(h, g[n - 1])
    <3>1. CASE n = k
      <4>1. k \in Nat /\ k # 0 /\ k - 1 \in 0..k /\ k - 1 # k
        BY <1>0
      <4>. QED  BY <3>1, <4>1
    <3>2. CASE n # k
      <4>1. n \in 0..(k - 1) /\ g[n] = f[n]
        BY <3>2
      <4>2. n # 0 => n - 1 \in 0..k /\ n - 1 # k /\ g[n - 1] = f[n - 1]
        BY <3>2
      <4>. QED  BY <2>1, <4>1, <4>2
    <3>. QED  BY <3>1, <3>2
  <2>3. g = [n \in 0..k |-> g[n]]
    OBVIOUS
  <2>. HIDE DEF g
  <2>4. g = [n \in 0..k |-> IF n = 0 THEN AtPoc(h, poc) ELSE Grown(h, g[n - 1])]
    BY <2>2, <2>3
  <2>. QED  BY <2>4
<1>3. m \in S
  <2>. HIDE DEF S
  <2>. QED  BY <1>1, <1>2, RangeInduction
<1>4. PICK r : r = [n \in 0..m |-> IF n = 0 THEN AtPoc(h, poc) ELSE Grown(h, r[n - 1])]
  BY <1>3
<1>5. Areas(h, poc) =
        CHOOSE f : f = [n \in 0..m |-> IF n = 0 THEN AtPoc(h, poc) ELSE Grown(h, f[n - 1])]
  BY DEF Areas, AtPoc
<1>. DEFINE w == Areas(h, poc)
<1>6. w = [n \in 0..m |-> IF n = 0 THEN AtPoc(h, poc) ELSE Grown(h, w[n - 1])]
  BY <1>4, <1>5
<1>. HIDE DEF w
<1>7. 0 \in 0..m /\ \A n \in 1..m : n \in 0..m /\ n # 0
  OBVIOUS
<1>. QED  BY <1>6, <1>7 DEF w

(* What the loop has after n turns: the levels it holds, among them the    *)
(* POC, their volume, and, if that is too little, at least n levels more   *)
(* than the POC.                                                           *)
AreaRight(h, poc, area, n) ==
    /\ area.val \in Int /\ area.vah \in Int
    /\ Min(DOMAIN h) <= area.val /\ area.val <= poc
    /\ poc <= area.vah /\ area.vah <= Max(DOMAIN h)
    /\ area.held = Volume(h, area.val..area.vah)
    /\ Short(h, area.held) => area.vah - area.val >= n

(* The bounds after a turn.                                                *)
Lower(h, area) == IF GrowsDown(h, area.val, area.vah) THEN area.val - 1 ELSE area.val
Upper(h, area) == IF GrowsUp(h, area.val, area.vah) THEN area.vah + 1 ELSE area.vah

(* A turn that is taken.                                                   *)
LEMMA TurnTaken ==
    ASSUME NEW h, Histogram(h), NEW poc \in Int, NEW area, NEW n \in Int,
           AreaRight(h, poc, area, n), Short(h, area.held)
    PROVE  /\ Lower(h, area) \in {area.val, area.val - 1} /\ Min(DOMAIN h) <= Lower(h, area)
           /\ Upper(h, area) \in {area.vah, area.vah + 1} /\ Upper(h, area) <= Max(DOMAIN h)
           /\ Lower(h, area) < area.val \/ Upper(h, area) > area.vah
           /\ Grown(h, area).val = Lower(h, area) /\ Grown(h, area).vah = Upper(h, area)
           /\ Grown(h, area).held = Volume(h, Lower(h, area)..Upper(h, area))
<1>. DEFINE low  == Lower(h, area)
            high == Upper(h, area)
            least == Min(DOMAIN h)
            most  == Max(DOMAIN h)
<1>0. /\ area.val \in Int /\ area.vah \in Int /\ least \in Int /\ most \in Int
      /\ least <= area.val /\ area.val <= poc /\ poc <= area.vah /\ area.vah <= most
      /\ area.held = Volume(h, area.val..area.vah)
  BY LevelsAre DEF AreaRight
<1>1. /\ low \in {area.val, area.val - 1} /\ least <= low
      /\ high \in {area.vah, area.vah + 1} /\ high <= most
  BY <1>0 DEF Lower, Upper, GrowsDown, GrowsUp
<1>2. low < area.val \/ high > area.vah
  <2>1. ~ (area.val = least /\ area.vah = most)
    BY <1>0, AllIsEnough
  <2>2. At(h, area.val - 1) \in Int /\ At(h, area.vah + 1) \in Int
    BY LevelsAre
  <2>3. GrowsDown(h, area.val, area.vah) \/ GrowsUp(h, area.val, area.vah)
    BY <1>0, <2>1, <2>2 DEF GrowsDown, GrowsUp
  <2>. QED  BY <1>0, <2>3 DEF Lower, Upper
<1>. DEFINE gains == (low..high) \ (area.val..area.vah)
<1>3. Grown(h, area) = [val |-> low, vah |-> high, held |-> area.held + Volume(h, gains)]
  BY DEF Grown, Lower, Upper
<1>4. (area.val..area.vah) \cap gains = {}
  OBVIOUS
<1>5. (area.val..area.vah) \cup gains = low..high
  <2>. HIDE DEF low, high
  <2>. QED  BY <1>0, <1>1
<1>6. Volume(h, low..high) = Volume(h, area.val..area.vah) + Volume(h, gains)
  <2>. HIDE DEF low, high, gains
  <2>1. Volume(h, (area.val..area.vah) \cup gains) = Volume(h, area.val..area.vah) + Volume(h, gains)
    BY <1>4, VolumeUnion
  <2>. QED  BY <1>5, <2>1
<1>. HIDE DEF low, high, gains
<1>. QED  BY <1>0, <1>1, <1>2, <1>3, <1>6 DEF low, high

(* Every turn leaves the area right.                                       *)
LEMMA TurnKeepsArea ==
    ASSUME NEW h, Histogram(h), NEW poc \in Int, NEW area, NEW n \in Int,
           AreaRight(h, poc, area, n)
    PROVE  AreaRight(h, poc, Grown(h, area), n + 1)
<1>1. CASE ~ Short(h, area.held)
  <2>1. Grown(h, area) = area
    BY <1>1 DEF Grown
  <2>. QED  BY <1>1, <2>1 DEF AreaRight
<1>2. CASE Short(h, area.held)
  <2>1. /\ Lower(h, area) \in {area.val, area.val - 1} /\ Min(DOMAIN h) <= Lower(h, area)
        /\ Upper(h, area) \in {area.vah, area.vah + 1} /\ Upper(h, area) <= Max(DOMAIN h)
        /\ Lower(h, area) < area.val \/ Upper(h, area) > area.vah
        /\ Grown(h, area).val = Lower(h, area) /\ Grown(h, area).vah = Upper(h, area)
        /\ Grown(h, area).held = Volume(h, Lower(h, area)..Upper(h, area))
    BY <1>2, TurnTaken
  <2>2. /\ area.val \in Int /\ area.vah \in Int /\ area.val <= poc /\ poc <= area.vah
        /\ area.vah - area.val >= n
    BY <1>2 DEF AreaRight
  <2>. DEFINE low  == Lower(h, area)
              high == Upper(h, area)
  <2>3. /\ low \in Int /\ high \in Int /\ low <= poc /\ poc <= high /\ high - low >= n + 1
    <3>. DEFINE first == area.val
                final == area.vah
    <3>1. /\ low \in {first, first - 1} /\ high \in {final, final + 1}
          /\ low < first \/ high > final
      BY <2>1
    <3>2. first \in Int /\ final \in Int /\ first <= poc /\ poc <= final /\ final - first >= n
      BY <2>2
    <3>. HIDE DEF low, high, first, final
    <3>3. low \in Int /\ high \in Int
      BY <3>1, <3>2
    <3>4. low <= poc /\ poc <= high
      BY <3>1, <3>2
    <3>5. high - low >= n + 1
      BY <3>1, <3>2, <3>3
    <3>. QED  BY <3>3, <3>4, <3>5
  <2>. QED  BY <2>1, <2>3 DEF AreaRight
<1>. QED  BY <1>1, <1>2

(* It is right at the POC.                                                 *)
LEMMA PocIsArea ==
    ASSUME NEW h, Histogram(h), NEW poc \in DOMAIN h
    PROVE  AreaRight(h, poc, AtPoc(h, poc), 0)
<1>1. /\ poc \in Int /\ Min(DOMAIN h) <= poc /\ poc <= Max(DOMAIN h)
  BY LevelsAre
<1>2. poc..poc = {poc} /\ {poc} \cap DOMAIN h = {poc}
  BY <1>1
<1>3. Volume(h, {poc}) = Sum(h, {poc} \cap DOMAIN h)
  BY VolumeIs
<1>4. h[poc] \in Int /\ IsFiniteSet({poc}) /\ IsFiniteSet({}) /\ {poc} \ {poc} = {}
  <2>1. h[poc] \in Int
    BY DEF Histogram
  <2>2. IsFiniteSet({poc}) /\ IsFiniteSet({})
    BY FS_Singleton, FS_EmptySet
  <2>. QED  BY <2>1, <2>2
<1>5. Sum(h, {poc}) = h[poc] + Sum(h, {poc} \ {poc})
  BY <1>4, SumIs
<1>6. Sum(h, {}) = 0
  BY <1>4, SumIs
<1>7. Sum(h, {poc}) = h[poc]
  <2>1. Sum(h, {poc} \ {poc}) = Sum(h, {})
    BY <1>4, Zenon
  <2>. QED  BY <1>4, <1>5, <1>6, <2>1
<1>8. Volume(h, poc..poc) = h[poc]
  BY <1>2, <1>3, <1>7, Zenon
<1>. QED  BY <1>1, <1>8 DEF AreaRight, AtPoc

-----------------------------------------------------------------------------
(* The area when the volume falls away from the POC *)

(* A histogram that falls away from its POC level by level falls away from *)
(* it over any distance.                                                   *)
LEMMA FallsAway ==
    ASSUME NEW h, Histogram(h), NEW poc \in Int, Unimodal(h, poc),
           Min(DOMAIN h) <= poc, poc <= Max(DOMAIN h),
           NEW s \in Min(DOMAIN h)..Max(DOMAIN h), NEW t \in Min(DOMAIN h)..Max(DOMAIN h),
           (s <= t /\ t <= poc) \/ (poc <= t /\ t <= s)
    PROVE  At(h, s) <= At(h, t)
<1>. DEFINE least == Min(DOMAIN h)
            most  == Max(DOMAIN h)
            q(x)  == At(h, x)
            m     == most - least
            Below(d) == \A x \in least..most : x + d <= poc => q(x) <= q(x + d)
            Above(d) == \A x \in least..most : x - d >= poc => q(x) <= q(x - d)
            R == {d \in 0..m : Below(d) /\ Above(d)}
<1>1. least \in Int /\ most \in Int /\ m \in Nat /\ \A x : q(x) \in Nat
  BY LevelsAre
<1>2. /\ \A x \in least..most : x < poc => q(x) <= q(x + 1)
      /\ \A x \in least..most : x > poc => q(x) <= q(x - 1)
  BY DEF Unimodal
<1>3. least <= poc /\ poc <= most /\ s \in least..most /\ t \in least..most
  OBVIOUS
<1>. HIDE DEF least, most, q, m
<1>4. 0 \in R
  <2>1. \A x \in least..most : q(x + 0) = q(x) /\ q(x - 0) = q(x)
    <3>1. \A x \in least..most : x + 0 = x /\ x - 0 = x
      BY <1>1
    <3>. QED  BY <3>1
  <2>. QED  BY <1>1, <2>1
<1>5. ASSUME NEW d \in 1..m, d - 1 \in R PROVE d \in R
  <2>1. ASSUME NEW x \in least..most, x + d <= poc PROVE q(x) <= q(x + d)
    <3>1. /\ x \in Int /\ x + (d - 1) \in least..most /\ x + (d - 1) < poc
          /\ (x + (d - 1)) + 1 = x + d
      BY <1>1, <1>3, <2>1
    <3>2. q(x) <= q(x + (d - 1))
      BY <1>5, <3>1
    <3>3. q(x + (d - 1)) <= q(x + d)
      BY <1>2, <3>1
    <3>. QED  BY <1>1, <3>2, <3>3
  <2>2. ASSUME NEW x \in least..most, x - d >= poc PROVE q(x) <= q(x - d)
    <3>1. /\ x \in Int /\ x - (d - 1) \in least..most /\ x - (d - 1) > poc
          /\ (x - (d - 1)) - 1 = x - d
      BY <1>1, <1>3, <2>2
    <3>2. q(x) <= q(x - (d - 1))
      BY <1>5, <3>1
    <3>3. q(x - (d - 1)) <= q(x - d)
      BY <1>2, <3>1
    <3>. QED  BY <1>1, <3>2, <3>3
  <2>. QED  BY <2>1, <2>2
<1>6. \A d \in 0..m : d \in R
  <2>. HIDE DEF R
  <2>. QED  BY <1>1, <1>4, <1>5, RangeInduction
<1>7. CASE s <= t /\ t <= poc
  <2>1. t - s \in 0..m /\ s + (t - s) = t
    BY <1>1, <1>3, <1>7 DEF m
  <2>2. q(s) <= q(s + (t - s))
    BY <1>3, <1>6, <1>7, <2>1
  <2>. QED  BY <2>1, <2>2 DEF q
<1>8. CASE poc <= t /\ t <= s
  <2>1. s - t \in 0..m /\ s - (s - t) = t
    BY <1>1, <1>3, <1>8 DEF m
  <2>2. q(s) <= q(s - (s - t))
    BY <1>3, <1>6, <1>8, <2>1
  <2>. QED  BY <2>1, <2>2 DEF q
<1>. QED  BY <1>7, <1>8

(* No level outside holds more than one inside.                            *)
TopLevels(h, low, high) ==
    \A t \in low..high : \A s \in (Min(DOMAIN h)..Max(DOMAIN h)) \ (low..high) :
        At(h, s) <= At(h, t)

(* The area was of the top levels and too small when it last grew.         *)
Preceded(h, poc, area) ==
    area.val < area.vah =>
        \E v \in {area.val, area.val + 1}, u \in {area.vah - 1, area.vah} :
            /\ v <= poc /\ poc <= u /\ (v # area.val \/ u # area.vah)
            /\ Short(h, Volume(h, v..u))
            /\ Unimodal(h, poc) => TopLevels(h, v, u)

LoopRight(h, poc, area, n) ==
    /\ AreaRight(h, poc, area, n)
    /\ Unimodal(h, poc) => TopLevels(h, area.val, area.vah)
    /\ Preceded(h, poc, area)

(* A turn takes the top levels of those left, if the histogram falls away  *)
(* from the POC.                                                           *)
LEMMA TurnTakesTop ==
    ASSUME NEW h, Histogram(h), NEW poc \in Int, NEW area, NEW n \in Int,
           AreaRight(h, poc, area, n), Short(h, area.held),
           Unimodal(h, poc), TopLevels(h, area.val, area.vah)
    PROVE  TopLevels(h, Lower(h, area), Upper(h, area))
<1>. DEFINE least == Min(DOMAIN h)
            most  == Max(DOMAIN h)
            l == area.val
            u == area.vah
            low  == Lower(h, area)
            high == Upper(h, area)
<1>1. /\ l \in Int /\ u \in Int /\ least \in Int /\ most \in Int
      /\ least <= l /\ l <= poc /\ poc <= u /\ u <= most
  BY LevelsAre DEF AreaRight
<1>2. /\ low \in {l, l - 1} /\ least <= low /\ high \in {u, u + 1} /\ high <= most
  BY TurnTaken
<1>3. low = l - 1 => u = most \/ At(h, l - 1) >= At(h, u + 1)
  BY <1>1 DEF Lower, GrowsDown
<1>4. high = u + 1 => l = least \/ At(h, u + 1) >= At(h, l - 1)
  BY <1>1 DEF Upper, GrowsUp
<1>5. \A t : At(h, t) \in Nat
  BY LevelsAre
<1>6. \A t \in l..u : \A s \in (least..most) \ (l..u) : At(h, s) <= At(h, t)
  BY DEF TopLevels
<1>7. least <= poc /\ poc <= most
  BY <1>1
<1>. HIDE DEF low, high, l, u, least, most
<1>8. ASSUME NEW t \in low..high, NEW s \in (least..most) \ (low..high)
      PROVE  At(h, s) <= At(h, t)
  <2>0. s \in Int /\ t \in Int /\ s \in least..most /\ t \in least..most /\ s \notin l..u
    BY <1>1, <1>2
  <2>1. CASE t \in l..u
    BY <1>6, <2>0, <2>1
  <2>2. CASE t < l
    <3>1. t = l - 1 /\ low = l - 1 /\ t <= poc
      BY <1>1, <1>2, <2>2, <2>0
    <3>2. CASE s < t
      BY <1>7, <2>0, <3>1, <3>2, FallsAway DEF least, most
    <3>3. CASE s > u
      <4>1. u # most /\ u + 1 \in least..most /\ poc <= u + 1 /\ u + 1 <= s
        BY <1>1, <2>0, <3>3
      <4>2. At(h, s) <= At(h, u + 1)
        BY <1>7, <2>0, <4>1, FallsAway DEF least, most
      <4>3. At(h, u + 1) <= At(h, t)
        BY <1>3, <1>5, <3>1, <4>1
      <4>. QED  BY <1>5, <4>2, <4>3
    <3>. QED  BY <1>1, <1>2, <2>0, <3>1, <3>2, <3>3
  <2>3. CASE t > u
    <3>1. t = u + 1 /\ high = u + 1 /\ poc <= t
      BY <1>1, <1>2, <2>3, <2>0
    <3>2. CASE s > t
      BY <1>7, <2>0, <3>1, <3>2, FallsAway DEF least, most
    <3>3. CASE s < l
      <4>1. l # least /\ l - 1 \in least..most /\ l - 1 <= poc /\ s <= l - 1
        BY <1>1, <2>0, <3>3
      <4>2. At(h, s) <= At(h, l - 1)
        BY <1>7, <2>0, <4>1, FallsAway DEF least, most
      <4>3. At(h, l - 1) <= At(h, t)
        BY <1>4, <1>5, <3>1, <4>1
      <4>. QED  BY <1>5, <4>2, <4>3
    <3>. QED  BY <1>1, <1>2, <2>0, <3>1, <3>2, <3>3
  <2>. QED  BY <1>1, <2>0, <2>1, <2>2, <2>3
<1>. QED  BY <1>8 DEF TopLevels, low, high, least, most

(* Every turn leaves the loop right.                                       *)
LEMMA TurnKeepsLoop ==
    ASSUME NEW h, Histogram(h), NEW poc \in Int, NEW area, NEW n \in Int,
           LoopRight(h, poc, area, n)
    PROVE  LoopRight(h, poc, Grown(h, area), n + 1)
<1>. DEFINE new == Grown(h, area)
<1>0. AreaRight(h, poc, area, n) /\ AreaRight(h, poc, new, n + 1)
  BY TurnKeepsArea DEF LoopRight
<1>1. CASE ~ Short(h, area.held)
  <2>1. new = area
    BY <1>1 DEF Grown
  <2>2. LoopRight(h, poc, new, n + 1)
    <3>. HIDE DEF new
    <3>. QED  BY <1>0, <2>1 DEF LoopRight
  <2>. QED  BY <2>2
<1>2. CASE Short(h, area.held)
  <2>1. /\ new.val \in {area.val, area.val - 1} /\ new.vah \in {area.vah, area.vah + 1}
        /\ new.val < area.val \/ new.vah > area.vah
        /\ new.val = Lower(h, area) /\ new.vah = Upper(h, area)
    BY <1>0, <1>2, TurnTaken
  <2>2. Unimodal(h, poc) => TopLevels(h, new.val, new.vah)
    BY <1>0, <1>2, <2>1, TurnTakesTop DEF LoopRight
  <2>3. /\ area.val \in Int /\ area.vah \in Int /\ area.val <= poc /\ poc <= area.vah
        /\ Short(h, Volume(h, area.val..area.vah))
    BY <1>0, <1>2 DEF AreaRight
  <2>4. Unimodal(h, poc) => TopLevels(h, area.val, area.vah)
    BY DEF LoopRight
  <2>. HIDE DEF new
  <2>5. /\ area.val \in {new.val, new.val + 1} /\ area.vah \in {new.vah - 1, new.vah}
        /\ area.val # new.val \/ area.vah # new.vah
    BY <2>1, <2>3
  <2>6. Preceded(h, poc, new)
    BY <2>3, <2>4, <2>5 DEF Preceded
  <2>7. LoopRight(h, poc, new, n + 1)
    BY <1>0, <2>2, <2>6 DEF LoopRight
  <2>. QED  BY <2>7 DEF new
<1>. QED  BY <1>1, <1>2

(* So it is right when it ends, and the area then holds enough.            *)
LEMMA LoopEndsRight ==
    ASSUME NEW h, Histogram(h), NEW poc \in DOMAIN h
    PROVE  LET last == Areas(h, poc)[Levels(h)]
           IN  LoopRight(h, poc, last, Levels(h)) /\ ~ Short(h, last.held)
<1>. DEFINE m == Levels(h)
            a == Areas(h, poc)
            R == {n \in 0..m : LoopRight(h, poc, a[n], n)}
            least == Min(DOMAIN h)
            most  == Max(DOMAIN h)
<1>1. /\ poc \in Int /\ least <= poc /\ poc <= most /\ least \in Int /\ most \in Int
      /\ m \in Nat /\ m = most - least
  BY LevelsAre
<1>2. a[0] = AtPoc(h, poc) /\ \A n \in 1..m : a[n] = Grown(h, a[n - 1])
  BY <1>1, AreasAre
<1>3. 0 \in R
  <2>1. AreaRight(h, poc, a[0], 0)
    BY <1>2, PocIsArea
  <2>2. a[0].val = poc /\ a[0].vah = poc
    BY <1>2 DEF AtPoc
  <2>3. Unimodal(h, poc) => TopLevels(h, poc, poc)
    <3>1. ASSUME Unimodal(h, poc), NEW s \in least..most PROVE At(h, s) <= At(h, poc)
      <4>1. poc \in least..most /\ ((s <= poc /\ poc <= poc) \/ (poc <= poc /\ poc <= s))
        BY <1>1
      <4>. QED  BY <1>1, <3>1, <4>1, FallsAway
    <3>2. \A t \in poc..poc : t = poc
      BY <1>1
    <3>. QED  BY <3>1, <3>2 DEF TopLevels
  <2>4. Preceded(h, poc, a[0])
    BY <1>1, <2>2 DEF Preceded
  <2>5. LoopRight(h, poc, a[0], 0)
    BY <2>1, <2>2, <2>3, <2>4 DEF LoopRight
  <2>. QED  BY <1>1, <2>5
<1>4. ASSUME NEW n \in 1..m, n - 1 \in R PROVE n \in R
  <2>1. LoopRight(h, poc, a[n - 1], n - 1) /\ n - 1 \in Int /\ n \in 0..m /\ (n - 1) + 1 = n
    BY <1>1, <1>4
  <2>2. LoopRight(h, poc, Grown(h, a[n - 1]), (n - 1) + 1)
    <3>. HIDE DEF a
    <3>. QED  BY <1>1, <2>1, TurnKeepsLoop
  <2>3. LoopRight(h, poc, a[n], n)
    BY <1>2, <2>1, <2>2
  <2>. QED  BY <2>1, <2>3
<1>5. LoopRight(h, poc, a[m], m)
  <2>1. \A n \in 0..m : n \in R
    <3>. HIDE DEF R, m
    <3>. QED  BY <1>1, <1>3, <1>4, RangeInduction
  <2>. QED  BY <1>1, <2>1
<1>6. ~ Short(h, a[m].held)
  <2>. SUFFICES ASSUME Short(h, a[m].held) PROVE FALSE
    OBVIOUS
  <2>. HIDE DEF a
  <2>1. /\ a[m].val \in Int /\ a[m].vah \in Int /\ least <= a[m].val /\ a[m].vah <= most
        /\ a[m].vah - a[m].val >= m
        /\ a[m].held = Volume(h, a[m].val..a[m].vah)
    BY <1>5 DEF LoopRight, AreaRight
  <2>2. a[m].val = least /\ a[m].vah = most
    BY <1>1, <2>1
  <2>. QED  BY <2>1, <2>2, AllIsEnough
<1>. QED  BY <1>5, <1>6

(* The volume of the levels low to high, counted level by level.           *)
LEMMA VolumeByLevel ==
    ASSUME NEW h, Histogram(h), NEW X, IsFiniteSet(X),
           X \subseteq Min(DOMAIN h)..Max(DOMAIN h),
           NEW q, \A t \in Min(DOMAIN h)..Max(DOMAIN h) : q[t] = At(h, t)
    PROVE  Volume(h, X) = Sum(q, X)
<1>. DEFINE D == DOMAIN h
            K == {s \in SUBSET X : Sum(h, s \cap D) = Sum(q, s)}
<1>1. IsFiniteSet(D) /\ \A t \in D : h[t] \in Int
  BY DEF Histogram
<1>2. \A t \in X : q[t] = (IF t \in D THEN h[t] ELSE 0) /\ q[t] \in Int
  <2>1. \A t \in X : q[t] = At(h, t) /\ At(h, t) \in Nat
    BY LevelsAre
  <2>. QED  BY <2>1 DEF At
<1>3. ASSUME NEW s \in SUBSET X
      PROVE  /\ Sum(q, s) \in Int /\ (s = {} => Sum(q, s) = 0)
             /\ \A x \in s : Sum(q, s) = q[x] + Sum(q, s \ {x})
  <2>1. IsFiniteSet(s) /\ \A x \in s : q[x] \in Int
    BY <1>2, FS_Subset
  <2>. QED  BY <2>1, SumIs
<1>4. ASSUME NEW s \in SUBSET D
      PROVE  /\ Sum(h, s) \in Int /\ (s = {} => Sum(h, s) = 0)
             /\ \A x \in s : Sum(h, s) = h[x] + Sum(h, s \ {x})
  <2>1. IsFiniteSet(s) /\ \A x \in s : h[x] \in Int
    BY <1>1, FS_Subset
  <2>. QED  BY <2>1, SumIs
<1>5. ASSUME NEW s \in SUBSET X, \A x \in s : s \ {x} \in K PROVE s \in K
  <2>1. CASE s = {}
    <3>1. s \cap D \in SUBSET D /\ s \cap D = {}
      BY <2>1
    <3>2. Sum(h, s \cap D) = 0 /\ Sum(q, s) = 0
      BY <1>3, <1>4, <2>1, <3>1
    <3>. QED  BY <3>2
  <2>2. CASE s # {}
    <3>1. PICK x \in s : TRUE
      BY <2>2
    <3>2. Sum(q, s) = q[x] + Sum(q, s \ {x}) /\ Sum(q, s \ {x}) \in Int
      BY <1>3
    <3>3. Sum(h, (s \ {x}) \cap D) = Sum(q, s \ {x})
      BY <1>5
    <3>4. CASE x \in D
      <4>1. (s \ {x}) \cap D = (s \cap D) \ {x}
        OBVIOUS
      <4>2. s \cap D \in SUBSET D /\ x \in s \cap D
        BY <3>4
      <4>3. Sum(h, s \cap D) = h[x] + Sum(h, (s \cap D) \ {x})
        BY <1>4, <4>2
      <4>4. Sum(h, (s \cap D) \ {x}) = Sum(q, s \ {x})
        BY <3>3, <4>1, Zenon
      <4>5. q[x] = h[x]
        BY <1>2, <3>4
      <4>6. Sum(h, s \cap D) = Sum(q, s)
        BY <3>2, <4>3, <4>4, <4>5, Zenon
      <4>. QED  BY <4>6
    <3>5. CASE x \notin D
      <4>1. (s \ {x}) \cap D = s \cap D
        BY <3>5
      <4>2. Sum(h, s \cap D) = Sum(q, s \ {x})
        BY <3>3, <4>1, Zenon
      <4>3. q[x] = 0
        BY <1>2, <3>5
      <4>4. Sum(q, s) = Sum(q, s \ {x})
        <5>. HIDE DEF K
        <5>. QED  BY <3>2, <4>3
      <4>. QED  BY <4>2, <4>4
    <3>. QED  BY <3>4, <3>5
  <2>. QED  BY <2>1, <2>2
<1>6. \A s \in SUBSET X : s \in K
  <2>. HIDE DEF K
  <2>. QED  BY <1>5, SubsetInduction
<1>7. Sum(h, X \cap D) = Sum(q, X)
  BY <1>6
<1>8. Volume(h, X) = Sum(h, X \cap D)
  BY VolumeIs
<1>. QED  BY <1>7, <1>8

(* As many levels or fewer hold no more than top levels do.                *)
LEMMA TopLevelsHoldMost ==
    ASSUME NEW h, Histogram(h), NEW v \in Int, NEW u \in Int, NEW low \in Int, NEW high \in Int,
           Min(DOMAIN h) <= v, v <= u, u <= Max(DOMAIN h),
           Min(DOMAIN h) <= low, low <= high, high <= Max(DOMAIN h),
           high - low <= u - v, TopLevels(h, v, u)
    PROVE  Volume(h, low..high) <= Volume(h, v..u)
<1>. DEFINE levels == Min(DOMAIN h)..Max(DOMAIN h)
            q == [t \in levels |-> At(h, t)]
            X == low..high
            Y == v..u
            A == X \ Y
            B == Y \ X
            C == X \cap Y
<1>0. Min(DOMAIN h) \in Int /\ Max(DOMAIN h) \in Int
  BY LevelsAre
<1>1. X \subseteq levels /\ Y \subseteq levels
  BY <1>0
<1>2. \A t \in levels : q[t] = At(h, t) /\ q[t] \in Nat /\ q[t] \in Int
  BY LevelsAre
<1>3. /\ IsFiniteSet(X) /\ Cardinality(X) = high - low + 1
      /\ IsFiniteSet(Y) /\ Cardinality(Y) = u - v + 1
  BY FS_Interval
<1>4. \A t \in Y : \A s \in levels \ Y : q[s] <= q[t]
  <2>1. \A t \in Y : \A s \in levels \ Y : At(h, s) <= At(h, t)
    BY DEF TopLevels
  <2>. HIDE DEF q, Y, levels
  <2>. QED  BY <1>1, <1>2, <2>1
<1>. HIDE DEF q, X, Y, levels
<1>5. /\ IsFiniteSet(A) /\ IsFiniteSet(B) /\ IsFiniteSet(C)
      /\ Cardinality(A) = Cardinality(X) - Cardinality(C)
      /\ Cardinality(B) = Cardinality(Y) - Cardinality(C)
      /\ Cardinality(C) \in Nat
  <2>1. IsFiniteSet(A) /\ Cardinality(A) = Cardinality(X) - Cardinality(X \cap Y)
    BY <1>3, FS_Difference
  <2>2. IsFiniteSet(B) /\ Cardinality(B) = Cardinality(Y) - Cardinality(Y \cap X)
    BY <1>3, FS_Difference
  <2>3. Y \cap X = X \cap Y
    OBVIOUS
  <2>4. IsFiniteSet(C) /\ Cardinality(C) \in Nat
    BY <1>3, FS_Subset, FS_CardinalityType
  <2>5. Cardinality(Y \cap X) = Cardinality(C)
    BY <2>3, Zenon
  <2>. QED  BY <2>1, <2>2, <2>4, <2>5
<1>6. Cardinality(A) <= Cardinality(B)
  <2>1. Cardinality(X) <= Cardinality(Y) /\ Cardinality(X) \in Int /\ Cardinality(Y) \in Int
    BY <1>3
  <2>. HIDE DEF A, B, C
  <2>. QED  BY <1>5, <2>1
<1>7. Sum(q, A) <= Sum(q, B)
  <2>1. \A x \in A \cup B : q[x] \in Nat
    BY <1>1, <1>2
  <2>2. \A a \in A : \A b \in B : q[a] <= q[b]
    BY <1>1, <1>4
  <2>. HIDE DEF A, B
  <2>. QED  BY <1>5, <1>6, <2>1, <2>2, SumOfLarger
<1>8. /\ Sum(q, A \cup C) = Sum(q, A) + Sum(q, C) /\ Sum(q, B \cup C) = Sum(q, B) + Sum(q, C)
      /\ Sum(q, A) \in Nat /\ Sum(q, B) \in Nat /\ Sum(q, C) \in Nat
  <2>1. \A x \in A \cup B \cup C : q[x] \in Nat /\ q[x] \in Int
    BY <1>1, <1>2
  <2>2. A \cap C = {} /\ B \cap C = {}
    OBVIOUS
  <2>. HIDE DEF A, B, C
  <2>3. Sum(q, A) \in Nat /\ Sum(q, B) \in Nat /\ Sum(q, C) \in Nat
    BY <1>5, <2>1, SumMonotone
  <2>4. Sum(q, A \cup C) = Sum(q, A) + Sum(q, C)
    BY <1>5, <2>1, <2>2, SumUnion
  <2>5. Sum(q, B \cup C) = Sum(q, B) + Sum(q, C)
    BY <1>5, <2>1, <2>2, SumUnion
  <2>. QED  BY <2>3, <2>4, <2>5
<1>9. A \cup C = X /\ B \cup C = Y
  OBVIOUS
<1>10. Sum(q, X) = Sum(q, A \cup C) /\ Sum(q, Y) = Sum(q, B \cup C)
  BY <1>9, Zenon
<1>11. Volume(h, X) = Sum(q, X) /\ Volume(h, Y) = Sum(q, Y)
  BY <1>1, <1>2, <1>3, VolumeByLevel DEF levels
<1>12. Volume(h, X) <= Volume(h, Y)
  <2>. HIDE DEF A, B, C
  <2>. QED  BY <1>7, <1>8, <1>10, <1>11
<1>. QED  BY <1>12 DEF X, Y

(* The value area, once the loop has ended.                                *)
LEMMA AreaIsTight ==
    ASSUME NEW h, Histogram(h), NEW poc \in DOMAIN h
    PROVE  LET area == ValueArea(h, poc)
           IN  /\ area.val \in Int /\ area.vah \in Int
               /\ area.val <= poc /\ poc <= area.vah
               /\ ~ Short(h, Held(h, area))
               /\ Preceded(h, poc, area)
<1>. DEFINE last == Areas(h, poc)[Levels(h)]
            area == ValueArea(h, poc)
<1>1. LoopRight(h, poc, last, Levels(h)) /\ ~ Short(h, last.held)
  BY LoopEndsRight
<1>2. area.val = last.val /\ area.vah = last.vah
  BY DEF ValueArea
<1>. HIDE DEF last, area
<1>3. /\ area.val \in Int /\ area.vah \in Int /\ area.val <= poc /\ poc <= area.vah
      /\ last.held = Volume(h, area.val..area.vah)
  BY <1>1, <1>2 DEF LoopRight, AreaRight
<1>4. Preceded(h, poc, last)
  BY <1>1 DEF LoopRight
<1>5. Preceded(h, poc, area)
  BY <1>2, <1>4 DEF Preceded
<1>. QED  BY <1>1, <1>3, <1>5 DEF Held, area

(* On a histogram that falls away from the POC nothing shorter by more     *)
(* than a level holds 70 %.                                                *)
LEMMA AreaIsShortest ==
    ASSUME NEW h, Histogram(h), NEW poc \in DOMAIN h, Unimodal(h, poc),
           NEW low \in Min(DOMAIN h)..Max(DOMAIN h), NEW high \in Min(DOMAIN h)..Max(DOMAIN h),
           low <= poc, poc <= high,
           high - low + 1 < ValueArea(h, poc).vah - ValueArea(h, poc).val
    PROVE  Short(h, Volume(h, low..high))
<1>. DEFINE area == ValueArea(h, poc)
            least == Min(DOMAIN h)
            most  == Max(DOMAIN h)
<1>0. /\ area.val \in Int /\ area.vah \in Int /\ area.val <= poc /\ poc <= area.vah
      /\ Preceded(h, poc, area) /\ high - low + 1 < area.vah - area.val
  BY AreaIsTight
<1>1. least \in Int /\ most \in Int /\ poc \in Int
  BY LevelsAre
<1>1a. least <= area.val /\ area.vah <= most
  <2>1. LoopRight(h, poc, Areas(h, poc)[Levels(h)], Levels(h))
    BY LoopEndsRight
  <2>2. area.val = Areas(h, poc)[Levels(h)].val /\ area.vah = Areas(h, poc)[Levels(h)].vah
    BY DEF ValueArea
  <2>. QED  BY <2>1, <2>2 DEF LoopRight, AreaRight
<1>. HIDE DEF area
<1>2. area.val < area.vah
  BY <1>0, <1>1
<1>3. PICK v \in {area.val, area.val + 1}, u \in {area.vah - 1, area.vah} :
         v <= poc /\ poc <= u /\ Short(h, Volume(h, v..u)) /\ TopLevels(h, v, u)
  BY <1>0, <1>2 DEF Preceded
<1>5. low \in Int /\ high \in Int /\ least <= low /\ low <= high /\ high <= most
  BY <1>1
<1>4. /\ v \in Int /\ u \in Int /\ least <= v /\ v <= u /\ u <= most
      /\ high - low <= u - v
  <2>. DEFINE first == area.val
              final == area.vah
  <2>1. /\ first \in Int /\ final \in Int /\ high - low + 1 < final - first
        /\ least <= first /\ final <= most
    BY <1>0, <1>1a
  <2>2. v \in {first, first + 1} /\ u \in {final - 1, final} /\ v <= poc /\ poc <= u
    BY <1>3
  <2>. HIDE DEF least, most, first, final
  <2>3. v \in Int /\ u \in Int
    BY <2>1, <2>2
  <2>4. least <= v /\ v <= u /\ u <= most
    BY <1>1, <2>1, <2>2, <2>3
  <2>5. high - low <= u - v
    BY <1>5, <2>1, <2>2, <2>3
  <2>. QED  BY <2>3, <2>4, <2>5
<1>. HIDE DEF least, most
<1>6. Volume(h, low..high) <= Volume(h, v..u)
  BY <1>3, <1>4, <1>5, TopLevelsHoldMost DEF least, most
<1>7. Volume(h, low..high) \in Nat /\ Volume(h, v..u) \in Nat /\ Total(h) \in Nat
  BY VolumeIs
<1>. QED  BY <1>3, <1>6, <1>7 DEF Short

-----------------------------------------------------------------------------
(* The area of mirrored volume *)

(* The mirror image of a histogram is one, its levels mirrored.            *)
LEMMA MirrorIsHistogram ==
    ASSUME NEW h, Histogram(h)
    PROVE  /\ Histogram(Mirror(h))
           /\ \A t \in Int : - t \in DOMAIN Mirror(h) <=> t \in DOMAIN h
           /\ \A t \in DOMAIN h : Mirror(h)[- t] = h[t]
           /\ Min(DOMAIN Mirror(h)) = - Max(DOMAIN h)
           /\ Max(DOMAIN Mirror(h)) = - Min(DOMAIN h)
           /\ Levels(Mirror(h)) = Levels(h)
           /\ \A t \in Int : At(Mirror(h), - t) = At(h, t)
<1>. DEFINE D == DOMAIN h
            E == {- u : u \in D}
            g == Mirror(h)
            back == [t \in D |-> - t]
<1>1. /\ IsFiniteSet(D) /\ D # {} /\ D \subseteq Int /\ h \in [D -> Nat \ {0}]
  BY DEF Histogram
<1>2. g = [t \in E |-> h[- t]] /\ DOMAIN g = E
  BY DEF Mirror
<1>3. \A t \in Int : - (- t) = t /\ - t \in Int
  OBVIOUS
<1>. HIDE DEF D, g
<1>4. \A t \in Int : - t \in E <=> t \in D
  <2>1. ASSUME NEW t \in Int, - t \in E PROVE t \in D
    <3>1. PICK u \in D : - t = - u
      BY <2>1
    <3>2. u = t
      BY <1>1, <1>3, <3>1
    <3>. QED  BY <3>2
  <2>. QED  BY <2>1
<1>5. E \subseteq Int /\ E # {}
  <2>1. \A u \in D : - u \in Int
    BY <1>1
  <2>2. PICK u \in D : TRUE
    BY <1>1
  <2>3. - u \in E
    OBVIOUS
  <2>. QED  BY <2>1, <2>3
<1>6. \A t \in E : - t \in D
  BY <1>1, <1>3
<1>7. IsFiniteSet(E)
  <2>1. back \in Surjection(D, E)
    BY DEF Surjection
  <2>. HIDE DEF back, E
  <2>. QED  BY <1>1, <2>1, FS_Surjection
<1>8. \A t \in D : g[- t] = h[t]
  <2>1. ASSUME NEW t \in D PROVE g[- t] = h[t]
    <3>1. - t \in E /\ - (- t) = t
      BY <1>1, <1>3
    <3>. HIDE DEF E
    <3>2. g[- t] = h[- (- t)]
      BY <1>2, <3>1
    <3>. QED  BY <3>1, <3>2
  <2>. QED  BY <2>1
<1>. HIDE DEF E, back
<1>9. g \in [E -> Nat \ {0}]
  BY <1>1, <1>2, <1>6
<1>10. Histogram(g)
  BY <1>2, <1>5, <1>7, <1>9 DEF Histogram
<1>11. /\ Min(D) \in D /\ \A t \in D : Min(D) <= t
       /\ Max(D) \in D /\ \A t \in D : t <= Max(D)
  BY <1>1, MinMaxExist
<1>12. /\ Min(E) \in E /\ \A t \in E : Min(E) <= t
       /\ Max(E) \in E /\ \A t \in E : t <= Max(E)
  BY <1>5, <1>7, MinMaxExist
<1>. DEFINE least == Min(D)
            most  == Max(D)
            first == Min(E)
            final == Max(E)
<1>13. /\ least \in D /\ most \in D /\ first \in E /\ final \in E
       /\ - first \in D /\ - final \in D /\ - least \in E /\ - most \in E
  BY <1>1, <1>4, <1>6, <1>11, <1>12
<1>14. /\ least <= - final /\ - first <= most /\ first <= - most /\ - least <= final
  BY <1>11, <1>12, <1>13
<1>15. least \in Int /\ most \in Int /\ first \in Int /\ final \in Int
  BY <1>1, <1>5, <1>13
<1>16. first = - most /\ final = - least
  <2>. HIDE DEF first, final, least, most
  <2>. QED  BY <1>14, <1>15
<1>17. Levels(g) = Levels(h)
  <2>1. Levels(g) = final - first /\ Levels(h) = most - least
    BY <1>2 DEF Levels, D
  <2>. HIDE DEF first, final, least, most
  <2>. QED  BY <1>15, <1>16, <2>1
<1>18. \A t \in Int : At(g, - t) = At(h, t)
  BY <1>2, <1>4, <1>8 DEF At, D
<1>. QED  BY <1>2, <1>4, <1>8, <1>10, <1>16, <1>17, <1>18 DEF g, D

(* The mirrored volume of mirrored ticks is the volume.                    *)
LEMMA MirrorVolume ==
    ASSUME NEW h, Histogram(h), NEW X, X \subseteq Int, NEW Y, Y \subseteq Int,
           \A t \in Int : - t \in Y <=> t \in X
    PROVE  Volume(Mirror(h), Y) = Volume(h, X)
<1>. DEFINE D == DOMAIN h
            g == Mirror(h)
            E == DOMAIN g
            Reflected(s, r) == \A t \in Int : - t \in r <=> t \in s
            K == {s \in SUBSET D : \A r \in SUBSET E : Reflected(s, r) => Sum(g, r) = Sum(h, s)}
<1>1. /\ IsFiniteSet(D) /\ D \subseteq Int /\ \A t \in D : h[t] \in Int
      /\ IsFiniteSet(E) /\ E \subseteq Int /\ \A t \in E : g[t] \in Int
      /\ Histogram(g)
  <2>1. Histogram(g)
    BY MirrorIsHistogram
  <2>. HIDE DEF g
  <2>. QED  BY <2>1 DEF Histogram
<1>2. /\ \A t \in Int : - t \in E <=> t \in D
      /\ \A t \in D : g[- t] = h[t]
  BY MirrorIsHistogram
<1>. HIDE DEF D, E, g
<1>3. ASSUME NEW s \in SUBSET D
      PROVE  /\ Sum(h, s) \in Int /\ (s = {} => Sum(h, s) = 0)
             /\ \A x \in s : Sum(h, s) = h[x] + Sum(h, s \ {x})
  <2>1. IsFiniteSet(s) /\ \A x \in s : h[x] \in Int
    BY <1>1, FS_Subset
  <2>. QED  BY <2>1, SumIs
<1>4. ASSUME NEW s \in SUBSET E
      PROVE  /\ Sum(g, s) \in Int /\ (s = {} => Sum(g, s) = 0)
             /\ \A x \in s : Sum(g, s) = g[x] + Sum(g, s \ {x})
  <2>1. IsFiniteSet(s) /\ \A x \in s : g[x] \in Int
    BY <1>1, FS_Subset
  <2>. QED  BY <2>1, SumIs
<1>5. ASSUME NEW s \in SUBSET D, \A x \in s : s \ {x} \in K PROVE s \in K
  <2>1. ASSUME NEW r \in SUBSET E, Reflected(s, r) PROVE Sum(g, r) = Sum(h, s)
    <3>1. CASE s = {}
      <4>1. r = {}
        <5>1. \A t \in r : - t \in Int /\ - (- t) = t
          BY <1>1
        <5>2. \A t \in r : - t \in s
          BY <2>1, <5>1
        <5>. QED  BY <3>1, <5>2
      <4>2. Sum(g, r) = 0 /\ Sum(h, s) = 0
        BY <1>3, <1>4, <3>1, <4>1
      <4>. QED  BY <4>2
    <3>2. CASE s # {}
      <4>1. PICK x \in s : TRUE
        BY <3>2
      <4>2. x \in Int /\ - x \in r /\ g[- x] = h[x]
        BY <1>1, <1>2, <2>1
      <4>3. Reflected(s \ {x}, r \ {- x})
        <5>1. \A t \in Int : - t = - x <=> t = x
          BY <4>2
        <5>. QED  BY <2>1, <5>1
      <4>4. Sum(g, r \ {- x}) = Sum(h, s \ {x})
        <5>1. s \ {x} \in K /\ r \ {- x} \in SUBSET E
          BY <1>5
        <5>. HIDE DEF Reflected
        <5>. QED  BY <4>3, <5>1
      <4>5. Sum(g, r) = g[- x] + Sum(g, r \ {- x}) /\ Sum(h, s) = h[x] + Sum(h, s \ {x})
        BY <1>3, <1>4, <4>2
      <4>. QED  BY <4>2, <4>4, <4>5, Zenon
    <3>. QED  BY <3>1, <3>2
  <2>. QED  BY <2>1
<1>6. \A s \in SUBSET D : s \in K
  <2>. HIDE DEF K
  <2>. QED  BY <1>1, <1>5, SubsetInduction
<1>7. Reflected(X \cap D, Y \cap E)
  BY <1>2
<1>8. Sum(g, Y \cap E) = Sum(h, X \cap D)
  <2>1. X \cap D \in SUBSET D /\ Y \cap E \in SUBSET E
    OBVIOUS
  <2>. HIDE DEF Reflected
  <2>. QED  BY <1>6, <1>7, <2>1
<1>9. Volume(h, X) = Sum(h, X \cap D)
  BY VolumeIs DEF D
<1>10. Volume(g, Y) = Sum(g, Y \cap E)
  BY <1>1, VolumeIs DEF E
<1>. QED  BY <1>8, <1>9, <1>10 DEF g

(* It is short of 70 % when the histogram is.                              *)
LEMMA MirrorTotal ==
    ASSUME NEW h, Histogram(h)
    PROVE  Total(Mirror(h)) = Total(h)
<1>1. /\ DOMAIN h \subseteq Int /\ DOMAIN Mirror(h) \subseteq Int
      /\ \A t \in Int : - t \in DOMAIN Mirror(h) <=> t \in DOMAIN h
  BY MirrorIsHistogram DEF Histogram
<1>. QED  BY <1>1, MirrorVolume DEF Total

(* The area a mirrors b.                                                   *)
Mirrors(a, b) == a.val = - b.vah /\ a.vah = - b.val /\ a.held = b.held

(* A turn over the mirror image is the mirror image of the turn.           *)
LEMMA TurnMirrors ==
    ASSUME NEW h, Histogram(h), NEW poc \in Int, NEW a, NEW b, NEW n \in Int,
           AreaRight(h, poc, b, n), AreaRight(Mirror(h), - poc, a, n), Mirrors(a, b)
    PROVE  Mirrors(Grown(Mirror(h), a), Grown(h, b))
<1>. DEFINE g == Mirror(h)
<1>1. /\ Histogram(g) /\ Total(g) = Total(h)
      /\ Min(DOMAIN g) = - Max(DOMAIN h) /\ Max(DOMAIN g) = - Min(DOMAIN h)
      /\ \A t \in Int : At(g, - t) = At(h, t)
  BY MirrorIsHistogram, MirrorTotal
<1>2. a.val = - b.vah /\ a.vah = - b.val /\ a.held = b.held /\ b.val \in Int /\ b.vah \in Int
  BY DEF Mirrors, AreaRight
<1>3. Short(g, a.held) <=> Short(h, b.held)
  BY <1>1, <1>2 DEF Short
<1>4. CASE ~ Short(h, b.held)
  <2>1. Grown(g, a) = a /\ Grown(h, b) = b
    BY <1>3, <1>4 DEF Grown
  <2>. QED  BY <2>1
<1>5. CASE Short(h, b.held)
  <2>0. AreaRight(g, - poc, a, n) /\ - poc \in Int
    OBVIOUS
  <2>. HIDE DEF g
  <2>1. /\ Lower(g, a) \in {a.val, a.val - 1} /\ Upper(g, a) \in {a.vah, a.vah + 1}
        /\ Grown(g, a).val = Lower(g, a) /\ Grown(g, a).vah = Upper(g, a)
        /\ Grown(g, a).held = Volume(g, Lower(g, a)..Upper(g, a))
    BY <1>1, <1>3, <1>5, <2>0, TurnTaken
  <2>2. /\ Lower(h, b) \in {b.val, b.val - 1} /\ Upper(h, b) \in {b.vah, b.vah + 1}
        /\ Grown(h, b).val = Lower(h, b) /\ Grown(h, b).vah = Upper(h, b)
        /\ Grown(h, b).held = Volume(h, Lower(h, b)..Upper(h, b))
    BY <1>5, TurnTaken
  <2>3. At(g, a.val - 1) = At(h, b.vah + 1) /\ At(g, a.vah + 1) = At(h, b.val - 1)
    <3>1. a.val - 1 = - (b.vah + 1) /\ a.vah + 1 = - (b.val - 1)
      BY <1>2
    <3>2. b.vah + 1 \in Int /\ b.val - 1 \in Int
      BY <1>2
    <3>. QED  BY <1>1, <3>1, <3>2
  <2>4. Min(DOMAIN h) \in Int /\ Max(DOMAIN h) \in Int
    BY LevelsAre
  <2>5. GrowsDown(g, a.val, a.vah) <=> GrowsUp(h, b.val, b.vah)
    BY <1>1, <1>2, <2>3, <2>4 DEF GrowsDown, GrowsUp
  <2>6. GrowsUp(g, a.val, a.vah) <=> GrowsDown(h, b.val, b.vah)
    BY <1>1, <1>2, <2>3, <2>4 DEF GrowsDown, GrowsUp
  <2>7. Lower(g, a) = - Upper(h, b)
    BY <1>2, <2>5 DEF Lower, Upper
  <2>8. Upper(g, a) = - Lower(h, b)
    BY <1>2, <2>6 DEF Lower, Upper
  <2>9. Volume(g, Lower(g, a)..Upper(g, a)) = Volume(h, Lower(h, b)..Upper(h, b))
    <3>. DEFINE low == Lower(h, b)
                high == Upper(h, b)
                X == low..high
                Y == (- high)..(- low)
    <3>1. low \in Int /\ high \in Int
      BY <1>2, <2>2
    <3>. HIDE DEF low, high
    <3>2. X \subseteq Int /\ Y \subseteq Int /\ \A t \in Int : - t \in Y <=> t \in X
      BY <3>1
    <3>. HIDE DEF X, Y
    <3>3. Volume(g, Y) = Volume(h, X)
      BY <3>2, MirrorVolume DEF g
    <3>. QED  BY <2>7, <2>8, <3>3 DEF X, Y, low, high
  <2>. QED  BY <2>1, <2>2, <2>7, <2>8, <2>9 DEF Mirrors, g
<1>. QED  BY <1>4, <1>5

(* So the mirrored histogram has the mirrored area.                        *)
LEMMA AreaMirrors ==
    ASSUME NEW h, Histogram(h), NEW poc \in DOMAIN h
    PROVE  ValueArea(Mirror(h), - poc) =
             [val |-> - ValueArea(h, poc).vah, vah |-> - ValueArea(h, poc).val]
<1>. DEFINE g == Mirror(h)
            m == Levels(h)
            a == Areas(g, - poc)
            b == Areas(h, poc)
            R == {n \in 0..m : /\ AreaRight(h, poc, b[n], n) /\ AreaRight(g, - poc, a[n], n)
                               /\ Mirrors(a[n], b[n])}
<1>1. /\ Histogram(g) /\ Levels(g) = m /\ m \in Nat /\ poc \in Int /\ - poc \in Int
      /\ - poc \in DOMAIN g /\ g[- poc] = h[poc]
  <2>1. poc \in Int /\ m \in Nat
    BY LevelsAre
  <2>. QED  BY <2>1, MirrorIsHistogram
<1>. HIDE DEF g
<1>2. b[0] = AtPoc(h, poc) /\ \A n \in 1..m : b[n] = Grown(h, b[n - 1])
  BY <1>1, AreasAre
<1>3. a[0] = AtPoc(g, - poc) /\ \A n \in 1..m : a[n] = Grown(g, a[n - 1])
  BY <1>1, AreasAre
<1>. HIDE DEF m, a, b
<1>4. 0 \in R
  <2>1. AreaRight(h, poc, b[0], 0)
    BY <1>2, PocIsArea
  <2>2. AreaRight(g, - poc, a[0], 0)
    BY <1>1, <1>3, PocIsArea
  <2>3. Mirrors(a[0], b[0])
    BY <1>1, <1>2, <1>3 DEF Mirrors, AtPoc
  <2>. QED  BY <1>1, <2>1, <2>2, <2>3
<1>5. ASSUME NEW n \in 1..m, n - 1 \in R PROVE n \in R
  <2>1. /\ n - 1 \in Int /\ n \in 0..m /\ (n - 1) + 1 = n
        /\ AreaRight(h, poc, b[n - 1], n - 1) /\ AreaRight(g, - poc, a[n - 1], n - 1)
        /\ Mirrors(a[n - 1], b[n - 1])
    BY <1>1, <1>5
  <2>2. AreaRight(h, poc, Grown(h, b[n - 1]), (n - 1) + 1)
    BY <1>1, <2>1, TurnKeepsArea
  <2>3. AreaRight(g, - poc, Grown(g, a[n - 1]), (n - 1) + 1)
    BY <1>1, <2>1, TurnKeepsArea
  <2>4. Mirrors(Grown(g, a[n - 1]), Grown(h, b[n - 1]))
    BY <1>1, <2>1, TurnMirrors DEF g
  <2>5. a[n] = Grown(g, a[n - 1]) /\ b[n] = Grown(h, b[n - 1])
    BY <1>2, <1>3
  <2>. QED  BY <2>1, <2>2, <2>3, <2>4, <2>5
<1>6. Mirrors(a[m], b[m])
  <2>1. \A n \in 0..m : n \in R
    <3>. HIDE DEF R
    <3>. QED  BY <1>1, <1>4, <1>5, RangeInduction
  <2>. QED  BY <1>1, <2>1
<1>7. ValueArea(g, - poc) = [val |-> a[m].val, vah |-> a[m].vah]
  BY <1>1 DEF ValueArea, a
<1>8. ValueArea(h, poc) = [val |-> b[m].val, vah |-> b[m].vah]
  BY DEF ValueArea, b, m
<1>. QED  BY <1>6, <1>7, <1>8 DEF Mirrors, g

-----------------------------------------------------------------------------
(* The value area on the path *)

(* What ValueAreaIsTight says of a histogram.                              *)
Tight(h) ==
    LET poc  == SelectPoc(h)
        area == ValueArea(h, poc)
        back == ValueArea(Mirror(h), - poc)
        smaller == {inner \in [val : {area.val, area.val + 1}, vah : {area.vah - 1, area.vah}] :
                       inner # area /\ inner.val <= poc /\ poc <= inner.vah}
    IN  /\ area.val <= poc /\ poc <= area.vah
        /\ ~ Short(h, Held(h, area))
        /\ area.val < area.vah => \E inner \in smaller : Short(h, Held(h, inner))
        /\ Unimodal(h, poc) =>
             \A low, high \in Min(DOMAIN h)..Max(DOMAIN h) :
                (low <= poc /\ poc <= high /\ high - low + 1 < area.vah - area.val) =>
                    Short(h, Held(h, [val |-> low, vah |-> high]))
        /\ back = [val |-> - area.vah, vah |-> - area.val]

(* It holds of every histogram.                                            *)
LEMMA HistogramsAreTight ==
    ASSUME NEW h, Histogram(h)
    PROVE  Tight(h)
<1>. DEFINE poc  == SelectPoc(h)
            area == ValueArea(h, poc)
            smaller == {inner \in [val : {area.val, area.val + 1}, vah : {area.vah - 1, area.vah}] :
                           inner # area /\ inner.val <= poc /\ poc <= inner.vah}
<1>0. poc \in DOMAIN h
  BY PocIsLargest
<1>. HIDE DEF poc
<1>1. /\ area.val \in Int /\ area.vah \in Int /\ area.val <= poc /\ poc <= area.vah
      /\ ~ Short(h, Held(h, area)) /\ Preceded(h, poc, area)
  BY <1>0, AreaIsTight
<1>2. area.val < area.vah => \E inner \in smaller : Short(h, Held(h, inner))
  <2>. SUFFICES ASSUME area.val < area.vah PROVE \E inner \in smaller : Short(h, Held(h, inner))
    OBVIOUS
  <2>. HIDE DEF area
  <2>1. PICK v \in {area.val, area.val + 1}, u \in {area.vah - 1, area.vah} :
           /\ v <= poc /\ poc <= u /\ (v # area.val \/ u # area.vah)
           /\ Short(h, Volume(h, v..u))
    BY <1>1 DEF Preceded
  <2>. DEFINE inner == [val |-> v, vah |-> u]
  <2>2. inner.val = v /\ inner.vah = u
    OBVIOUS
  <2>3. inner \in [val : {area.val, area.val + 1}, vah : {area.vah - 1, area.vah}]
    OBVIOUS
  <2>. HIDE DEF inner
  <2>4. inner # area
    BY <2>1, <2>2
  <2>5. inner \in smaller
    BY <2>1, <2>2, <2>3, <2>4
  <2>6. Short(h, Held(h, inner))
    BY <2>1, <2>2 DEF Held
  <2>. HIDE DEF smaller
  <2>. QED  BY <2>5, <2>6
<1>3. ASSUME Unimodal(h, poc),
             NEW low \in Min(DOMAIN h)..Max(DOMAIN h), NEW high \in Min(DOMAIN h)..Max(DOMAIN h),
             low <= poc, poc <= high, high - low + 1 < area.vah - area.val
      PROVE  Short(h, Held(h, [val |-> low, vah |-> high]))
  <2>1. Short(h, Volume(h, low..high))
    BY <1>0, <1>3, AreaIsShortest
  <2>2. Held(h, [val |-> low, vah |-> high]) = Volume(h, low..high)
    BY DEF Held
  <2>. QED  BY <2>1, <2>2
<1>4. ValueArea(Mirror(h), - poc) = [val |-> - area.vah, vah |-> - area.val]
  BY <1>0, AreaMirrors
<1>. HIDE DEF smaller, area
<1>. QED  BY <1>1, <1>2, <1>3, <1>4 DEF Tight, poc, area, smaller

-----------------------------------------------------------------------------
(* What the records accept *)

(* A Profile read off a histogram is accepted.                             *)
LEMMA SnapshotIsAccepted ==
    ASSUME NEW h, Histogram(h), NEW price, NEW asOf
    PROVE  LET p == Snapshot(h, price, asOf)
           IN  /\ p.volume = h /\ p.asOf = asOf
               /\ p.val \in Int /\ p.poc \in Int /\ p.vah \in Int
               /\ p.val <= p.poc /\ p.poc <= p.vah
               /\ ~ SnapshotRefused(p)
<1>. DEFINE p == Snapshot(h, price, asOf)
            poc == SelectPoc(h)
            area == ValueArea(h, poc)
<1>1. poc \in DOMAIN h /\ poc \in Int
  BY PocIsLargest DEF Histogram
<1>2. area.val \in Int /\ area.vah \in Int /\ area.val <= poc /\ poc <= area.vah
  <2>. HIDE DEF poc
  <2>. QED  BY <1>1, AreaIsTight
<1>3. /\ p.volume = h /\ p.asOf = asOf /\ p.poc = poc /\ p.val = area.val /\ p.vah = area.vah
  BY DEF Snapshot
<1>4. h # << >>
  BY DEF Histogram
<1>. HIDE DEF p, poc, area
<1>5. ~ SnapshotRefused(p)
  BY <1>1, <1>2, <1>3, <1>4 DEF SnapshotRefused
<1>. QED  BY <1>1, <1>2, <1>3, <1>5 DEF p

(* A part of the volume is a ratio of the unit interval.                   *)
LEMMA PartOfVolume ==
    ASSUME NEW h, Histogram(h), NEW ticks
    PROVE  InUnit(<<Volume(h, ticks), Total(h)>>)
<1>1. Volume(h, ticks) \in Nat /\ Total(h) \in Nat /\ Volume(h, ticks) <= Total(h)
  BY VolumeIs
<1>. QED  BY <1>1 DEF InUnit

(* The smaller and the larger of two numbers.                              *)
LEMMA OfTwo ==
    ASSUME NEW a \in Int, NEW b \in Int
    PROVE  /\ Min({a, b}) \in Int /\ Min({a, b}) <= a /\ Min({a, b}) <= b
           /\ Max({a, b}) \in Int /\ a <= Max({a, b}) /\ b <= Max({a, b})
           /\ Min({a, b}) \in {a, b} /\ Max({a, b}) \in {a, b}
<1>1. IsFiniteSet({a, b})
  <2>1. IsFiniteSet({a}) /\ {a, b} = {a} \cup {b}
    BY FS_Singleton
  <2>2. IsFiniteSet({a} \cup {b})
    BY <2>1, FS_AddElement
  <2>. QED  BY <2>1, <2>2
<1>. DEFINE S == {a, b}
<1>2. S # {} /\ S \subseteq Int
  OBVIOUS
<1>3. /\ Min(S) \in S /\ \A x \in S : Min(S) <= x
      /\ Max(S) \in S /\ \A x \in S : x <= Max(S)
  <2>. HIDE DEF S
  <2>. QED  BY <1>1, <1>2, MinMaxExist DEF S
<1>. QED  BY <1>3

(* Two value areas overlap by a part of their hull.                        *)
LEMMA OverlapInUnit ==
    ASSUME NEW p, NEW r, p.val \in Int, p.vah \in Int, p.val <= p.vah,
           r.val \in Int, r.vah \in Int, r.val <= r.vah
    PROVE  InUnit(OverlapRatio(p, r))
<1>. DEFINE a == Min({p.vah, r.vah})
            b == Max({p.val, r.val})
            c == Max({p.vah, r.vah})
            d == Min({p.val, r.val})
            shared == a - b + 1
            hull == c - d + 1
<1>1. a \in Int /\ a <= p.vah /\ c \in Int /\ p.vah <= c
  BY OfTwo
<1>2. b \in Int /\ p.val <= b /\ d \in Int /\ d <= p.val
  BY OfTwo
<1>3. OverlapRatio(p, r) = <<IF shared < 0 THEN 0 ELSE shared, hull>>
  BY DEF OverlapRatio
<1>. HIDE DEF a, b, c, d
<1>4. 0 <= (IF shared < 0 THEN 0 ELSE shared) /\ (IF shared < 0 THEN 0 ELSE shared) <= hull
  BY <1>1, <1>2
<1>. HIDE DEF shared, hull
<1>. QED  BY <1>3, <1>4 DEF InUnit

(* The features of a Profile against a prior one are refused for their     *)
(* entropy only.                                                           *)
LEMMA FeaturesAreAccepted ==
    ASSUME NEW p, Histogram(p.volume), p.val \in Int, p.vah \in Int, p.val <= p.vah,
           NEW prior_, \A r \in prior_ : r.val \in Int /\ r.vah \in Int /\ r.val <= r.vah,
           NEW T, NEW closes_ \in Seq(T), NEW warm,
           FeaturesRefused(p, Features(p, prior_, closes_, warm))
    PROVE  EntropyAboveOne(p.volume)
<1>. DEFINE f == Features(p, prior_, closes_, warm)
            total == Total(p.volume)
            out(r) == {t \in DOMAIN p.volume : Place(t, r) # 0}
            outer(r) == {i \in DOMAIN closes_ : Place(closes_[i], r) # 0}
<1>1. /\ f.above = <<Volume(p.volume, {t \in DOMAIN p.volume : t > p.poc}), total>>
      /\ f.volumeOutside = {<<Volume(p.volume, out(r)), total>> : r \in prior_}
      /\ f.closesOutside = {<<Cardinality(outer(r)), Len(closes_)>> :
                               r \in {q \in prior_ : closes_ # << >>}}
      /\ f.overlap = {OverlapRatio(p, r) : r \in prior_}
  BY DEF Features
<1>. HIDE DEF f
<1>2. InUnit(f.above)
  BY <1>1, PartOfVolume
<1>3. \A ratio \in f.volumeOutside : InUnit(ratio)
  <2>1. \A r \in prior_ : InUnit(<<Volume(p.volume, out(r)), total>>)
    BY PartOfVolume
  <2>. HIDE DEF out, total
  <2>. QED  BY <1>1, <2>1
<1>4. \A ratio \in f.closesOutside : InUnit(ratio)
  <2>1. ASSUME NEW r \in prior_ PROVE InUnit(<<Cardinality(outer(r)), Len(closes_)>>)
    <3>1. DOMAIN closes_ = 1..Len(closes_) /\ Len(closes_) \in Nat
      OBVIOUS
    <3>2. IsFiniteSet(DOMAIN closes_) /\ Cardinality(DOMAIN closes_) = Len(closes_)
      <4>. DEFINE n == Len(closes_)
      <4>1. n \in Nat /\ DOMAIN closes_ = 1..n
        BY <3>1
      <4>. HIDE DEF n
      <4>2. IsFiniteSet(1..n) /\ Cardinality(1..n) = n
        BY <4>1, FS_Interval
      <4>3. IsFiniteSet(DOMAIN closes_) /\ Cardinality(DOMAIN closes_) = n
        BY <4>1, <4>2, Zenon
      <4>. QED  BY <4>3 DEF n
    <3>3. outer(r) \in SUBSET DOMAIN closes_
      OBVIOUS
    <3>. HIDE DEF outer
    <3>4. Cardinality(outer(r)) <= Len(closes_) /\ Cardinality(outer(r)) \in Nat
      BY <3>2, <3>3, FS_Subset, FS_CardinalityType
    <3>. QED  BY <3>1, <3>4 DEF InUnit
  <2>. HIDE DEF outer
  <2>. QED  BY <1>1, <2>1
<1>5. \A ratio \in f.overlap : InUnit(ratio)
  <2>1. \A r \in prior_ : InUnit(OverlapRatio(p, r))
    BY OverlapInUnit
  <2>. QED  BY <1>1, <2>1
<1>. QED  BY <1>2, <1>3, <1>4, <1>5 DEF FeaturesRefused, f

-----------------------------------------------------------------------------
(* The volume on the path is a histogram, the reference an earlier area.   *)
ProfilesRight ==
    /\ volume = << >> \/ Histogram(volume)
    /\ session > 0 => Histogram(volume)
    /\ \A r \in reference :
          /\ r.val \in Int /\ r.vah \in Int /\ r.val <= r.vah
          /\ r.asOf \in Int /\ r.asOf <= time
    /\ OnlyEqualBinsRaise

(* A bar is refused for its entropy only.                                  *)
LEMMA RefusedForEntropy ==
    ASSUME NEW h, Histogram(h), NEW price, time \in Nat,
           NEW prior_, \A r \in prior_ : /\ r.val \in Int /\ r.vah \in Int /\ r.val <= r.vah
                                         /\ r.asOf \in Int /\ r.asOf <= time,
           NEW T, NEW closes_ \in Seq(T), Refused(Snapshot(h, price, time + 1), prior_, closes_)
    PROVE  EntropyAboveOne(h)
<1>. DEFINE p == Snapshot(h, price, time + 1)
<1>1. /\ p.volume = h /\ p.asOf = time + 1
      /\ p.val \in Int /\ p.poc \in Int /\ p.vah \in Int /\ p.val <= p.poc /\ p.poc <= p.vah
      /\ ~ SnapshotRefused(p)
  BY SnapshotIsAccepted
<1>. HIDE DEF p
<1>2. ~ FeaturesRefuseInputs(p, prior_)
  BY <1>1 DEF FeaturesRefuseInputs
<1>3. FeaturesRefused(p, Features(p, prior_, closes_, time + 1 > AtrWindow))
  BY <1>1, <1>2 DEF Refused, p
<1>4. Histogram(p.volume) /\ p.val <= p.vah
  BY <1>1
<1>5. EntropyAboveOne(p.volume)
  BY <1>1, <1>3, <1>4, FeaturesAreAccepted
<1>. QED  BY <1>1, <1>5

(* The volume of a bar added to a histogram makes one.                     *)
LEMMA MergeIsHistogram ==
    ASSUME NEW h, NEW g, Histogram(h), Histogram(g)
    PROVE  Histogram(Merge(h, g))
<1>. DEFINE D == DOMAIN h \cup DOMAIN g
<1>1. /\ IsFiniteSet(DOMAIN h) /\ DOMAIN h # {} /\ DOMAIN h \subseteq Int
      /\ IsFiniteSet(DOMAIN g) /\ DOMAIN g \subseteq Int
      /\ \A t \in DOMAIN h : h[t] \in Nat \ {0}
      /\ \A t \in DOMAIN g : g[t] \in Nat \ {0}
  BY DEF Histogram
<1>2. IsFiniteSet(D) /\ D # {} /\ D \subseteq Int
  BY <1>1, FS_Union
<1>3. Merge(h, g) = [t \in D |-> At(h, t) + At(g, t)]
  BY DEF Merge
<1>4. \A t \in D : At(h, t) + At(g, t) \in Nat \ {0}
  BY <1>1 DEF At
<1>. HIDE DEF D
<1>. QED  BY <1>2, <1>3, <1>4 DEF Histogram

(* The first bar of a session.                                             *)
LEMMA OpenSessionProfiles ==
    ASSUME Inv, PathInv, ProfilesRight, NEW bar, bar.close \in Closes, Histogram(bar.volume),
           OpenSession(bar)
    PROVE  ProfilesRight'
<1>. DEFINE prior_ == IF session = 0 THEN {} ELSE {FinalProfile}
            p == Snapshot(bar.volume, bar.close, time + 1)
            refused == Refused(p, prior_, FirstCloses(bar))
<1>0. time \in Nat /\ session \in Nat
  BY DEF Inv, TypeOK
<1>1. \A r \in prior_ : /\ r.val \in Int /\ r.vah \in Int /\ r.val <= r.vah
                        /\ r.asOf \in Int /\ r.asOf <= time
  <2>1. ASSUME session # 0
        PROVE  LET r == FinalProfile
               IN  /\ r.val \in Int /\ r.vah \in Int /\ r.val <= r.vah
                   /\ r.asOf \in Int /\ r.asOf <= time
    <3>. DEFINE final == Snapshot(volume, closes[Len(closes)], time)
                r == FinalProfile
    <3>1. Histogram(volume)
      BY <1>0, <2>1 DEF ProfilesRight
    <3>2. /\ final.asOf = time /\ final.val \in Int /\ final.poc \in Int /\ final.vah \in Int
          /\ final.val <= final.poc /\ final.poc <= final.vah
      BY <3>1, SnapshotIsAccepted
    <3>3. r.val = final.val /\ r.vah = final.vah /\ r.asOf = final.asOf
      BY DEF FinalProfile
    <3>. HIDE DEF final, r
    <3>4. /\ r.val \in Int /\ r.vah \in Int /\ r.val <= r.vah
          /\ r.asOf \in Int /\ r.asOf <= time
      BY <1>0, <3>2, <3>3
    <3>. QED  BY <3>4 DEF r
  <2>. QED  BY <2>1
<1>2. FirstCloses(bar) \in Seq(Closes)
  BY DEF FirstCloses
<1>3. refused => EntropyAboveOne(bar.volume)
  <2>. HIDE DEF prior_
  <2>. QED  BY <1>0, <1>1, <1>2, RefusedForEntropy
<1>4. volume' = bar.volume /\ ~ raised
  BY DEF OpenSession
<1>5. CASE refused
  <2>1. UNCHANGED <<vars, closes, reference>>
    BY <1>5 DEF OpenSession, RaiseAtPublication
  <2>2. session' = session /\ time' = time /\ reference' = reference
    BY <2>1 DEF vars
  <2>3. EntropyAboveOne(volume')
    BY <1>3, <1>4, <1>5
  <2>. HIDE DEF refused
  <2>. QED  BY <1>4, <2>2, <2>3 DEF ProfilesRight, OnlyEqualBinsRaise
<1>6. CASE ~ refused
  <2>1. /\ reference' = prior_ /\ raised' = raised
        /\ IF prior_ = {} THEN FirstBar(FALSE, NoReference, 0)
           ELSE FirstBar(TRUE, Place(bar.close, FinalProfile), Place(p.poc, FinalProfile))
    BY <1>6 DEF OpenSession
  <2>. HIDE DEF prior_, p, refused
  <2>2. time' = time + 1
    BY <2>1 DEF FirstBar
  <2>3. \A r \in reference' : /\ r.val \in Int /\ r.vah \in Int /\ r.val <= r.vah
                              /\ r.asOf \in Int /\ r.asOf <= time'
    BY <1>0, <1>1, <2>1, <2>2
  <2>4. Histogram(volume') /\ ~ raised'
    BY <1>4, <2>1
  <2>. QED  BY <2>3, <2>4 DEF ProfilesRight, OnlyEqualBinsRaise
<1>. QED  BY <1>5, <1>6

(* A later bar of the session.                                             *)
LEMMA AddBarProfiles ==
    ASSUME Inv, PathInv, ProfilesRight, NEW bar, bar.close \in Closes, Histogram(bar.volume),
           AddBar(bar)
    PROVE  ProfilesRight'
<1>. DEFINE h == Merge(volume, bar.volume)
            p == Snapshot(h, bar.close, time + 1)
            refused == Refused(p, reference, Append(closes, bar.close))
<1>0. time \in Nat /\ session \in Nat
  BY DEF Inv, TypeOK
<1>1. Histogram(h)
  <2>1. Histogram(volume)
    BY DEF AddBar, ProfilesRight
  <2>. QED  BY <2>1, MergeIsHistogram
<1>. HIDE DEF h
<1>2. \A r \in reference : /\ r.val \in Int /\ r.vah \in Int /\ r.val <= r.vah
                           /\ r.asOf \in Int /\ r.asOf <= time
  BY DEF ProfilesRight
<1>3. Append(closes, bar.close) \in Seq(Closes)
  BY DEF PathInv
<1>4. refused => EntropyAboveOne(h)
  BY <1>0, <1>1, <1>2, <1>3, RefusedForEntropy
<1>5. p.volume = h
  BY <1>1, SnapshotIsAccepted
<1>6. volume' = h /\ ~ raised
  BY <1>5 DEF AddBar, h
<1>7. CASE refused
  <2>1. raised' /\ UNCHANGED <<vars, closes, reference>>
    BY <1>7 DEF AddBar, RaiseAtPublication, h
  <2>2. session' = session /\ time' = time /\ reference' = reference
    BY <2>1 DEF vars
  <2>3. EntropyAboveOne(volume') /\ Histogram(volume')
    BY <1>1, <1>4, <1>6, <1>7
  <2>. HIDE DEF refused
  <2>. QED  BY <1>2, <2>2, <2>3 DEF ProfilesRight, OnlyEqualBinsRaise
<1>8. CASE ~ refused
  <2>1. /\ reference' = reference /\ raised' = raised
        /\ IF reference = {} THEN NextBar(NoReference, 0)
           ELSE \E r \in reference : NextBar(Place(bar.close, r), Place(p.poc, r))
    BY <1>8 DEF AddBar, h
  <2>. HIDE DEF p, refused
  <2>2. time' = time + 1
    BY <2>1 DEF NextBar
  <2>3. \A r \in reference' : /\ r.val \in Int /\ r.vah \in Int /\ r.val <= r.vah
                              /\ r.asOf \in Int /\ r.asOf <= time'
    BY <1>0, <1>2, <2>1, <2>2
  <2>4. Histogram(volume') /\ ~ raised'
    BY <1>1, <1>6, <2>1
  <2>. QED  BY <2>3, <2>4 DEF ProfilesRight, OnlyEqualBinsRaise
<1>. QED  BY <1>7, <1>8

(* Every step of the path keeps its Profiles right.                        *)
LEMMA ProfilesStep ==
    Inv /\ PathInv /\ ProfilesRight /\ [PathNext]_pathVars => ProfilesRight'
<1>. SUFFICES ASSUME Inv, PathInv, ProfilesRight, [PathNext]_pathVars PROVE ProfilesRight'
  OBVIOUS
<1>1. ASSUME NEW h \in Openings, NEW close \in DOMAIN h,
             OpenSession([volume |-> h, close |-> close])
      PROVE  ProfilesRight'
  <2>. DEFINE bar == [volume |-> h, close |-> close]
  <2>1. bar.close \in Closes
    BY DEF Closes
  <2>2. OpenSession(bar)
    BY <1>1
  <2>3. Histogram(bar.volume)
    BY PathAssumption
  <2>. HIDE DEF bar
  <2>. QED  BY <2>1, <2>2, <2>3, OpenSessionProfiles
<1>2. ASSUME NEW bar \in Bars, OpenSession(bar)
      PROVE  ProfilesRight'
  BY <1>2, OpenSessionProfiles, PathAssumption DEF Closes
<1>3. ASSUME NEW bar \in Bars, AddBar(bar)
      PROVE  ProfilesRight'
  BY <1>3, AddBarProfiles, PathAssumption DEF Closes
<1>4. CASE UNCHANGED pathVars
  BY <1>4 DEF pathVars, vars, ProfilesRight, OnlyEqualBinsRaise
<1>. QED  BY <1>1, <1>2, <1>3, <1>4 DEF PathNext

(* At every bar the path has a histogram and an earlier reference.         *)
THEOREM PathProfiles == PathSpec => []ProfilesRight
<1>1. PathInit => Inv /\ PathInv /\ ProfilesRight
  <2>1. PathInit => Init /\ PathInv /\ ProfilesRight
    BY DEF PathInit, PathInv, Init, ProfilesRight, OnlyEqualBinsRaise
  <2>. QED  BY <2>1, InitInv
<1>. QED
  BY <1>1, PathStep, NextInv, ProfilesStep, PTL DEF PathSpec

(* On the publication path nothing raises but the entropy of equal bins.   *)
THEOREM OnlyEntropyRaises == PathSpec => []OnlyEqualBinsRaise
<1>1. ProfilesRight => OnlyEqualBinsRaise
  BY DEF ProfilesRight
<1>. QED  BY <1>1, PathProfiles, PTL

(* The value area of every histogram of the path is tight.                 *)
THEOREM ValueAreasAreTight == PathSpec => []ValueAreaIsTight
<1>1. ProfilesRight => ValueAreaIsTight
  <2>1. ProfilesRight /\ volume # << >> => Tight(volume)
    BY HistogramsAreTight DEF ProfilesRight
  <2>2. ValueAreaIsTight <=> (volume # << >> => Tight(volume))
    BY DEF ValueAreaIsTight, Tight
  <2>. QED  BY <2>1, <2>2
<1>. QED  BY <1>1, PathProfiles, PTL
===============================================================================
