---------------------------- MODULE SessionCalendar ----------------------------
(***************************************************************************)
(* The session engine (data/sessions.py) as functions of a calendar: the   *)
(* windows of one market, in local time, and its dated closures.  Time is  *)
(* counted in units, `day` of them a day; 0 is a local midnight.  A        *)
(* calendar is a record                                                    *)
(*   day         units of a day                                            *)
(*   windows     {[name, type, start, end, crosses], ...}                  *)
(*   exceptions  {[name, date, allDay, closures], ...}, closures a set of  *)
(*               [name, start, end, crosses]                               *)
(*   change      the instant at which the local clock jumps                *)
(*   shift       by how much: 0, forward or backward                       *)
(* Names stand for the identity of what they name; blank names, unknown    *)
(* zones and the two versions of a policy are left out.                    *)
(***************************************************************************)
EXTENDS Integers, FiniteSets, Sequences, SequencesExt, FiniteSetsExt

-----------------------------------------------------------------------------
(* The local clock *)

Local(cal, t) == IF t < cal.change THEN t ELSE t + cal.shift
LocalDate(cal, t) == Local(cal, t) \div cal.day
LocalTime(cal, t) == Local(cal, t) % cal.day

(* The instant of a wall-clock moment: the first of two when the clock     *)
(* went back, and by the offset of before when it skipped the moment       *)
(* (fold = 0).                                                             *)
Utc(cal, wall) ==
    IF wall < cal.change \/ wall < cal.change + cal.shift THEN wall ELSE wall - cal.shift

-----------------------------------------------------------------------------
(* Windows and closures, half-open in wall-clock time *)

InWindow(window, time) ==
    IF window.crosses THEN time >= window.start \/ time < window.end
    ELSE window.start <= time /\ time < window.end

Matching(cal, t) == {w \in cal.windows : InWindow(w, LocalTime(cal, t))}

(* a window that crosses midnight belongs to the day it starts on *)
AnchorOwnDay(cal, window, t) == LocalDate(cal, t)
Anchor(cal, window, t) ==
    IF window.crosses /\ LocalTime(cal, t) < window.end
    THEN LocalDate(cal, t) - 1 ELSE LocalDate(cal, t)

(* wall-clock start and end of a window of `date` *)
Span(cal, window, date) ==
    [start |-> date * cal.day + window.start,
     end   |-> (IF window.crosses THEN date + 1 ELSE date) * cal.day + window.end]

WholeDay(cal) == [name |-> "all_day", start |-> 0, end |-> cal.day, crosses |-> FALSE]

(* the closures of all exceptions: <<exception, closure name, span>> *)
Closures(cal) ==
    UNION {{<<e.name, c.name, Span(cal, c, e.date)>> :
              c \in IF e.allDay THEN {WholeDay(cal)} ELSE e.closures} : e \in cal.exceptions}

Covers(span, wall) == span.start <= wall /\ wall < span.end
ClosedBy(cal, t) == {c \in Closures(cal) : Covers(c[3], Local(cal, t))}

-----------------------------------------------------------------------------
(* What the constructor accepts *)

Disjoint(spans) == \A a, b \in spans : a = b \/ a.end <= b.start \/ b.end <= a.start

(* A window runs over midnight exactly when it says so, and no two windows *)
(* of the day overlap.                                                     *)
PiecesOf(cal, w) ==
    IF w.crosses THEN {[start |-> 0, end |-> w.end, of |-> w], [start |-> w.start, end |-> cal.day, of |-> w]}
    ELSE {[start |-> w.start, end |-> w.end, of |-> w]}
WindowsAccepted(cal) ==
    /\ cal.windows # {}
    /\ \A w \in cal.windows : w.start # w.end /\ w.crosses = (w.start > w.end)
    /\ Disjoint(UNION {PiecesOf(cal, w) : w \in cal.windows})

(* An exception closes the whole day or some windows; closures of one      *)
(* exception, and of different ones, do not overlap.                       *)
ClosuresAccepted(cal) ==
    /\ \A e \in cal.exceptions :
         /\ e.allDay = (e.closures = {})
         /\ \A c \in e.closures : c.start # c.end /\ c.crosses = (c.start > c.end)
         /\ \A c, d \in e.closures : c.name = d.name => c = d
    /\ \A e, f \in cal.exceptions : e.name = f.name => e = f
    /\ Disjoint({[start |-> c[3].start, end |-> c[3].end, of |-> c] : c \in Closures(cal)})

Accepted(cal) == WindowsAccepted(cal) /\ ClosuresAccepted(cal)

-----------------------------------------------------------------------------
(* The three questions *)

(* SessionBoundaryError, as a type, an identity and a segment *)
NoType == "refused"
NoId == <<"refused">>
NoBounds == [refused |-> TRUE]

Classify(cal, t) ==
    IF Cardinality(ClosedBy(cal, t)) > 1 THEN NoType
    ELSE IF ClosedBy(cal, t) # {} THEN "CLOSED"
    ELSE IF Cardinality(Matching(cal, t)) # 1 THEN NoType
    ELSE (CHOOSE w \in Matching(cal, t) : TRUE).type

Open(cal, t) == ClosedBy(cal, t) = {} /\ Cardinality(Matching(cal, t)) = 1
TheWindow(cal, t) == CHOOSE w \in Matching(cal, t) : TRUE

(* the session of an open instant; that of a closure is the closure itself *)
SessionId(cal, t) ==
    IF Cardinality(ClosedBy(cal, t)) > 1 THEN NoId
    ELSE IF ClosedBy(cal, t) # {}
    THEN LET c == CHOOSE c \in ClosedBy(cal, t) : TRUE IN <<c[1], c[2]>>
    ELSE IF ~Open(cal, t) THEN NoId
    ELSE <<TheWindow(cal, t).name, Anchor(cal, TheWindow(cal, t), t)>>

(* The segment of an open instant: its session, cut at the last closure    *)
(* before and the first one after.  Compared in wall-clock time.           *)
SessionBounds(cal, t) ==
    IF ~Open(cal, t) THEN NoBounds
    ELSE LET window == TheWindow(cal, t)
             whole  == Span(cal, window, Anchor(cal, window, t))
             wall   == Local(cal, t)
             cuts   == {c[3] : c \in Closures(cal)}
             inside == {s \in cuts : s.start < whole.end /\ s.end > whole.start}
             start  == Max({whole.start} \cup {s.end : s \in {s \in inside : s.end <= wall}})
             end    == Min({whole.end} \cup {s.start : s \in {s \in inside : s.start > wall}})
         IN  IF Covers([start |-> start, end |-> end], wall)
             THEN [start |-> Utc(cal, start), end |-> Utc(cal, end)] ELSE NoBounds

(* The open segments of the instants of a set, in order; a session is      *)
(* numbered by where it first opens.                                       *)
SegmentsOf(cal, instants) ==
    LET open  == {t \in instants : Open(cal, t)}
        first == [t \in open |-> Min({u \in open : SessionId(cal, u) = SessionId(cal, t)})]
        made  == {[id |-> 1 + first[t], type |-> Classify(cal, t),
                   start |-> SessionBounds(cal, t).start, end |-> SessionBounds(cal, t).end] : t \in open}
        Earlier(s) == {r \in made : r.start < s.start}
    IN  [n \in 1..Cardinality(made) |-> CHOOSE s \in made : Cardinality(Earlier(s)) = n - 1]

-----------------------------------------------------------------------------
(* The reference policies, in units of ten minutes *)

TenMinuteDay == 144
Clock(hour, minute) == 6 * hour + minute \div 10
Window(name, type, start, end) ==
    [name |-> name, type |-> type, start |-> start, end |-> end, crosses |-> start > end]

EquityWindows ==
    {Window("eth_overnight", "ETH", Clock(18, 0), Clock(9, 30)),
     Window("rth", "RTH", Clock(9, 30), Clock(16, 0)),
     Window("eth_afternoon", "ETH", Clock(16, 0), Clock(17, 0)),
     Window("maintenance", "MAINTENANCE", Clock(17, 0), Clock(18, 0))}
TreasuryWindows ==
    {Window("eth_overnight", "ETH", Clock(17, 0), Clock(7, 20)),
     Window("us_cash_hours", "US_CASH_HOURS", Clock(7, 20), Clock(14, 0)),
     Window("eth_afternoon", "ETH", Clock(14, 0), Clock(16, 0)),
     Window("maintenance", "MAINTENANCE", Clock(16, 0), Clock(17, 0))}
CurrencyWindows ==
    {Window("asia", "ASIA", Clock(17, 0), Clock(2, 0)),
     Window("london", "LONDON", Clock(2, 0), Clock(7, 0)),
     Window("new_york", "NEW_YORK", Clock(7, 0), Clock(16, 0)),
     Window("maintenance", "MAINTENANCE", Clock(16, 0), Clock(17, 0))}
ReferencePolicies == {EquityWindows, TreasuryWindows, CurrencyWindows}

=============================================================================
