------------------------------- MODULE Indicators -------------------------------
(***************************************************************************)
(* The engines of the two bar clocks and the calendar that cuts their      *)
(* sessions: IAEEngine on fast bars, MediumStates on medium bars, both     *)
(* over the segments SessionCalendar makes of a calendar.  The engines of  *)
(* a stream share no state, so a behavior is one of three: the gap engine  *)
(* runs, the medium engines run, or a calendar is only asked about.        *)
(***************************************************************************)
EXTENDS IAEEngine, MediumStates, SessionCalendar

CONSTANTS
    Calendars,   \* bound: calendars handed to the constructor, accepted or not
    Horizon,     \* bound: the instants asked about are 0..Horizon
    GapCalendar, MediumCalendar  \* the calendars of the two clocks

(* session_bounds and session_id give the engines their segments *)
ASSUME IndicatorAssumption ==
    /\ Segments = SegmentsOf(GapCalendar, 0..(Last(Segments).end - 1))
    /\ MediumSegments = SegmentsOf(MediumCalendar, 0..(Last(MediumSegments).end - 1))

(* Times of day are local wall-clock times, so before the next midnight;   *)
(* dates and the instant the clock jumps are any.                          *)
TimesOfDay(cal, windows) == \A w \in windows : {w.start, w.end} \subseteq 0..(cal.day - 1)

ASSUME CalendarAssumption ==
    /\ Horizon \in Nat
    /\ \A cal \in Calendars :
         /\ cal.day \in Nat \ {0} /\ cal.change \in Int /\ cal.shift \in Int
         /\ TimesOfDay(cal, cal.windows)
         /\ \A e \in cal.exceptions : e.date \in Int /\ TimesOfDay(cal, e.closures)

VARIABLES
    running,     \* "gaps", "medium" or "calendar"
    calendar     \* the calendar asked about

indicatorVars == <<vars, mediumVars, running, calendar>>

(* The walls strictly inside the hour the clock skips or repeats *)
Jumped(cal) ==
    ((cal.change + 1)..(cal.change + cal.shift - 1)) \cup ((cal.change + cal.shift + 1)..(cal.change - 1))

(* No window or closure begins or ends inside that hour, and no closure is *)
(* skipped as a whole: nothing would show where it cut its session.  The   *)
(* reference policies have no such boundary: the clock changes at two, and *)
(* windows end at two at the earliest.                                     *)
ClearOfTheChange(cal) ==
    /\ \A wall \in Jumped(cal) :
         /\ \A w \in cal.windows : wall % cal.day \notin {w.start, w.end}
         /\ \A c \in Closures(cal) : wall \notin {c[3].start, c[3].end}
    /\ \A c \in Closures(cal) : ~(cal.change <= c[3].start /\ c[3].end <= cal.change + cal.shift)

(* The windows of a reference policy leave no hole in the day (an instant  *)
(* in a hole is refused), differ in name, and none is of type CLOSED.      *)
PartitionsTheDay(cal) ==
    /\ \A time \in 0..(cal.day - 1) : \E w \in cal.windows : InWindow(w, time)
    /\ \A v, w \in cal.windows : v.name = w.name => v = w
    /\ \A w \in cal.windows : w.type \notin {"CLOSED", NoType}

IndicatorInit ==
    /\ Init /\ MediumInit
    /\ running \in {"gaps", "medium", "calendar"}
    /\ calendar \in IF running = "calendar"
                    THEN {cal \in Calendars : Accepted(cal) /\ PartitionsTheDay(cal) /\ ClearOfTheChange(cal)}
                    ELSE {[windows |-> {}]}

IndicatorNext ==
    /\ \/ running = "gaps" /\ Next /\ UNCHANGED mediumVars
       \/ running = "medium" /\ MediumNext /\ UNCHANGED vars
    /\ UNCHANGED <<running, calendar>>

IndicatorSpec == IndicatorInit /\ [][IndicatorNext]_indicatorVars

-----------------------------------------------------------------------------
(* Under an accepted calendar whose windows partition the day no question  *)
(* is ambiguous, and time is cut                                           *)
(* into segments: the bounds of an open instant contain it, its neighbors  *)
(* inside them have the same session and bounds, the next segment starts   *)
(* at the end or after, and two segments share a session only around a     *)
(* closure, also in the night the clock changes (classify, session_id and  *)
(* session_bounds agree).                                                  *)
SegmentsPartitionTime ==
    running = "calendar" =>
      LET bounds == [t \in 0..Horizon |-> SessionBounds(calendar, t)]
          id     == [t \in 0..Horizon |-> SessionId(calendar, t)]
          shut   == {t \in 0..Horizon : Classify(calendar, t) = "CLOSED"}
      IN  /\ \A t \in 0..Horizon :
               /\ id[t] # NoId /\ Classify(calendar, t) # NoType
               /\ (bounds[t] = NoBounds) = (t \in shut)
               /\ t \notin shut => bounds[t].start <= t /\ t < bounds[t].end
          /\ \A t \in 1..Horizon : t \notin shut =>
               IF bounds[t].start < t THEN bounds[t - 1] = bounds[t] /\ id[t - 1] = id[t]
               ELSE /\ t - 1 \in shut \/ bounds[t - 1].end = t
                    /\ t - 1 \notin shut => id[t - 1] # id[t]
          /\ \A s, t \in {t \in (1..Horizon) \ shut : bounds[t].start = t} :
               s < t /\ id[s] = id[t] => \E u \in s..t : u \in shut

=============================================================================
