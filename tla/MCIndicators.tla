------------------------------ MODULE MCIndicators ------------------------------
(* Model values of Indicators.  Gaps: two bars that only fill time-of-day  *)
(* buckets, then a session the calendar closes in between; bars that form, *)
(* test and break gaps.  Medium: five days, the last with a closure.       *)
(* Calendars: the reference policies over three days, with the clock       *)
(* changing at two in the second night, and closures of every kind.        *)
EXTENDS Indicators

NoChange(day, windows, exceptions) ==
    [day |-> day, windows |-> windows, exceptions |-> exceptions, change |-> 0, shift |-> 0]
Closing(name, date, closures) ==
    [name |-> name, date |-> date, allDay |-> FALSE, closures |-> closures]
Holiday(name, date) == [name |-> name, date |-> date, allDay |-> TRUE, closures |-> {}]

MCGapCalendar ==
    NoChange(13, {Window(1, "ETH", 0, 5), Window(2, "ETH", 5, 13)},
             {Closing("halt", 0, {Window("halt", "CLOSED", 11, 12)})})
MCSegments ==
    <<[id |-> 1, type |-> "ETH", start |-> 0, end |-> 5],
      [id |-> 6, type |-> "ETH", start |-> 5, end |-> 11],
      [id |-> 6, type |-> "ETH", start |-> 12, end |-> 13]>>
MCEnds == (4..11) \cup {13}

BarOf(open, high, low, close) == [open |-> open, high |-> high, low |-> low, close |-> close]

MCBars ==
    {BarOf(1, 1, 1, 1),    \* locked below
     BarOf(1, 2, 1, 2),    \* impulse up
     BarOf(3, 4, 3, 4),    \* above, may form, test and form again
     BarOf(4, 4, 4, 4),    \* locked above
     BarOf(3, 4, 2, 4),    \* tests bullish gaps with a wick
     BarOf(4, 4, 1, 1)}    \* impulse down, breaks a bullish gap

MCMediumCalendar ==
    NoChange(4, {Window("eth", "ETH", 0, 3)},
             {Closing("halt", 4, {Window("halt", "CLOSED", 1, 2)})})
MCMediumSegments ==
    [i \in 1..4 |-> [id |-> 4 * i - 3, type |-> "ETH", start |-> 4 * i - 4, end |-> 4 * i - 1]]
    \o <<[id |-> 17, type |-> "ETH", start |-> 16, end |-> 17],
         [id |-> 17, type |-> "ETH", start |-> 18, end |-> 19]>>
MCMediumEnds == {1, 2, 5, 6, 9, 10, 13, 14, 17, 19}

EarlyClose == Closing("early", 1, {Window("early", "CLOSED", Clock(13, 0), Clock(18, 0))})
TwoHalts == Closing("halts", 1, {Window("night", "CLOSED", Clock(23, 0), Clock(1, 0)),
                                 Window("noon", "CLOSED", Clock(12, 0), Clock(12, 30))})
NightHalt == Closing("night", 0, {Window("late", "CLOSED", Clock(22, 0), Clock(4, 0))})
MCExceptions == {EarlyClose, TwoHalts, NightHalt, Holiday("holiday", 1)}

MCCalendars ==
    [day : {TenMinuteDay}, windows : ReferencePolicies, exceptions : SUBSET MCExceptions,
     change : {TenMinuteDay + Clock(2, 0)}, shift : {-6, 0, 6}]
    \cup {NoChange(TenMinuteDay, EquityWindows \cup {Window("lunch", "RTH", Clock(12, 0), Clock(13, 0))}, {})}
MCHorizon == 3 * TenMinuteDay - 1
=============================================================================
