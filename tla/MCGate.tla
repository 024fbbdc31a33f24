-------------------------------- MODULE MCGate --------------------------------
(* Model values of AvailabilityGate: two reports, the second delivered     *)
(* before its official release and held by an exception, a correction of   *)
(* the first, the same report of another market with other contents, and   *)
(* records that are refused: one with the contents of another market's,    *)
(* one off the schedule, one whose release is not the scheduled one.       *)
EXTENDS AvailabilityGate

MCSchedule == [d \in {1, 2} |-> IF d = 1 THEN [release |-> 1, manual |-> None]
                                ELSE [release |-> 2, manual |-> 3]]

Record(market, date, content, release, vendor, delivery) ==
    [market |-> market, date |-> date, content |-> content, release |-> release,
     vendor |-> vendor, delivery |-> delivery]

MCRaw ==
    {Record(1, 1, 1, 1, None, 1),
     Record(2, 1, 1, 1, None, 1),
     Record(1, 1, 2, 1, 3, 2),
     Record(2, 1, 3, 1, None, 3),
     Record(1, 2, 1, 2, None, 1),
     Record(2, 2, 2, 2, 2, 2),
     Record(1, 3, 1, 2, None, 2),
     Record(1, 2, 3, 1, None, 1)}
=============================================================================
