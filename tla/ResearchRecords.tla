---------------------------- MODULE ResearchRecords ----------------------------
(***************************************************************************)
(* The files the program keeps beside its source: the experiment ledger    *)
(* and the certification artifacts.  They share nothing, so a behavior is  *)
(* that of one of them.                                                    *)
(***************************************************************************)
EXTENDS ExperimentLedger, EvidenceSet

VARIABLE keeping    \* "ledger" or "evidence"

recordVars == <<vars, evidenceVars, keeping>>

RecordsInit ==
    /\ Init /\ EvidenceInit
    /\ keeping \in {"ledger", "evidence"}

RecordsNext ==
    /\ \/ keeping = "ledger" /\ Next /\ UNCHANGED evidenceVars
       \/ keeping = "evidence" /\ EvidenceNext /\ UNCHANGED vars
    /\ UNCHANGED keeping

RecordsSpec == RecordsInit /\ [][RecordsNext]_recordVars

=============================================================================
