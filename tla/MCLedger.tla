------------------------------- MODULE MCLedger -------------------------------
(* Two processes and two experiments, which are alike; two cells of the    *)
(* run matrix, with a deep run repeated, failed or listed twice, and rows  *)
(* of coverage that are missing, edited, repeated or do not add up.        *)
EXTENDS ResearchRecords, TLC

CONSTANTS w1, w2, e1, e2

Symmetric == Permutations({w1, w2}) \cup Permutations({e1, e2})

Deep(n) == [cell |-> "deep", backtest |-> n, completed |-> TRUE, coverage |-> n]
Smoke == [cell |-> "smoke", backtest |-> 3, completed |-> TRUE, coverage |-> 3]
RowOf(run) == [cell |-> run.cell, backtest |-> run.backtest, coverage |-> run.coverage,
               reconciles |-> TRUE]

Runs == {<<Deep(1), Smoke>>, <<Deep(2), Smoke>>, <<Deep(1), Deep(2)>>,
         <<[Deep(1) EXCEPT !.completed = FALSE], Smoke>>}
Rows == {<<RowOf(Deep(1)), RowOf(Smoke)>>,
         <<RowOf(Deep(2)), RowOf(Smoke)>>,
         <<[RowOf(Deep(2)) EXCEPT !.coverage = 1], RowOf(Smoke)>>,
         <<[RowOf(Deep(1)) EXCEPT !.coverage = 2], RowOf(Deep(1)), RowOf(Smoke)>>}
FirstPublication ==
    [version |-> 1, runs |-> <<Deep(1), Smoke>>, rows |-> <<RowOf(Deep(1)), RowOf(Smoke)>>]
=============================================================================
