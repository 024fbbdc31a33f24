------------------------------ MODULE RollManager ------------------------------
(***************************************************************************)
(* RollManager (data/rolls.py) as functions of its history: the sequence   *)
(* of mapping observations of one root, [old, new, observed, effective].   *)
(***************************************************************************)
EXTENDS Integers, Sequences, SequencesExt

None == "none"    \* Python's None

VisibleAt(o) == IF o.observed >= o.effective THEN o.observed ELSE o.effective

(* the positions of the observations that are visible *)
VisibleByOrder(observations, at) == DOMAIN observations
Visible(observations, at) == {i \in DOMAIN observations : VisibleAt(observations[i]) <= at}

(* current_roll_state *)
RollState(observations, at) ==
    LET visible == Visible(observations, at)
        latest  == {i \in visible : \A j \in visible : j <= i}
    IN  IF \A i, j \in visible : i = j THEN "NORMAL"
        ELSE IF \E i \in latest : VisibleAt(observations[i]) = at THEN "ROLL_TRANSITION"
        ELSE "POST_ROLL"

(* observe_mapping raises unless time moves forward and the old symbol is  *)
(* the one last observed                                                   *)
MappingAccepted(observations, o) ==
    /\ o.old # o.new
    /\ IF observations = <<>> THEN o.old = None
       ELSE /\ o.observed > Last(observations).observed
            /\ VisibleAt(o) > VisibleAt(Last(observations))
            /\ o.old = Last(observations).new

(* what the callers observe takes effect when they see it *)
Observed(old, new, at) == [old |-> old, new |-> new, observed |-> at, effective |-> at]

=============================================================================
