----------------------------- MODULE ExcursionLog -----------------------------
(***************************************************************************)
(* What the Auction events of one contract promise a reader of the log of  *)
(* candidate events, without the engine that emits them: every excursion   *)
(* out of value is opened by one exit, and may be followed by one POC      *)
(* migration and one re-entry, both on its own side, in its own session,   *)
(* naming it as parent, and only while it is the latest excursion and has  *)
(* not been closed by its re-entry.                                        *)
(***************************************************************************)
EXTENDS Integers

NoParent == -1

Kinds == {"exit", "migration", "reentry"}

(* An event is identified by its kind, its time and its parent, as in      *)
(* candidate_event_id; the parent is given by the time of the exit.        *)
Event == [kind : Kinds, time : Nat, session : Nat, direction : {-1, 1},
          parent : Nat \cup {NoParent}]

VARIABLE log

Exits(events) == {e \in events : e.kind = "exit"}

Children(events, exit) == {e \in events : e.kind # "exit" /\ e.parent = exit.time}

(* exit is the latest of the events and no re-entry has closed it          *)
Running(events, exit) ==
    /\ exit \in Exits(events)
    /\ \A other \in Exits(events) : other.time <= exit.time
    /\ \A child \in Children(events, exit) : child.kind # "reentry"

(* e continues the excursion it names: a re-entry points back to value     *)
Continues(e, exit) ==
    /\ e.parent = exit.time
    /\ e.session = exit.session
    /\ e.direction = IF e.kind = "reentry" THEN - exit.direction ELSE exit.direction

Init == log = {}

(* The events of one completed bar join the log: none is older than the    *)
(* log, no two are of one kind, and each that is not an exit continues     *)
(* an excursion still running, as the first child of its kind.             *)
Publish(bar) ==
    /\ bar \subseteq Event
    /\ \A e \in bar : \A old \in log : old.time < e.time
    /\ \A e, f \in bar : /\ e.time = f.time
                         /\ e.session = f.session
                         /\ e.kind = f.kind => e = f
    /\ \A e \in Exits(bar) : e.parent = NoParent
    /\ \A e \in bar \ Exits(bar) :
         \E exit \in Exits(log \cup bar) :
            /\ Running(log \cup Exits(bar), exit)
            /\ Continues(e, exit)
            /\ \A child \in Children(log, exit) : child.kind # e.kind
    /\ log' = log \cup bar

(* The bar's events are what the step adds. *)
Next == Publish(log' \ log)

Spec == Init /\ [][Next]_log
=============================================================================
