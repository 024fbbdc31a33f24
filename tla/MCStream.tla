------------------------------- MODULE MCStream -------------------------------
(* Model values of StreamFeed: two sessions of one type around one of the  *)
(* other, the first with a tail shorter than a bar and a closed minute     *)
(* after it.                                                               *)
EXTENDS StreamFeed

MCSessions ==
    {[id |-> 1, type |-> "RTH", start |-> 0, end |-> 5],
     [id |-> 2, type |-> "ETH", start |-> 6, end |-> 8],
     [id |-> 3, type |-> "RTH", start |-> 8, end |-> 12]}

MCSources == {"a", "b", "c", "d", "e"}
MCSourceIds == <<"a", "b", "c", "d", "e">>

Kind(quality, identified, normal) ==
    [quality |-> quality, identified |-> identified, normal |-> normal]

(* A trade the feed identifies, one it does not, one it reports suspicious. *)
AllKinds == {Kind("clean", TRUE, TRUE), Kind("clean", FALSE, TRUE), Kind("suspect", TRUE, TRUE)}
=============================================================================
