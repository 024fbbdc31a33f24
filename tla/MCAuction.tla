------------------------------- MODULE MCAuction -------------------------------
(* Model values of AuctionPath: every histogram of up to three contracts a *)
(* tick on five ticks opens the first session and becomes its final        *)
(* Profile; later bars trade one tick, at the edges also heavily.          *)
EXTENDS AuctionPath

Ticks == 1..5

MCOpenings == UNION {[ticks -> 1..3] : ticks \in SUBSET Ticks \ {{}}}

Single(tick, quantity) == [volume |-> [t \in {tick} |-> quantity], close |-> tick]

MCBars == {Single(t, 1) : t \in {1, 3, 5}} \cup {Single(1, 3), Single(5, 3)}

MCSessionBars == <<1, 4, 1>>

MCEntropyRoundsUp == {5, 12, 13, 18, 24, 26, 27, 31}
=============================================================================
