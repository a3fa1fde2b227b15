------------------------------ MODULE MCBooks ------------------------------
(***************************************************************************)
(* An instance of Books for TLC: two levels on the bids of Kalshi and on   *)
(* the asks of Polymarket at the start, one price more than MAX_DEPTH      *)
(* keeps, and messages of Polymarket with one change or two.               *)
(***************************************************************************)
EXTENDS Books

At1(ps) == [p \in Prices |-> IF p \in ps THEN 1 ELSE 0]
Bids(v) == At1(IF v = "kalshi" THEN {1, 2} ELSE {1})
Asks(v) == At1(IF v = "kalshi" THEN {} ELSE {2, 3})
TwoLevels == [v \in Venues |-> [l \in Ladders |-> IF l[2] = "bid" THEN Bids(v) ELSE Asks(v)]]

BothOrEnvelope == {{"envelope", "body"}, {"envelope"}}

UpToTwo == [v \in Venues |-> IF v = "kalshi" THEN 1 ELSE 2]
FewEvents == [v \in Venues |-> IF v = "kalshi" THEN 3 ELSE 2]

=============================================================================
