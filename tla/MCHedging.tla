----------------------------- MODULE MCHedging -----------------------------
(***************************************************************************)
(* Instances of Hedging for TLC.                                           *)
(***************************************************************************)
EXTENDS Hedging

CONSTANTS a, b, c

Three == {a, b, c}
Basket == {a, b}

\* Long, flat and short; a contract is worth 9 dollars, one and a half lots at the
\* one price and two and a quarter at the other, so that sizes are rounded.
Around == {-1, 0, 1}
TwoPrices == {4, 6}

=============================================================================
