------------------------------ MODULE Quoting ------------------------------
(***************************************************************************)
(* The last steps of pricing: from a reservation price and a half-spread   *)
(* to the two quotes, which the binary (src/pricing/fair_value.py) and the *)
(* categorical engine (src/pricing/categorical_skew.py) take alike, and    *)
(* the rounding to a market's tick the order managers add to it.           *)
(*                                                                         *)
(* Prices are whole tenths of a cent: 500 is $0.50.  How the reservation   *)
(* price and the half-spread come about is not modelled.                   *)
(***************************************************************************)
EXTENDS Integers

Cent == 10

\* Python's round(p / t): the nearest whole number, of two as near the even one.
Nearest(p, t) ==
  LET down == p \div t
      rest == p % t
      up   == 2 * rest > t \/ (2 * rest = t /\ down % 2 = 1)
  IN  IF up THEN down + 1 ELSE down

RoundTo(p, t) == t * Nearest(p, t)

\* round_to_tick, which leaves a price alone when the tick makes no sense.
RoundToTick(p, t) == IF t <= 0 THEN p ELSE RoundTo(p, t)

Clip(p, low, high) == IF p < low THEN low ELSE IF p > high THEN high ELSE p

\* Quotes a half-spread h either side of the reservation price r, clipped,
\* rounded to a cent, and pulled apart when that made them meet.
QuotePair(r, h) ==
  LET bid == RoundTo(Clip(r - h, 10, 980), Cent)
      ask == RoundTo(Clip(r + h, 20, 990), Cent)
      mid == (bid + ask) \div 2
  IN  IF bid >= ask THEN [bid |-> mid - Cent, ask |-> mid + Cent]
                    ELSE [bid |-> bid, ask |-> ask]

=============================================================================
