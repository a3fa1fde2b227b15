---------------------------- MODULE SignedLedger ----------------------------
(***************************************************************************)
(* What position keeping promises, whatever it stores: a market has one    *)
(* signed position and the money paid for it.  A fill moves both by its    *)
(* signed quantity, a position is taken over once, at its entry price,     *)
(* while the market is flat, a settlement pays the position and flattens   *)
(* it.                                                                     *)
(***************************************************************************)
EXTENDS Integers

CONSTANTS
  Markets,
  One,         \* The price of a dollar.
  Prices,      \* The prices a fill may have.
  Quantities,  \* The quantities a fill may have.
  Holdings     \* The signed positions there may be to take over.

VARIABLES
  position,
  money        \* What was received for the fills of a market, less what was paid.

ledger == <<position, money>>

Sides == {"BUY", "SELL"}
Signed(s, q) == IF s = "BUY" THEN q ELSE -q

Init ==
  /\ position = [m \in Markets |-> 0]
  /\ money = [m \in Markets |-> 0]

TakeOver(m, n, a) ==
  /\ position[m] = 0
  /\ position' = [position EXCEPT ![m] = n]
  /\ money' = [money EXCEPT ![m] = -(n * a)]

Fill(m, s, p, q) ==
  /\ position' = [position EXCEPT ![m] = @ + Signed(s, q)]
  /\ money' = [money EXCEPT ![m] = @ - Signed(s, p * q)]

Settle(m, r) ==
  /\ position' = [position EXCEPT ![m] = 0]
  /\ money' = [money EXCEPT ![m] = @ + position[m] * r]

Next ==
  \E m \in Markets :
    \/ \E n \in Holdings, a \in Prices : TakeOver(m, n, a)
    \/ \E s \in Sides, p \in Prices, q \in Quantities : Fill(m, s, p, q)
    \/ \E r \in {0, One} : Settle(m, r)

Spec == Init /\ [][Next]_ledger

=============================================================================
