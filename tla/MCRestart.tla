----------------------------- MODULE MCRestart -----------------------------
(***************************************************************************)
(* Instances of Restart, and of KalshiOrders in it, for TLC.               *)
(***************************************************************************)
EXTENDS Restart

\* The first view rounds to one price for both quotes, which are then pulled
\* apart; the second is far enough away to be worth a reprice, and its bid
\* meets the first one's ask.
TwoViews == {[r |-> 500, h |-> 5], [r |-> 520, h |-> 10]}

=============================================================================
