--------------------------- MODULE MCOrderManager ---------------------------
(***************************************************************************)
(* Instances of OrderManager for TLC.                                      *)
(***************************************************************************)
EXTENDS OrderManager

\* Two quotes a reprice apart: the second bid meets the first ask, so that the
\* self-trade guard has something to do.
TwoQuotes == {[bid |-> 4, ask |-> 6], [bid |-> 6, ask |-> 8]}

\* Where both sides have fared oddly the run goes no further: what the
\* invariants say of a side says nothing there.
OneSideOdd == odd # Sides

=============================================================================
