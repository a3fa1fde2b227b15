---------------------------- MODULE MCInventory ----------------------------
(***************************************************************************)
(* An instance of Inventory for TLC: one market, one venue.                *)
(***************************************************************************)
EXTENDS Inventory

CONSTANTS m1, poly

OneVenue == [m \in Markets |-> poly]
Rich == [v \in Venues |-> 40]
SomeHoldings == {-2, 0, 3}

=============================================================================
