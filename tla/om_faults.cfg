SPECIFICATION Spec
CONSTANTS
  Quotes <- TwoQuotes
  Tick = 1
  Faults = {"partial", "matched", "lostfill", "posttimeout", "deletetimeout", "lenient"}
  Lots = 2
  MaxInventory = 3
  StartNet = 1
  MaxOrders = 2
INVARIANTS PositionConserved CancelAllReaches
CONSTRAINT OneSideOdd
CHECK_DEADLOCK FALSE
