SPECIFICATION Spec
CONSTANTS
  Quotes <- TwoQuotes
  Tick = 1
  Faults = {}
  Lots = 1
  MaxInventory = 3
  StartNet = 0
  MaxOrders = 3
INVARIANTS KillCancelsAll
CHECK_DEADLOCK FALSE
