SPECIFICATION FairSpec
CONSTANTS
  Quotes <- TwoQuotes
  Tick = 1
  Faults = {"reject", "delayed", "earlyfill"}
  Lots = 2
  MaxInventory = 2
  StartNet = 0
  MaxOrders = 3
INVARIANTS TypeOK OneOrderPerSide StrategySurvives NeverSendsCross OvershootBounded
PROPERTIES UpdateEnds IdleKillCleans
CHECK_DEADLOCK FALSE
