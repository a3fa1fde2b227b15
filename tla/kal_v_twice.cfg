SPECIFICATION Spec
CONSTANTS
  Views <- TwoViews
  Step = 1
  Lots = 2
  MaxInventory = 3
  Threshold = 1
  StartPos = 0
  MaxOrders = 3
  MaxMishaps = 1
  MaxCrashes = 1
  CrashWithin = 2
  Faults = {"reject", "partial", "matched", "oddanswer", "earlyfill", "lostfill", "posttimeout", "deletetimeout", "ticktimeout", "crash", "fetchfails", "listfails", "cancelfails"}
INVARIANTS FilledWasTraded
CHECK_DEADLOCK FALSE
