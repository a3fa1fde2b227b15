SPECIFICATION FairSpec
CONSTANTS
  Prices = {1, 2, 3}
  Sizes = {0, 1, 2}
  One = 6
  MaxDepth = 2
  MarketId = "btc-100k"
  Ticker = "btc-100k"
  Opening <- TwoLevels
  MaxBatch <- UpToTwo
  Numberings <- BothOrEnvelope
  CanLose = {"delta"}
  MaxEvents <- FewEvents
  MaxPending = 2
  MaxFaults = 1
INVARIANTS TypeOK LadderFollows NothingInvented BestHolds CrossedOnlyBetween
PROPERTIES CatchesUp
CHECK_DEADLOCK FALSE
