SPECIFICATION Spec
CONSTANTS
  Markets = {"m1"}
  Prices = {3}
  Quantities = {1}
  Gains <- SomeGains
  DrawdownLimit = 3
  LossLimit = 2
  Window = 2
  Slack = 1
  AsWindow = 2
  BookStaleAfter = 2
  MaxFills = 3
  MaxTime = 5
INVARIANTS TypeOK SamplesFollow WindowKept StaleBookKills
CHECK_DEADLOCK FALSE
