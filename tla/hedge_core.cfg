SPECIFICATION FairSpec
CONSTANTS
  a = a
  b = b
  c = c
  Markets <- Three
  Event <- Basket
  Weight = 9
  MinDelta = 2
  CorrelationMin = 0
  MinSamples = 2
  Quantities <- Around
  Prices <- TwoPrices
  MaxMoves = 1
  MaxHitches = 1
  Hitches = {"unfilled", "refused", "timeout", "throws", "nometa", "outage"}
PROPERTIES Settles
INVARIANTS TypeOK HedgeCloses PerpKnown FewHedgesAfterKill
CHECK_DEADLOCK FALSE
