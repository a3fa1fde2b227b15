SPECIFICATION Spec
CONSTANTS
  m1 = m1
  poly = poly
  Markets = {m1}
  Venues = {poly}
  VenueOf <- OneVenue
  One = 10
  Prices = {3, 6}
  Quantities = {1, 2}
  Holdings <- SomeHoldings
  Balances <- Rich
  DrawdownLimit = 5
  LossLimit = 3
  Window = 2
  Slack = 1
  AsWindow = 1
  BookStaleAfter = 2
  MaxFills = 2
  MaxTime = 2
  Categorical = {}
INVARIANTS MirrorOffset RealizedAgree EntryAgrees
CHECK_DEADLOCK FALSE
