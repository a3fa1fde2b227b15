SPECIFICATION Spec
CONSTANTS
  m1 = m1
  poly = poly
  Markets = {m1}
  Venues = {poly}
  VenueOf <- OneVenue
  One = 10
  Prices = {3, 6}
  Quantities = {1, 2, 3}
  Holdings <- SomeHoldings
  Balances <- Rich
  MaxFills = 3
INVARIANTS TypeOK LegsAgree PnLConserved
PROPERTIES LedgerKept
CHECK_DEADLOCK FALSE
