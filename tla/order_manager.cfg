SPECIFICATION FairSpec
CONSTANTS
  t1 = t1
  t2 = t2
  o1 = o1
  o2 = o2
  None = None
  Tasks = {t1, t2}
  Ids = {o1, o2}
  VenueIds = {o1, o2}
  VenueIdOf <- MCVenueIdOf
  Instruments = {i1, i2}
  Strategies = {s1}
  Quantities = {2}
  FillQuantities = {1, 2}
  AllowDuplicateIds = FALSE
  MaxOpenOrders = 2
  MaxOrdersPerSymbol = 1
  ClosedMarkets = {i2}
  Ops <- AllOps
  MaxCalls = 4
INVARIANTS
  TypeOK
  QuantitiesConsistent
  IndexComplete
  HistoryExact
  VenueMapped
  CancelReportedOnce
  OnlyResetStandsStill
PROPERTIES
  ClosedOrdersFinal
  CallsReturnOrStandStill
CHECK_DEADLOCK FALSE
