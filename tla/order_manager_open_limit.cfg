SPECIFICATION Spec
CONSTANTS
  t1 = t1
  t2 = t2
  o1 = o1
  o2 = o2
  None = None
  Tasks = {t1, t2}
  Ids = {o1, o2}
  VenueIds = {o1, o2}
  VenueIdOf <- MCVenueIdOf
  Instruments = {i1}
  Strategies = {s1}
  Quantities = {2}
  FillQuantities = {1, 2}
  AllowDuplicateIds = FALSE
  MaxOpenOrders = 1
  MaxOrdersPerSymbol = 2
  ClosedMarkets = {}
  Ops <- SubmitOnly
  MaxCalls = 3
INVARIANTS
  OpenOrdersWithinLimit
CHECK_DEADLOCK FALSE
