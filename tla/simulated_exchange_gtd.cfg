SPECIFICATION Spec
CONSTANTS
  o1 = o1
  o2 = o2
  i1 = i1
  i2 = i2
  a1 = a1
  None = None
  Ids = {o1, o2}
  Instruments = {i1, i2}
  Accounts = {a1}
  Deposit <- MCDeposit
  Requests <- MCRequests
  Changes <- MCChanges
  Prices = {1, 2}
  InsertLatencies = {0, 1}
  UpdateLatencies = {0}
  DeleteLatencies = {0}
  RejectStopOrders = FALSE
  SupportGtd = TRUE
  MaxTime = 2
  MaxCommands = 2
PROPERTIES
  GoodTillDate
CHECK_DEADLOCK FALSE
