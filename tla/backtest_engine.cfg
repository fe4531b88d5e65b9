SPECIFICATION BacktestSpec
CONSTANTS
  i1 = i1
  a1 = a1
  oco = oco
  None = None
  Ids <- MCIds
  Instruments <- MCInstruments
  Accounts <- MCAccounts
  Deposit <- MCDeposit
  Requests <- MCRequests
  Changes = {}
  Prices = {1, 2}
  InsertLatencies = {1}
  UpdateLatencies = {1}
  DeleteLatencies = {1}
  RejectStopOrders = FALSE
  SupportGtd = TRUE
  MaxTime = 2
  MaxCommands = 4
  ListIds <- MCListIds
  ListOf <- MCListOf
  Capital = 3
  Rate = 0
  Fees = {0, 1}
  LastBar = 1
  MaxBars = 3
  MaxRuns = 2
VIEW WithoutRegistered
INVARIANTS
  BacktestTypeOK
  LockedCashAccounted
  LocksFollowOrders
  LocksCoverFills
  PositionsFollowFills
CHECK_DEADLOCK FALSE
