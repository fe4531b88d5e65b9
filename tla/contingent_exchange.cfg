SPECIFICATION ContingentSpec
CONSTANTS
  entry = entry
  stop = stop
  target = target
  low = low
  high = high
  bracket = bracket
  oco = oco
  i1 = i1
  a1 = a1
  None = None
  Ids <- MCIds
  Instruments <- MCInstruments
  Accounts <- MCAccounts
  Deposit <- MCDeposit
  Requests <- MCRequests
  Changes = {}
  Prices = {1, 2}
  InsertLatencies = {1}
  UpdateLatencies = {1}
  DeleteLatencies = {1}
  RejectStopOrders = FALSE
  SupportGtd = TRUE
  MaxTime = 3
  MaxCommands = 5
  ListIds <- MCListIds
  ListOf <- MCListOf
  OrderOf <- MCOrderOf
INVARIANTS
  ManagerTypeOK
  ChildrenWaitForEntry
  EntryFillSubmitsChildren
  NoSiblingLeftWorking
  NoEcho
CHECK_DEADLOCK FALSE
