SPECIFICATION StoreSpec
CONSTANTS
  Definitions = {daily}
  Plans = {}
  Once = {}
  Owners = {w1, w2}
  NoOwner = NoOwner
  Horizon = 3
  NextSchedule <- MCNextSchedule
  MaxAttempts <- MCMaxAttempts
  w1 = w1
  w2 = w2
  PendingLimit <- MCPendingLimit
  TokenBound = 3
  Digits = 2
INVARIANTS StoreTypeOK BacklogBounded DeadLetterEvidence WindowsAccounted RetryBudget RowsConsistent CursorsKeepTime
PROPERTY SettledIsFinal
