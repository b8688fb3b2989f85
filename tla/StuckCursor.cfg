SPECIFICATION FairSpec
CONSTANTS
  daily = daily
  onePlan = onePlan
  NoOwner = NoOwner
  NextSchedule <- MCNextSchedule
  MaxAttempts <- MCMaxAttempts
  Resolutions <- MCResolutions
  InitialNextRunAt <- MCInitialNextRunAt
  Horizon = 2
  Owners = {a1, a2}
  Actors = {a1, a2}
  Definitions = {daily}
  Plans = {}
  Once = {}
  OwnerOf <- MCOwnOwner
  Policies = {"catch_up_one"}
  Initial = 1
  Tries = 1
  PendingLimit <- MCPendingLimit
  Backlog = 2
  TokenBound = 2
  BatchLimit = 1
  ManualInstants = {}
  Commands = {"reconcile"}
  MaxCommands = 1
  MaxFaults = 0
PROPERTY DueCursorMoves
