SPECIFICATION FairSpec
CONSTANTS
  daily = daily
  onePlan = onePlan
  NoOwner = NoOwner
  NextSchedule <- MCNextSchedule
  MaxAttempts <- MCMaxAttempts
  Resolutions <- MCResolutions
  InitialNextRunAt <- MCInitialNextRunAt
  Horizon = 1
  Owners = {a1, a2}
  Actors = {a1, a2}
  Definitions = {daily, onePlan}
  Plans = {onePlan}
  Once = {onePlan}
  OwnerOf <- MCOwnOwner
  Policies = {"skip"}
  Initial = 0
  Tries = 2
  PendingLimit <- MCPendingLimit
  Backlog = 1
  TokenBound = 4
  BatchLimit = 3
  ManualInstants = {}
  Commands = {}
  MaxCommands = 0
  MaxFaults = 1
PROPERTIES EveryRunSettles DueCursorMoves
