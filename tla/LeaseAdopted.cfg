SPECIFICATION Spec
CONSTANTS
  daily = daily
  onePlan = onePlan
  NoOwner = NoOwner
  NextSchedule <- MCNextSchedule
  MaxAttempts <- MCMaxAttempts
  Resolutions <- MCResolutions
  InitialNextRunAt <- MCInitialNextRunAt
  Horizon = 2
  Owners = {a1, a2}
  Actors = {a1, a2}
  Definitions = {daily}
  Plans = {}
  Once = {}
  OwnerOf <- MCOwnOwner
  Policies = {"catch_up_one"}
  Initial = 0
  Tries = 2
  PendingLimit <- MCPendingLimit
  Backlog = 2
  TokenBound = 3
  BatchLimit = 1
  ManualInstants = {}
  Commands = {}
  MaxCommands = 0
  MaxFaults = 2
INVARIANT LeaseExclusive
