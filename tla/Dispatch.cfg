SPECIFICATION Spec
CONSTANTS
  daily = daily
  onePlan = onePlan
  NoOwner = NoOwner
  NextSchedule <- MCNextSchedule
  MaxAttempts <- MCMaxAttempts
  Resolutions <- MCResolutions
  InitialNextRunAt <- MCInitialNextRunAt
  Horizon = 2
  Owners = {w1}
  Actors = {a1, a2}
  Definitions = {daily}
  Plans = {}
  Once = {}
  OwnerOf <- MCSharedOwner
  Policies = {"skip", "catch_up_bounded"}
  Initial = 0
  Tries = 2
  PendingLimit <- MCPendingLimit
  Backlog = 2
  TokenBound = 3
  BatchLimit = 2
  ManualInstants = {2}
  Commands = {"retry", "cancel", "resolve", "trigger", "reschedule", "reconcile"}
  MaxCommands = 1
  MaxFaults = 1
SYMMETRY ActorSymmetry
INVARIANTS DispatchTypeOK SucceededWasDelivered
PROPERTIES StoreSpec OnlyLatestAttemptSettles CursorNeverRegresses
