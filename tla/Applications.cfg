SPECIFICATION FairSpec
CONSTANTS
  Apps = {a1, a2}
  Requests = {r1, r2}
  NoOne = NoOne
  PoolSizes = {1, 2}
  MaxInstances = 2
INVARIANT OnlyRegisteredPolls
PROPERTY ShutdownEnds
