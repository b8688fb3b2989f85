SPECIFICATION FairSpec
CONSTANTS
  Callers = {c1, c2}
  NoCaller = NoCaller
  Closers = {k1, k2}
  MaxGenerations = 3
INVARIANTS LifecycleTypeOK OneWorkerLoop ClosedMeansStopped
PROPERTY StopsForGood
CHECK_DEADLOCK FALSE
