SPECIFICATION FairSpec
CONSTANTS
  Processes = {p1, p2}
  NoProcess = NoProcess
  c1 = c1
  c2 = c2
  Contents = {c1, c2}
  Publishable <- MCPublishable
  NoContent = NoContent
  MaxGeneration = 2
  MaxRevision = 2
  SyncLimit = 2
  ConvergeLimit = 2
  MaxCrashes = 1
  MaxErrors = 1
INVARIANTS PublicationTypeOK SessionsUnique ApplyHoldsLock AckedIsProjected
PROPERTIES CanonicalMovesForward OlderSessionsFenced ProjectionMovesForward ProjectionCatchesUp
