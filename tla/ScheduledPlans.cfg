SPECIFICATION FairSpec
CONSTANTS
  Handlers = {h1, h2}
  Contents = {c1, c2}
  Once = {c1}
  CreatedWith = {c1}
  MaxRevision = 3
  MaxFaults = 2
INVARIANTS PlansTypeOK AnswersTakeEffect SoloCallProjects
PROPERTIES RecordSpec RevivedOnlyByRevision RestartRepairs
