SPECIFICATION FairSpec
CONSTANTS
  Sessions = {s1}
  Requests = {q1, q2}
  Attempts = {a1, a2}
  NoFile = NoFile
  FirstInstall = FALSE
  MaxBuild = 2
  MaxClock = 1
  MaxCrashes = 2
  MaxFaults = 1
INVARIANTS
  PreStartDataSurvives
  ServedSchemaIsCurrent
PROPERTIES
  RollbackIsFinal
  FailedStartReturnsData
  RestoreAttemptedOnce
  EveryStartSettles
