SPECIFICATION Spec
CONSTANTS
  Sessions = {s1}
  Requests = {q1}
  Attempts = {a1}
  NoFile = NoFile
  FirstInstall = FALSE
  MaxBuild = 1
  MaxClock = 1
  MaxCrashes = 0
  MaxFaults = 0
INVARIANTS
  RolledBackSidecarIsOwn
