SPECIFICATION Spec
CONSTANTS
  Sessions = {s1}
  Requests = {q1}
  Attempts = {a1}
  NoFile = NoFile
  FirstInstall = FALSE
  MaxBuild = 1
  MaxClock = 0
  MaxCrashes = 1
  MaxFaults = 0
INVARIANTS
  NoSilentRebuild
