SPECIFICATION LocalSpec
CONSTANTS
  Threads = {t1, t2}
  Sessions = {1, 2}
  None = None
  Helpers = {h1, h2}
  Nonces = {1, 2}
  EntryCount = 1
  PLAN_TTL = 1
  LedgerSize = 1
  RemovalTime = 2
  Torn = Torn
  Procs = {p1, p2, p3}
  LockAge = 1
  MaxRestarts = 1
  RuntimeTime = 2
  Extensions = {"x"}
  Codes = {1, 2}
  PAIRING_CODE_TTL = 1
  PairingTime = 1
  PairingStarts = 2
  Received <- ReceivedRequests
  Skew = 1
  NonceTTL = 2
  MaxNonces = 1
  FailureWindow = 1
  MaxFailures = 1
  BoundaryTime = 3
  MaxAccepted = 3
  LOCAL_SCHEMA_VERSION = 1
  Targets = {1, 2, 3}
  Registries <- Declared
  MaxAttempts = 3
  Pids = {1, 2, 3}
  ShellPid = 9
  Images = {"api", "other"}
  Tolerance = 1
  Window = 3
  MaxDepth = 2
  MaxBorn = 4
  MaxStarts = 2
SYMMETRY Interchangeable
CONSTRAINTS
  NotOvertaken
  TwoAtOnce
  StillExecutable
INVARIANTS
  ExecutedOnceAndBackedUp
  ServedIsPublished
  PairedInTime
  ReplayWindow
  UpgradesAreWhole
  PendingCanBeApplied
  StopIsExact
