SPECIFICATION Spec
CONSTANTS
  Threads = {t1, t2}
  Extensions = {"x", "y"}
  Codes = {1, 2}
  TTL = 1
  MaxClock = 1
  MaxStarts = 1
  None = None
INVARIANT
  CodeUsedOnce
