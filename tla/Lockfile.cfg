SPECIFICATION Spec
CHECK_DEADLOCK FALSE
CONSTANTS
  Requests <- MCRequests
  MaxTmp = 2
  MaxFaults = 1
  NoCache = FALSE
  Hyphenated = {3, 9}
  RuntimeDep = 9
  Plain = Plain
  Prefixed = Prefixed
  CacheDir = CacheDir
  Broken = Broken
  None = None
  Stale = Stale
  MaxOps = 4
INVARIANTS DiskComplete NilVenvExact ScratchBounded LockSound
PROPERTIES BuildSteps
