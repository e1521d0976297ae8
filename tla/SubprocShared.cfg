SPECIFICATION HostFairSpec
CONSTANTS
  Callers = {g1, g2}
  Methods = {add, drop}
  Listed = {add}
  Empty = noname
  Worker = "python"
  Serial = FALSE
  Noisy = TRUE
  HasCloser = TRUE
  MaxCalls = 2
  PipeCap = 1
INVARIANTS OwnAnswer
PROPERTIES CloseReleases
CHECK_DEADLOCK FALSE
