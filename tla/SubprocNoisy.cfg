SPECIFICATION FairSpec
CONSTANTS
  Callers = {g1}
  Methods = {add}
  Listed = {add}
  Empty = noname
  Worker = "python"
  Serial = TRUE
  Noisy = TRUE
  HasCloser = TRUE
  MaxCalls = 4
  PipeCap = 2
INVARIANTS StaysOutOfStep
PROPERTIES CallReturnsOrClogs
CHECK_DEADLOCK FALSE
