SPECIFICATION FairSpec
CONSTANTS
  Callers = {g1, g2}
  Methods = {add, drop, noname}
  Listed = {add}
  Empty = noname
  Worker = "go"
  Serial = TRUE
  Noisy = FALSE
  HasCloser = TRUE
  MaxCalls = 3
  PipeCap = 2
INVARIANTS TypeOK ExecutedOnce InStep
PROPERTIES CallReturns AtMostOnceRPC
CHECK_DEADLOCK FALSE
