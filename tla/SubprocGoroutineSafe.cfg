SPECIFICATION Spec
CONSTANTS
  Callers = {g1, g2}
  Methods = {add}
  Listed = {add}
  Empty = noname
  Worker = "python"
  Serial = FALSE
  Noisy = FALSE
  HasCloser = TRUE
  MaxCalls = 3
  PipeCap = 2
INVARIANTS GoroutineSafe
CHECK_DEADLOCK FALSE
