SPECIFICATION Spec
CONSTANTS
  Threads = {t1, t2}
  Modules = {m1, m2}
  MaxLoops = 3
  None = None
  Shared = Shared
  Host = Host
SYMMETRY Symmetry
INVARIANTS ShimsAnswer SerialObservable LoopsConsistent
