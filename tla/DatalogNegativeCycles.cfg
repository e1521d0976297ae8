SPECIFICATION DatalogSpec
CONSTANTS
  LogicInputs <- MCLogicInputs
  LogicNames <- MCLogicNames
CHECK_DEADLOCK FALSE
INVARIANT NegativeCyclesRefused
