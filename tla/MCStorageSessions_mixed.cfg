SPECIFICATION SessionsSpec
CONSTANTS
  State <- TwoStates
  Action <- OneAction
  NULL = NULL
  Engines = {"Sqlite"}
  Failures <- None
  Requests <- Loads
  Bits = 3
  MaxSteps = 3
INVARIANT LoadContinues
CHECK_DEADLOCK FALSE
