SPECIFICATION SessionsSpec
CONSTANTS
  State <- TwoStates
  Action <- OneAction
  NULL = NULL
  Engines = {"Sqlite"}
  Failures <- None
  Requests <- Loads
  Bits = 3
  MaxSteps = 2
INVARIANT NoReaderExits
CHECK_DEADLOCK FALSE
