SPECIFICATION SessionsSpec
CONSTANTS
  State <- TwoStates
  Action <- OneAction
  NULL = NULL
  Engines = {"Mysql"}
  Failures <- None
  Requests <- Drawing
  Bits = 3
  MaxSteps = 3
INVARIANT NoReaderExits
CHECK_DEADLOCK FALSE
