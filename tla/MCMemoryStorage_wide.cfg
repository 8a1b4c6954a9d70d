SPECIFICATION StorageSpec
CONSTANTS
  State <- WideState
  Action <- OneAction
  Invalid <- InvalidValue
  NULL = NULL
  Dangling = Dangling
  MaxCount = 2
  Infos <- NoInfo
  Calls <- LoadCalls
  Reenter <- None
  Engines = {"Sqlite"}
  Bits = 2
  Failures <- None
  Habits <- None
INVARIANT NoFault
CHECK_DEADLOCK FALSE
