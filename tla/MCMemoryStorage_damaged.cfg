SPECIFICATION StorageSpec
CONSTANTS
  State <- WideState
  Action <- OneAction
  Invalid <- InvalidValue
  NULL = NULL
  Dangling = Dangling
  MaxCount = 1
  Infos <- NoInfo
  Calls <- LoadDeleteCalls
  Reenter <- None
  Engines = {"Sqlite", "Mysql"}
  Bits = 2
  Failures <- KilledOrNotWritten
  Habits <- AnyHabit
INVARIANT LoadedGraphConsistent
CHECK_DEADLOCK FALSE
