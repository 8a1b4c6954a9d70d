SPECIFICATION StorageSpec
CONSTANTS
  State <- Narrow
  Action <- OneAction
  Invalid <- InvalidValue
  NULL = NULL
  Dangling = Dangling
  MaxCount = 2
  Infos <- NoInfo
  Calls <- LoadCalls
  Reenter <- None
  Engines = {"Sqlite"}
  Bits = 2
  Failures <- KilledOrNotCommitted
  Habits <- None
INVARIANT StorageTypeOK
INVARIANT PreviousStored
INVARIANT NeverWarned
INVARIANT PathStored
PROPERTY RefinesDurableTransitions
