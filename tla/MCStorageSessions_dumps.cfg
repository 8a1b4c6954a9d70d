SPECIFICATION SessionsSpec
CONSTANTS
  State <- SignedState
  Action <- OneAction
  NULL = NULL
  Engines <- EveryEngine
  Failures <- EveryFailure
  Requests <- EverySession
  Bits = 3
  MaxSteps = 3
INVARIANT ConnectionsClosed
INVARIANT WalkComplete
INVARIANT UnwarnedGraphExact
INVARIANT LoadIsWhole
INVARIANT DrawingSound
INVARIANT ReaderSurvives
PROPERTY SessionEnds
CHECK_DEADLOCK FALSE
