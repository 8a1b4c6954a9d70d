SPECIFICATION LoopSpec
CONSTANTS
  Second = 10
  sps = 2
  Half = 32
  StepTimes <- AnyStep
  Delays <- Punctual
  MaxTime = 20
INVARIANT NeverOversleeps
INVARIANT PaceKept
CHECK_DEADLOCK FALSE
