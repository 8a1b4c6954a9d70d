SPECIFICATION ListSpec
CONSTANTS
  a = a
  b = b
  c = c
  State <- ThreeStates
  NULL = NULL
  Dangling = Dangling
  Walker <- BothWalks
  MaxBirths = 5
SYMMETRY StatesAlike
INVARIANT NewestFirst
INVARIANT WalkExact
INVARIANT AllFreed
PROPERTY NoStateTwice
CHECK_DEADLOCK FALSE
