SPECIFICATION LifeSpec
CONSTANTS
  s1 = s1
  s2 = s2
  s3 = s3
  a1 = a1
  a2 = a2
  v1 = v1
  Invalid = Invalid
  NULL = NULL
  Dangling = Dangling
  State = {s1, s2, s3}
  Action = {a1, a2}
  MaxCount = 2
  Infos <- None
  Calls <- ModeCalls
  Reenter <- PayoffCalls
  Avatars = {v1}
  World <- Anywhere
  Uses <- None
SYMMETRY Symmetric
INVARIANT MemoryIsLife
INVARIANT OnePath
CHECK_DEADLOCK FALSE
