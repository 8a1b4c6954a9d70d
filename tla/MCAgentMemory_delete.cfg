SPECIFICATION Spec
CONSTANTS
  s1 = s1
  s2 = s2
  s3 = s3
  a1 = a1
  Invalid = Invalid
  NULL = NULL
  Dangling = Dangling
  State = {s1, s2, s3}
  Action = {a1}
  MaxCount = 2
  Infos <- OnceEach
  Calls <- DeletingCalls
  Reenter <- NoCalls
SYMMETRY Symmetric
INVARIANT PreviousFound
CHECK_DEADLOCK FALSE
