SPECIFICATION FairSpec
CONSTANTS
  s1 = s1
  s2 = s2
  s3 = s3
  a1 = a1
  a2 = a2
  Invalid = Invalid
  Keep = Keep
  State = {s1, s2, s3}
  Action = {a1, a2}
  World <- TwoActions
  Payoffs <- OneDisliked
  DNum = 1
  DDen = 2
  MaxCount = 1
INVARIANT TypeOK
INVARIANT StaleIsExplained
INVARIANT PayoffBounded
PROPERTY TurnsDecrease
PROPERTY UpdateEnds
