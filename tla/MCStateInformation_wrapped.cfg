SPECIFICATION InfoSpec
CONSTANTS
  Acts <- ThreeActs
  Eats <- TwoEats
  Lists <- SmallLists
  HdSize = 26
  ActSize = 12
  EatSize = 20
  SizeValues = 128
  GarbageNums <- SomeNums
  NULL = NULL
  Clients <- Everyone
INVARIANT AtSomeHeader
CHECK_DEADLOCK FALSE
