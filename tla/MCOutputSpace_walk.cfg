SPECIFICATION FairSpec
CONSTANTS
  Half = 16
  Singles <- Zero
  Ranges <- FiveRanges
  Payoffs <- AnyPayoffs
  MaxFrags = 6
  MaxOutputs = 7
INVARIANT IndexAgrees
INVARIANT WithinCapacity
INVARIANT BestActionsExact
PROPERTY WalkEnds
CHECK_DEADLOCK FALSE
