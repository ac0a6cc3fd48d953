\* Two runs of the canary against an edge that answers, fails or is late.
SPECIFICATION FairSpec
CONSTANTS
  Commands = {1, 2}
  Inherited = {}
  Bands <- SomeBands
  BandTime = 1
  PlaceTime = 1
  CheckTime = 1
  CancelTime = 1
  Overall = 4
INVARIANTS
  TypeOK PassLeavesNothing UncheckedIsAbsent CancelsAccepted FullBudget
  SuccessesKept PriceIsAccepted
PROPERTY RunEnds
CHECK_DEADLOCK FALSE
