\* One command delivered twice, resolved by the batch and by a check at once.
SPECIFICATION FairSpec
CONSTANTS
  c1 = c1
  c2 = c2
  c3 = c3
  none = none
  noFacts = noFacts
  noOrder = noOrder
  x = x
  y = y
  z = z
  b1 = b1
  k1 = k1
  NoCommand = none
  Facts = {x, y, z}
  NoFacts = noFacts
  NoOrder = noOrder
  Commands = {c1}
  PlaceRequests <- OneTwice
  LegacyPlacements = {}
  ForeignOrders = {}
  CancelRequests = {}
  Batches = {b1}
  Checks = {k1}
  MaxTime = 5
  Delay = 1
  Settle = 1
  DayLen = 10
  Session <- AlwaysOpen
  Lag = 0
  LastStamp = 1
  Grace = 3
  Window = 1
  ReadSpan = 1
INVARIANT RepliesAgree
PROPERTIES ConclusionIsFinal ImplementsLedger PendingIsResolved
