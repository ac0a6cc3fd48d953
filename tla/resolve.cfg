\* A new command, two of an earlier release, somebody else's order, and the batch.
SPECIFICATION Spec
CONSTANTS
  c1 = c1
  c2 = c2
  c3 = c3
  none = none
  noFacts = noFacts
  noOrder = noOrder
  x = x
  y = y
  z = z
  b1 = b1
  k1 = k1
  NoCommand = none
  Facts = {x, y, z}
  NoFacts = noFacts
  NoOrder = noOrder
  Commands = {c1, c2, c3}
  PlaceRequests <- OneCommand
  LegacyPlacements <- LeftBehind
  ForeignOrders <- Stranger
  CancelRequests = {}
  Batches = {b1}
  Checks = {}
  MaxTime = 8
  Delay = 1
  Settle = 1
  DayLen = 3
  Session <- LateInTheDay
  Lag = 1
  LastStamp = 3
  Grace = 4
  Window = 2
  ReadSpan = 1
INVARIANTS AbsentIsReal AcceptedIsOwn
