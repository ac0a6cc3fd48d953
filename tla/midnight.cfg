\* An order stamped before midnight is booked after it.
SPECIFICATION Spec
CONSTANTS
  c1 = c1
  c2 = c2
  c3 = c3
  none = none
  noFacts = noFacts
  noOrder = noOrder
  x = x
  y = y
  z = z
  b1 = b1
  k1 = k1
  NoCommand = none
  Facts = {x, y, z}
  NoFacts = noFacts
  NoOrder = noOrder
  Commands = {c1}
  PlaceRequests <- OneOverseas
  LegacyPlacements = {}
  ForeignOrders = {}
  CancelRequests = {}
  Batches = {b1}
  Checks = {}
  MaxTime = 6
  Delay = 1
  Settle = 1
  DayLen = 2
  Session <- AlwaysOpen
  Lag = 0
  LastStamp = 1
  Grace = 3
  Window = 1
  ReadSpan = 1
INVARIANT AbsentIsReal
