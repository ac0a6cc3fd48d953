\* Somebody else places an order with the facts of a command.
SPECIFICATION Spec
CONSTANTS
  c1 = c1
  c2 = c2
  c3 = c3
  none = none
  noFacts = noFacts
  noOrder = noOrder
  x = x
  y = y
  z = z
  b1 = b1
  k1 = k1
  NoCommand = none
  Facts = {x, y, z}
  NoFacts = noFacts
  NoOrder = noOrder
  Commands = {c1}
  PlaceRequests <- OneCommand
  LegacyPlacements = {}
  ForeignOrders <- LookAlike
  CancelRequests = {}
  Batches = {b1}
  Checks = {}
  MaxTime = 0
  Delay = 0
  Settle = 0
  DayLen = 10
  Session <- AlwaysOpen
  Lag = 0
  LastStamp = 0
  Grace = 10
  Window = 5
  ReadSpan = 0
INVARIANT AcceptedIsOwn
