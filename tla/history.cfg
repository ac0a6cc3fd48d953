\* Reads of a day with up to seven orders, two to a page, three pages at most.
SPECIFICATION FairSpec
CONSTANTS
  PageSize = 2
  MaximumPages = 3
  MaxOrders = 7
INVARIANTS TypeOK CompleteRead RepeatsAreMoves
PROPERTIES ReadEnds ImplementsRead
