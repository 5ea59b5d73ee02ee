SPECIFICATION Spec
CONSTANTS
  b1 = b1
  b2 = b2
  Bins = {b1, b2}
  Readings <- MCReadings
  Filters <- MCFilters
  Limit = 2
  MaxOpens = 2
  MaxChanges = 2
INVARIANTS NothingSkipped FullPages
PROPERTY WalksInOrder
CHECK_DEADLOCK FALSE
