SPECIFICATION Spec
CONSTANTS
  Rows = {1, 2}
  Publishers = {p1, p2}
  Batch = 2
  Nothing = Nothing
  MaxFaults = 2
INVARIANTS TypeOK RetiredIsDelivered DuplicatesAreExcused
PROPERTY EventuallyRetired
CHECK_DEADLOCK FALSE
