SPECIFICATION Spec
CONSTANTS
  a = a
  b = b
  c = c
  NoId = NoId
  Processes = {p1, p2}
  Topics <- TwoPayments
  MaxLength = 2
  MaxFaults = 2
INVARIANT NothingSkipped
CHECK_DEADLOCK FALSE
