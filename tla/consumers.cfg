SPECIFICATION Spec
CONSTANTS
  a = a
  b = b
  c = c
  NoId = NoId
  Processes = {p1, p2}
  Topics <- MCTopics
  MaxLength = 4
  MaxFaults = 4
INVARIANTS TypeOK OneRowPerKey SkippedWasLeft RecordedHasRow
PROPERTY EventuallySettled
CHECK_DEADLOCK FALSE
