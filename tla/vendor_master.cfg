SPECIFICATION Spec
CONSTANTS
  v1 = v1
  v2 = v2
  p = p
  c = c
  None = None
  RowIds = {v1, v2}
  Parties = {p}
  Codes = {c}
  Users = {"user"}
  Inboxes <- MCInboxes
  Workers = {w1, w2}
  Clock = {0, 3}
  MaxFaults = 2
INVARIANTS OneRowPerParty ToldOfDeletion AdviceStands
CHECK_DEADLOCK FALSE
