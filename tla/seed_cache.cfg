SPECIFICATION Spec
CONSTANTS
  NTables = 3
  Requests = {r1, r2}
  Handlers = {h1, h2}
  HandlerWrites <- OrderWithLines
  ConsumerWrites <- ThirdTable
  Empty = Empty
  MaxWrites = 3
  MaxFaults = 1
INVARIANTS TypeOK StaleIsExcused
PROPERTY EventuallyCurrent
