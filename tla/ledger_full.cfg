SPECIFICATION Spec
CONSTANTS
  b1 = b1
  r1 = r1
  r2 = r2
  p1 = p1
  p2 = p2
  g1 = g1
  g2 = g2
  None = None
  BudgetIds <- OneBudget
  ReqIds <- OneReq
  PoIds <- OnePo
  GrnIds <- OneGrn
  Allocations = {2}
  Totals = {0, 2}
  OrderValues = {2}
  ReceiptValues = {1}
  Threshold = 2
  MaxMoney = 2
  Policies = {"lapse", "carry"}
  Liberties <- Unraced
SYMMETRY Rows
INVARIANTS TypeOK RemainingIdentity NonNegativeStages ReferencesHold
CHECK_DEADLOCK FALSE
