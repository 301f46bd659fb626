SPECIFICATION Spec
CONSTANTS
  b1 = b1
  r1 = r1
  r2 = r2
  p1 = p1
  p2 = p2
  g1 = g1
  g2 = g2
  None = None
  BudgetIds <- OneBudget
  ReqIds <- OneReq
  PoIds <- OnePo
  GrnIds <- TwoGrns
  Allocations = {3}
  Totals = {1}
  OrderValues = {1, 2}
  ReceiptValues = {0, 1}
  Threshold = 2
  MaxMoney = 3
  Policies = {}
  Liberties = {"race"}
SYMMETRY Rows
INVARIANTS CommittedReconciles SpentReconciles
CHECK_DEADLOCK FALSE
