SPECIFICATION Spec
CONSTANTS
  b1 = b1
  r1 = r1
  r2 = r2
  p1 = p1
  p2 = p2
  g1 = g1
  g2 = g2
  None = None
  BudgetIds <- OneBudget
  ReqIds <- TwoReqs
  PoIds <- TwoPos
  GrnIds = {}
  Allocations = {2}
  Totals = {1, 2}
  OrderValues = {1, 2}
  ReceiptValues = {1}
  Threshold = 2
  MaxMoney = 3
  Policies = {}
  Liberties = {}
SYMMETRY Rows
INVARIANTS PreReconciles HardCeiling
CHECK_DEADLOCK FALSE
