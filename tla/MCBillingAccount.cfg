SPECIFICATION Spec
CONSTANTS
  None = None
  k1 = k1
  k2 = k2
  k3 = k3
  e1 = e1
  e2 = e2
  e3 = e3
  t1 = t1
  Plan = {"free", "power"}
  PlanUsage <- MCPlanUsage
  RolloverCap <- MCRolloverCap
  Txn = {t1}
  Items <- MCOneItem
  Amount <- MCAmount
  Event = {e1, e2}
  Call = {k1, k2}
  Cost = {1}
  Grant = {3}
  Stripe = {"power"}
  Faults = {"crash"}
INVARIANTS
  AllotmentKept
PROPERTIES
  TopUpIsSpentLast
  KeepsLedger
SYMMETRY MCSymmetry
