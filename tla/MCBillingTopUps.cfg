SPECIFICATION FairSpec
CONSTANTS
  None = None
  k1 = k1
  k2 = k2
  k3 = k3
  e1 = e1
  e2 = e2
  e3 = e3
  t1 = t1
  Plan = {"free"}
  PlanUsage <- MCPlanUsage
  RolloverCap <- MCRolloverCap
  Txn = {t1}
  Items <- MCTwoItems
  Amount <- MCAmount
  Event = {e1}
  Call = {k1, k2, k3}
  Cost = {}
  Grant = {}
  Stripe = {}
  Faults = {"db", "crash"}
INVARIANTS
  CreditedOnce
PROPERTIES
  PaidIsCredited
