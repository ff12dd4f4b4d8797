SPECIFICATION Spec
CONSTANTS
  None = None
  v1 = v1
  v2 = v2
  k1 = k1
  k2 = k2
  t1 = t1
  Vm = {v1, v2}
  Call = {k1, k2}
  Tab = {t1}
  Goals = {"prewarm", "create", "write", "open", "kill"}
  Faults = {"e2b", "redis", "db", "expire", "restart"}
SYMMETRY MCSymmetry
INVARIANTS
  OnePerProject
  Findable
