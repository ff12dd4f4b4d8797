SPECIFICATION Spec
CONSTANTS
  t1 = t1
  t2 = t2
  r1 = r1
  r2 = r2
  b1 = b1
  b2 = b2
  k1 = k1
  k2 = k2
  k3 = k3
  Txn = {t1}
  Custom = {}
  Request = {r1}
  Build = {b1, b2}
  Slot = {k1, k2, k3}
  SlotsOf <- MCSlotsOf
  MaxGrants = 2
  MaxRows = 2
  MaxRefresh = 2
  Faults = {"db", "restart", "slow", "expire"}
SYMMETRY Alike
INVARIANTS
  OnceEach
  OwnCredential
  TokensKept
CHECK_DEADLOCK FALSE
