SPECIFICATION Spec
CONSTANTS
  s1 = s1
  s2 = s2
  p1 = p1
  Session <- MCSession
  Project <- MCProject
  Prompts = {"build", "unsupported"}
  Faults = {"sigterm", "crash"}
SYMMETRY Symmetry
INVARIANTS
  EarlyCancelNeverDelivers
  NoSilentEnd
  AccountedFor
PROPERTY
  RowClosedOnce
CHECK_DEADLOCK FALSE
