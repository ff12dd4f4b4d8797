SPECIFICATION Spec
CONSTANTS
  None = None
  p1 = p1
  p2 = p2
  c1 = c1
  c2 = c2
  l1 = l1
  l2 = l2
  Path = {p1, p2}
  Content = {c1}
  Label = {l1, l2}
  MaxCheckpoints = 1
  Faults = {"sandbox", "storage", "slow", "cut"}
INVARIANTS
  CopiesInStep
PROPERTIES
  RevertAllOrNothing
SYMMETRY MCSymmetry
