SPECIFICATION FairSpec
CONSTANTS
  s1 = s1
  s2 = s2
  p1 = p1
  Session = {s1}
  Project <- MCProject
  Prompts = {"build", "query", "action", "unsupported"}
  Faults = {"db"}
PROPERTIES
  ClientHears
  RowSettles
CHECK_DEADLOCK FALSE
