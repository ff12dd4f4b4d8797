SPECIFICATION MCSpec
CONSTANTS
  s1 = s1
  c1 = c1
  Socket = {s1}
  Cancel = {c1}
  MaxEvents = 3
  MaxFaults = 1
  Faults = {"redis", "db", "expire", "retry", "restart"}
INVARIANTS
  ViewInOrder
  NothingElseIsMissed
  MessagesKept
CHECK_DEADLOCK FALSE
