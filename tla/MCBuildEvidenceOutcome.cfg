SPECIFICATION MCSpec
CONSTANTS
  Gate = {"page", "types"}
  MaxRounds = 2
  MaxCalls = 2
  Tiers = 2
  Retries = 1
  StaleWrites = 2
  MaxChanges = 3
  Faults = {"model", "write", "check", "slow", "storage"}
INVARIANTS
  LoopTold
  OutcomeHonest
  AuditHonest
  StoredIsShipped
CHECK_DEADLOCK FALSE
