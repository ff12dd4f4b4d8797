SPECIFICATION FairSpec
CONSTANTS
  Nobody = Nobody
  s1 = s1
  s2 = s2
  tab1 = tab1
  tab2 = tab2
  other = other
  i1 = i1
  i2 = i2
  i3 = i3
  Session = {s1}
  Socket = {tab1, tab2}
  Id = {i1, i2, i3}
  MayJoin <- MCMayJoin
  MaxCalls = 3
  UniqueIds = TRUE
INVARIANTS
  Consent
  FailAll
  EntriesMatchCalls
PROPERTIES
  TimersEndTheirOwn
  KeepsPromise
  Decided
