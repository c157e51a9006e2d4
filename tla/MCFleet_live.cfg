\* A test server may die for good; another, that takes anything, does not.
SPECIFICATION FairSpec
CONSTANTS
  Jobs = {j1, j2}
  Runners = {r1, r2}
  Servers = {"local", "staging"}
  MaxAttempts = 2
  LeaseTicks = 1
  Null = Null
  SuiteCodes = {0, 1}
  Labels <- SomeLabels
  ReportTries = 3
  Faults = {"crash"}
  Reliable = {r1}
INVARIANTS
  OneJobAtATime
PROPERTIES
  EveryJobSettles
