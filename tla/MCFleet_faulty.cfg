\* One job, three test servers, and everything that can go wrong.
SPECIFICATION Spec
CONSTANTS
  Jobs = {j1}
  Runners = {r1, r2, r3}
  Servers = {"staging"}
  MaxAttempts = 2
  LeaseTicks = 0
  Null = Null
  SuiteCodes = {0}
  Labels <- AnyLabels
  ReportTries = 1
  Faults = {"crash", "restart", "loss", "late", "edge", "slack", "missed"}
  Reliable = {}
SYMMETRY RunnerSymmetry
INVARIANTS
  TypeOK
  RunsBounded
  RecordMatchesAnnouncement
PROPERTIES
  ImplementsStore
