\* Test servers crash, restart and lose calls, but the live ones heartbeat in time.
SPECIFICATION Spec
CONSTANTS
  Jobs = {j1, j2}
  Runners = {r1, r2}
  Servers = {"staging"}
  MaxAttempts = 2
  LeaseTicks = 1
  Null = Null
  SuiteCodes = {0}
  Labels <- AnyLabels
  ReportTries = 2
  Faults = {"crash", "restart", "loss", "edge", "slack"}
  Reliable = {}
SYMMETRY Symmetries
VIEW Present
INVARIANTS
  RunnerKeepsItsJob
  ExclusiveRun
PROPERTIES
  NothingAfterTheEnd
