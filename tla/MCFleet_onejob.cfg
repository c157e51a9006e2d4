\* Nothing crashes, but calls are lost.
SPECIFICATION Spec
CONSTANTS
  Jobs = {j1, j2}
  Runners = {r1, r2}
  Servers = {"staging"}
  MaxAttempts = 2
  LeaseTicks = 1
  Null = Null
  SuiteCodes = {0}
  Labels <- AnyLabels
  ReportTries = 3
  Faults = {"loss"}
  Reliable = {r1, r2}
PROPERTIES
  NothingClaimedWhileRunning
