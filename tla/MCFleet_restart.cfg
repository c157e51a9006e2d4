\* The test server that died is started again.
SPECIFICATION FairSpec
CONSTANTS
  Jobs = {j1}
  Runners = {r1, r2}
  Servers = {"staging"}
  MaxAttempts = 2
  LeaseTicks = 1
  Null = Null
  SuiteCodes = {0}
  Labels <- AnyLabels
  ReportTries = 3
  Faults = {"crash", "restart"}
  Reliable = {r1}
PROPERTIES
  RestartedFleetSettles
