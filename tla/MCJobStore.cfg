\* Three jobs for two environments, two test servers that may call with any labels.
SPECIFICATION Spec
CONSTANTS
  Jobs = {j1, j2, j3}
  Runners = {r1, r2}
  Servers = {"local", "staging"}
  ExitCodes = {0, 1}
  MaxAttempts = 2
  LeaseTicks = 1
  Null = Null
SYMMETRY Symmetries
INVARIANTS
  TypeOK
  HeldRowsAreLeased
  AttemptsBounded
  NoOvertaking
PROPERTIES
  LiveLeaseNotStolen
  TerminalRowsAreFinal
  ImplementsContract
