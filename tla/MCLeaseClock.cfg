\* Heartbeats every 30 s, calls of 15 s, a lease of 120 s, a database locked for 5 s;
\* one heartbeat missed and the clock set forward by 5 s: nothing is left to spare.
SPECIFICATION Spec
CONSTANTS
  Interval = 6
  Timeout = 3
  Lease = 24
  LockWait = 1
  MaxMissed = 1
  Skew = 1
INVARIANTS
  TypeOK
  LiveKeepsItsJob
  DeathIsNoticed
CHECK_DEADLOCK FALSE
