\* A run that reports progress up to four times, whatever becomes of each call.
SPECIFICATION Spec
CONSTANTS
  MinGap = 2
  MaxCalls = 4
INVARIANTS
  TypeOK
  OneMessage
  SummaryIsShown
PROPERTIES
  ThrottleIsExact
