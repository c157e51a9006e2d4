\* Slack was out of reach when the run started, and is back when it ends.
SPECIFICATION Spec
CONSTANTS
  MinGap = 2
  MaxCalls = 1
PROPERTIES
  SummaryReachesSlack
