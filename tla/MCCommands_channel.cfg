\* As MCCommands.cfg, for a sentence about the channel of the outcome.
SPECIFICATION Spec
CONSTANTS
  MaxAge = 5
  Products = {"webapp", "billing"}
  Servers = {"dev", "staging"}
  DefaultServer = "staging"
  Expressions = {"smoke"}
  Configs <- MCConfigs
  Requests <- MCRequests
  Default = "#testing"
  Threads = 2
  MaxRuns = 3
  MaxRestarts = 1
INVARIANTS
  ReportsGoWhereAsked
CHECK_DEADLOCK FALSE
