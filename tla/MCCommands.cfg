\* Thirteen requests, two threads in the pool, three runs, one restart.
SPECIFICATION FairSpec
CONSTANTS
  MaxAge = 5
  Products = {"webapp", "billing"}
  Servers = {"dev", "staging"}
  DefaultServer = "staging"
  Expressions = {"smoke"}
  Configs <- MCConfigs
  Requests <- MCRequests
  Default = "#testing"
  Threads = 2
  MaxRuns = 3
  MaxRestarts = 1
INVARIANTS
  TypeOK
  OneRunPerInvocation
  EveryRunIsAuthorised
  StrangersLearnNothing
  ResultsAreTheLatest
  AnnouncementsAreTrue
  EveryRunIsAccountedFor
PROPERTIES
  ImplementsContract
  RunsComeToAnEnd
CHECK_DEADLOCK FALSE
