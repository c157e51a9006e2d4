\* Two machines with one name, one of which holds the token, and a third.
SPECIFICATION FairSpec
CONSTANTS
  m1 = m1
  m2 = m2
  m3 = m3
  n1 = n1
  n2 = n2
  Machines = {m1, m2, m3}
  Names = {n1, n2}
  NameOf <- SharedName
  TokenHolders = {m2}
  OfflineAfter = 2
  MaxGap = 2
  Reinstalls = 1
  Null = Null
INVARIANTS
  TypeOK
  ServingIsAuthenticated
  ServingIsOnline
PROPERTIES
  KeyOfNameIsFinal
  AuthorisedGetsIn
