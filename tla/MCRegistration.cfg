SPECIFICATION FairSpec
CONSTANTS
  Creates = {c1, c2}
  Finds = {f1}
  Email = {e1}
  Conn = {k1, k2, k3}
  None = None
  Settings <- MCSettings
  Migration = m
  IdleShare = 2
INVARIANTS
  TransactionsAreHeld
  ResultsAreTrue
PROPERTIES
  RequestsReturn
CHECK_DEADLOCK FALSE
