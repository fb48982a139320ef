SPECIFICATION FairSpec
CONSTANTS
  User = {u1, u2, u3}
  Conn = {c1, c2, c3}
  None = none
  Config <- MCConfig
  Command = {"MULTI", "PSUBSCRIBE"}
  MaxReplies = 1
  MaxBusy = 1
INVARIANTS
  TypeOK
  OneOwner
  ActiveCounts
  NoLostWakeup
  IdleIsFresh
PROPERTIES
  KeepsPromise
  WaitersWoken
  ClosedPoolDrains
