SPECIFICATION ItemFairSpec
CONSTANTS
  Entity = {e1}
  Url = {u1, u2}
  File = {f1}
  Garbage = garbage
  Nothing = nothing
INVARIANTS
  ItemTypeOK
  StatusTruthful
PROPERTIES
  KeepsRowPromise
  SettlesWhenAnswered
CHECK_DEADLOCK FALSE
