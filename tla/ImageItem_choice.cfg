SPECIFICATION ItemSpec
CONSTANTS
  Entity = {e1}
  Url = {u1, u2}
  File = {}
  Garbage = garbage
  Nothing = nothing
INVARIANT LatestChoiceShown
CHECK_DEADLOCK FALSE
