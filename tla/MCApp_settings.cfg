SPECIFICATION FairSpec
CONSTANTS
  e1 = e1
  e2 = e2
  u1 = u1
  u2 = u2
  Entity = {e1}
  Url = {u1}
  File = {}
  Garbage = garbage
  Nothing = nothing
  NaN = nan
  Scaled <- MCScaled
  MaxHeight = 1
  DefaultHeight = 2
  Padding = {0, 1}
  Color = {white, black}
  DefaultColor = white
  Initial <- OneRow
  MoveControls = FALSE
  MaxTimers = 2
INVARIANTS
  TypeOK
  SettledPreview
  NoRepeatedMessage
PROPERTIES
  SettlesWhenIdle
  ExportsFinish
