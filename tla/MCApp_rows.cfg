SPECIFICATION Spec
CONSTANTS
  e1 = e1
  e2 = e2
  u1 = u1
  u2 = u2
  Entity = {e1, e2}
  Url = {u1}
  File = {}
  Garbage = garbage
  Nothing = nothing
  NaN = nan
  Scaled <- MCScaled
  MaxHeight = 3
  DefaultHeight = 2
  Padding = {0, 1}
  Color = {white}
  DefaultColor = white
  Initial <- OneRow
  MoveControls = TRUE
  MaxTimers = 2
VIEW SeenByPreview
INVARIANTS
  ListedOnce
  SettledPreview
  SettledWarning
  PicturesFillCanvas
PROPERTY DownloadsComplete
