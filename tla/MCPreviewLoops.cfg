SPECIFICATION LoopSpec
CONSTANTS
  u1 = u1
  u2 = u2
  Entity = {e1, e2, e3}
  Url = {u1, u2}
  File = {}
  Garbage = garbage
  Nothing = nothing
  NaN = nan
  Scaled <- MCScaled
  MaxHeight = 3
  DefaultHeight = 2
  Padding <- MCPadding
  Lists <- MCLists
  Color = {white}
INVARIANTS
  HeightIsReduce
  PicturesAreDrawn
