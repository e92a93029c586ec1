SPECIFICATION Spec
CONSTANTS
  Levels = {0}
  MaxLevels = 1
  Frames = 3
  N = 3
  NEnd = 3
  Files <- MCWhole
  ColourFirst = {"RGBA32"}
  AlphaFirst = {}
  Opaque = {"BC1_RGB"}
  Refused = {}
INVARIANTS
  InOrderIsRight
