SPECIFICATION Spec
CONSTANTS
  Levels = {0, 1}
  MaxLevels = 2
  Frames = 3
  N = 3
  NEnd = 3
  Files <- MCWhole
  ColourFirst = {"RGBA32"}
  AlphaFirst = {"RGBA4444"}
  Opaque = {}
  Refused = {}
INVARIANTS
  InOrderIsRight
