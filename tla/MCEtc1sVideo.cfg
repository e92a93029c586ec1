SPECIFICATION Spec
CONSTANTS
  Levels = {0, 1}
  MaxLevels = 1
  Frames = 3
  N = 3
  NEnd = 3
  Files <- MCFiles
  ColourFirst = {"RGBA32", "PVRTC1_4_RGBA"}
  AlphaFirst = {"RGBA4444"}
  Opaque = {"BC1_RGB"}
  Refused = {"PVRTC1_4_RGBA"}
INVARIANTS
  TypeOK
  StateIsFrame
  SureIsRight
PROPERTIES
  RepeatChangesNothing
