SPECIFICATION TableSpec
CONSTANTS
  FastBits = 1
  MaxSize = 4
  Literals = {0, 1, 2, 3}
  Counts = {1, 2, 4, 7}
  ZeroRuns = {2}
  Repeats = {2, 3}
INVARIANT DecodeStaysInTree
CHECK_DEADLOCK FALSE
