SPECIFICATION Spec
CONSTANTS
  NX = 3
  NY = 2
  NEnd = 2
  NSel = 2
  HistSize = 3
  PredSyms <- MCVideoSyms
  Repeats = {2}
  Deltas = {1, 4}
  SelSyms = {1, 4, 5, 6}
  Runs = {3, 7}
  Video = TRUE
  Leftover <- MCVideoBefore
  None = None
INVARIANTS
  FollowsPrediction
  PrevMirrorsOutput
  RunTakesCodedBlocks
CHECK_DEADLOCK FALSE
