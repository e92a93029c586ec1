SPECIFICATION Spec
CONSTANTS
  NX = 3
  NY = 3
  NEnd = 3
  NSel = 2
  HistSize = 2
  PredSyms <- MCStillSyms
  Repeats = {2}
  Deltas = {1}
  SelSyms = {1, 3}
  Runs = {3, 10}
  Video = FALSE
  Leftover <- MCOldZero
  None = None
INVARIANTS
  RingIsNeighbours
  FollowsPrediction
  HistoryIsValid
PROPERTIES
  FrontByPromotion
CHECK_DEADLOCK FALSE
