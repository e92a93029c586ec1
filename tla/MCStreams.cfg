SPECIFICATION MCSpec
CONSTANTS
  Width = 32
  Split = 25
  Look = 16
  Bytes = 9
  Reads = {0, 1, 2, 7, 13, 14, 15, 16, 25, 26, 32}
  MaxTaken = 80
  FastBits = 1
  MaxSize = 4
  Literals = {0, 1, 2, 3}
  Counts = {1, 2, 4, 7}
  ZeroRuns = {2}
  Repeats = {2, 3}
  Radix = 2
  MinLen = 32
  BitMax = 4
  DataMax = 8
  Symbols = 3
  Shortest = 1
  BitSpan = 2
  SymSpan = 2
  RawBits = {2}
  StreamBytes = {0, 1}
  FirstValues = {20, 37, 62, 63}
  MaxSymbols = 5
  NX = 2
  NY = 4
  Deltas <- MCDeltas
  Budget = 3
  Rows = 3
  Modes = {1, 2, 3}
  Cem <- MCCem
  SolidMode = 255
  RunLens = {0, 1, 2, 5}
  RingRows = 3
  TrialModes = 2
  Parts <- MCParts
  Direct = {0}
  Patterns <- MCPatterns
  HashSize = 1
INVARIANTS
  ReadsInOrder
  RemainingIsClose
  DecodesTheCode
  RefusesOnlyWhatIsNoCode
  IntervalNeverEmpty
  DecodesInside
  RingHoldsReach
  RunRepeatsBlockBefore
  DataFitsMode
  LogRingHoldsReach
  StatesMatchBlocks
  ConfigurationFits
CHECK_DEADLOCK FALSE
