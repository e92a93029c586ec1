SPECIFICATION Spec
CONSTANTS
  Threads = {t1, t2}
  Contents = {c1, c2}
  None = None
  EmbeddedTables = FALSE
  MaxBlocks = 2
SYMMETRY Symmetry
INVARIANTS
  NoUnreadyRead
  ReturnedMeansInstalled
  SerialInstallKeepsFirst
  OneTablePerCall
  OneBundlePerTranscode
  DerivedFresh
  SliceInBounds
  KnowledgeLasts
CHECK_DEADLOCK TRUE
