SPECIFICATION FairSpec
CONSTANTS
  Threads = {t1, t2}
  Contents = {c1}
  None = None
  EmbeddedTables = FALSE
  MaxBlocks = 1
PROPERTIES
  CallsEnd
CHECK_DEADLOCK TRUE
