SPECIFICATION Spec
CONSTANTS
  Threads = {t1, t2}
  Contents = {c1, c2}
  None = None
  EmbeddedTables = FALSE
  MaxBlocks = 1
SYMMETRY Symmetry
INVARIANTS
  FamilyFromOneBundle
CHECK_DEADLOCK TRUE
