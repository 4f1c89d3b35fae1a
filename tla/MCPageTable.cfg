SPECIFICATION Spec
CONSTANTS
  Symbols = {0, 1}
  Depth = 3
  Vpns <- MCVpns
  Ppns = {0, 6}
  PpnSpan = 7
  NPAGES = 6
  MaxTables = 2
  NO_MAPPING = NO_MAPPING
INVARIANTS TypeOK QueryCorrect OnePath
CHECK_DEADLOCK FALSE
