SPECIFICATION Spec
CONSTANTS
  Procs = {p1, p2}
  Minors = {m}
  short = short
  full = full
  long = long
  Messages = {short, full}
  Length <- MCLength
  Params = {1, 2}
  Sizes = {1, 2}
  IdSpan = 4
  BUFFER_LENGTH = 2
  CHANNELS_LIMIT = 20
  Garbage = {0}
  Overlap = TRUE
  MaxNodes = 2
  None = None
SYMMETRY MCSymmetry
INVARIANT WholeMessages
CHECK_DEADLOCK FALSE
