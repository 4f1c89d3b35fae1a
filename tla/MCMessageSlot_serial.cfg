SPECIFICATION Spec
CONSTANTS
  Procs = {p1, p2}
  Minors = {m}
  short = short
  full = full
  long = long
  Messages = {short, full, long}
  Length <- MCLength
  Params = {0, 1, 2, 4, 5}
  Sizes = {0, 1, 2}
  IdSpan = 4
  BUFFER_LENGTH = 2
  CHANNELS_LIMIT = 12
  Garbage = {0, 1}
  Overlap = FALSE
  MaxNodes = 3
  None = None
INVARIANTS ChannelsKept WholeMessages
PROPERTY AtomicSpec
CHECK_DEADLOCK FALSE
