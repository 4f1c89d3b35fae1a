SPECIFICATION FairSpec
CONSTANTS
  Procs = {p1}
  Minors = {m}
  short = short
  full = full
  long = long
  Messages = {short, full}
  Length <- MCLength
  Params = {1, 2}
  Sizes = {1, 2}
  IdSpan = 4
  BUFFER_LENGTH = 2
  CHANNELS_LIMIT = 20
  Garbage = {0}
  Overlap = FALSE
  MaxNodes = 2
  None = None
PROPERTY PromisedSpec
CHECK_DEADLOCK FALSE
