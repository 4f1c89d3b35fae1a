SPECIFICATION ClientSpec
CONSTANTS
  Procs = {p1, p2}
  Minors = {m}
  Messages = {short}
  short = short
  Programs <- MCPrograms
  Length <- MCLength
  Params = {0, 1, 2}
  Sizes = {}
  IdSpan = 4
  BUFFER_LENGTH = 1
  CHANNELS_LIMIT = 20
  Garbage = {0}
  Overlap = TRUE
  MaxNodes = 3
  None = None
PROPERTY ProgramsEnd
CHECK_DEADLOCK FALSE
