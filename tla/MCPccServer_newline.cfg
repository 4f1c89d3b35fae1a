SPECIFICATION FairSpec
CONSTANTS
  c1 = c1
  c2 = c2
  x = x
  y = y
  bell = bell
  Clients = {c1}
  Bytes = {x, y, bell}
  Chars = {x, y}
  File <- MCNewline
  Leftovers <- MCLeftovers
  Uninitialised = {0, 2}
  Width = 4
  LISTEN_BACKLOG = 1
  None = None
PROPERTY ExchangeEnds
CHECK_DEADLOCK FALSE
