SPECIFICATION FairSpec
CONSTANTS
  c1 = c1
  c2 = c2
  x = x
  y = y
  bell = bell
  Clients = {c1, c2}
  Bytes = {x, y, bell}
  Chars = {x, y}
  File <- MCOneLine
  Leftovers <- MCLeftovers
  Uninitialised = {0, 2}
  Width = 4
  LISTEN_BACKLOG = 1
  None = None
INVARIANTS TypeOK TotalsExact SigintHonoured
PROPERTY ExchangeEnds
CHECK_DEADLOCK FALSE
