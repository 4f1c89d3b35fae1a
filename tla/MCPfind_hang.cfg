SPECIFICATION FairSpec
CONSTANTS
  Threads = {t1, t2}
  r = r
  a = a
  b = b
  c = c
  f = f
  g = g
  Root = r
  Dirs <- MCDirs
  Files <- MCFiles
  Contents <- MCContents
  Matching <- MCMatching
  Unopenable = {}
  Unstatable = {}
  CreateFails = {}
  SpuriousWakeups = FALSE
  None = None
PROPERTY MainFinishes
CHECK_DEADLOCK FALSE
