SPECIFICATION FairSpec
CONSTANTS
  Threads = {t1, t2, t3}
  r = r
  a = a
  b = b
  c = c
  f = f
  g = g
  Root = r
  Dirs <- MCDirsDeep
  Files <- MCFiles
  Contents <- MCContentsDeep
  Matching <- MCMatching
  Unopenable = {}
  Unstatable = {}
  CreateFails = {}
  SpuriousWakeups = FALSE
  None = None
INVARIANT CleanReportComplete
PROPERTIES SearchSpec EveryDirectoryScanned WorkersSettle
CHECK_DEADLOCK FALSE
