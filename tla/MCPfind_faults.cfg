SPECIFICATION Spec
CONSTANTS
  Threads = {t1, t2, t3}
  r = r
  a = a
  b = b
  c = c
  f = f
  g = g
  Root = r
  Dirs <- MCDirs
  Files <- MCFiles
  Contents <- MCContents
  Matching <- MCMatchingFaults
  Unopenable = {b}
  Unstatable = {g}
  CreateFails = {t1, t2, t3}
  SpuriousWakeups = TRUE
  None = None
SYMMETRY ThreadSymmetry
INVARIANTS TypeOK AllAsleepMeansDrained QueueAttended ScannedOnce NothingLost
  CounterExact ErrorExitMeansAllDead
CHECK_DEADLOCK FALSE
