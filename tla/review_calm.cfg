SPECIFICATION Spec
CONSTANTS
  Callers = {c1, c2}
  Workers = {w1, w2}
  NumScans = 3
  Unchanged = {3}
  NumModels = 1
  NumLocales = 1
  MaxRuns = 2
  Budget = 2
  Attempts = 2
  MaxStalls = 0
  StallLimit = 1
  SettingsChange = TRUE
  ReaperRuns = FALSE
  CallerMayCrash = FALSE
  DbMayFail = FALSE
SYMMETRY Symmetry
INVARIANTS
  OneRunPerScan
  TokensAccounted
  InFlightHasWork
PROPERTIES
  RunsNotClobbered
CHECK_DEADLOCK FALSE
