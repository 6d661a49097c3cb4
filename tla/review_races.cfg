SPECIFICATION Spec
CONSTANTS
  Callers = {c1, c2}
  Workers = {w1, w2}
  NumScans = 1
  Unchanged = {}
  NumModels = 1
  NumLocales = 1
  MaxRuns = 2
  Budget = 10
  Attempts = 1
  MaxStalls = 1
  StallLimit = 1
  SettingsChange = FALSE
  ReaperRuns = TRUE
  CallerMayCrash = FALSE
  DbMayFail = TRUE
SYMMETRY Symmetry
INVARIANTS
  NeverOvercounted
PROPERTIES
  LateAnswersAreDropped
CHECK_DEADLOCK FALSE
