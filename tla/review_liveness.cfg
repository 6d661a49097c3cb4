SPECIFICATION FairSpec
CONSTANTS
  Callers = {c1}
  Workers = {w1}
  NumScans = 1
  Unchanged = {}
  NumModels = 1
  NumLocales = 1
  MaxRuns = 2
  Budget = 10
  Attempts = 2
  MaxStalls = 1
  StallLimit = 0
  SettingsChange = FALSE
  ReaperRuns = TRUE
  CallerMayCrash = TRUE
  DbMayFail = TRUE
PROPERTIES
  EveryReviewSettles
CHECK_DEADLOCK FALSE
