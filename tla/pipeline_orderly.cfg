SPECIFICATION FairSpec
CONSTANTS
  Requests = {r1}
  Workers = {w1, w2}
  NumPushes = 2
  NumChanges = 0
  MaxScans = 2
  Attempts = 2
  MaxStalls = 1
  StallLimit = 0
  ForcePushed = {}
  ApiMayCrash = FALSE
  DbMayFail = FALSE
INVARIANTS
  OneInFlightPerPull
  InFlightHasWork
PROPERTIES
  LatestNeverGoesBack
  EveryScanSettles
CHECK_DEADLOCK FALSE
