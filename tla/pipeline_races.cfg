SPECIFICATION Spec
CONSTANTS
  Requests = {r1, r2}
  Workers = {w1, w2}
  NumPushes = 2
  NumChanges = 1
  MaxScans = 2
  Attempts = 1
  MaxStalls = 1
  StallLimit = 1
  ForcePushed = {2}
  ApiMayCrash = TRUE
  DbMayFail = TRUE
SYMMETRY Symmetry
INVARIANTS
  TypeOK
  IncrementalHasDoneBase
  AttemptsInCreationOrder
  AnnotationsMatchHead
PROPERTY ImplementsBoard
CHECK_DEADLOCK FALSE
