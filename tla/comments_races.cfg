SPECIFICATION Spec
CONSTANTS
  Requests = {r1}
  Hooks = {h1, h2}
  Workers = {w1, w2}
  MaxRows = 2
  MaxThreads = 1
  MaxChanges = 1
  MaxForeign = 1
  MaxNotes = 2
  MaxDeliveries = 2
  MaxRetries = 1
  MaxFaults = 1
  Attempts = 2
SYMMETRY Symmetry
INVARIANTS
  OneRowPerNote
  RepostsAreForced
  PendingHasWork
  RepliesJoinTheirThread
PROPERTIES
  EditsStay
CHECK_DEADLOCK FALSE
