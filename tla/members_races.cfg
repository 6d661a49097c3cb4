SPECIFICATION Spec
CONSTANTS
  Users = {a, b, c}
  Founder = a
  Requests = {r1, r2}
  Offered = {"ADMIN", "VIEWER"}
  MaxCalls = 3
  MaxInvites = 1
  MaxTokens = 2
  Attempts = 2
  StallLimit = 1
  ApiMayCrash = TRUE
SYMMETRY Symmetry
INVARIANTS
  OneOutcome
  JoinedByLastLink
  EmailJobSettles
PROPERTIES
  CountedAdminsRemain
CHECK_DEADLOCK FALSE
