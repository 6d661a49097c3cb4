SPECIFICATION Spec
CONSTANTS
  Users = {a, b, c}
  Founder = a
  Requests = {r1, r2}
  Offered = {"ADMIN", "VIEWER"}
  MaxCalls = 3
  MaxInvites = 0
  MaxTokens = 1
  Attempts = 2
  StallLimit = 1
  ApiMayCrash = FALSE
SYMMETRY Symmetry
INVARIANTS
  AlwaysAnAdmin
CHECK_DEADLOCK FALSE
