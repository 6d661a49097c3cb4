SPECIFICATION Spec
CONSTANTS
  Reviewers = {u1, u2}
  Nobody = Nobody
  Requests = {r1, r2}
  Policies = {"REQUIRE_BOTH"}
  MaxHeads = 2
  MaxReviews = 2
  MaxCalls = 3
  MaxEvents = 1
  Attempts = 2
SYMMETRY Symmetry
INVARIANTS
  MergedCleared
  RequireBothSeen
  ApprovalsPinned
  PendingHasWork
CHECK_DEADLOCK FALSE
