SPECIFICATION Spec
CONSTANTS
  Orgs = {o1, o2}
  Slots = {s1, s2}
  Installs = {i1, i2}
  Intents = {n1, n2}
  Tokens = {t1}
  Branches = {main, dev}
  DefaultBranch = main
  Asked = {"ALLOW_AI"}
  MaxRows = 2
  MaxRepos = 2
  MaxHooks = 2
  MaxRequests = 4
  MaxEvents = 2
  MaxFaults = 1
  None = None
  Gone = Gone
SYMMETRY Symmetry
INVARIANTS
  AlarmIsAboutThisInstallation
  DeliveredToItsOwner
  OrphanHooksExplained
  ScopeIsSound
PROPERTIES
  ForgottenWhenGone
CHECK_DEADLOCK FALSE
