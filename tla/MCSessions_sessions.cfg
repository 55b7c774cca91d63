SPECIFICATION Spec
CONSTANTS
  root = root
  driver = driver
  Names = {root, driver}
  BootstrapAdmin = root
  Asks <- SomeAsks
  Requests = {r1, r2}
  TTL = 1
  MaxOperators = 2
  MaxSessions = 2
  MaxTime = 2
SYMMETRY RequestSymmetry
INVARIANTS
  AuthenticatedWasUsable
  SessionAuditTrail
PROPERTIES
  SessionsOnlyEnd
