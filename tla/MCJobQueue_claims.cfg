SPECIFICATION Spec
CONSTANTS
  Dispatchers = {w1, w2}
  Kinds = {handled}
  Registered = {handled}
  AttemptLimits = {2}
  BatchSize = 1
  BaseBackoff = 1
  MaxBackoff = 1
  MaxJobs = 2
  MaxTime = 2
  MaxRestarts = 1
SYMMETRY DispatcherSymmetry
INVARIANTS
  OneHolderPerJob
  RunsWithinAttempts
PROPERTIES
  VerdictIsFinal
  OnlyInterruptionOrphansJobs
CHECK_DEADLOCK FALSE
