SPECIFICATION FairSpec
CONSTANTS
  Dispatchers = {w1}
  Kinds = {handled, unknown}
  Registered = {handled}
  AttemptLimits = {0}
  BatchSize = 2
  BaseBackoff = 1
  MaxBackoff = 3
  MaxJobs = 3
  MaxTime = 1
  MaxRestarts = 0
PROPERTIES
  JobsAreDealtWith
  StopReturns
CHECK_DEADLOCK FALSE
