SPECIFICATION Spec
CONSTANTS
  Dispatchers = {w1}
  Kinds = {handled, unknown}
  Registered = {handled}
  AttemptLimits = {2}
  BatchSize = 2
  BaseBackoff = 1
  MaxBackoff = 3
  MaxJobs = 2
  MaxTime = 1
  MaxRestarts = 0
PROPERTIES
  StoppingLosesNoJob
CHECK_DEADLOCK FALSE
