SPECIFICATION Spec
CONSTANTS
  Hundredth = 10
  opA = opA
  opB = opB
  FleetAdmins = {adm}
  SafetyOperators = {opA, opB}
  Keys = {k1, k2}
  Plans <- ClosingPlans
  Inputs <- ClosingInputs
  TelemetryKm <- ClosingKm
  TakeoverReports <- ClosingTakeovers
  MaxPageSize = 1
  MaxCampaigns = 1
  MaxVehicles = 2
  MaxAssignments = 2
  MaxDrives = 2
  MaxTakeovers = 0
  MaxTime = 0
SYMMETRY KeySymmetry
INVARIANTS
  SettledCampaignCanClose
CHECK_DEADLOCK FALSE
