SPECIFICATION CallsSpec
CONSTANTS
  Hundredth = 10
  opA = opA
  opB = opB
  FleetAdmins = {adm}
  SafetyOperators = {opA, opB}
  Keys = {k1, k2}
  Plans <- CallPlans
  Inputs <- CallInputs
  TelemetryKm = {}
  TakeoverReports = {}
  MaxPageSize = 100
  MaxCampaigns = 1
  MaxVehicles = 2
  MaxAssignments = 2
  MaxDrives = 0
  MaxTakeovers = 0
  MaxTime = 0
  Calls = {c1}
  Batches = {b1, b2}
  BatchInputs <- TwoLists
SYMMETRY Symmetry
INVARIANTS
  BatchOutcomeHonest
PROPERTIES
  Spec
