SPECIFICATION Spec
CONSTANTS
  Hundredth = 10
  opA = opA
  opB = opB
  FleetAdmins = {adm}
  SafetyOperators = {opA, opB}
  Keys = {k1, k2, k3}
  Plans <- PlanningPlans
  Inputs <- AllPlanningInputs
  TelemetryKm = {}
  TakeoverReports = {}
  MaxPageSize = 100
  MaxCampaigns = 2
  MaxVehicles = 2
  MaxAssignments = 3
  MaxDrives = 2
  MaxTakeovers = 0
  MaxTime = 1
SYMMETRY KeySymmetry
INVARIANTS
  VehicleHeldByOneShift
  OneDrivePerStartedShift
  QuotaLedger
  NoOperatorDoubleBooked
  OpenShiftsOnlyInOpenCampaigns
PROPERTIES
  ImplementsVehicleLease
CHECK_DEADLOCK FALSE
