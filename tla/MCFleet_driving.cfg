SPECIFICATION Spec
CONSTANTS
  Hundredth = 10
  opA = opA
  opB = opB
  FleetAdmins = {adm}
  SafetyOperators = {opA}
  Keys = {k1, k2}
  Plans <- DrivingPlans
  Inputs <- DrivingInputs
  TelemetryKm <- DrivingKm
  TakeoverReports <- DrivingTakeovers
  MaxPageSize = 100
  MaxCampaigns = 1
  MaxVehicles = 1
  MaxAssignments = 2
  MaxDrives = 2
  MaxTakeovers = 2
  MaxTime = 2
SYMMETRY KeySymmetry
INVARIANTS
  TypeOK
  OdometerEqualsClosedDrives
  AutoKmWithinPlan
  BillableWithinCampaignPlan
  SettlementMatchesDrive
  OneSettlementPerCompletedShift
  ClosedCampaignIsSettled
  AuditTrail
PROPERTIES
  BooksFinal
CHECK_DEADLOCK FALSE
