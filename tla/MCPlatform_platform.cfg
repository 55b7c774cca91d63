SPECIFICATION PlatformSpec
CONSTANTS
  Hundredth = 10
  op = op
  upKey = upKey
  FleetAdmins = {adm}
  SafetyOperators = {op}
  Keys = {k1, k2}
  Plans <- OnePlan
  Inputs <- TwoShifts
  TelemetryKm = {}
  TakeoverReports = {}
  MaxPageSize = 100
  UploadKeys = {upKey}
  Requests <- EitherDrive
  Selections <- GoodFrame
  Conclusions = {"sensor_fault"}
  Uploads = {u1}
  MaxFrames = 2
  EscalationPage = 20
  MaxCampaigns = 1
  MaxVehicles = 1
  MaxAssignments = 2
  MaxDrives = 2
  MaxTakeovers = 0
  MaxTime = 1
  MaxBatches = 1
  MaxDatasets = 1
SYMMETRY KeySymmetry
INVARIANTS
  DataComesFromDrives
PROPERTIES
  TicketsBlock
CHECK_DEADLOCK FALSE
