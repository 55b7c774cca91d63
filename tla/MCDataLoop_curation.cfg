SPECIFICATION Spec
CONSTANTS
  op = op
  k1 = k1
  k2 = k2
  FleetAdmins = {adm}
  SafetyOperators = {op}
  DriveIds = {1}
  UploadKeys = {k1, k2}
  Requests <- CurationRequests
  Uploads = {u1, u2}
  Selections <- FrameSelections
  Conclusions = {"software_bug", "sensor_fault"}
  MaxFrames = 2
  EscalationPage = 1
  Moments = {0, 5}
  MaxBatches = 2
  MaxDatasets = 1
SYMMETRY UploadSymmetry
INVARIANTS
  SealedDataIsTriaged
  QuarantineIsDecided
  CountersMatchRows
  OneBatchPerUploadKey
  
PROPERTIES
  SealIsFinal
  ArchivedIsFinal
CHECK_DEADLOCK FALSE
