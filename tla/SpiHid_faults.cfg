CONSTANTS
  Clients = {}
  Reports = {}
  Requests <- NoRequests
  MaxResetAttempts = 3
  MaxInitRetries = 2
  MaxBusErrors = 2
  SupportedVersion = v3
  DeviceVersion = v3
  Answers = TRUE
  MaxQueue = 2
  FaultKinds = {"reset", "late", "lost", "slow", "header", "body", "write", "alloc", "register"}
  MaxFaults = 2
  NONE = NONE
SPECIFICATION FairSpec
INVARIANT DrainedWorkers
INVARIANT StormGuard
INVARIANT RdIsReportDescriptor
INVARIANT HidPointerLive
PROPERTY RemoveFinishes
