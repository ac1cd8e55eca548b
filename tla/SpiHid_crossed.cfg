CONSTANTS
  Clients = {c1, c2}
  Reports = {r1, r2}
  Requests <- FeatureRequests
  MaxResetAttempts = 3
  MaxInitRetries = 2
  MaxBusErrors = 2
  SupportedVersion = v3
  DeviceVersion = v3
  Answers = TRUE
  MaxQueue = 2
  FaultKinds = {}
  MaxFaults = 0
  NONE = NONE
SPECIFICATION Spec
INVARIANT FeatureAnswersMatch
