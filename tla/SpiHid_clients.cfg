CONSTANTS
  Clients = {c1, c2}
  Reports = {r1}
  Requests <- GetRequests
  MaxResetAttempts = 3
  MaxInitRetries = 2
  MaxBusErrors = 2
  SupportedVersion = v3
  DeviceVersion = v3
  Answers = TRUE
  MaxQueue = 2
  FaultKinds = {"lost", "late", "write"}
  MaxFaults = 1
  NONE = NONE
SPECIFICATION FairSpec
PROPERTY ClientReturns
