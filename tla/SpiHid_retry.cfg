CONSTANTS
  Clients = {c1}
  Reports = {r1}
  Requests <- OutputRequests
  MaxResetAttempts = 3
  MaxInitRetries = 2
  MaxBusErrors = 2
  SupportedVersion = v3
  DeviceVersion = v3
  Answers = TRUE
  MaxQueue = 2
  FaultKinds = {"late", "lost", "write"}
  MaxFaults = 2
  NONE = NONE
SPECIFICATION FairSpec
INVARIANT DrainedClients
PROPERTY BringUp
