CONSTANTS
  FaultKinds = {"step", "rollback"}
  MaxFaults = 2
SPECIFICATION FairSpec
PROPERTY RestoredIsPackaged
