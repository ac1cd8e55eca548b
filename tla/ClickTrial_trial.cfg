CONSTANTS
  FaultKinds = {"step", "kill", "rollback"}
  MaxFaults = 2
SPECIFICATION FairSpec
INVARIANT Guarded
PROPERTY TrialEnds
