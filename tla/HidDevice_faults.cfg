CONSTANTS
  MaxFaults = 2
  MaxOps = 3
SPECIFICATION Spec
INVARIANT InputSafe
INVARIANT OpenBalanced
INVARIANT RightDriver
PROPERTY DestroyEnds
