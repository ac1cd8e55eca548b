CONSTANTS
  Indices = {0, 1, 2}
  Positions = {p, q}
  OUTSIDE = OUTSIDE
  DisableOnPalm = TRUE
  Debounce = 2
  NONE = NONE
SPECIFICATION FairSpec
INVARIANT KernelView
INVARIANT QuietWhenSuppressed
PROPERTY HoldSurvives
PROPERTY ActsAsPointer
PROPERTY ButtonSettles
PROPERTY TouchReturns
