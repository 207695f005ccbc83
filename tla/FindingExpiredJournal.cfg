SPECIFICATION Spec
CONSTANTS
  Window = 1
  Automatic = TRUE
  HasLogo = TRUE
  MaxTime = 3
  MaxArms = 2
  MaxRestarts = 1
  None = None
INVARIANT LatchedMeansFailed
