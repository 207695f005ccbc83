SPECIFICATION FairSpec
CONSTANTS
  MaxClock = 1
  FutureSkew = 1
  MaxUploads = 1
  MaxCommands = 1
  MaxRestarts = 1
  MaxMishaps = 1
  None = None
INVARIANT CompanionFollowsBody
PROPERTIES RevisionsAdvance WakeIsNewest ResyncRecovers
