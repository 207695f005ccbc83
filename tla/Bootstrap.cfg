SPECIFICATION FairSpec
CONSTANTS
  Window = 1
  Automatic = TRUE
  HasLogo = TRUE
  MaxTime = 2
  MaxArms = 2
  MaxRestarts = 1
  None = None
INVARIANTS ServedOnce BodiesAreJournaled JournalLoads
PROPERTIES EveryWindowEnds
