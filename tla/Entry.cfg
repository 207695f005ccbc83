SPECIFICATION FairSpec
CONSTANTS
  MaxSetUps = 3
  MaxChanges = 3
  MaxTicks = 1
  None = None
INVARIANTS ReleasedOnce NothingIsLeft NoChangeIsLost OutdoorIsCurrent
PROPERTIES NothingSetAfterClose SourceIsFetched
CHECK_DEADLOCK FALSE
