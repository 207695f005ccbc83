SPECIFICATION FairSpec
CONSTANTS
  Direct = {persistence}
  Graced = {monitor, schedule}
  Appearing = {monitor}
  Vanishing = {schedule}
  Grace = 2
  MaxStarts = 2
INVARIANT IssuesMirrorConditions
PROPERTIES RaisedAfterGrace NothingRaisedUnloaded LastingIsRaised
CHECK_DEADLOCK FALSE
