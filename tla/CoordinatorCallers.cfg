CONSTANTS
  Callers = {c1, c2}
  Values = {v1, v2}
  CommandFields = {"auto"}
  EditItems = {"schedule"}
  SparseItems = {}
  Uploads = {}
  TicksPerSecond = 1
  FutureSkew = 0
  ClockOffset = 0
  MaxTime = 1
  MaxCommands = 2
  MaxEdits = 1
  MaxLapses = 0
  MaxRestarts = 0
  None = None
SPECIFICATION FairSpec
INVARIANTS WaiterOwnsCommand
PROPERTIES ContractSpec TimeoutMeansUnsent EveryCallerAnswered
