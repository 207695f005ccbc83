CONSTANTS
  Callers = {c1}
  Values = {v1, v2}
  CommandFields = {"temp"}
  EditItems = {}
  SparseItems = {}
  Uploads = {"settings"}
  TicksPerSecond = 1
  FutureSkew = 0
  ClockOffset = 0
  MaxTime = 1
  MaxCommands = 1
  MaxEdits = 0
  MaxLapses = 0
  MaxRestarts = 0
  None = None
SPECIFICATION Spec
SYMMETRY Symmetry
INVARIANTS FreshStateEndsLockout
