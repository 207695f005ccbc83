CONSTANTS
  Callers = {c1}
  Values = {v1, v2}
  CommandFields = {"temp"}
  EditItems = {"temp"}
  SparseItems = {"temp", "auto"}
  Uploads = {}
  TicksPerSecond = 2
  FutureSkew = 1
  ClockOffset <- OneBehind
  MaxTime = 5
  MaxCommands = 1
  MaxEdits = 1
  MaxLapses = 1
  MaxRestarts = 0
  None = None
SPECIFICATION Spec
SYMMETRY Symmetry
PROPERTIES SuccessNeedsEvidence SendStartsUnblocked
