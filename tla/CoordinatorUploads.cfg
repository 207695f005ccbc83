CONSTANTS
  Callers = {c1}
  Values = {v1, v2}
  CommandFields = {"temp", "prefs"}
  EditItems = {"temp", "prefs"}
  SparseItems = {}
  Uploads = {"settings"}
  TicksPerSecond = 2
  FutureSkew = 1
  ClockOffset = 1
  MaxTime = 2
  MaxCommands = 1
  MaxEdits = 1
  MaxLapses = 0
  MaxRestarts = 0
  None = None
SPECIFICATION Spec
SYMMETRY Symmetry
PROPERTIES SuccessAtAnyClock
