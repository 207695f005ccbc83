CONSTANTS
  Callers = {c1}
  Values = {v1, v2}
  CommandFields = {"temp", "prefs"}
  EditItems = {"temp", "prefs"}
  SparseItems = {}
  Uploads = {"partial", "auto"}
  TicksPerSecond = 1
  FutureSkew = 0
  ClockOffset = 0
  MaxTime = 1
  MaxCommands = 1
  MaxEdits = 1
  MaxLapses = 0
  MaxRestarts = 1
  None = None
SPECIFICATION Spec
SYMMETRY Symmetry
INVARIANTS PayloadTracksBaseline JournalCoversWire DeliveredIsJournaled DiskMatchesMemory
PROPERTIES LatchedIsFrozen DeliveredIsFixed ContractSpec
