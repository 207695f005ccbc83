SPECIFICATION Spec
CONSTANTS
  Settings = {s1, s2}
  Commands = {c1, c2}
  s1 = s1
  s2 = s2
  c1 = c1
  c2 = c2
  Parts = {"current", "previous", "file"}
  MaxSaves = 3
  None = None
SYMMETRY Symmetry
INVARIANT PreviousIsPredecessor
PROPERTY InitialCaptureFixed
PROPERTY CellSpec
