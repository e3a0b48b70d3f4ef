SPECIFICATION Spec
CONSTANTS
  p1 = p1
  p2 = p2
  p3 = p3
  Procs = {p1, p2, p3}
  None = None
  Left = Left
  MaxFiles = 4
SYMMETRY Symmetry
CHECK_DEADLOCK FALSE
INVARIANTS OneServes PidOfOwner
PROPERTIES RefusedKeepsFile
