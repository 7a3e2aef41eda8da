SPECIFICATION Spec
CONSTANTS
  Workspace = {w1}
  Call = {c1, c2}
  MaxRuntimes = 2
  MaxRegistrations = 2
  MaxStops = 2
  MaxSaves = 2
INVARIANTS  StopIsComplete
PROPERTIES ProjectionsInOrder ProjectionArrives
CHECK_DEADLOCK FALSE
