SPECIFICATION Spec
CONSTANTS
  Message = {m1}
  MaxCalls = 2
  Faults = {"initial"}
INVARIANTS DestroyIsClean
CHECK_DEADLOCK FALSE
