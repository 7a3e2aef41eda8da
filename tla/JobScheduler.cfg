SPECIFICATION Spec
CONSTANTS
  Job = {j1, j2}
  Cap = 1
  MaxCancels = 4
  Hazards = {"early", "twice", "disk"}
INVARIANTS SlotsAreSound ProvidersAreOwned CancelIsFinal
PROPERTIES AllSettles
CHECK_DEADLOCK FALSE
