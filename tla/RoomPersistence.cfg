SPECIFICATION Spec
CONSTANTS
  Path = {p1, p2}
  MaxOps = 3
  Callers = {"dispose"}
INVARIANTS QueueIsSound
PROPERTIES LatestWins NewestArrives FlushReturns
CHECK_DEADLOCK FALSE
