SPECIFICATION Spec
CONSTANTS
  Workspace = {w1, w2}
  MaxLoaded = 1
  MaxOps = 3
INVARIANTS CacheIsSound CloseIsDurable
PROPERTIES LatestWins ChangesArrive
CHECK_DEADLOCK FALSE
