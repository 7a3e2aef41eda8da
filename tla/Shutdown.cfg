SPECIFICATION ShutdownSpec
CONSTANTS
  Primary = {1, 2}
  Auxiliary = {3}
  Later = {2}
  OpensWhileQuitting = FALSE
  MaxEdits = 2
  MaxRequests = 1
  MaxFails = 1
INVARIANTS AnswersAreSound WinnerIsFinal
PROPERTIES QuitEnds
CHECK_DEADLOCK FALSE
