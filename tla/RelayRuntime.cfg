SPECIFICATION Spec
CONSTANTS
  Message = {m1}
  MaxCalls = 3
  Faults = {"read", "turn", "upsert", "initial"}
INVARIANTS ProvidersAreSound MessagesAreAnswered
PROPERTIES NoticedIsRead CallsReturn
CHECK_DEADLOCK FALSE
