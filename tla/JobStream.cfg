SPECIFICATION StreamSpec
CONSTANTS
  Limit = 2
  MaxPublished = 4
INVARIANTS QueueIsSound NoGapNoRepeat
PROPERTIES StreamEnds
CHECK_DEADLOCK FALSE
