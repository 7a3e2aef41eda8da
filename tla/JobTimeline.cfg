SPECIFICATION Spec
CONSTANTS
  MaxEvents = 2
  MaxFaults = 3
INVARIANTS RecordIsSound AnnouncedResultStands
PROPERTIES TerminalIsFinal EventuallySettled
CHECK_DEADLOCK FALSE
