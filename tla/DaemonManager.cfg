SPECIFICATION Spec
CONSTANTS
  Manager = {"app", "chat"}
  Updated = {"app"}
  MaxDaemons = 3
  MaxRequests = 3
  MaxFaults = 2
  Faults = {"host", "daemon", "pid", "old", "busy"}
INVARIANTS DaemonIsSound
PROPERTIES RestartIsNew SignalsAreMeant
CHECK_DEADLOCK FALSE
