SPECIFICATION FairSpec
CONSTANTS
  MaxSockets = 2
  null = null
PROPERTY StopStopsAllThreads
CHECK_DEADLOCK FALSE
