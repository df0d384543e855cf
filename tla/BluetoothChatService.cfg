SPECIFICATION FairSpec
CONSTANTS
  MaxSockets = 4
  null = null
INVARIANTS
  TypeOK
  OneConnection
  ListenerReachable
  ConnectedHasThread
PROPERTIES
  AttemptsEnd
CHECK_DEADLOCK FALSE
