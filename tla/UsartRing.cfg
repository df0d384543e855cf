SPECIFICATION FairSpec
CONSTANTS
  RingSize = 3
  FifoDepth = 2
  QueueLength = 3
  ReqSizes = {1, 2}
  SendSizes = {2}
  MaxBytes = 5
  MaxSends = 2
INVARIANTS
  TypeOK
  TransfersEndWithCalls
PROPERTIES
  ImplementsReportingFifo
  FilledRequestReturns
  SendReturns
CHECK_DEADLOCK FALSE
