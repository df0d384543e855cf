SPECIFICATION FairSpec
CONSTANTS
  RingSize = 3
  FifoDepth = 2
  QueueLength = 10
  ReqSizes = {1, 2}
  SendSizes = {1, 3}
  MaxBytes = 5
  MaxSends = 2
PROPERTY EverySendReturns
CHECK_DEADLOCK FALSE
