SPECIFICATION FairSpec
CONSTANTS
  MaxLen = 3
  RingCap = 2
  MaxCmds = 3
  Commands <- MCCommands
  Replies <- MCReplies
INVARIANTS
  TypeOK
  BufferOwnership
  
  MessageIsNew
  AnswerLag
  DeadMeansTimeout
PROPERTIES
  ImplementsMailbox
  CallReturns
CHECK_DEADLOCK FALSE
