SPECIFICATION FairSpec
CONSTANTS
  AliceKey <- MCAliceKey
  DeviceKeys <- MCDeviceKeys
  CipherText <- MCCipherText
  Overrun <- MCOverrun
  DataSize = 9
  RingCap = 19
  Cuts = {11, 12}
  MaxInbox = 1
  MaxPresses = 3
  MaxFaults = 1
INVARIANTS
  TypeOK
  PhoneSecretIsSent
  WritesStayInside
PROPERTIES
  DeviceWholeFrames
  SettledMeansShared
  HandlerReturns
CHECK_DEADLOCK FALSE
