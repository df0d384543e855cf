SPECIFICATION Spec
CONSTANTS
  AliceKey <- MCAliceKey
  DeviceKeys <- MCDeviceKeys
  CipherText <- MCCipherText
  Overrun <- MCOverrun
  DataSize = 9
  RingCap = 40
  Cuts = {6}
  MaxInbox = 1
  MaxPresses = 2
  MaxFaults = 0
INVARIANT EveryReplyHandled
CHECK_DEADLOCK FALSE
