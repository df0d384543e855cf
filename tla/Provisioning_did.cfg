SPECIFICATION Spec
CONSTANTS
  Device = device
  NoAccount = NoAccount
  NoText = NoText
  TrustCap = 1
  VcCap = 1
  Lock_time = 2
  FirstNonce = 1
  MaxFaults = 0
INVARIANT DidIsContractAddress
CHECK_DEADLOCK FALSE
