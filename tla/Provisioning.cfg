SPECIFICATION FairSpec
CONSTANTS
  Device = device
  NoAccount = NoAccount
  NoText = NoText
  TrustCap = 1
  VcCap = 1
  Lock_time = 2
  FirstNonce = 1
  MaxFaults = 3
INVARIANTS
  TypeOK
  StoredDocumentIsOwn
  RequestsReachTheirServer
PROPERTIES
  TriggeredIsProvisioned
  RunEnds
CHECK_DEADLOCK FALSE
