SPECIFICATION Spec
CONSTANTS
  alice = alice
  bob = bob
  NoAccount = NoAccount
  NoText = NoText
  Accounts <- MCAccounts
  Deployer = alice
  Texts = {t1, t2}
  TrustCap = 2
  VcCap = 1
  Lock_time = 2
  Genesis = 3
  MaxTime = 7
INVARIANTS
  TypeOK
  NoUnderflow
  LockRespected
PROPERTIES
  RevocationFinal
  EntriesStable
CHECK_DEADLOCK FALSE
