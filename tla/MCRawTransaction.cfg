SPECIFICATION Spec
CONSTANTS
  ethereum_chain_id = 4
  Nonces <- MCNonces
  GasPrice <- MCGasPrice
  GasLimit <- MCGasLimit
  ContractBin <- MCContract
  Address <- MCAddress
  MethodDatas <- MCMethodDatas
  Signatures <- MCSignatures
  MaxTransactions = 2
INVARIANTS
  TypeOK
  SignedIsSent
  SentIsReadBack
CHECK_DEADLOCK FALSE
