SPECIFICATION FairSpec
CONSTANTS
  Upload = {1, 2, 3}
  NoUpload = NoUpload
  Key = {k1, k2}
  ZeroKey = ZeroKey
  NoKey = NoKey
  User = alice
  Server = server
  MaxVersion = 4
  MaxRestarts = 1
  Weather = {"calm", "faulty"}
INVARIANTS
  TypeOK
  EthKeyTxIsOnChain
  OneVersionPerUpload
  RegisteredWasServed
  SequentialUploadsConverge
PROPERTY RegistryCatchesUp
CHECK_DEADLOCK FALSE
