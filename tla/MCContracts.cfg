SPECIFICATION ContractsSpec
CONSTANTS
  Identity = {alice, bob}
  Key = {k1, k2}
  ZeroKey = ZeroKey
  Account = {server, other}
  Deployer = server
  MaxVersion = 3
  Hash = {h1, h2, h3}
  NoIdentity = NoIdentity
  MaxTime = 3
SYMMETRY ContractsSymmetry
INVARIANTS
  LogExplainsState
  IInv
  SlotsFindEntries
  ReceiptsAreTheirEvents
PROPERTIES
  HistoryKept
  EntriesAreForEver
