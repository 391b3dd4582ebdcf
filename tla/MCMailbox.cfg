SPECIFICATION Spec
CONSTANTS
  Request = {1, 2, 3, 4}
  File = {1, 2, 3}
  User = {alice, bob, carol}
  NoUser = NoUser
  NoRecord = NoRecord
  Engines = {"sqlite", "concurrent"}
SYMMETRY UserSymmetry
INVARIANTS
  TypeOK
  RecordsFormATree
  AuditIsAChain
  EveryFileIsRecorded
  ListedIsDownloadable
  FullRevocationIsFinal
  AccessCanDecrypt
PROPERTY OnlyRevocationCutsOff
CHECK_DEADLOCK FALSE
