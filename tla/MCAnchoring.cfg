SPECIFICATION Spec
CONSTANTS
  File = {1, 2}
  Hash = {h1, h2}
  NoHash = NoHash
  Identity = {alice, bob}
  NoIdentity = NoIdentity
  Server = server
  MaxRestarts = 1
  Weather = {"calm", "faulty"}
SYMMETRY AnchoringSymmetry
INVARIANTS
  TypeOK
  AnchorIsSound
  ReceiptIsOwn
  QuietEndIsComplete
CHECK_DEADLOCK FALSE
