SPECIFICATION Spec
CONSTANTS
  Upload = {1, 2}
  NoUpload = NoUpload
  Key = {k1, k2}
  ZeroKey = ZeroKey
  NoKey = NoKey
  User = alice
  Server = server
  MaxVersion = 4
  MaxRestarts = 1
  Weather = {"busy"}
SYMMETRY RegistrationSymmetry
INVARIANT UploadEndsUpInRegistry
CHECK_DEADLOCK FALSE
