SPECIFICATION Spec
CONSTANTS
  Request = {1, 2, 3, 4}
  Account = {a1, a2}
  Name = {alice, bob}
  Email = {e1, e2}
  Password = {p, q}
  Dummy = Dummy
  None = None
  Engines = {"sqlite", "concurrent"}
SYMMETRY AuthSymmetry
INVARIANTS
  TypeOK
  AccountsAreUnique
  PasswordIsLastSet
  OldSessionsAreOver
PROPERTY SessionsEndByOwner
CHECK_DEADLOCK FALSE
