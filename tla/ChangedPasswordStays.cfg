SPECIFICATION Spec
CONSTANTS
  Request = {1, 2}
  Account = {a1}
  Name = {alice}
  Email = {e1}
  Password = {p, q}
  Dummy = Dummy
  None = None
  Engines = {"sqlite"}
INVARIANT ChangedPasswordStays
CHECK_DEADLOCK FALSE
