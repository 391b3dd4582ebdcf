SPECIFICATION Spec
CONSTANTS
  c1 = c1
  c2 = c2
  p1 = p1
  p2 = p2
  t1 = t1
  t2 = t2
  m1 = m1
  m2 = m2
  browser = browser
  machine = machine
  Client = {c1, c2, p1, p2}
  Device = {browser, machine}
  Browser = {browser}
  Home <- MCHome
  Key = {k1, k2}
  NoKey = NoKey
  Agent = {t1, t2, m1, m2}
  Tab = {t1, t2}
  MyKey = MyKey
  Name = {n}
  Ephemeral = {ek}
  NoName = NoName
  EmptyName = EmptyName
  Failed = Failed
  Teams = {{c1, c2, p1, ek}, {p1, p2}, {c1, t1, t2}, {c1, t1, ek}, {p1, m1, m2}, {p1, m1, ek}}
SYMMETRY ClientSymmetry
INVARIANTS
  TypeOK
  KeysAreStoredFirst
  VaultsAreKept
  CalmUseIsAgreed
  OpensExactlyAsSealed
PROPERTY PinsChangeByConsent
CHECK_DEADLOCK FALSE
