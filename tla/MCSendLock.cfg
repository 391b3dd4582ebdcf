SPECIFICATION Spec
CONSTANTS
  Sender = {s1, s2, s3}
  Backend = {b1, b2}
  NoSender = NoSender
  TTL = 1
  MaxNonce = 4
  MaxRestarts = 1
  AnswersGetLost = TRUE
SYMMETRY SenderSymmetry
INVARIANTS
  TypeOK
  NoClash
PROPERTIES ImplementsQueue
CHECK_DEADLOCK FALSE
