SPECIFICATION Spec
CONSTANTS
  Sender = {s1,s2,s3,s4}
  Backend = {b1, b2}
  NoSender = NoSender
  TTL = 1
  MaxNonce = 4
  MaxRestarts = 0
  AnswersGetLost = FALSE
SYMMETRY SenderSymmetry
INVARIANT NeverHandsBackUsedNonce
CHECK_DEADLOCK FALSE
