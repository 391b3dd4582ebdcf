SPECIFICATION FairSpec
CONSTANTS
  Sender = {s1, s2}
  Backend = {b1, b2, b3}
  NoSender = NoSender
  TTL = 2
  MaxNonce = 4
  MaxRestarts = 0
  AnswersGetLost = FALSE
PROPERTIES
  EverySendEnds
  ImplementsWallet
CHECK_DEADLOCK FALSE
