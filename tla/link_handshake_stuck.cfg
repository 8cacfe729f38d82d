SPECIFICATION FairSpec
CONSTANTS
  a = a
  b = b
  Peers = {a, b}
  HalfRange = 2
  Handshake = TRUE
  SessionIds = {1, 2}
  Modes = {"unordered"}
  MaxMessages = 1
  MaxLost = 0
  MaxCopies = 0
  MaxRestarts = 0
  MayDisconnect = FALSE
CHECK_DEADLOCK FALSE
PROPERTIES AnsweredConnectCompletes
