SPECIFICATION FairSpec
CONSTANTS
  a = a
  b = b
  Peers = {a, b}
  HalfRange = 2
  Handshake = FALSE
  SessionIds = {1}
  Modes = {"ordered"}
  MaxMessages = 2
  MaxLost = 0
  MaxCopies = 0
  MaxRestarts = 0
  MayDisconnect = FALSE
CHECK_DEADLOCK FALSE
PROPERTIES OrderedIsDelivered
