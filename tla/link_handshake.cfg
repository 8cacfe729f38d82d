SPECIFICATION FairSpec
CONSTANTS
  a = a
  b = b
  Peers = {a, b}
  HalfRange = 2
  Handshake = TRUE
  SessionIds = {1, 2}
  Modes = {"ordered", "unordered"}
  MaxMessages = 1
  MaxLost = 1
  MaxCopies = 1
  MaxRestarts = 0
  MayDisconnect = FALSE
CHECK_DEADLOCK FALSE
INVARIANTS LinkInv
PROPERTIES HandshakeCompletesUnless
