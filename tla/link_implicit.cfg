SPECIFICATION FairSpec
CONSTANTS
  a = a
  b = b
  Peers = {a, b}
  HalfRange = 2
  Handshake = FALSE
  SessionIds = {1}
  Modes = {"ordered", "unordered"}
  MaxMessages = 1
  MaxLost = 0
  MaxCopies = 1
  MaxRestarts = 1
  MayDisconnect = TRUE
CHECK_DEADLOCK FALSE
PROPERTIES ImplicitConnectCompletes DisconnectReachesPeer
