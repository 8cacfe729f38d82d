SPECIFICATION Spec
CONSTANTS
  Base = 17
  MaxU32 = 83520
  WordMax = 83520
  UseWindowFlowControl = TRUE
  InitialWindow = 512
  MinWindow = 500
  MaxWindow = 520
  FragmentSize = 20
  MaxPacketsInFlight = 4
  Scale = 4
  Acceleration = 1
  Deceleration = 2
  Interval = 0
  Handshake = TRUE
  OwnSessionId = 20
  OwnConnectId = 400
  ChannelCount = 2
  Mtu = 100
  Threshold = 8
  PeerIds = {9}
  Queued <- MCQueued
  Datagrams <- MCDatagrams
  Cuts = {5}
  Sizes = {1, 83520}
  Samples = {3, 600}
  Batches = {1, 30}
  MaxEvents = 5
CHECK_DEADLOCK FALSE
INVARIANTS WireFormat SizesAreSafe EstablishedByOneIntroduction NegotiatedWindowIsLeast ControlInv RttIsBracketed AnswersMatchRequests
PROPERTIES SlowdownNeedsLoss
