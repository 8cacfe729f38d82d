SPECIFICATION FairSpec
CONSTANTS
  a1 = a1
  a2 = a2
  a3 = a3
  i1 = i1
  i2 = i2
  Addr = {a1, a2, a3}
  Ip = {i1, i2}
  IpOf <- IpOfThree
  Handshake = TRUE
  MaxUnestablished = 1
  MaxDuplicatePeers = 1
  IdleTimeout = 2
  BlockingMode = FALSE
  VerifyArrives = TRUE
INVARIANTS CounterCoversPending DuplicateCountExact DuplicateLimit InboundLimit
PROPERTIES SilentSessionDropped
