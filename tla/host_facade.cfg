SPECIFICATION FairHostSpec
CONSTANTS
  a1 = a1
  a2 = a2
  i1 = i1
  Addr = {a1, a2}
  Ip = {i1}
  IpOf <- SharedIp
  Handshake = FALSE
  MaxUnestablished = 1
  MaxDuplicatePeers = 1
  IdleTimeout = 1
  BlockingMode = FALSE
  VerifyArrives = FALSE
  MaxQueued = 2
  MaxEvents = 1
INVARIANTS FacadeInv DrainedViewIsRight
PROPERTIES NoRepeatedConnect DepartureIsReported
