SPECIFICATION Spec
CONSTANTS
  a = a
  b = b
  Peers = {a, b}
  Senders = {a, b}
  HalfRange = 5
  Redundant = 1
  Starts = {0, 9}
  Ends = {3, 12}
  MaxLag = 3
  MaxAcks = 1
SYMMETRY PeerSymmetry
CHECK_DEADLOCK FALSE
INVARIANTS HandlerInv AckedWasReceived DroppedIsPastTheWindow BitfieldIsExact
