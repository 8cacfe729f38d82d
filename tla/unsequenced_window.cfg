SPECIFICATION UnsequencedSpec
CONSTANTS
  HalfRange = 12
  WordBits = 2
  Words = 3
  FirstGroup = 0
  MaxSent = 30
  MaxDelay = 8
  MaxGap = 7
CHECK_DEADLOCK FALSE
INVARIANTS WindowInv DeliveredAtMostOnce LatePacketIsAccepted
