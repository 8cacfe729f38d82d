SPECIFICATION FairSpec
CONSTANTS
  HalfRange = 1
  Channels = {0}
  Kinds = {"ordered", "unordered", "unreliable"}
  PieceCounts = {1, 2, 3, 4, 5}
  MaxFragments = 3
  FragmentCountMax = 4
  MaxWaitingData = 6
  FragmentTimeout = 0
  MaxMessages = 2
  MaxFaults = 1
CHECK_DEADLOCK FALSE
INVARIANTS BufferInv IntactUnlessShared
PROPERTIES UndisturbedArrives
