SPECIFICATION FairSpec
CONSTANTS
  PacketOverhead = 1
  WholeHeader <- WholeHeaders
  FragmentHeader <- FragmentHeaders
  ControlSize = 1
  ProbeHeader = 1
  Kinds = {"reliable", "unsequenced"}
  PayloadSizes = {3, 10, 15, 17}
  FragmentSize = 8
  ReceiveBufferMaxSize = 12
  MaxFragments = 2
  MaxWaitingData = 11
  OutgoingLimit = 9
  UsePmtu = {TRUE, FALSE}
  PmtuMin = 4
  PmtuMax = 11
  PmtuConvergeThreshold = 1
  PathMtu = 9
  FragmentCountMax = 3
  MaxMessages = 2
  MaxControls = 1
INVARIANTS QueueInv BandwidthOvershoot PmtuIsSound SearchIsBracketed
PROPERTIES QueueDrainsUnlessLowered
