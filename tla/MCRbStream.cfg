SPECIFICATION FairSpec
CONSTANTS
  PageSizes   <- MCPageSizes
  PacketSizes <- MCPacketSizes
  Addresses   <- MCAddresses
  Sizes       <- MCSizes
  MaxConsumed = 9
INVARIANTS ReadsStayInRing EveryPacketYields CopyInBounds IInv
PROPERTIES WalkSpec ReadReturns
