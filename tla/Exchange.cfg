SPECIFICATION FairSpec
CONSTANTS
  ChanCap = 1
  StreamCap = 1
  MaxPackets <- Packets43
INVARIANTS
  TypeOK
  Accounted
  DrainedIsDelivered
  StopsForCause
PROPERTIES
  ChainSpec
  RunReturns
  AllForwarded
CHECK_DEADLOCK FALSE
