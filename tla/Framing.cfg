SPECIFICATION FairSpec
CONSTANTS
  Base = 2
  HeaderLen = 2
  Packets <- Packets31
  StreamCap = 2
  Leavers = {"client", "server"}
  MaxFaults = 1
INVARIANTS
  FramesIntact
PROPERTIES
  PacketLinkSpec
  AllReceived
  BothEnd
CHECK_DEADLOCK FALSE
