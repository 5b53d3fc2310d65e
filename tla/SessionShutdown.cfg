SPECIFICATION FairSpec
CONSTANTS
  Byte <- MCByte
  Payload <- Payload23
  DuplexCap = 1
  BufSize = 1
  WireCap = 1
  Droppers = {"client"}
  MaxFaults = 1
PROPERTIES
  OnlyBackpressureWedges
  AllDelivered
CHECK_DEADLOCK FALSE
