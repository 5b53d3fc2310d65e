SPECIFICATION FairSpec
CONSTANTS
  Byte <- MCByte
  Payload <- Payload33
  DuplexCap = 1
  BufSize = 1
  WireCap = 1
  Droppers = {"client", "server"}
  MaxFaults = 0
INVARIANTS
  WedgeTakesBoth
PROPERTIES
  OnlyBackpressureWedges
CHECK_DEADLOCK FALSE
