SPECIFICATION Spec
CONSTANTS
  Byte <- MCByte
  Payload <- Payload21
  DuplexCap = 1
  BufSize = 1
  WireCap = 1
  Droppers = {"client", "server"}
  MaxFaults = 0
PROPERTIES
  ReaderRunsUntilPeerShutdown
CHECK_DEADLOCK FALSE
