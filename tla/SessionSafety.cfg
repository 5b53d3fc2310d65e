SPECIFICATION Spec
CONSTANTS
  Byte <- MCByte
  Payload <- Payload31
  DuplexCap = 2
  BufSize = 2
  WireCap = 2
  Droppers = {"client", "server"}
  MaxFaults = 1
INVARIANTS
  TypeOK
  InOrderDelivery
  EofMeansComplete
  NoUseAfterCleanup
  HandleReturned
PROPERTIES
  LinkSpec
CHECK_DEADLOCK FALSE
