SPECIFICATION FairSpec
CONSTANTS
  c1 = c1
  c2 = c2
  Client <- Clients
  Idle = {c2}
  DataLen <- Data91
  BufSize = 2
  StreamCap = 3
  MaxFaults = 1
INVARIANTS
  EchoIsPrefix
  PassesUnlessFault
PROPERTIES
  ClientFinishes
CHECK_DEADLOCK FALSE
