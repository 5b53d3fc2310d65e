SPECIFICATION FairSpec
CONSTANTS
  BufSize = 2
  StreamCap = 2
  MaxBytes <- Bytes53
  MaxFaults = 1
INVARIANTS
  NeverPanics
  Relayed
  ClosedIsForwarded
PROPERTIES
  ChainSpec
  EndsWithPeer
  StartsForwarding
CHECK_DEADLOCK FALSE
