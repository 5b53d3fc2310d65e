SPECIFICATION Spec
CONSTANTS
  LastProc = 4
  LinkCap = 1
  HandCap = 1
  MaxUnits <- Units21
  MaxFaults = 1
INVARIANTS
  EndToEnd
  ChainStopsForCause
  
PROPERTIES
  PartsSpec
CHECK_DEADLOCK FALSE
