SPECIFICATION FullSpec
CONSTANTS
  LastProc = 3
  LinkCap = 1
  HandCap = 1
  MaxUnits <- Units55
  MaxFaults = 1
PROPERTIES
  
  AllArrive
CHECK_DEADLOCK FALSE
