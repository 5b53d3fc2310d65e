SPECIFICATION Spec
CONSTANTS
  client = client
  server = server
  p1 = p1
  p2 = p2
  NoPort = NoPort
  Port = {p1, p2}
  Enta <- Clients
  Options <- JustBoth
  MaxStarts = 2
  MaxMishaps <- OnlyCtrlC
INVARIANTS
  CleanExitOnCtrlC
CHECK_DEADLOCK FALSE
