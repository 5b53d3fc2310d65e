SPECIFICATION Spec
CONSTANTS
  client = client
  server = server
  p1 = p1
  p2 = p2
  NoPort = NoPort
  Port = {p1, p2}
  Enta <- Clients
  Options <- DemoOrBoth
  MaxStarts = 6
  MaxMishaps <- Mishaps21
INVARIANTS
  RunningIsCaptured
  CleanExit
  LeftoversBounded
  StartsRecover
CHECK_DEADLOCK FALSE
