CONSTANTS
  n1 = n1
  n2 = n2
  s1 = s1
  s2 = s2
  p1 = p1
  p2 = p2
  p3 = p3
  p4 = p4
  p5 = p5
  port = port
  NoName = NoName
  NoSession = NoSession
  NoPid = NoPid
  Garbled = Garbled
  Names <- TwoNames
  Sessions <- OneSession
  Pids <- ThreePids
  PortOf <- OwnPorts
  Overlap = FALSE
  Reuse = TRUE
  MaxAttempts = 2
  MaxCrashes = 1
  MaxDrops = 0
SPECIFICATION Spec

PROPERTIES
  StopsOnlyTunnels
