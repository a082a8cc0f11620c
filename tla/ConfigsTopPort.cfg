CONSTANTS
  n1 = n1
  n2 = n2
  s1 = s1
  s2 = s2
  Default = Default
  NoName = NoName
  Names <- TwoNames
  CreateNames <- TwoNames
  FirstPort = 65531
  LastPort = 65535
  ChosenPorts <- TopPort
  Sessions <- OneSession
  Legacy = FALSE
  Overlap = FALSE
  MaxFaults = 0
SPECIFICATION Spec
INVARIANTS
  PicksAPort
