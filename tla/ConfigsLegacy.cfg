CONSTANTS
  n1 = n1
  n2 = n2
  s1 = s1
  s2 = s2
  Default = Default
  NoName = NoName
  Names <- TwoNames
  CreateNames <- TwoNames
  FirstPort = 1
  LastPort = 5
  ChosenPorts <- NoPorts
  Sessions <- OneSession
  Legacy = TRUE
  Overlap = FALSE
  MaxFaults = 0
SPECIFICATION Spec
PROPERTIES
  DeleteForgets
