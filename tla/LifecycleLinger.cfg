CONSTANTS
  n1 = n1
  n2 = n2
  d1 = d1
  d2 = d2
  s1 = s1
  s2 = s2
  NoName = NoName
  NoDisk = NoDisk
  Names <- TwoNames
  Disks <- TwoDisks
  Sessions <- TwoSessions
  PdNames <- OwnNaming
  Overlap = FALSE
  MaxFaults = 1
  Linger = TRUE
SPECIFICATION Spec
SYMMETRY SessionSymmetry
PROPERTIES
  HomesSurvive
