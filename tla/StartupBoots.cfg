CONSTANTS
  MaxRetries = 1
  MaxBoots = 3
  MaxSsds <- SomeSsds
  MaxBroken = 1
SPECIFICATION FairSpec
INVARIANTS
  HomeMounted
  TmpOnSsds
PROPERTIES
  FirstBootReady
  FatalUntilDown
  WaitEnds
