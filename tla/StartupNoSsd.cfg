CONSTANTS
  MaxRetries = 1
  MaxBoots = 2
  MaxSsds <- SomeSsds
  MaxBroken = 1
SPECIFICATION Spec
INVARIANTS
  TmpOnVarTmp
