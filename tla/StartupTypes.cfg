CONSTANTS
  MaxRetries = 1
  MaxBoots = 3
  MaxSsds <- SomeSsds
  MaxBroken = 1
SPECIFICATION FairSpec
INVARIANTS
  TypeOK
