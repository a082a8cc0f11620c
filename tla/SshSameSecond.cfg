CONSTANTS
  h1 = h1
  h2 = h2
  Lines <- UserWords
  HostSets <- SomeHosts
  MaxLines = 2
  MaxTime = 1
SPECIFICATION Spec
INVARIANTS
  NothingLost
