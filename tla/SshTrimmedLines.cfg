CONSTANTS
  h1 = h1
  h2 = h2
  Lines <- UserWords
  HostSets <- SomeHosts
  MaxLines = 3
  MaxTime = 0
SPECIFICATION Spec
PROPERTIES
  UserLinesKept
