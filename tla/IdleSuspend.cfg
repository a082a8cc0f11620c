CONSTANTS
  Timeout = 3
  MaxFails = 2
  Cap <- LongEnough
  MaxEvents = 3
SPECIFICATION FairSpec
PROPERTIES
  SuspendsQuiet
  GraceAfterResume
  LastResort
  IdleEnds
