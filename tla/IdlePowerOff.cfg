CONSTANTS
  Timeout = 3
  MaxFails = 2
  Cap <- LongEnough
  MaxEvents = 3
SPECIFICATION Spec
PROPERTIES
  PowerOffQuiet
