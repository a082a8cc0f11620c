CONSTANTS
  s1 = s1
  s2 = s2
  own = own
  NoAccount = NoAccount
  Empty = Empty
  Sessions <- TwoSessions
  Accounts <- ThreeAccounts
  Given <- OwnAccount
  Images <- TwoImages
  MaxAttempts = 2
  MaxFaults = 2
  Segments = 3
  Labels = 2
SPECIFICATION SettledSpec
INVARIANTS
  RememberedIsReady
  PlainImagesAreReadable
PROPERTIES
  DisksAreReachable
  LeftoversStay
  FirstCreatesDeliver
