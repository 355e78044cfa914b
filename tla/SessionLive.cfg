CONSTANTS
  WindowSize = 1
  ResendInterval = 1
  RetryInterval = 1
  OldLifetime = 1
  PendingLifetime = 2
  IdleRestart = 3
  RekeyInterval = 3
  Pfs = TRUE
  KeyLimit = 1
  HalfWindow = 1
  NonceCapacity = 9
  Walls = {0}
  Kinds = {}
  Timely = TRUE
  MaxInits = 7
  MaxResponses = 9
  MaxPackets = 0
  MaxFaults = 1
  MaxRestarts = 1
  MaxLosses = 1
SPECIFICATION FairSpec
PROPERTIES AgreementReturns
