CONSTANTS
  WindowSize = 1
  ResendInterval = 1
  RetryInterval = 1
  OldLifetime = 1
  PendingLifetime = 2
  IdleRestart = 3
  RekeyInterval = 3
  Pfs = TRUE
  KeyLimit = 1
  HalfWindow = 1
  NonceCapacity = 4
  Walls = {0}
  Kinds = {}
  Timely = FALSE
  MaxInits = 3
  MaxResponses = 3
  MaxPackets = 0
  MaxFaults = 0
  MaxRestarts = 1
  MaxLosses = 0
SPECIFICATION Spec
INVARIANTS ConfirmedAgreement ExchangeBounded
PROPERTIES PendingKept GenerationMarksKey ImplementsKeyAgreement
