SPECIFICATION SuiteSpec
CONSTANTS
  MaxGeneration = 1
  WindowSize = 1
  MaxSequence = 7
  ResendInterval = 1
  RetryInterval = 1
  OldLifetime = 1
  PendingLifetime = 2
  IdleRestart = 3
  RekeyInterval = 3
  Pfs = TRUE
  KeyLimit = 2
  HalfWindow = 1
  NonceCapacity = 4
  Walls = {0}
  Kinds = {TRUE, FALSE}
  Timely = FALSE
  MaxInits = 2
  MaxResponses = 2
  MaxPackets = 2
  MaxFaults = 0
  MaxRestarts = 0
  MaxLosses = 0
  Parts = {"session", "udp", "loop", "access", "here"}
INVARIANTS CountersNotReused DeliverySound QueueSound
PROPERTIES OldKeysLimited DataInOrder AccessSound
CHECK_DEADLOCK FALSE
