SPECIFICATION SuiteFairSpec
CONSTANTS
  MaxGeneration = 4
  WindowSize = 1
  MaxSequence = 7
  ResendInterval = 1
  RetryInterval = 1
  OldLifetime = 1
  PendingLifetime = 2
  IdleRestart = 3
  RekeyInterval = 3
  Pfs = TRUE
  KeyLimit = 1
  HalfWindow = 1
  NonceCapacity = 4
  Walls = {0}
  Kinds = {}
  Timely = FALSE
  MaxInits = 1
  MaxResponses = 1
  MaxPackets = 0
  MaxFaults = 0
  MaxRestarts = 0
  MaxLosses = 0
  Parts = {"info", "udp_moves", "answers", "settles", "log_drains", "loop_serves", "tuns"}
PROPERTIES AllServed
CHECK_DEADLOCK FALSE
