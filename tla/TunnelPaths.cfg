SPECIFICATION SuiteSpec
CONSTANTS
  MaxGeneration = 4
  WindowSize = 3
  MaxSequence = 7
  ResendInterval = 1
  RetryInterval = 1
  OldLifetime = 1
  PendingLifetime = 2
  IdleRestart = 3
  RekeyInterval = 3
  Pfs = TRUE
  KeyLimit = 1
  HalfWindow = 1
  NonceCapacity = 1
  Walls = {0, 2}
  Kinds = {}
  Timely = FALSE
  MaxInits = 2
  MaxResponses = 2
  MaxPackets = 0
  MaxFaults = 1
  MaxRestarts = 1
  MaxLosses = 0
  Parts = {"info", "session", "replay", "frag", "reass", "strays", "pmtud", "rtt", "rtt_quiet", "rtt_listener", "log", "tuns"}
INVARIANTS Fresh NonceHistorySound ImplementsWindow LinesSound DevicesSound
PROPERTIES FragmentsSound ProbesSound
CHECK_DEADLOCK FALSE
