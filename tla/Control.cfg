SPECIFICATION SuiteSpec
CONSTANTS
  None = None
  Ids = {"a", "b"}
  Body <- BlocksOfBody
  Response <- BlocksOfResponse
  Cheap = {}
  Retries = 1
  ActiveLimit = 2
  History = {1}
  InFlight = 2
  Copies = 1
  Breaks = 0
  Parts = {"table", "group", "alone", "together", "worker", "local", "remote", "sessions", "proof", "lossy", "room", "flood", "proved", "replaced", "socket"}
INVARIANTS LearningSound RequestsSound CommandsSound FramesSound
PROPERTIES FileSound DivertSound
CHECK_DEADLOCK FALSE
