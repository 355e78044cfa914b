SPECIFICATION SuiteSpec
CONSTANTS
  None = None
  Ids = {"a", "b"}
  Body <- BlocksOfBody
  Response <- BlocksOfResponse
  Cheap = {}
  Retries = 1
  ActiveLimit = 2
  History = {1}
  InFlight = 2
  Copies = 1
  Breaks = 0
  Parts = {"refused"}
INVARIANT RefusedNeverRuns
CHECK_DEADLOCK FALSE
