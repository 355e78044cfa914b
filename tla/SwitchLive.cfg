SPECIFICATION SuiteFairSpec
CONSTANTS
  Items = {"x", "y"}
  Capacity = 3
  Vacant = "none"
  Workers = {"w1", "w2"}
  Main = "main"
  NoOne = "none"
  MaxInput = 1
  MaxPublish = 1
  MaxFull = 0
  MaxFaults = 0
  Parts = {"leaves", "pauses", "served", "registers", "relays"}
PROPERTIES AllServed
CHECK_DEADLOCK FALSE
