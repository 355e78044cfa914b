SPECIFICATION SuiteSpec
CONSTANTS
  Items = {"x", "y"}
  Capacity = 3
  Vacant = "none"
  Workers = {"w1", "w2"}
  Main = "main"
  NoOne = "none"
  MaxInput = 1
  MaxPublish = 1
  MaxFull = 0
  MaxFaults = 0
  Parts = {"spsc", "worker", "sockets", "forward", "routed", "sweeps", "plans", "plans_shared", "client", "engine", "names", "same", "relay", "uplink"}
INVARIANTS SlotsRaceFree BarrierSound ForwardingSound TransportSound PlanSound RelaySound
PROPERTIES ImplementsFifo RegistrationSound
CHECK_DEADLOCK FALSE
