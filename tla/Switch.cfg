SPECIFICATION SuiteSpec
CONSTANTS
  Items = {"x", "y"}
  Capacity = 3
  Vacant = "none"
  Workers = {"w1", "w2"}
  Main = "main"
  NoOne = "none"
  MaxInput = 1
  MaxPublish = 1
  MaxFull = 0
  MaxFaults = 0
  Parts = {"owners", "frames", "rules1", "rules2", "bidir", "legacy", "text1", "text3", "chains", "reload", "exit", "exit_l4"}
INVARIANTS RulesSound ChainSound ExitSound
PROPERTIES SwitchSound
CHECK_DEADLOCK FALSE
