SPECIFICATION MonitoringSpec
CONSTANTS
  Starts <- AnyStart
  Blocks <- SomeBlocks
  MaxHeight = 3
  Limit = 2
  MaxFaults = 1
  RaceOutcomes = {"nothing", "all", "block"}
  Fetchers = {f1, f2}
INVARIANTS
  ConfigIsOfThisFetch
  NoneCountedTwice

  
CHECK_DEADLOCK FALSE
