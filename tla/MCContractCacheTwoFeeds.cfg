SPECIFICATION Spec
CONSTANTS
  Starts <- AnyStart
  Blocks <- TwoFeedBlocks
  MaxHeight = 3
  TTL = 1
  Timeout = 1
  MaxFaults = 0
INVARIANTS
  FirstMatchIsOurs
CHECK_DEADLOCK FALSE
