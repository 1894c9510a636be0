SPECIFICATION Spec
CONSTANTS
  Starts <- AnyStart
  Blocks <- SingleFeedBlocks
  MaxHeight = 3
  TTL = 1
  Timeout = 1
  MaxFaults = 1
INVARIANTS
  TypeOK
  ConfigServedIsRecent
  ConfigServedIsTheOneTold
  TransmissionServedIsRecent
PROPERTIES
  NeverBack
  EventuallyCurrent
CHECK_DEADLOCK FALSE
