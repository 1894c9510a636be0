SPECIFICATION Spec
CONSTANTS
  Contracts = {k1}
  Senders = {s1}
  Callers = {c1}
  None = None
  MaxMsgsPerBatch = 2
  MaxPolls = 1
  BlocksUntilTxTimeout = 1
  MaxMsgs = 2
  MaxHeight = 2
  FaultKinds = {}
  MaxFaults = 0
PROPERTIES GivenUpTxHasTimedOut
