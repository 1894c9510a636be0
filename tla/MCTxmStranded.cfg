SPECIFICATION FairSpec
CONSTANTS
  Contracts = {k1}
  Senders = {s1}
  Callers = {c1}
  None = None
  MaxMsgsPerBatch = 2
  MaxPolls = 1
  BlocksUntilTxTimeout = 1
  MaxMsgs = 2
  MaxHeight = 2
  FaultKinds = {"db"}
  MaxFaults = 1
PROPERTIES EveryMessageSettles
