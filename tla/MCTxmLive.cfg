\* Crashes and failed requests, no failing database, two faults; liveness, so no symmetry.
SPECIFICATION FairSpec
CONSTANTS
  Contracts = {k1}
  Senders = {s1}
  Callers = {c1, c2}
  None = None
  MaxMsgsPerBatch = 2
  MaxPolls = 1
  BlocksUntilTxTimeout = 1
  FaultKinds = {"crash", "rpc"}
  MaxMsgs = 2
  MaxHeight = 2
  MaxFaults = 2
INVARIANTS CancelledIsReplaced NoneStranded SequenceReusedOnlyAfterGivingUp
PROPERTIES EveryMessageSettles
