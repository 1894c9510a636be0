\* Two accounts, two contracts, one fault of any kind; transactions of two messages.
SPECIFICATION Spec
CONSTANTS
  Contracts = {k1, k2}
  Senders = {s1, s2}
  Callers = {c1}
  None = None
  MaxMsgsPerBatch = 2
  MaxPolls = 1
  BlocksUntilTxTimeout = 1
  FaultKinds = {"crash", "db", "rpc", "client"}
  MaxMsgs = 3
  MaxHeight = 2
  MaxFaults = 1
SYMMETRY Symmetry
INVARIANTS TypeOK CancelledNeverSent TableMatchesNetwork WorkerViewHolds ResentOnlyAfterLostAnswer LeftoversFitOneBatch
PROPERTIES SendsOldestFirst LifeSpec
