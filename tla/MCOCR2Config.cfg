\* Proposals, acceptance and transmission; nothing is paid.
SPECIFICATION Spec
CONSTANTS
  own = own  alt = alt  t1 = t1  t2 = t2  t3 = t3  t4 = t4  t5 = t5  p1 = p1  p2 = p2  p3 = p3
  g1 = g1  g2 = g2  g3 = g3  g4 = g4  g5 = g5  ac1 = ac1  ac2 = ac2
  Accounts = {own, alt, t1, t2, t3, t4, t5, p1, p2, p3}
  Nobody = Nobody
  Deployer = own
  Signers = {g1, g2, g3, g4, g5}
  Setups <- AllSetups
  OffchainConfigs = {oc}
  Empty = Empty
  MaxOracles = 4
  Epochs = {0, 1}
  Rounds = {0, 1}
  SignatureLists <- SomeSignatures
  Observations <- SomeObservations
  MinAnswer = 1
  MaxAnswer = 2
  JuelsPerFeeCoin = {0}
  Billings <- FreeOnly
  Controllers = {ac1}
  Access <- NobodyElse
  Validators = {}
  Tokens = {link}
  Link = link
  Deposits = {}
  Withdrawals = {}
  Callers = {own, alt, t1, t2, p1, p2}
  Proposers = {own, alt}
  Successors = {alt}
  NewPayees = {p2}
  MaxProposals = 2
  MaxRounds = 2
  MaxBalance = 0
INVARIANTS TypeOK OracleSetSound ReportsOrdered QuorumOfItsConfig
PROPERTIES FinalizedFrozen FeedSpec
