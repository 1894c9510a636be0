\* Prices, payouts, withdrawals and a new token, over two oracle sets.
SPECIFICATION Spec
CONSTANTS
  own = own  alt = alt  t1 = t1  t2 = t2  t3 = t3  t4 = t4  t5 = t5  p1 = p1  p2 = p2  p3 = p3
  g1 = g1  g2 = g2  g3 = g3  g4 = g4  g5 = g5  ac1 = ac1  ac2 = ac2
  Accounts = {own, alt, t1, t2, t3, t4, t5, p1, p2, p3}
  Nobody = Nobody
  Deployer = own
  Signers = {g1, g2, g3, g4, g5}
  Setups <- GoodSetups
  OffchainConfigs = {oc}
  Empty = Empty
  MaxOracles = 4
  Epochs = {0}
  Rounds = {1, 2}
  SignatureLists <- OneSignature
  Observations <- OneObservation
  MinAnswer = 1
  MaxAnswer = 2
  JuelsPerFeeCoin = {1}
  Billings <- Paying
  Controllers = {ac1}
  Access <- AltBills
  Validators = {}
  Tokens = {link, link2}
  Link = link
  Deposits = {9}
  Withdrawals = {9}
  Callers = {own, alt, t2, p1, p2}
  Proposers = {own}
  Successors = {}
  NewPayees = {}
  MaxProposals = 2
  MaxRounds = 2
  MaxBalance = 18
INVARIANTS OwedIsUnpaid
PROPERTIES DuesAreCovered
