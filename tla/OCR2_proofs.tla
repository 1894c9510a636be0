---------------------------- MODULE OCR2_proofs ----------------------------
(***************************************************************************)
(* Proofs about OCR2, for all values of its constants.                     *)
(***************************************************************************)
EXTENDS OCR2, FiniteFolds

USE DEF auth, oracleSet, payeeing, proposing, feed, money
-----------------------------------------------------------------------------
(* Lemmas about the operators *)

\* A saved key maps to its value, other keys to what they did.
LEMMA SaveFacts ==
  ASSUME NEW map, NEW key, NEW value
  PROVE  /\ DOMAIN Save(map, key, value) = DOMAIN map \cup {key}
         /\ Save(map, key, value)[key] = value
         /\ \A k \in DOMAIN map : k # key => Save(map, key, value)[k] = map[k]
  BY DEF Save

\* A removed key is gone, other keys map to what they did.
LEMMA RemoveFacts ==
  ASSUME NEW map, NEW key
  PROVE  /\ DOMAIN Remove(map, key) = DOMAIN map \ {key}
         /\ \A k \in DOMAIN map : k # key => Remove(map, key)[k] = map[k]
  BY DEF Remove, Restrict

\* Every value of a map is among the values of its keys.
LEMMA RangeFacts ==
  ASSUME NEW map, NEW S
  PROVE  Range(map) \subseteq S <=> \A k \in DOMAIN map : map[k] \in S
  BY DEF Range

\* What a transmitter is owed is a natural number, and so is the total.
LEMMA OwedIsNatural ==
  ASSUME TypeOK, NEW t \in DOMAIN transmitters
  PROVE  Owed(t) \in Nat
  <1>1. /\ config.billing.observation \in Nat /\ config.latest \in Nat
        /\ transmitters[t].payment \in Nat /\ transmitters[t].from \in 0 .. config.latest
    BY DEF TypeOK, Billing
  <1>2. config.latest - transmitters[t].from \in Nat
    BY <1>1
  <1>3. \A a, b \in Nat : a * b \in Nat
    OBVIOUS
  <1>4. config.billing.observation * (config.latest - transmitters[t].from) \in Nat
    BY <1>1, <1>2, <1>3
  <1> QED
    BY <1>1, <1>4 DEF Owed

OraclesFinite == IsFiniteSet(DOMAIN transmitters)

LEMMA LinkDueIsNatural ==
  ASSUME TypeOK, OraclesFinite
  PROVE  LinkDue \in Nat
  <1> DEFINE owed == [t \in DOMAIN transmitters |-> Owed(t)]
  <1>1. \A t \in DOMAIN transmitters : owed[t] \in Nat
    BY OwedIsNatural
  <1>2. LinkDue = SumFunctionOnSet(owed, DOMAIN transmitters)
    BY DEF LinkDue, SumFunction
  <1> HIDE DEF owed
  <1> QED
    BY <1>1, <1>2, SumOfNaturals DEF OraclesFinite

\* The oracles of a set without repetitions: as many signers as transmitters.
LEMMA SetOfOracles ==
  ASSUME NEW oracles \in Seq(Oracle)
  PROVE  /\ SignersOf(oracles) \subseteq Signers
         /\ TransmittersOf(oracles) \subseteq Accounts
         /\ IsFiniteSet(SignersOf(oracles)) /\ IsFiniteSet(TransmittersOf(oracles))
         /\ NoRepeats(oracles) => /\ Cardinality(SignersOf(oracles)) = Len(oracles)
                                  /\ Cardinality(TransmittersOf(oracles)) = Len(oracles)
  <1> DEFINE n == Len(oracles)
             sg == [i \in 1 .. n |-> oracles[i].signer]
             tr == [i \in 1 .. n |-> oracles[i].transmitter]
  <1>1. n \in Nat /\ DOMAIN oracles = 1 .. n /\ \A i \in 1 .. n : oracles[i] \in Oracle
    OBVIOUS
  <1>2. /\ sg \in [1 .. n -> SignersOf(oracles)]
        /\ \A g \in SignersOf(oracles) : \E i \in 1 .. n : sg[i] = g
    BY <1>1 DEF SignersOf
  <1>3. /\ tr \in [1 .. n -> TransmittersOf(oracles)]
        /\ \A t \in TransmittersOf(oracles) : \E i \in 1 .. n : tr[i] = t
    BY <1>1 DEF TransmittersOf
  <1>4. NoRepeats(oracles) => \A i, j \in 1 .. n : i # j => sg[i] # sg[j] /\ tr[i] # tr[j]
    BY <1>1 DEF NoRepeats
  <1>5. SignersOf(oracles) \subseteq Signers /\ TransmittersOf(oracles) \subseteq Accounts
    BY <1>1 DEF SignersOf, TransmittersOf, Oracle
  <1> HIDE DEF n, sg, tr
  <1>6. /\ IsFiniteSet(SignersOf(oracles))
        /\ NoRepeats(oracles) => Cardinality(SignersOf(oracles)) = n
    BY <1>1, <1>2, <1>4, EnumeratedSet
  <1>7. /\ IsFiniteSet(TransmittersOf(oracles))
        /\ NoRepeats(oracles) => Cardinality(TransmittersOf(oracles)) = n
    BY <1>1, <1>3, <1>4, EnumeratedSet
  <1> QED
    BY <1>5, <1>6, <1>7 DEF n
-----------------------------------------------------------------------------
(* Type correctness *)

\* What a transmitter has after a payout.
LEMMA PaidType ==
  ASSUME TypeOK
  PROVE  /\ Paid \in [payment : Nat, from : 0 .. config.latest]
         /\ DOMAIN PaidTransmitters = DOMAIN transmitters
         /\ \A t \in DOMAIN transmitters :
              PaidTransmitters[t] \in [payment : Nat, from : 0 .. config.latest]
  BY DEF TypeOK, Paid, PaidTransmitters

LEMMA PayAllType ==
  ASSUME TypeOK, OraclesFinite, CanPayAll
  PROVE  /\ [balance EXCEPT ![config.token] = @ - LinkDue] \in [Tokens -> Nat]
         /\ UnpaidAfterPayout \in [Accounts -> Int]
  <1>1. LinkDue \in Nat /\ LinkDue <= balance[config.token]
    BY LinkDueIsNatural DEF CanPayAll
  <1>2. balance \in [Tokens -> Nat] /\ config.token \in Tokens /\ unpaid \in [Accounts -> Int]
    BY DEF TypeOK
  <1>3. balance[config.token] - LinkDue \in Nat
    BY <1>1, <1>2
  <1>4. \A a \in DOMAIN transmitters : Owed(a) \in Int
    BY OwedIsNatural
  <1>5. [balance EXCEPT ![config.token] = @ - LinkDue] \in [Tokens -> Nat]
    BY <1>2, <1>3
  <1>6. UnpaidAfterPayout \in [Accounts -> Int]
    BY <1>2, <1>4 DEF UnpaidAfterPayout
  <1> QED
    BY <1>5, <1>6

\* Steps that pay, or move LINK.
LEMMA BillType ==
  ASSUME TypeOK, OraclesFinite, NEW who \in Callers, Bill(who)
  PROVE  TypeOK'
  <1> USE DEF TypeOK
  <1>1. ASSUME NEW t \in Accounts, WithdrawPayment(who, t)
        PROVE  TypeOK'
    <2>1. t \in DOMAIN transmitters /\ Owed(t) \in Nat /\ Owed(t) <= balance[config.token]
      BY <1>1, OwedIsNatural DEF WithdrawPayment
    <2>2. balance' \in [Tokens -> Nat]
      <3>1. balance[config.token] - Owed(t) \in Nat
        BY <2>1
      <3> QED
        BY <1>1, <3>1 DEF WithdrawPayment
    <2>3. unpaid' \in [Accounts -> Int]
      BY <1>1, <2>1 DEF WithdrawPayment
    <2>4. /\ DOMAIN transmitters' \subseteq Accounts
          /\ \A u \in DOMAIN transmitters' :
               transmitters'[u] \in [payment : Nat, from : 0 .. config'.latest]
      BY <1>1, PaidType DEF WithdrawPayment
    <2>5. UNCHANGED <<owner, proposedOwner, config, nextProposalId, proposals, signers,
                      transmissions, log, payees, proposedPayees, freeRounds>>
      BY <1>1 DEF WithdrawPayment
    <2> QED
      BY <2>2, <2>3, <2>4, <2>5 DEF Auth!OwnedTypeOK
  <1>2. ASSUME NEW amount \in Withdrawals, WithdrawFunds(who, amount)
        PROVE  TypeOK'
    <2> DEFINE held == balance[config.token]
               available == IF held > LinkDue THEN held - LinkDue ELSE 0
               sent == IF amount < available THEN amount ELSE available
    <2>1. LinkDue \in Nat /\ held \in Nat /\ amount \in Nat
      BY LinkDueIsNatural, BillingAssumption
    <2>2. balance' = [balance EXCEPT ![config.token] = @ - sent]
      BY <1>2 DEF WithdrawFunds
    <2>3. held - sent \in Nat
      <3> HIDE DEF held
      <3> QED
        BY <2>1
    <2>4. balance' \in [Tokens -> Nat]
      <3> HIDE DEF sent
      <3> QED
        BY <2>2, <2>3
    <2> QED
      BY <1>2, <2>4 DEF WithdrawFunds, Auth!OwnedTypeOK
  <1>3. ASSUME NEW billing \in Billings, SetBilling(who, billing)
        PROVE  TypeOK'
    <2>1. balance' \in [Tokens -> Nat] /\ unpaid' \in [Accounts -> Int]
      BY <1>3, PayAllType DEF SetBilling, PayAll
    <2>2. billing \in Billing
      BY BillingAssumption
    <2> QED
      BY <1>3, <2>1, <2>2, PaidType DEF SetBilling, Auth!OwnedTypeOK
  <1>4. ASSUME NEW tok \in Tokens, SetLinkToken(who, tok)
        PROVE  TypeOK'
    <2>1. balance' \in [Tokens -> Nat] /\ unpaid' \in [Accounts -> Int]
      BY <1>4, PayAllType DEF SetLinkToken
    <2> QED
      BY <1>4, <2>1, PaidType DEF SetLinkToken, Auth!OwnedTypeOK
  <1> QED
    BY <1>1, <1>2, <1>3, <1>4 DEF Bill

\* Payees, controllers, validators, owners and deposits.
LEMMA AdminType ==
  ASSUME TypeOK, NEW who \in Callers
  PROVE  /\ NamePayee(who) => TypeOK'
         /\ Administer(who) => TypeOK'
  <1> USE DEF TypeOK
  <1>1. who \in Accounts
    BY AccountsAssumption
  <1>2. ASSUME NEW t \in Accounts, NEW to \in NewPayees, TransferPayeeship(who, t, to)
        PROVE  TypeOK'
    <2>1. \A k \in DOMAIN proposedPayees : proposedPayees[k] \in Accounts
      BY RangeFacts
    <2>2. /\ DOMAIN proposedPayees' = DOMAIN proposedPayees \cup {t}
          /\ \A k \in DOMAIN proposedPayees' : proposedPayees'[k] \in Accounts
      <3> HIDE DEF TypeOK
      <3> QED
        BY <1>2, <2>1, AccountsAssumption DEF TransferPayeeship, Save
    <2>3. Range(proposedPayees') \subseteq Accounts
      BY <2>2, RangeFacts
    <2> QED
      BY <1>2, <2>2, <2>3 DEF TransferPayeeship, Auth!OwnedTypeOK
  <1>3. ASSUME NEW t \in Accounts, AcceptPayeeship(who, t)
        PROVE  TypeOK'
    <2>1. /\ \A k \in DOMAIN proposedPayees : proposedPayees[k] \in Accounts
          /\ \A k \in DOMAIN payees : payees[k] \in Accounts
      BY RangeFacts
    <2>2. /\ DOMAIN payees' = DOMAIN payees \cup {t}
          /\ \A k \in DOMAIN payees' : payees'[k] \in Accounts
          /\ DOMAIN proposedPayees' = DOMAIN proposedPayees \ {t}
          /\ \A k \in DOMAIN proposedPayees' : proposedPayees'[k] \in Accounts
      <3> HIDE DEF TypeOK
      <3> QED
        BY <1>1, <1>3, <2>1 DEF AcceptPayeeship, Save, Remove, Restrict
    <2>3. Range(payees') \subseteq Accounts /\ Range(proposedPayees') \subseteq Accounts
      BY <2>2, RangeFacts
    <2> QED
      BY <1>3, <2>2, <2>3 DEF AcceptPayeeship, Auth!OwnedTypeOK
  <1>4. NamePayee(who) => TypeOK'
    BY <1>2, <1>3 DEF NamePayee
  <1>5. ASSUME NEW ac \in Controllers,
               SetBillingAccessController(who, ac) \/ SetRequesterAccessController(who, ac)
        PROVE  TypeOK'
    BY <1>5 DEF SetBillingAccessController, SetRequesterAccessController, Auth!OwnedTypeOK
  <1>6. ASSUME NEW validator \in Validators \cup {Nobody}, SetValidatorConfig(who, validator)
        PROVE  TypeOK'
    BY <1>6 DEF SetValidatorConfig, Auth!OwnedTypeOK
  <1>7. ASSUME NEW to \in Successors, TransferOwnership(who, to)
        PROVE  TypeOK'
    BY <1>7, AccountsAssumption
    DEF TransferOwnership, Auth!TransferOwnership, Auth!OwnedTypeOK
  <1>8. ASSUME AcceptOwnership(who)
        PROVE  TypeOK'
    BY <1>1, <1>8 DEF AcceptOwnership, Auth!AcceptOwnership, Auth!OwnedTypeOK
  <1> QED
    BY <1>4, <1>5, <1>6, <1>7, <1>8 DEF Administer

LEMMA DepositType ==
  ASSUME TypeOK, NEW tok \in Tokens, NEW amount \in Deposits, Deposit(tok, amount)
  PROVE  TypeOK'
  <1>1. balance' \in [Tokens -> Nat]
    BY BillingAssumption DEF TypeOK, Deposit
  <1> QED
    BY <1>1 DEF TypeOK, Deposit, Auth!OwnedTypeOK

\* Steps on proposals keep the types of all but the proposals.
ProposalType == [owner : Accounts, finalized : BOOLEAN, f : Nat,
                 oracles : Seq(Oracle), offchain : OffchainConfigs \cup {Empty}]

ProposalsOK ==
  /\ DOMAIN proposals \subseteq 1 .. nextProposalId
  /\ \A id \in DOMAIN proposals :
       proposals[id] \in ProposalType /\ Len(proposals[id].oracles) <= MaxOracles

LEMMA ProposalsType ==
  ASSUME TypeOK, NEW who \in Callers
  PROVE  /\ BeginProposal(who) => TypeOK'
         /\ \A id \in DOMAIN proposals :
              /\ ClearProposal(who, id) => TypeOK'
              /\ \A setup \in Setups : ProposeConfig(who, id, setup) => TypeOK'
              /\ \A offchain \in OffchainConfigs :
                   ProposeOffchainConfig(who, id, offchain) => TypeOK'
              /\ FinalizeProposal(who, id) => TypeOK'
  <1>1. ProposalsOK /\ nextProposalId \in 0 .. MaxProposals
    BY DEF TypeOK, ProposalsOK, ProposalType
  <1>2. ASSUME KeepAllButProposals, ProposalsOK', nextProposalId' \in 0 .. MaxProposals
        PROVE  TypeOK'
    BY <1>2 DEF TypeOK, ProposalsOK, ProposalType, KeepAllButProposals, Auth!OwnedTypeOK
  <1>3. ASSUME BeginProposal(who)
        PROVE  TypeOK'
    <2>1. NewProposal(who) \in ProposalType /\ Len(NewProposal(who).oracles) <= MaxOracles
      BY AccountsAssumption, ConfigAssumption DEF NewProposal, ProposalType
    <2>2. nextProposalId' \in 0 .. MaxProposals /\ nextProposalId' = nextProposalId + 1
      BY <1>1, <1>3, ConfigAssumption DEF BeginProposal
    <2>3. proposals' = Save(proposals, nextProposalId + 1, NewProposal(who))
      BY <1>3 DEF BeginProposal
    <2>4. DOMAIN proposals' \subseteq 1 .. nextProposalId'
      BY <1>1, <2>2, <2>3 DEF ProposalsOK, Save
    <2>5. \A id \in DOMAIN proposals' :
             proposals'[id] \in ProposalType /\ Len(proposals'[id].oracles) <= MaxOracles
      BY <1>1, <2>1, <2>3 DEF ProposalsOK, Save
    <2> QED
      BY <1>2, <1>3, <2>2, <2>4, <2>5 DEF BeginProposal, ProposalsOK
  <1>4. ASSUME NEW id \in DOMAIN proposals, ClearProposal(who, id)
        PROVE  TypeOK'
    <2>1. ProposalsOK'
      BY <1>1, <1>4 DEF ClearProposal, ProposalsOK, Remove, Restrict
    <2> QED
      BY <1>1, <1>2, <1>4, <2>1 DEF ClearProposal
  <1>5. ASSUME NEW id \in DOMAIN proposals, NEW setup \in Setups, ProposeConfig(who, id, setup)
        PROVE  TypeOK'
    <2>1. setup \in [oracles : Seq(Oracle), f : Nat] /\ Len(setup.oracles) <= MaxOracles
      BY <1>5, ConfigAssumption DEF ProposeConfig
    <2>2. ProposalsOK'
      BY ZenonT(60), <1>1, <1>5, <2>1 DEF ProposeConfig, ProposalsOK, ProposalType
    <2> QED
      BY <1>1, <1>2, <1>5, <2>2 DEF ProposeConfig
  <1>6. ASSUME NEW id \in DOMAIN proposals, NEW offchain \in OffchainConfigs,
               ProposeOffchainConfig(who, id, offchain)
        PROVE  TypeOK'
    <2>1. ProposalsOK'
      BY <1>1, <1>6 DEF ProposeOffchainConfig, ProposalsOK, ProposalType
    <2> QED
      BY <1>1, <1>2, <1>6, <2>1 DEF ProposeOffchainConfig
  <1>7. ASSUME NEW id \in DOMAIN proposals, FinalizeProposal(who, id)
        PROVE  TypeOK'
    <2>1. ProposalsOK'
      BY <1>1, <1>7 DEF FinalizeProposal, ProposalsOK, ProposalType
    <2> QED
      BY <1>1, <1>2, <1>7, <2>1 DEF FinalizeProposal
  <1> QED
    BY <1>3, <1>4, <1>5, <1>6, <1>7

ConfigType ==
  [f : Nat, n : 0 .. MaxOracles, count : Nat, digest : Digest, epoch : Nat, round : Nat,
   latest : 0 .. MaxRounds, billing : Billing, token : Tokens, billingAC : Controllers,
   requesterAC : Controllers, validator : Validators \cup {Nobody}]

LEMMA AcceptProposalType ==
  ASSUME TypeOK, OraclesFinite,
         NEW who \in Callers, NEW id \in DOMAIN proposals, NEW digest,
         AcceptProposal(who, id, digest)
  PROVE  TypeOK'
  <1> DEFINE p == proposals[id]
             new == TransmittersOf(p.oracles)
  <1>1. p \in ProposalType /\ Len(p.oracles) \in 0 .. MaxOracles
    BY ConfigAssumption DEF TypeOK, ProposalType
  <1>2. SignersOf(p.oracles) \subseteq Signers /\ new \subseteq Accounts
    BY <1>1, SetOfOracles DEF ProposalType
  <1>3. ASSUME NEW t \in new
        PROVE  PayeeIn(p.oracles, t) \in Accounts
    <2>1. PICK i \in DOMAIN p.oracles : p.oracles[i].transmitter = t
      BY DEF TransmittersOf
    <2>2. p.oracles[i] \in Range(p.oracles)
      BY DEF Range
    <2>3. Range(p.oracles) \subseteq Oracle
      BY <1>1 DEF Range, ProposalType
    <2> HIDE DEF p, new
    <2>4. \E o \in Range(p.oracles) : o.transmitter = t
      BY <2>1, <2>2
    <2> QED
      BY <2>3, <2>4 DEF PayeeIn, Oracle
  <1>4. config \in ConfigType
    BY DEF TypeOK, ConfigType
  <1>5. ConfigDigest(config.count + 1, p) \in Digest
    <2>1. /\ config.count + 1 \in Nat
          /\ p.f \in Nat /\ p.offchain \in OffchainConfigs \cup {Empty}
      BY <1>1, <1>4 DEF ConfigType, ProposalType
    <2>2. [i \in DOMAIN p.oracles |->
             [signer |-> p.oracles[i].signer, transmitter |-> p.oracles[i].transmitter]]
          \in Seq([signer : Signers, transmitter : Accounts])
      <3>1. /\ DOMAIN p.oracles = 1 .. Len(p.oracles) /\ Len(p.oracles) \in Nat
            /\ \A i \in DOMAIN p.oracles : p.oracles[i] \in Oracle
        BY <1>1 DEF ProposalType
      <3> HIDE DEF p
      <3> QED
        BY <3>1 DEF Oracle
    <2> HIDE DEF p
    <2> QED
      BY <2>1, <2>2 DEF ConfigDigest, Digest
  <1>6. balance' \in [Tokens -> Nat] /\ unpaid' \in [Accounts -> Int]
    BY PayAllType DEF AcceptProposal, PayAll
  <1>7. DOMAIN payees' \subseteq Accounts /\ Range(payees') \subseteq Accounts
    <2>1. payees' = [t \in DOMAIN payees \cup new |->
                       IF t \in new THEN PayeeIn(p.oracles, t) ELSE payees[t]]
      BY DEF AcceptProposal
    <2>2. DOMAIN payees \subseteq Accounts /\ \A t \in DOMAIN payees : payees[t] \in Accounts
      BY RangeFacts DEF TypeOK
    <2> HIDE DEF p, new
    <2>3. /\ DOMAIN payees' = DOMAIN payees \cup new
          /\ \A t \in DOMAIN payees' : payees'[t] \in Accounts
      BY <1>3, <2>1, <2>2
    <2> QED
      BY <1>2, <2>2, <2>3, RangeFacts
  <1>8. config' \in ConfigType /\ config'.latest = config.latest
    <2>1. config' = [config EXCEPT !.f = p.f, !.n = Len(p.oracles), !.count = @ + 1,
                                   !.digest = ConfigDigest(config.count + 1, p),
                                   !.epoch = 0, !.round = 0]
      BY DEF AcceptProposal
    <2>2. p.f \in Nat /\ Len(p.oracles) \in 0 .. MaxOracles
      BY <1>1 DEF ProposalType
    <2>3. config.count \in Nat /\ config.count + 1 \in Nat
      BY <1>4 DEF ConfigType
    <2> HIDE DEF p
    <2> QED
      BY <1>4, <1>5, <2>1, <2>2, <2>3 DEF ConfigType
  <1>9. /\ DOMAIN transmitters' \subseteq Accounts
        /\ \A t \in DOMAIN transmitters' :
             transmitters'[t] \in [payment : Nat, from : 0 .. config'.latest]
    BY <1>2, <1>8, PaidType DEF AcceptProposal
  <1>10. /\ DOMAIN proposals' \subseteq DOMAIN proposals
         /\ \A k \in DOMAIN proposals' : proposals'[k] = proposals[k]
    BY ZenonT(60), RemoveFacts DEF AcceptProposal
  <1>11. /\ signers' = SignersOf(p.oracles)
         /\ UNCHANGED <<owner, proposedOwner, nextProposalId, transmissions, log,
                        proposedPayees, freeRounds>>
    BY DEF AcceptProposal
  <1> HIDE DEF p, new
  <1> QED
    BY <1>2, <1>6, <1>7, <1>8, <1>9, <1>10, <1>11 DEF TypeOK, ConfigType, Auth!OwnedTypeOK

\* Rounds.
LEMMA ReportType ==
  ASSUME TypeOK, NEW who \in Callers, Report(who)
  PROVE  TypeOK'
  <1>1. PICK digest \in ConfigDigests, epoch \in Epochs, round \in Rounds,
             signatures \in SignatureLists, observations \in Observations,
             juels \in JuelsPerFeeCoin :
          Transmit(who, digest, epoch, round, signatures, observations, juels)
    BY DEF Report
  <1> DEFINE r == config.latest + 1
             reward == config.billing.transmission + Reimbursement(juels)
  <1>2. config \in ConfigType
    BY DEF TypeOK, ConfigType
  <1>3. config' = [config EXCEPT !.epoch = epoch, !.round = round, !.latest = r]
    BY <1>1 DEF Transmit
  <1>4. epoch \in Nat /\ round \in Nat /\ r \in 0 .. MaxRounds /\ r # 0 /\ config.latest \in Nat
    BY <1>1, <1>2, ReportAssumption DEF Transmit, ConfigType
  <1>5. config' \in ConfigType /\ config'.latest = r
    <2> HIDE DEF r
    <2> QED
      BY <1>2, <1>3, <1>4 DEF ConfigType
  <1>6. transmissions' \in [1 .. r -> MinAnswer .. MaxAnswer]
    <2>1. transmissions' = Save(transmissions, r, Median(observations))
      BY <1>1 DEF Transmit
    <2>2. Median(observations) \in MinAnswer .. MaxAnswer
      BY <1>1 DEF Transmit, Sound
    <2>3. transmissions \in [1 .. config.latest -> MinAnswer .. MaxAnswer]
      BY DEF TypeOK
    <2>4. (1 .. config.latest) \cup {r} = 1 .. r
      BY <1>4
    <2> QED
      BY <2>1, <2>2, <2>3, <2>4 DEF Save
  <1>7. DOMAIN log' = 1 .. r
    <2>1. DOMAIN log' = DOMAIN log \cup {r}
      BY <1>1, SaveFacts DEF Transmit
    <2> QED
      BY <1>4, <2>1 DEF TypeOK
  <1>8. reward \in Nat
    <2>1. config.billing.gas \in Nat /\ juels \in Nat /\ config.billing.transmission \in Nat
      BY <1>2, BillingAssumption DEF ConfigType, Billing
    <2>2. \A a, b \in Nat : a * b \in Nat
      OBVIOUS
    <2> QED
      BY <2>1, <2>2 DEF Reimbursement
  <1>9. /\ DOMAIN transmitters' = DOMAIN transmitters
        /\ \A t \in DOMAIN transmitters' :
             transmitters'[t] \in [payment : Nat, from : 0 .. config'.latest]
    <2>1. transmitters' = [transmitters EXCEPT ![who].payment = @ + reward]
      BY <1>1 DEF Transmit
    <2>2. \A t \in DOMAIN transmitters :
             transmitters[t] \in [payment : Nat, from : 0 .. config.latest]
      BY DEF TypeOK
    <2> HIDE DEF reward
    <2> QED
      BY <1>4, <1>5, <1>8, <2>1, <2>2
  <1>10. unpaid' \in [Accounts -> Int]
    <2>1. unpaid' = [a \in Accounts |->
                       unpaid[a] + (IF a \in DOMAIN transmitters
                                    THEN config.billing.observation ELSE 0)
                                 + (IF a = who THEN reward ELSE 0)]
      BY <1>1 DEF Transmit
    <2>2. unpaid \in [Accounts -> Int] /\ config.billing.observation \in Nat
      BY <1>2 DEF TypeOK, ConfigType, Billing
    <2> HIDE DEF reward
    <2> QED
      BY <1>8, <2>1, <2>2
  <1>11. /\ freeRounds' \in BOOLEAN
         /\ UNCHANGED <<owner, proposedOwner, nextProposalId, proposals, signers, payees,
                        proposedPayees, balance>>
    BY <1>1 DEF Transmit, TypeOK
  <1> HIDE DEF r, reward
  <1> QED
    BY <1>5, <1>6, <1>7, <1>9, <1>10, <1>11 DEF TypeOK, ConfigType, Auth!OwnedTypeOK
-----------------------------------------------------------------------------
(* Kinds of steps *)

\* Steps that leave proposals, the oracle set and the rounds as they are.
Aside ==
  /\ UNCHANGED <<nextProposalId, proposals, signers, log, transmissions, freeRounds>>
  /\ config'.f = config.f /\ config'.n = config.n
  /\ config'.count = config.count /\ config'.digest = config.digest
  /\ config'.epoch = config.epoch /\ config'.round = config.round
  /\ config'.latest = config.latest
  /\ DOMAIN transmitters' = DOMAIN transmitters
  /\ DOMAIN payees \subseteq DOMAIN payees'

EditProposals(who) ==
  \/ BeginProposal(who)
  \/ \E id \in DOMAIN proposals :
       \/ ClearProposal(who, id)
       \/ \E setup \in Setups : ProposeConfig(who, id, setup)
       \/ \E offchain \in OffchainConfigs : ProposeOffchainConfig(who, id, offchain)
       \/ FinalizeProposal(who, id)

LEMMA Bystanders ==
  ASSUME TypeOK
  PROVE  /\ \A who \in Callers : Administer(who) \/ Bill(who) \/ NamePayee(who) => Aside
         /\ \A tok \in Tokens, amount \in Deposits : Deposit(tok, amount) => Aside
         /\ UNCHANGED vars => Aside
  <1> USE DEF Aside
  <1>1. config \in ConfigType
    BY DEF TypeOK, ConfigType
  <1>2. ASSUME NEW who \in Callers, Administer(who)
        PROVE  Aside
    BY <1>1, <1>2 DEF Administer, SetBillingAccessController, SetRequesterAccessController,
         SetValidatorConfig, TransferOwnership, AcceptOwnership, ConfigType
  <1>3. ASSUME NEW who \in Callers, NEW t \in Accounts, WithdrawPayment(who, t)
        PROVE  Aside
    BY <1>1, <1>3 DEF WithdrawPayment
  <1>4. ASSUME NEW who \in Callers, NEW amount \in Withdrawals, WithdrawFunds(who, amount)
        PROVE  Aside
    BY <1>4 DEF WithdrawFunds
  <1>5. ASSUME NEW who \in Callers, NEW billing \in Billings, SetBilling(who, billing)
        PROVE  Aside
    BY <1>1, <1>5, PaidType DEF SetBilling, ConfigType
  <1>6. ASSUME NEW who \in Callers, NEW tok \in Tokens, SetLinkToken(who, tok)
        PROVE  Aside
    BY <1>1, <1>6, PaidType DEF SetLinkToken, ConfigType
  <1>7. ASSUME NEW who \in Callers, NamePayee(who)
        PROVE  Aside
    BY <1>7 DEF NamePayee, TransferPayeeship, AcceptPayeeship, Save
  <1>8. ASSUME NEW tok \in Tokens, NEW amount \in Deposits, Deposit(tok, amount)
        PROVE  Aside
    BY <1>8 DEF Deposit
  <1>9. ASSUME UNCHANGED vars
        PROVE  Aside
    BY <1>9 DEF vars
  <1> QED
    BY <1>2, <1>3, <1>4, <1>5, <1>6, <1>7, <1>8, <1>9 DEF Bill

\* Every step is aside, or it edits proposals, accepts one or adds a round.
LEMMA StepKinds ==
  ASSUME TypeOK, [Next]_vars
  PROVE  \/ Aside
         \/ \E who \in Callers :
              \/ EditProposals(who)
              \/ \E id \in DOMAIN proposals, digest \in ProposalDigests :
                   AcceptProposal(who, id, digest)
              \/ Report(who)
  BY Bystanders DEF Next, Configure, EditProposals
-----------------------------------------------------------------------------
(* The oracle set *)

\* What is installed is what the digest says, and a proposal with oracles has
\* enough of them.
OracleSetInv ==
  /\ \A id \in DOMAIN proposals :
       /\ proposals[id].oracles # <<>> =>
            proposals[id].f # 0 /\ 3 * proposals[id].f < Len(proposals[id].oracles)
       /\ proposals[id].finalized => proposals[id].oracles # <<>>
  /\ config.digest.count = config.count /\ config.digest.f = config.f
  /\ signers = SignersOf(config.digest.oracles)
  /\ DOMAIN transmitters = TransmittersOf(config.digest.oracles)
  /\ OraclesFinite
  /\ OracleSetSound

\* A digest names the oracles of the proposal it is made of.
LEMMA DigestOracles ==
  ASSUME NEW count, NEW p, p.oracles \in Seq(Oracle)
  PROVE  LET digest == ConfigDigest(count, p) IN
         /\ digest.count = count /\ digest.f = p.f
         /\ SignersOf(digest.oracles) = SignersOf(p.oracles)
         /\ TransmittersOf(digest.oracles) = TransmittersOf(p.oracles)
  BY DEF ConfigDigest, SignersOf, TransmittersOf

LEMMA OracleSetInit ==
  ASSUME Init
  PROVE  OracleSetInv
  <1>1. /\ config.digest = NoDigest /\ config.count = 0 /\ config.f = 0 /\ config.n = 0
        /\ signers = {} /\ DOMAIN transmitters = {} /\ DOMAIN proposals = {}
    BY DEF Init, EmptyMap
  <1>2. /\ SignersOf(NoDigest.oracles) = {} /\ TransmittersOf(NoDigest.oracles) = {}
        /\ NoDigest.count = 0 /\ NoDigest.f = 0
    BY DEF NoDigest, SignersOf, TransmittersOf
  <1>3. IsFiniteSet({}) /\ Cardinality({}) = 0
    BY FS_EmptySet
  <1> QED
    BY <1>1, <1>2, <1>3 DEF OracleSetInv, OracleSetSound, OraclesFinite

LEMMA OracleSetStep ==
  ASSUME TypeOK, OracleSetInv, [Next]_vars
  PROVE  OracleSetInv'
  <1>1. CASE Aside
    BY <1>1 DEF Aside, OracleSetInv, OracleSetSound, OraclesFinite
  <1>2. ASSUME NEW who \in Callers, EditProposals(who)
        PROVE  OracleSetInv'
    <2>1. KeepAllButProposals
      BY <1>2 DEF EditProposals, BeginProposal, ClearProposal, ProposeConfig,
           ProposeOffchainConfig, FinalizeProposal
    <2> DEFINE Complete(p) ==
                 /\ p.oracles # <<>> => p.f # 0 /\ 3 * p.f < Len(p.oracles)
                 /\ p.finalized => p.oracles # <<>>
    <2>2. \A id \in DOMAIN proposals : Complete(proposals[id])
      BY DEF OracleSetInv
    <2>3. \A id \in DOMAIN proposals :
             proposals[id] \in ProposalType /\ Len(proposals[id].oracles) <= MaxOracles
      BY DEF TypeOK, ProposalType
    <2>4. \A id \in DOMAIN proposals' : Complete(proposals'[id])
      <3>1. CASE BeginProposal(who)
        BY <2>2, <3>1 DEF BeginProposal, Save, NewProposal
      <3>2. ASSUME NEW id \in DOMAIN proposals, ClearProposal(who, id)
            PROVE  \A k \in DOMAIN proposals' : Complete(proposals'[k])
        BY <2>2, <3>2 DEF ClearProposal, Remove, Restrict
      <3>3. ASSUME NEW id \in DOMAIN proposals, NEW setup \in Setups,
                   ProposeConfig(who, id, setup)
            PROVE  \A k \in DOMAIN proposals' : Complete(proposals'[k])
        BY <2>2, <2>3, <3>3 DEF ProposeConfig, ProposalType
      <3>4. ASSUME NEW id \in DOMAIN proposals, NEW offchain \in OffchainConfigs,
                   ProposeOffchainConfig(who, id, offchain)
            PROVE  \A k \in DOMAIN proposals' : Complete(proposals'[k])
        BY <2>2, <2>3, <3>4 DEF ProposeOffchainConfig, ProposalType
      <3>5. ASSUME NEW id \in DOMAIN proposals, FinalizeProposal(who, id)
            PROVE  \A k \in DOMAIN proposals' : Complete(proposals'[k])
        BY <2>2, <2>3, <3>5 DEF FinalizeProposal, ProposalType
      <3> QED
        BY <1>2, <3>1, <3>2, <3>3, <3>4, <3>5 DEF EditProposals
    <2> QED
      BY <2>1, <2>4 DEF KeepAllButProposals, OracleSetInv, OracleSetSound, OraclesFinite
  <1>3. ASSUME NEW who \in Callers, NEW id \in DOMAIN proposals, NEW digest,
               AcceptProposal(who, id, digest)
        PROVE  OracleSetInv'
    <2> DEFINE p == proposals[id]
    <2>1. p \in ProposalType /\ config \in ConfigType
      BY DEF TypeOK, ProposalType, ConfigType
    <2>2. p.f # 0 /\ 3 * p.f < Len(p.oracles) /\ p.f \in Nat /\ p.oracles \in Seq(Oracle)
      BY <1>3, <2>1 DEF AcceptProposal, OracleSetInv, ProposalType
    <2>3. /\ config'.f = p.f /\ config'.n = Len(p.oracles)
          /\ config'.count = config.count + 1
          /\ config'.digest = ConfigDigest(config.count + 1, p)
      BY <1>3, <2>1 DEF AcceptProposal, ConfigType
    <2>4. /\ signers' = SignersOf(p.oracles)
          /\ DOMAIN transmitters' = TransmittersOf(p.oracles)
          /\ DOMAIN payees' = DOMAIN payees \cup TransmittersOf(p.oracles)
          /\ NoRepeats(p.oracles)
      BY <1>3 DEF AcceptProposal
    <2>5. \A k \in DOMAIN proposals' : k \in DOMAIN proposals /\ proposals'[k] = proposals[k]
      BY <1>3 DEF AcceptProposal, Remove, Restrict
    <2> HIDE DEF p
    <2>6. /\ Cardinality(signers') = config'.n
          /\ Cardinality(DOMAIN transmitters') = config'.n
          /\ IsFiniteSet(DOMAIN transmitters')
      BY <2>2, <2>3, <2>4, SetOfOracles
    <2>7. /\ config'.digest.count = config'.count /\ config'.digest.f = config'.f
          /\ signers' = SignersOf(config'.digest.oracles)
          /\ DOMAIN transmitters' = TransmittersOf(config'.digest.oracles)
      BY <2>2, <2>3, <2>4, DigestOracles
    <2>8. config'.f > 0 /\ 3 * config'.f < config'.n
      BY <2>2, <2>3
    <2> QED
      BY <2>4, <2>5, <2>6, <2>7, <2>8 DEF OracleSetInv, OracleSetSound, OraclesFinite
  <1>4. ASSUME NEW who \in Callers, Report(who)
        PROVE  OracleSetInv'
    <2>1. config \in ConfigType
      BY DEF TypeOK, ConfigType
    <2>2. /\ UNCHANGED <<proposals, signers, payees>>
          /\ config'.f = config.f /\ config'.n = config.n
          /\ config'.count = config.count /\ config'.digest = config.digest
          /\ DOMAIN transmitters' = DOMAIN transmitters
      BY <1>4, <2>1 DEF Report, Transmit, ConfigType
    <2> QED
      BY <2>2 DEF OracleSetInv, OracleSetSound, OraclesFinite
  <1> QED
    BY <1>1, <1>2, <1>3, <1>4, StepKinds
-----------------------------------------------------------------------------
(* Rounds *)

\* No round names a later configuration than the one installed, and those that
\* name it came no later than the epoch and round on record.
RoundsInv ==
  /\ \A r \in DOMAIN log :
       LET e == log[r] IN
       /\ e.digest.count \in Nat /\ e.epoch \in Nat /\ e.round \in Nat
       /\ e.digest.count <= config.count
       /\ e.digest.count = config.count =>
            /\ e.digest = config.digest
            /\ e.epoch < config.epoch \/ (e.epoch = config.epoch /\ e.round <= config.round)
  /\ ReportsOrdered
  /\ QuorumOfItsConfig

\* What a transmission adds.
LEMMA TransmitFacts ==
  ASSUME TypeOK, OracleSetInv, NEW who \in Callers, Report(who)
  PROVE  \E new \in [digest : Digest, epoch : Nat, round : Nat, by : SUBSET Signers, from : {who}] :
           /\ log' = Save(log, config.latest + 1, new)
           /\ new.digest = config.digest
           /\ config'.digest = config.digest /\ config'.count = config.count
           /\ config'.latest = config.latest + 1
           /\ config'.epoch = new.epoch /\ config'.round = new.round
           /\ Newer(new.epoch, new.round)
           /\ Cardinality(new.by) > config.digest.f
           /\ new.by \subseteq SignersOf(config.digest.oracles)
           /\ who \in TransmittersOf(config.digest.oracles)
  <1>1. PICK digest \in ConfigDigests, epoch \in Epochs, round \in Rounds,
             signatures \in SignatureLists, observations \in Observations,
             juels \in JuelsPerFeeCoin :
          Transmit(who, digest, epoch, round, signatures, observations, juels)
    BY DEF Report
  <1>2. config \in ConfigType
    BY DEF TypeOK, ConfigType
  <1>3. /\ config'.digest = config.digest /\ config'.count = config.count
        /\ config'.latest = config.latest + 1
        /\ config'.epoch = epoch /\ config'.round = round
    BY <1>1, <1>2 DEF Transmit, ConfigType
  <1> DEFINE new == [digest |-> digest, epoch |-> epoch, round |-> round,
                     by |-> Range(signatures), from |-> who]
  <1>4. /\ log' = Save(log, config.latest + 1, new)
        /\ digest = config.digest /\ Newer(epoch, round)
        /\ who \in DOMAIN transmitters /\ Signed(signatures)
    BY <1>1 DEF Transmit
  <1>5. digest \in Digest /\ epoch \in Nat /\ round \in Nat
    BY <1>2, <1>4, ReportAssumption DEF ConfigType
  <1>6. Cardinality(Range(signatures)) = config.f + 1 /\ Range(signatures) \subseteq signers
    <2> DEFINE n == Len(signatures)
    <2>1. n \in Nat /\ DOMAIN signatures = 1 .. n
      BY ReportAssumption
    <2>2. n = config.f + 1 /\ Range(signatures) \subseteq signers /\ IsInjective(signatures)
      BY <1>4 DEF Signed
    <2>3. signatures \in [1 .. n -> Range(signatures)]
      BY <2>1, ReportAssumption DEF Range
    <2>4. \A g \in Range(signatures) : \E i \in 1 .. n : signatures[i] = g
      BY <2>1 DEF Range
    <2>5. \A i, j \in 1 .. n : i # j => signatures[i] # signatures[j]
      BY <2>1, <2>2 DEF IsInjective
    <2> HIDE DEF n
    <2> QED
      BY <2>1, <2>2, <2>3, <2>4, <2>5, EnumeratedSet
  <1>7. signers \subseteq Signers /\ signers = SignersOf(config.digest.oracles)
        /\ DOMAIN transmitters = TransmittersOf(config.digest.oracles)
        /\ config.f = config.digest.f /\ config.f \in Nat
    BY <1>2 DEF TypeOK, OracleSetInv, ConfigType
  <1>8. new \in [digest : Digest, epoch : Nat, round : Nat, by : SUBSET Signers, from : {who}]
    BY <1>5, <1>6, <1>7
  <1>9. Cardinality(Range(signatures)) > config.digest.f
    BY <1>6, <1>7
  <1> QED
    BY <1>3, <1>4, <1>6, <1>7, <1>8, <1>9

LEMMA RoundsInit ==
  ASSUME Init
  PROVE  RoundsInv
  <1>1. DOMAIN log = {}
    BY DEF Init, EmptyMap
  <1> QED
    BY <1>1 DEF RoundsInv, ReportsOrdered, QuorumOfItsConfig

LEMMA RoundsStep ==
  ASSUME TypeOK, OracleSetInv, RoundsInv, [Next]_vars
  PROVE  RoundsInv'
  <1>1. CASE Aside
    BY <1>1 DEF Aside, RoundsInv, ReportsOrdered, QuorumOfItsConfig
  <1>2. ASSUME NEW who \in Callers, EditProposals(who)
        PROVE  RoundsInv'
    <2>1. KeepAllButProposals
      BY <1>2 DEF EditProposals, BeginProposal, ClearProposal, ProposeConfig,
           ProposeOffchainConfig, FinalizeProposal
    <2> QED
      BY <2>1 DEF KeepAllButProposals, RoundsInv, ReportsOrdered, QuorumOfItsConfig
  <1>3. ASSUME NEW who \in Callers, NEW id \in DOMAIN proposals, NEW digest,
               AcceptProposal(who, id, digest)
        PROVE  RoundsInv'
    <2>1. config.count \in Nat /\ config'.count = config.count + 1 /\ log' = log
      <3>1. config \in ConfigType
        BY DEF TypeOK, ConfigType
      <3> QED
        BY <1>3, <3>1 DEF AcceptProposal, ConfigType
    <2>2. \A r \in DOMAIN log : /\ log[r].digest.count \in Nat
                               /\ log[r].digest.count <= config.count
      BY DEF RoundsInv
    <2>3. \A r \in DOMAIN log : /\ log[r].digest.count <= config'.count
                               /\ log[r].digest.count # config'.count
      BY <2>1, <2>2
    <2> QED
      BY <2>1, <2>3 DEF RoundsInv, ReportsOrdered, QuorumOfItsConfig
  <1>4. ASSUME NEW who \in Callers, Report(who)
        PROVE  RoundsInv'
    <2>1. PICK new \in [digest : Digest, epoch : Nat, round : Nat, by : SUBSET Signers, from : {who}] :
            /\ log' = Save(log, config.latest + 1, new)
            /\ new.digest = config.digest
            /\ config'.digest = config.digest /\ config'.count = config.count
            /\ config'.latest = config.latest + 1
            /\ config'.epoch = new.epoch /\ config'.round = new.round
            /\ Newer(new.epoch, new.round)
            /\ Cardinality(new.by) > config.digest.f
            /\ new.by \subseteq SignersOf(config.digest.oracles)
            /\ who \in TransmittersOf(config.digest.oracles)
      BY <1>4, TransmitFacts
    <2> DEFINE last == config.latest + 1
    <2>2. DOMAIN log = 1 .. config.latest /\ config.latest \in Nat
      <3>1. config \in ConfigType
        BY DEF TypeOK, ConfigType
      <3> QED
        BY <3>1 DEF TypeOK, ConfigType
    <2>3. DOMAIN log' = 1 .. last
      BY <2>1, <2>2 DEF Save
    <2>4. log'[last] = new /\ \A r \in DOMAIN log : r < last /\ log'[r] = log[r]
      BY <2>1, <2>2 DEF Save
    <2>5. \A r \in DOMAIN log' : r = last \/ r \in DOMAIN log
      BY <2>2, <2>3
    <2>6. /\ config.count \in Nat /\ config.digest.count = config.count
          /\ config.epoch \in Nat /\ config.round \in Nat
      <3>1. config \in ConfigType
        BY DEF TypeOK, ConfigType
      <3> QED
        BY <3>1 DEF ConfigType, OracleSetInv
    <2> DEFINE Known(e, cfg) ==
                 /\ e.digest.count \in Nat /\ e.epoch \in Nat /\ e.round \in Nat
                 /\ e.digest.count <= cfg.count
                 /\ e.digest.count = cfg.count =>
                      /\ e.digest = cfg.digest
                      /\ e.epoch < cfg.epoch \/ (e.epoch = cfg.epoch /\ e.round <= cfg.round)
    <2>7. \A r \in DOMAIN log : Known(log[r], config)
      BY DEF RoundsInv
    <2>8. new.epoch \in Nat /\ new.round \in Nat
      OBVIOUS
    <2>9. \A r \in DOMAIN log : Known(log[r], config')
      BY <2>1, <2>6, <2>7, <2>8 DEF Newer
    <2>10. Known(new, config')
      BY <2>1, <2>6, <2>8
    <2>11. \A r \in DOMAIN log' : Known(log'[r], config')
      BY <2>4, <2>5, <2>9, <2>10
    <2>12. ReportsOrdered'
      <3> DEFINE Before(a, b) ==
                   \/ a.digest.count < b.digest.count
                   \/ /\ a.digest = b.digest
                      /\ a.epoch < b.epoch \/ (a.epoch = b.epoch /\ a.round < b.round)
      <3>1. \A r, t \in DOMAIN log : r < t => Before(log[r], log[t])
        BY DEF RoundsInv, ReportsOrdered
      <3>2. \A r \in DOMAIN log : Before(log[r], new)
        BY <2>1, <2>6, <2>7, <2>8 DEF Newer
      <3>3. \A t \in DOMAIN log : ~(last < t)
        BY <2>2
      <3>4. ~(last < last)
        BY <2>2
      <3> HIDE DEF last, Before
      <3>5. \A r, t \in DOMAIN log' : r < t => Before(log'[r], log'[t])
        BY <2>4, <2>5, <3>1, <3>2, <3>3, <3>4
      <3> QED
        BY <3>5 DEF ReportsOrdered, Before
    <2>13. QuorumOfItsConfig'
      <3> HIDE DEF last
      <3> QED
        BY <2>1, <2>4, <2>5 DEF RoundsInv, QuorumOfItsConfig
    <2> QED
      BY <2>11, <2>12, <2>13 DEF RoundsInv
  <1> QED
    BY <1>1, <1>2, <1>3, <1>4, StepKinds
-----------------------------------------------------------------------------
(* Payments *)

\* Unless a round was free, what the contract owes is what is unpaid, and
\* while the price is 0 every reward counts from the latest round.
BooksInv ==
  ~freeRounds =>
    /\ PaidAtPriceOfRound
    /\ config.billing.observation = 0 =>
         \A t \in DOMAIN transmitters : transmitters[t].from = config.latest

\* Steps that leave what is owed as it is.
BooksKept ==
  /\ UNCHANGED <<transmitters, unpaid, freeRounds>>
  /\ config'.billing = config.billing /\ config'.latest = config.latest
  /\ config'.token = config.token
  /\ \/ UNCHANGED balance
     \/ \E tok \in Tokens, amount \in Deposits : Deposit(tok, amount)
     \/ \E who \in Callers, amount \in Withdrawals : WithdrawFunds(who, amount)

LEMMA MoneyKinds ==
  ASSUME TypeOK, [Next]_vars
  PROVE  \/ BooksKept
         \/ \E who \in Callers :
              \/ \E t \in Accounts : WithdrawPayment(who, t)
              \/ \E billing \in Billings : SetBilling(who, billing)
              \/ \E tok \in Tokens : SetLinkToken(who, tok)
              \/ \E id \in DOMAIN proposals, digest \in ProposalDigests :
                   AcceptProposal(who, id, digest)
              \/ Report(who)
  <1> USE DEF BooksKept
  <1>1. config \in ConfigType
    BY DEF TypeOK, ConfigType
  <1>2. ASSUME NEW who \in Callers, Administer(who)
        PROVE  BooksKept
    BY <1>1, <1>2 DEF Administer, SetBillingAccessController, SetRequesterAccessController,
         SetValidatorConfig, TransferOwnership, AcceptOwnership, ConfigType
  <1>3. ASSUME NEW who \in Callers, NamePayee(who)
        PROVE  BooksKept
    BY <1>3 DEF NamePayee, TransferPayeeship, AcceptPayeeship
  <1>4. ASSUME NEW who \in Callers, EditProposals(who)
        PROVE  BooksKept
    BY <1>4 DEF EditProposals, BeginProposal, ClearProposal, ProposeConfig,
         ProposeOffchainConfig, FinalizeProposal, KeepAllButProposals
  <1>5. ASSUME NEW who \in Callers, NEW amount \in Withdrawals, WithdrawFunds(who, amount)
        PROVE  BooksKept
    BY <1>5 DEF WithdrawFunds
  <1>6. ASSUME NEW tok \in Tokens, NEW amount \in Deposits, Deposit(tok, amount)
        PROVE  BooksKept
    BY <1>6 DEF Deposit
  <1>7. UNCHANGED vars => BooksKept
    BY DEF vars
  <1> QED
    BY <1>2, <1>3, <1>4, <1>5, <1>6, <1>7 DEF Next, Configure, EditProposals, Bill

LEMMA NoFactor ==
  ASSUME NEW a \in Nat, NEW b \in Nat, a * b = 0
  PROVE  a = 0 \/ b = 0
  OBVIOUS

\* Types of what a payment is computed from.
LEMMA OwedTypes ==
  ASSUME TypeOK
  PROVE  /\ config.billing.observation \in Nat /\ config.latest \in Nat
         /\ \A t \in DOMAIN transmitters :
              /\ transmitters[t].payment \in Nat
              /\ transmitters[t].from \in Nat /\ transmitters[t].from <= config.latest
              /\ config.latest - transmitters[t].from \in Nat
  <1>1. config \in ConfigType
    BY DEF TypeOK, ConfigType
  <1> QED
    BY <1>1 DEF TypeOK, ConfigType, Billing

\* A payout resets every transmitter, also those that are owed nothing.
LEMMA PayoutRestarts ==
  ASSUME TypeOK, BooksInv, ~freeRounds
  PROVE  PaidTransmitters = [t \in DOMAIN transmitters |-> Paid]
  <1>1. ASSUME NEW t \in DOMAIN transmitters, Owed(t) = 0
        PROVE  transmitters[t] = Paid
    <2> DEFINE due == config.billing.observation * (config.latest - transmitters[t].from)
    <2>1. /\ config.billing.observation \in Nat /\ config.latest - transmitters[t].from \in Nat
          /\ transmitters[t].payment \in Nat
      BY OwedTypes
    <2>2. due \in Nat /\ due + transmitters[t].payment = 0
      <3>1. \A a, b \in Nat : a * b \in Nat
        OBVIOUS
      <3> QED
        BY <1>1, <2>1, <3>1 DEF Owed
    <2>3. due = 0 /\ transmitters[t].payment = 0
      <3> HIDE DEF due
      <3> QED
        BY <2>1, <2>2
    <2>4. config.billing.observation = 0 \/ config.latest - transmitters[t].from = 0
      BY <2>1, <2>3, NoFactor
    <2>5. transmitters[t].from = config.latest
      <3>1. config.billing.observation = 0 => transmitters[t].from = config.latest
        BY DEF BooksInv
      <3> QED
        BY <2>4, <3>1, OwedTypes
    <2>6. transmitters[t] \in [payment : Nat, from : 0 .. config.latest]
      BY DEF TypeOK
    <2> QED
      BY <2>3, <2>5, <2>6 DEF Paid
  <1> QED
    BY <1>1 DEF PaidTransmitters

\* Who has been paid and earned nothing since is owed nothing.
LEMMA PaidOwesNothing ==
  ASSUME NEW obs \in Nat, NEW latest \in Nat
  PROVE  obs * (latest - latest) + 0 = 0
  OBVIOUS

LEMMA BooksInit ==
  ASSUME Init
  PROVE  BooksInv
  BY DEF Init, EmptyMap, BooksInv, PaidAtPriceOfRound

LEMMA BooksStep ==
  ASSUME TypeOK, TypeOK', BooksInv, [Next]_vars
  PROVE  BooksInv'
  <1>1. SUFFICES ASSUME ~freeRounds'
                 PROVE  /\ PaidAtPriceOfRound'
                        /\ config'.billing.observation = 0 =>
                             \A t \in DOMAIN transmitters' : transmitters'[t].from = config'.latest
    BY DEF BooksInv
  <1>2. ~freeRounds
    <2>1. BooksKept => freeRounds' = freeRounds
      BY DEF BooksKept
    <2>2. ASSUME NEW who \in Callers,
                 \/ \E t \in Accounts : WithdrawPayment(who, t)
                 \/ \E billing \in Billings : SetBilling(who, billing)
                 \/ \E tok \in Tokens : SetLinkToken(who, tok)
                 \/ \E id \in DOMAIN proposals, digest \in ProposalDigests :
                      AcceptProposal(who, id, digest)
          PROVE  freeRounds' = freeRounds
      BY <2>2 DEF WithdrawPayment, SetBilling, SetLinkToken, AcceptProposal
    <2>3. ASSUME NEW who \in Callers, Report(who)
          PROVE  ~freeRounds
      <3>1. freeRounds' = (freeRounds \/ config.billing.observation = 0)
        BY <2>3 DEF Report, Transmit
      <3> QED
        BY <1>1, <3>1
    <2> QED
      BY <1>1, <2>1, <2>2, <2>3, MoneyKinds
  <1>3. /\ \A a \in Accounts : unpaid[a] = IF a \in DOMAIN transmitters THEN Owed(a) ELSE 0
        /\ config.billing.observation = 0 =>
             \A t \in DOMAIN transmitters : transmitters[t].from = config.latest
    BY <1>2 DEF BooksInv, PaidAtPriceOfRound
  <1>4. config \in ConfigType
    BY DEF TypeOK, ConfigType
  <1>5. CASE BooksKept
    BY <1>3, <1>5 DEF BooksKept, PaidAtPriceOfRound, Owed
  <1>6. ASSUME NEW who \in Callers, NEW t \in Accounts, WithdrawPayment(who, t)
        PROVE  BooksInv'
    <2>1. /\ t \in DOMAIN transmitters /\ config' = config /\ freeRounds' = freeRounds
          /\ transmitters' = [transmitters EXCEPT ![t] = Paid]
          /\ unpaid' = [unpaid EXCEPT ![t] = @ - Owed(t)]
      BY <1>6 DEF WithdrawPayment
    <2>2. Owed(t)' = 0
      <3>1. transmitters'[t].payment = 0 /\ transmitters'[t].from = config'.latest
        BY <2>1 DEF Paid
      <3>2. config'.billing.observation \in Nat /\ config'.latest \in Nat
        BY <2>1, OwedTypes
      <3> QED
        BY <3>1, <3>2, PaidOwesNothing DEF Owed
    <2>3. \A u \in DOMAIN transmitters : u # t => Owed(u)' = Owed(u)
      BY <2>1 DEF Owed
    <2>4. unpaid'[t] = 0
      <3>1. unpaid \in [Accounts -> Int] /\ unpaid[t] = Owed(t)
        BY <1>3, <2>1 DEF TypeOK
      <3> QED
        BY <2>1, <3>1
    <2>5. \A a \in Accounts : a # t => unpaid'[a] = unpaid[a]
      BY <2>1 DEF TypeOK
    <2>6. PaidAtPriceOfRound'
      BY <1>3, <2>1, <2>2, <2>3, <2>4, <2>5 DEF PaidAtPriceOfRound
    <2>7. config'.billing.observation = 0 =>
            \A u \in DOMAIN transmitters' : transmitters'[u].from = config'.latest
      BY <1>3, <2>1 DEF Paid
    <2> QED
      BY <2>6, <2>7 DEF BooksInv
  <1>7. ASSUME NEW S \in SUBSET Accounts, transmitters' = [t \in S |-> Paid],
               unpaid' = UnpaidAfterPayout, config'.latest = config.latest
        PROVE  BooksInv'
    <2>1. \A t \in S : transmitters'[t].payment = 0 /\ transmitters'[t].from = config'.latest
      BY <1>7 DEF Paid
    <2>2. config'.billing.observation \in Nat /\ config'.latest \in Nat
      <3>1. config' \in ConfigType
        BY DEF TypeOK, ConfigType
      <3> QED
        BY <3>1 DEF ConfigType, Billing
    <2>3. \A t \in S : Owed(t)' = 0
      BY <2>1, <2>2, PaidOwesNothing DEF Owed
    <2>4. \A a \in Accounts : unpaid'[a] = 0
      <3>1. \A a \in DOMAIN transmitters : Owed(a) \in Int
        BY OwedIsNatural
      <3> QED
        BY SMTT(30), <1>3, <1>7, <3>1 DEF UnpaidAfterPayout, TypeOK
    <2>5. DOMAIN transmitters' = S
      BY <1>7
    <2> QED
      BY <2>1, <2>3, <2>4, <2>5 DEF BooksInv, PaidAtPriceOfRound
  <1>8. DOMAIN transmitters \in SUBSET Accounts
    BY DEF TypeOK
  <1>9. ASSUME NEW who \in Callers, NEW billing \in Billings, SetBilling(who, billing)
        PROVE  BooksInv'
    <2>1. /\ transmitters' = [t \in DOMAIN transmitters |-> Paid]
          /\ unpaid' = UnpaidAfterPayout /\ config'.latest = config.latest
      BY <1>2, <1>4, <1>9, PayoutRestarts DEF SetBilling, PayAll, ConfigType
    <2> QED
      BY <1>7, <1>8, <2>1
  <1>10. ASSUME NEW who \in Callers, NEW tok \in Tokens, SetLinkToken(who, tok)
         PROVE  BooksInv'
    <2>1. /\ transmitters' = [t \in DOMAIN transmitters |-> Paid]
          /\ unpaid' = UnpaidAfterPayout /\ config'.latest = config.latest
      BY <1>2, <1>4, <1>10, PayoutRestarts DEF SetLinkToken, ConfigType
    <2> QED
      BY <1>7, <1>8, <2>1
  <1>11. ASSUME NEW who \in Callers, NEW id \in DOMAIN proposals, NEW digest,
                AcceptProposal(who, id, digest)
         PROVE  BooksInv'
    <2> DEFINE new == TransmittersOf(proposals[id].oracles)
    <2>1. /\ transmitters' = [t \in new |-> Paid]
          /\ unpaid' = UnpaidAfterPayout /\ config'.latest = config.latest
      BY <1>4, <1>11 DEF AcceptProposal, PayAll, ConfigType
    <2>2. new \in SUBSET Accounts
      BY SetOfOracles DEF TypeOK
    <2> HIDE DEF new
    <2> QED
      BY <1>7, <2>1, <2>2
  <1>12. ASSUME NEW who \in Callers, Report(who)
         PROVE  BooksInv'
    <2>1. PICK digest \in ConfigDigests, epoch \in Epochs, round \in Rounds,
               signatures \in SignatureLists, observations \in Observations,
               juels \in JuelsPerFeeCoin :
            Transmit(who, digest, epoch, round, signatures, observations, juels)
      BY <1>12 DEF Report
    <2> DEFINE reward == config.billing.transmission + Reimbursement(juels)
               obs == config.billing.observation
    <2>2. /\ config'.billing = config.billing /\ config'.latest = config.latest + 1
          /\ who \in DOMAIN transmitters /\ who \in Accounts
          /\ transmitters' = [transmitters EXCEPT ![who].payment = @ + reward]
          /\ unpaid' = [a \in Accounts |->
                          unpaid[a] + (IF a \in DOMAIN transmitters THEN obs ELSE 0)
                                    + (IF a = who THEN reward ELSE 0)]
          /\ freeRounds' = (freeRounds \/ obs = 0)
      BY <1>4, <2>1, AccountsAssumption DEF Transmit, ConfigType
    <2>3. obs # 0
      BY <1>1, <2>2
    <2>4. reward \in Nat
      <3>1. config.billing.gas \in Nat /\ juels \in Nat /\ config.billing.transmission \in Nat
        BY <1>4, BillingAssumption DEF ConfigType, Billing
      <3>2. \A a, b \in Nat : a * b \in Nat
        OBVIOUS
      <3> QED
        BY <3>1, <3>2 DEF Reimbursement
    <2> HIDE DEF reward
    <2>5. ASSUME NEW t \in DOMAIN transmitters
          PROVE  Owed(t)' = Owed(t) + obs + (IF t = who THEN reward ELSE 0)
      <3> DEFINE since == config.latest - transmitters[t].from
                 payment == transmitters[t].payment
      <3>1. /\ obs \in Nat /\ config.latest \in Nat /\ since \in Nat /\ payment \in Nat
            /\ transmitters[t].from \in Nat
        BY OwedTypes
      <3>2. /\ transmitters'[t].from = transmitters[t].from
            /\ transmitters'[t].payment = payment + (IF t = who THEN reward ELSE 0)
        <4>1. transmitters[t] \in [payment : Nat, from : 0 .. config.latest]
          BY DEF TypeOK
        <4> QED
          BY <2>2, <3>1, <4>1
      <3>3. config'.latest - transmitters'[t].from = since + 1
        BY <2>2, <3>1, <3>2
      <3>4. Owed(t)' = obs * (since + 1) + transmitters'[t].payment
        BY <2>2, <3>3 DEF Owed
      <3>5. Owed(t) = obs * since + payment
        BY DEF Owed
      <3>6. \A a, b \in Nat : a * (b + 1) = a * b + a /\ a * b \in Nat
        OBVIOUS
      <3>7. obs * (since + 1) = obs * since + obs /\ obs * since \in Nat
        BY <3>1, <3>6
      <3> HIDE DEF since, payment, obs
      <3> QED
        BY <2>4, <3>1, <3>2, <3>4, <3>5, <3>7
    <2>6. PaidAtPriceOfRound'
      <3>1. DOMAIN transmitters' = DOMAIN transmitters
        BY <2>2
      <3>2. ASSUME NEW a \in Accounts
            PROVE  unpaid'[a] = IF a \in DOMAIN transmitters' THEN Owed(a)' ELSE 0
        <4>1. CASE a \in DOMAIN transmitters
          <5>1. unpaid'[a] = unpaid[a] + obs + (IF a = who THEN reward ELSE 0)
            BY <2>2, <4>1
          <5>2. unpaid[a] = Owed(a)
            BY <1>3, <4>1
          <5> QED
            BY <2>5, <3>1, <4>1, <5>1, <5>2
        <4>2. CASE a \notin DOMAIN transmitters
          <5>1. a # who /\ unpaid[a] = 0
            BY <1>3, <2>2, <4>2
          <5> QED
            BY <2>2, <3>1, <4>2, <5>1
        <4> QED
          BY <4>1, <4>2
      <3> QED
        BY <3>2 DEF PaidAtPriceOfRound
    <2> QED
      BY <2>2, <2>3, <2>6 DEF BooksInv
  <1>13. BooksInv'
    BY <1>5, <1>6, <1>9, <1>10, <1>11, <1>12, MoneyKinds DEF BooksInv
  <1> QED
    BY <1>1, <1>13 DEF BooksInv
-----------------------------------------------------------------------------
(* The theorems *)

\* The inductive invariant.
IInv == TypeOK /\ OracleSetInv /\ RoundsInv /\ BooksInv

LEMMA TypeInit ==
  ASSUME Init
  PROVE  TypeOK
  <1>1. config \in ConfigType
    <2>1. NoDigest \in Digest
      BY DEF NoDigest, Digest
    <2>2. 0 \in 0 .. MaxOracles /\ 0 \in 0 .. MaxRounds
      BY ConfigAssumption, ReportAssumption
    <2>3. (CHOOSE ac \in Controllers : TRUE) \in Controllers
      BY BillingAssumption
    <2> QED
      BY <2>1, <2>2, <2>3, BillingAssumption DEF Init, ConfigType, Billing
  <1>2. owner \in Accounts /\ proposedOwner \in Accounts \cup {Nobody}
    BY AccountsAssumption DEF Init, Auth!Initialize
  <1>3. /\ DOMAIN proposals = {} /\ DOMAIN transmitters = {} /\ DOMAIN transmissions = {}
        /\ DOMAIN log = {} /\ DOMAIN payees = {} /\ DOMAIN proposedPayees = {}
        /\ signers = {} /\ nextProposalId = 0 /\ config.latest = 0
    BY DEF Init, EmptyMap
  <1>4. transmissions \in [1 .. config.latest -> MinAnswer .. MaxAnswer]
    <2>1. 1 .. config.latest = {}
      BY <1>3
    <2>2. transmissions = [r \in {} |-> Nobody]
      BY DEF Init, EmptyMap
    <2> QED
      BY <2>1, <2>2
  <1>5. 1 .. config.latest = {} /\ nextProposalId \in 0 .. MaxProposals
    BY <1>3, ConfigAssumption
  <1>6. Range(payees) \subseteq Accounts /\ Range(proposedPayees) \subseteq Accounts
    BY <1>3, RangeFacts
  <1>7. balance \in [Tokens -> Nat] /\ unpaid \in [Accounts -> Int]
    BY DEF Init
  <1>8. freeRounds \in BOOLEAN
    BY DEF Init
  <1> QED
    BY <1>1, <1>2, <1>3, <1>4, <1>5, <1>6, <1>7, <1>8 DEF TypeOK, ConfigType, Auth!OwnedTypeOK

LEMMA TypeStep ==
  ASSUME TypeOK, OraclesFinite, [Next]_vars
  PROVE  TypeOK'
  <1>1. ASSUME NEW who \in Callers, Configure(who)
        PROVE  TypeOK'
    BY <1>1, ProposalsType, AcceptProposalType DEF Configure
  <1>2. UNCHANGED vars => TypeOK'
    BY DEF vars, TypeOK, Auth!OwnedTypeOK
  <1> QED
    BY <1>1, <1>2, ReportType, AdminType, BillType, DepositType DEF Next

LEMMA Inductive ==
  /\ Init => IInv
  /\ IInv /\ [Next]_vars => IInv'
  <1>1. Init => IInv
    BY TypeInit, OracleSetInit, RoundsInit, BooksInit DEF IInv
  <1>2. ASSUME IInv, [Next]_vars
        PROVE  IInv'
    <2>1. TypeOK'
      BY <1>2, TypeStep DEF IInv, OracleSetInv
    <2> QED
      BY <1>2, <2>1, OracleSetStep, RoundsStep, BooksStep DEF IInv
  <1> QED
    BY <1>1, <1>2

LEMMA InvariantOfSpec == Spec => []IInv
  <1> QED
    BY Inductive, PTL DEF Spec

\* Storage holds what its types allow, whatever the contract is sent.
THEOREM TypeCorrect == Spec => []TypeOK
  <1>1. IInv => TypeOK
    BY DEF IInv
  <1> QED
    BY <1>1, InvariantOfSpec, PTL

\* The installed oracles are config.n distinct ones, of whom f are less than a
\* third, and each has a payee: for any number of oracles and any sequence of
\* proposals (propose_config, accept_proposal).
THEOREM OraclesSound == Spec => []OracleSetSound
  <1>1. IInv => OracleSetSound
    BY DEF IInv, OracleSetInv
  <1> QED
    BY <1>1, InvariantOfSpec, PTL

\* No report becomes a round twice or after a newer one, across any number of
\* configurations (transmit, accept_proposal).
THEOREM RoundsOrdered == Spec => []ReportsOrdered
  <1>1. IInv => ReportsOrdered
    BY DEF IInv, RoundsInv
  <1> QED
    BY <1>1, InvariantOfSpec, PTL

\* Every round was signed by more than f oracles of the configuration its
\* report names and sent by one of them (transmit, accept_proposal).
THEOREM RoundsSigned == Spec => []QuorumOfItsConfig
  <1>1. IInv => QuorumOfItsConfig
    BY DEF IInv, RoundsInv
  <1> QED
    BY <1>1, InvariantOfSpec, PTL

\* Unless a round was transmitted while observations cost nothing, what the
\* contract says it owes is what was earned and is not paid (owed_payment
\* against transmit and every payout).
THEOREM OwedSound == Spec => []OwedIsUnpaid
  <1>1. IInv => OwedIsUnpaid
    BY DEF IInv, BooksInv, OwedIsUnpaid
  <1> QED
    BY <1>1, InvariantOfSpec, PTL
-----------------------------------------------------------------------------
(* What a step may not do *)

LEMMA FrozenStep ==
  ASSUME TypeOK, [Next]_vars
  PROVE  /\ \A id \in DOMAIN proposals :
              proposals[id].finalized /\ id \in DOMAIN proposals' => proposals'[id] = proposals[id]
         /\ \A id \in 1 .. nextProposalId : id \in DOMAIN proposals' => id \in DOMAIN proposals
  <1> DEFINE Frozen ==
        /\ \A id \in DOMAIN proposals :
             proposals[id].finalized /\ id \in DOMAIN proposals' => proposals'[id] = proposals[id]
        /\ \A id \in 1 .. nextProposalId : id \in DOMAIN proposals' => id \in DOMAIN proposals
  <1>1. DOMAIN proposals \subseteq 1 .. nextProposalId /\ nextProposalId \in Nat
    BY ConfigAssumption DEF TypeOK
  <1>2. ASSUME UNCHANGED proposals
        PROVE  Frozen
    BY <1>2
  <1>3. ASSUME NEW who, BeginProposal(who)
        PROVE  Frozen
    <2>1. proposals' = Save(proposals, nextProposalId + 1, NewProposal(who))
      BY <1>3 DEF BeginProposal
    <2>2. nextProposalId + 1 \notin 1 .. nextProposalId
      BY <1>1
    <2>3. nextProposalId + 1 \notin DOMAIN proposals
      BY <1>1, <2>2
    <2>4. /\ DOMAIN proposals' = DOMAIN proposals \cup {nextProposalId + 1}
          /\ \A id \in DOMAIN proposals : proposals'[id] = proposals[id]
      BY <2>1, <2>3 DEF Save
    <2> QED
      BY <2>2, <2>4
  <1>4. ASSUME NEW id, proposals' = Remove(proposals, id)
        PROVE  Frozen
    BY ZenonT(60), <1>4, RemoveFacts
  <1>5. ASSUME NEW id \in DOMAIN proposals, ~proposals[id].finalized,
               DOMAIN proposals' = DOMAIN proposals,
               \A k \in DOMAIN proposals : k # id => proposals'[k] = proposals[k]
        PROVE  Frozen
    BY <1>5
  <1>6. ASSUME NEW who \in Callers, EditProposals(who)
        PROVE  Frozen
    <2>1. ASSUME NEW id \in DOMAIN proposals, NEW setup, ProposeConfig(who, id, setup)
          PROVE  Frozen
      BY <1>5, <2>1 DEF ProposeConfig
    <2>2. ASSUME NEW id \in DOMAIN proposals, NEW offchain, ProposeOffchainConfig(who, id, offchain)
          PROVE  Frozen
      BY <1>5, <2>2 DEF ProposeOffchainConfig
    <2>3. ASSUME NEW id \in DOMAIN proposals, FinalizeProposal(who, id)
          PROVE  Frozen
      BY <1>5, <2>3 DEF FinalizeProposal
    <2>4. ASSUME NEW id \in DOMAIN proposals, ClearProposal(who, id)
          PROVE  Frozen
      BY <1>4, <2>4 DEF ClearProposal
    <2> HIDE DEF Frozen
    <2> QED
      BY <1>3, <1>6, <2>1, <2>2, <2>3, <2>4 DEF EditProposals
  <1>7. ASSUME NEW who, NEW id, NEW digest, AcceptProposal(who, id, digest)
        PROVE  Frozen
    BY <1>4, <1>7 DEF AcceptProposal
  <1>8. ASSUME NEW who, Report(who)
        PROVE  UNCHANGED proposals
    BY <1>8 DEF Report, Transmit
  <1>9. Aside => UNCHANGED proposals
    BY DEF Aside
  <1>10. Frozen
    <2> HIDE DEF Frozen
    <2> QED
      BY <1>2, <1>6, <1>7, <1>8, <1>9, StepKinds
  <1> QED
    BY <1>10

\* A finalized proposal never changes, and an id that was cleared or accepted
\* never names another proposal (propose_config, clear_proposal).
THEOREM ProposalsFrozen == Spec => FinalizedFrozen
  <1>1. IInv => TypeOK
    BY DEF IInv
  <1> QED
    BY <1>1, FrozenStep, InvariantOfSpec, PTL DEF Spec, FinalizedFrozen
-----------------------------------------------------------------------------
(* The contract is an aggregator *)

\* A report publishes an answer, other steps publish nothing.
LEMMA FeedStep ==
  ASSUME TypeOK, [Next]_vars
  PROVE  [Feed!Next]_Feed!feedVars
  <1>1. Aside => UNCHANGED Feed!feedVars
    BY DEF Aside, Feed!feedVars
  <1>2. ASSUME NEW who \in Callers, EditProposals(who)
        PROVE  UNCHANGED Feed!feedVars
    BY <1>2 DEF EditProposals, BeginProposal, ClearProposal, ProposeConfig,
         ProposeOffchainConfig, FinalizeProposal, KeepAllButProposals, Feed!feedVars
  <1>3. config \in ConfigType
    BY DEF TypeOK, ConfigType
  <1>4. ASSUME NEW who \in Callers, NEW id, NEW digest, AcceptProposal(who, id, digest)
        PROVE  UNCHANGED Feed!feedVars
    BY <1>3, <1>4 DEF AcceptProposal, ConfigType, Feed!feedVars
  <1>5. ASSUME NEW who \in Callers, Report(who)
        PROVE  Feed!Next
    <2>1. PICK digest \in ConfigDigests, epoch \in Epochs, round \in Rounds,
               signatures \in SignatureLists, observations \in Observations,
               juels \in JuelsPerFeeCoin :
            Transmit(who, digest, epoch, round, signatures, observations, juels)
      BY <1>5 DEF Report
    <2> DEFINE answer == Median(observations)
               r == config.latest + 1
    <2>2. config'.latest = r
      BY <1>3, <2>1 DEF Transmit, ConfigType
    <2>3. transmissions' = Save(transmissions, r, answer) /\ answer \in MinAnswer .. MaxAnswer
      BY <2>1 DEF Transmit, Sound
    <2>4. DOMAIN transmissions \cup {r} = 1 .. r
      <3>1. config.latest \in Nat
        BY <1>3 DEF ConfigType
      <3> QED
        BY <3>1 DEF TypeOK
    <2>5. transmissions' = [k \in 1 .. r |-> IF k = r THEN answer ELSE transmissions[k]]
      BY <2>3, <2>4 DEF Save
    <2> QED
      BY <2>2, <2>3, <2>5 DEF Feed!Next, Feed!Publish
  <1> QED
    BY <1>1, <1>2, <1>4, <1>5, StepKinds

\* Answers come in rounds without gaps, within the range of the feed, and a
\* published answer never changes: the contract implements Aggregator, where
\* a transmission is a Publish and every other call a stutter.
THEOREM ContractIsAggregator == Spec => FeedSpec
  <1>1. Init => Feed!Init
    BY DEF Init, EmptyMap, Feed!Init
  <1>2. IInv => TypeOK
    BY DEF IInv
  <1> QED
    BY <1>1, <1>2, FeedStep, InvariantOfSpec, PTL DEF Spec, FeedSpec, Feed!Spec
-----------------------------------------------------------------------------
(* LINK that oracles are owed *)

\* The total of what transmitters are owed, as the sum it is.
LEMMA LinkDueIsSum ==
  /\ LinkDue = SumFunctionOnSet([t \in DOMAIN transmitters |-> Owed(t)], DOMAIN transmitters)
  /\ LinkDue' =
       SumFunctionOnSet([t \in DOMAIN transmitters' |-> Owed(t)'], DOMAIN transmitters')
  BY DEF LinkDue, SumFunction

\* When all are paid, nothing is owed.
LEMMA PaidOweNothing ==
  ASSUME TypeOK', OraclesFinite',
         \A t \in DOMAIN transmitters' : transmitters'[t] = [payment |-> 0, from |-> config'.latest]
  PROVE  LinkDue' = 0
  <1> DEFINE owed == [t \in DOMAIN transmitters' |-> Owed(t)']
  <1>1. config'.billing.observation \in Nat /\ config'.latest \in Nat
    <2>1. config' \in ConfigType
      BY DEF TypeOK, ConfigType
    <2> QED
      BY <2>1 DEF ConfigType, Billing
  <1>2. \A t \in DOMAIN transmitters' : owed[t] = 0
    BY <1>1, PaidOwesNothing DEF Owed
  <1>3. LinkDue' = SumFunctionOnSet(owed, DOMAIN transmitters')
    BY LinkDueIsSum
  <1> HIDE DEF owed
  <1> QED
    BY <1>2, <1>3, SumOfZeros DEF OraclesFinite

\* set_billing, set_link_token and accept_proposal pay all: balance loses what
\* was due, rewards restart.
LEMMA PayoutSteps ==
  ASSUME TypeOK, BooksInv, ~freeRounds, NEW who \in Callers,
         \/ \E billing \in Billings : SetBilling(who, billing)
         \/ \E tok \in Tokens : SetLinkToken(who, tok)
         \/ \E id \in DOMAIN proposals, digest \in ProposalDigests :
              AcceptProposal(who, id, digest)
  PROVE  /\ config'.latest = config.latest
         /\ \A t \in DOMAIN transmitters' :
              transmitters'[t] = [payment |-> 0, from |-> config'.latest]
         /\ config'.token = config.token =>
              balance' = [balance EXCEPT ![config.token] = @ - LinkDue]
  <1>1. config \in ConfigType
    BY DEF TypeOK, ConfigType
  <1>2. PaidTransmitters = [t \in DOMAIN transmitters |-> Paid]
    BY PayoutRestarts
  <1>3. ASSUME NEW billing \in Billings, SetBilling(who, billing)
        PROVE  /\ config'.latest = config.latest
               /\ transmitters' = PaidTransmitters
               /\ balance' = [balance EXCEPT ![config.token] = @ - LinkDue]
    BY <1>1, <1>3 DEF SetBilling, PayAll, ConfigType
  <1>4. ASSUME NEW tok \in Tokens, SetLinkToken(who, tok)
        PROVE  /\ config'.latest = config.latest
               /\ transmitters' = PaidTransmitters
               /\ config'.token # config.token
    BY <1>1, <1>4 DEF SetLinkToken, ConfigType
  <1>5. ASSUME NEW id \in DOMAIN proposals, NEW digest, AcceptProposal(who, id, digest)
        PROVE  /\ config'.latest = config.latest
               /\ transmitters' = [t \in TransmittersOf(proposals[id].oracles) |-> Paid]
               /\ balance' = [balance EXCEPT ![config.token] = @ - LinkDue]
    BY <1>1, <1>5 DEF AcceptProposal, PayAll, ConfigType
  <1> QED
    BY <1>2, <1>3, <1>4, <1>5 DEF Paid

LEMMA DuesStep ==
  ASSUME TypeOK, OraclesFinite, BooksInv, TypeOK', OraclesFinite', [Next]_vars,
         ~freeRounds, config'.token = config.token
  PROVE  Surplus' >= Surplus \/ Surplus' >= 0 \/ config'.latest > config.latest
  <1> DEFINE tok == config.token
             Covered == Surplus' >= Surplus \/ Surplus' >= 0 \/ config'.latest > config.latest
  <1>1. LinkDue \in Nat
    BY LinkDueIsNatural
  <1>2. balance \in [Tokens -> Nat] /\ tok \in Tokens /\ balance[tok] \in Nat
    BY DEF TypeOK
  <1>3. CASE BooksKept
    <2>1. LinkDue' = LinkDue
      <3>1. \A t \in DOMAIN transmitters : Owed(t)' = Owed(t)
        BY <1>3 DEF BooksKept, Owed
      <3>2. [t \in DOMAIN transmitters' |-> Owed(t)'] = [t \in DOMAIN transmitters |-> Owed(t)]
        BY <1>3, <3>1 DEF BooksKept
      <3>3. DOMAIN transmitters' = DOMAIN transmitters
        BY <1>3 DEF BooksKept
      <3> QED
        BY <3>2, <3>3, LinkDueIsSum
    <2>2. CASE balance' = balance
      BY <1>1, <1>2, <2>1, <2>2 DEF Surplus
    <2>3. ASSUME NEW t \in Tokens, NEW amount \in Deposits, Deposit(t, amount)
          PROVE  Covered
      <3>1. amount \in Nat /\ balance' = [balance EXCEPT ![t] = @ + amount]
        BY <2>3, BillingAssumption DEF Deposit
      <3>2. balance'[tok] >= balance[tok] /\ balance'[tok] \in Nat
        BY <1>2, <3>1
      <3> QED
        BY <1>1, <1>2, <2>1, <3>2 DEF Surplus
    <2>4. ASSUME NEW who, NEW amount \in Withdrawals, WithdrawFunds(who, amount)
          PROVE  Covered
      <3> DEFINE held == balance[tok]
                 available == IF held > LinkDue THEN held - LinkDue ELSE 0
                 sent == IF amount < available THEN amount ELSE available
      <3>1. amount \in Nat
        BY BillingAssumption
      <3>2. balance' = [balance EXCEPT ![tok] = @ - sent]
        BY <2>4 DEF WithdrawFunds
      <3>3. balance'[tok] = held - sent
        <4> HIDE DEF sent
        <4> QED
          BY <1>2, <3>2
      <3>4. Surplus' = held - sent - LinkDue /\ Surplus = held - LinkDue
        BY <2>1, <3>3 DEF Surplus
      <3>5. held \in Nat
        BY <1>2
      <3> HIDE DEF held
      <3> QED
        BY <1>1, <3>1, <3>4, <3>5
    <2> QED
      BY <1>3, <2>2, <2>3, <2>4 DEF BooksKept
  <1>4. ASSUME NEW who \in Callers, NEW t \in Accounts, WithdrawPayment(who, t)
        PROVE  Covered
    <2> DEFINE f == [u \in DOMAIN transmitters |-> Owed(u)]
               g == [u \in DOMAIN transmitters' |-> Owed(u)']
    <2>1. /\ t \in DOMAIN transmitters /\ config' = config
          /\ DOMAIN transmitters' = DOMAIN transmitters
          /\ transmitters' = [transmitters EXCEPT ![t] = Paid]
          /\ balance' = [balance EXCEPT ![config.token] = @ - Owed(t)]
      BY <1>4 DEF WithdrawPayment
    <2>2. \A u \in DOMAIN transmitters : Owed(u) \in Nat
      BY OwedIsNatural
    <2>3. Owed(t)' = 0
      <3>1. transmitters'[t].payment = 0 /\ transmitters'[t].from = config'.latest
        BY <2>1 DEF Paid
      <3>2. config'.billing.observation \in Nat /\ config'.latest \in Nat
        BY <2>1, OwedTypes
      <3> QED
        BY <3>1, <3>2, PaidOwesNothing DEF Owed
    <2>4. \A u \in DOMAIN transmitters : u # t => Owed(u)' = Owed(u)
      BY <2>1 DEF Owed
    <2>5. /\ f[t] = Owed(t) /\ f[t] \in Int /\ g[t] = 0
          /\ \A u \in DOMAIN transmitters : u # t => f[u] \in Int /\ g[u] = f[u]
      BY <2>1, <2>2, <2>3, <2>4
    <2>6. /\ LinkDue = SumFunctionOnSet(f, DOMAIN transmitters)
          /\ LinkDue' = SumFunctionOnSet(g, DOMAIN transmitters)
      BY <2>1, LinkDueIsSum
    <2> HIDE DEF f, g
    <2>7. LinkDue' = LinkDue - Owed(t)
      BY <2>1, <2>5, <2>6, SumWithout DEF OraclesFinite
    <2>8. balance'[tok] = balance[tok] - Owed(t)
      BY <1>2, <2>1
    <2> QED
      BY <1>1, <1>2, <2>1, <2>2, <2>7, <2>8 DEF Surplus
  <1>5. ASSUME NEW who \in Callers,
               \/ \E billing \in Billings : SetBilling(who, billing)
               \/ \E t \in Tokens : SetLinkToken(who, t)
               \/ \E id \in DOMAIN proposals, digest \in ProposalDigests :
                    AcceptProposal(who, id, digest)
        PROVE  Covered
    <2>1. /\ \A t \in DOMAIN transmitters' :
               transmitters'[t] = [payment |-> 0, from |-> config'.latest]
          /\ balance' = [balance EXCEPT ![tok] = @ - LinkDue]
      BY <1>5, PayoutSteps
    <2>2. LinkDue' = 0
      BY <2>1, PaidOweNothing
    <2>3. balance'[tok] = balance[tok] - LinkDue
      BY <1>2, <2>1
    <2> QED
      BY <1>1, <1>2, <2>2, <2>3 DEF Surplus
  <1>6. ASSUME NEW who \in Callers, Report(who)
        PROVE  Covered
    <2>1. config \in ConfigType
      BY DEF TypeOK, ConfigType
    <2>2. config'.latest = config.latest + 1
      BY <1>6, <2>1 DEF Report, Transmit, ConfigType
    <2> QED
      BY <2>1, <2>2 DEF ConfigType
  <1> HIDE DEF Covered
  <1>7. Covered
    <2>1. CASE BooksKept
      BY <1>3, <2>1 DEF Covered
    <2>2. CASE ~BooksKept
      <3>1. PICK who \in Callers :
              \/ \E t \in Accounts : WithdrawPayment(who, t)
              \/ \E billing \in Billings : SetBilling(who, billing)
              \/ \E t \in Tokens : SetLinkToken(who, t)
              \/ \E id \in DOMAIN proposals, digest \in ProposalDigests :
                   AcceptProposal(who, id, digest)
              \/ Report(who)
        BY <2>2, MoneyKinds
      <3> QED
        BY <1>4, <1>5, <1>6, <3>1
    <2> QED
      BY <2>1, <2>2
  <1> QED
    BY <1>7 DEF Covered

\* LINK that oracles are owed cannot be withdrawn: the sum of what every
\* transmitter is owed stays covered by all but new rounds (withdraw_funds,
\* total_link_due, pay_oracles).
THEOREM DuesStayCovered == Spec => DuesAreCovered
  <1>1. IInv => TypeOK /\ OraclesFinite /\ BooksInv
    BY DEF IInv, OracleSetInv
  <1>2. ASSUME IInv, IInv', [Next]_vars
        PROVE  ~freeRounds /\ config'.token = config.token =>
                 Surplus' >= Surplus \/ Surplus' >= 0 \/ config'.latest > config.latest
    BY <1>2, DuesStep DEF IInv, OracleSetInv
  <1> QED
    BY <1>2, InvariantOfSpec, PTL DEF Spec, DuesAreCovered

\* A change of prices, token or oracles resets every reward to the round of the
\* change as long as no round was free: what set_billing, set_link_token and
\* accept_proposal say they do holds but for the finding on free rounds.
THEOREM RewardsRestart ==
  Spec => [][~freeRounds =>
               (config'.billing # config.billing \/ config'.token # config.token
                  \/ config'.count # config.count =>
                \A t \in DOMAIN transmitters' :
                  transmitters'[t] = [payment |-> 0, from |-> config.latest])]_vars
  <1>1. ASSUME IInv, [Next]_vars, ~freeRounds,
               \/ config'.billing # config.billing
               \/ config'.token # config.token
               \/ config'.count # config.count
        PROVE  \A t \in DOMAIN transmitters' :
                 transmitters'[t] = [payment |-> 0, from |-> config.latest]
    <2>1. TypeOK /\ BooksInv
      BY <1>1 DEF IInv
    <2>2. config \in ConfigType
      BY <2>1 DEF TypeOK, ConfigType
    <2>3. CASE BooksKept
      <3>1. CASE Aside
        BY <1>1, <2>3, <3>1 DEF BooksKept, Aside
      <3>2. ASSUME NEW who \in Callers, EditProposals(who)
            PROVE  UNCHANGED config
        BY <3>2 DEF EditProposals, BeginProposal, ClearProposal, ProposeConfig,
             ProposeOffchainConfig, FinalizeProposal, KeepAllButProposals
      <3>3. ASSUME NEW who \in Callers, Report(who)
            PROVE  config'.latest # config.latest
        <4>1. config'.latest = config.latest + 1
          BY <2>2, <3>3 DEF Report, Transmit, ConfigType
        <4> QED
          BY <2>2, <4>1 DEF ConfigType
      <3>4. ASSUME NEW who \in Callers, NEW id \in DOMAIN proposals, NEW digest \in ProposalDigests,
                   AcceptProposal(who, id, digest)
            PROVE  \A t \in DOMAIN transmitters' :
                     transmitters'[t] = [payment |-> 0, from |-> config.latest]
        BY <1>1, <2>1, <3>4, PayoutSteps
      <3> QED
        BY <1>1, <2>1, <2>3, <3>1, <3>2, <3>3, <3>4, StepKinds DEF BooksKept
    <2>4. ASSUME NEW who \in Callers, NEW t \in Accounts, WithdrawPayment(who, t)
          PROVE  FALSE
      BY <1>1, <2>4 DEF WithdrawPayment
    <2>5. ASSUME NEW who \in Callers, Report(who)
          PROVE  FALSE
      BY <1>1, <2>2, <2>5 DEF Report, Transmit, ConfigType
    <2> QED
      BY <1>1, <2>1, <2>3, <2>4, <2>5, PayoutSteps, MoneyKinds
  <1> QED
    BY <1>1, InvariantOfSpec, PTL DEF Spec
=============================================================================
