-------------------------------- MODULE OCR2 --------------------------------
(***************************************************************************)
(* The OCR2 aggregator contract (contracts/ocr2): a configuration of       *)
(* oracles is proposed, finalized and accepted; oracles transmit signed    *)
(* reports that become the rounds of the feed; oracles earn LINK, which    *)
(* the contract pays to their payees.                                      *)
(*                                                                         *)
(* A call is atomic: an error, in the contract or in a token transfer it   *)
(* sends, reverts all of it. A guard that fails is a call that reverts.    *)
(*                                                                         *)
(* Simplifications:                                                        *)
(*  - a digest is the content it is computed from; chain and contract      *)
(*    address are fixed;                                                   *)
(*  - signers, transmitters and payees of a proposal are one sequence of   *)
(*    triples, so the three vectors have one length;                       *)
(*  - signatures verify: a signature is its signer;                        *)
(*  - timestamps, block numbers and descriptions are left out;             *)
(*  - amounts are small numbers: the scaling by 10^9, 10^6 and percent is  *)
(*    left out, u128 does not overflow (the whole supply fits in 96 bits). *)
(***************************************************************************)
EXTENDS Integers, Sequences, FiniteSets, Functions

CONSTANTS
  Accounts,          \* addresses: owner, oracles, payees, anyone
  Nobody,            \* no address
  Deployer,          \* the account that instantiates the contract
  Signers,           \* ed25519 keys
  Setups,            \* inputs of propose_config: [oracles, f]
  OffchainConfigs,   \* non-empty values of offchain_config
  Empty,             \* the empty offchain_config
  MaxOracles,        \* MAX_ORACLES, 31 in the code
  Epochs, Rounds,    \* epochs and rounds of report contexts
  SignatureLists,    \* signers of the signatures of a report, in order
  Observations,      \* observation lists of reports
  MinAnswer, MaxAnswer,
  JuelsPerFeeCoin,   \* values of that field of a report
  Billings,          \* inputs of set_billing: [observation, transmission, gas]
  Controllers,       \* access controller contracts
  Access,            \* Access[ac]: the accounts ac lets in
  Validators,        \* validator contracts
  Tokens,            \* LINK token contracts
  Link,              \* the token of instantiation
  Deposits,          \* amounts sent to the contract
  Withdrawals,       \* amounts asked of withdraw_funds
  Callers,           \* accounts that call the contract
  Proposers,         \* accounts that begin proposals
  Successors,        \* accounts ownership is offered to
  NewPayees,         \* accounts payeeship is offered to
  MaxProposals,      \* bound: proposals begun
  MaxRounds,         \* bound: rounds of the feed
  MaxBalance         \* bound: balance of a token

Oracle == [signer : Signers, transmitter : Accounts, payee : Accounts]
Billing == [observation : Nat, transmission : Nat, gas : Nat]

\* What the types of the messages say of their fields, and that the accounts
\* that call are accounts.
ASSUME AccountsAssumption ==
  /\ Deployer \in Accounts
  /\ Callers \subseteq Accounts /\ Successors \subseteq Accounts /\ NewPayees \subseteq Accounts
ASSUME ConfigAssumption ==
  /\ Setups \subseteq [oracles : Seq(Oracle), f : Nat]
  /\ MaxOracles \in Nat /\ MaxProposals \in Nat
ASSUME ReportAssumption ==
  /\ Epochs \subseteq Nat /\ Rounds \subseteq Nat /\ MaxRounds \in Nat
  /\ SignatureLists \subseteq Seq(Signers) /\ Observations \subseteq Seq(Int)
  /\ MinAnswer \in Int /\ MaxAnswer \in Int
ASSUME BillingAssumption ==
  /\ Link \in Tokens /\ Controllers # {}
  /\ Billings \subseteq Billing /\ JuelsPerFeeCoin \subseteq Nat
  /\ Deposits \subseteq Nat /\ Withdrawals \subseteq Nat

VARIABLES
  (* storage of the contract *)
  owner, proposedOwner,
  config,            \* CONFIG
  nextProposalId,    \* NEXT_PROPOSAL_ID
  proposals,         \* PROPOSALS: id -> proposal
  signers,           \* SIGNERS
  transmitters,      \* TRANSMITTERS: account -> [payment, from]
  transmissions,     \* TRANSMISSIONS: round id -> answer
  payees,            \* PAYEES: account -> account
  proposedPayees,    \* PROPOSED_PAYEES: account -> account
  (* outside *)
  balance,           \* balance[tok]: what the contract holds of tok
  (* history *)
  log,               \* log[r]: the report that became round r
  unpaid,            \* unpaid[a]: earned by a, at the price of its round, not yet paid
  freeRounds         \* a round was transmitted at observation price 0

Auth == INSTANCE Owned

auth == <<owner, proposedOwner>>
oracleSet == <<signers, transmitters>>
payeeing == <<payees, proposedPayees>>
proposing == <<nextProposalId, proposals>>
feed == <<transmissions, log>>
money == <<balance, unpaid>>
vars == <<auth, config, proposing, oracleSet, feed, payeeing, money, freeRounds>>

\* Maps of the contract's storage.
Save(map, key, value) ==
  [k \in DOMAIN map \cup {key} |-> IF k = key THEN value ELSE map[k]]
Remove(map, key) == Restrict(map, DOMAIN map \ {key})
EmptyMap == [k \in {} |-> Nobody]

NoDigest == [count |-> 0, oracles |-> <<>>, f |-> 0, offchain |-> Empty]

Init ==
  /\ Auth!Initialize(Deployer)
  /\ config = [f |-> 0, n |-> 0, count |-> 0, digest |-> NoDigest, epoch |-> 0, round |-> 0,
               latest |-> 0, billing |-> [observation |-> 0, transmission |-> 0, gas |-> 0],
               token |-> Link, billingAC |-> CHOOSE ac \in Controllers : TRUE,
               requesterAC |-> CHOOSE ac \in Controllers : TRUE, validator |-> Nobody]
  /\ nextProposalId = 0 /\ proposals = EmptyMap
  /\ signers = {} /\ transmitters = EmptyMap
  /\ transmissions = EmptyMap /\ log = EmptyMap
  /\ payees = EmptyMap /\ proposedPayees = EmptyMap
  /\ balance = [tok \in Tokens |-> 0]
  /\ unpaid = [a \in Accounts |-> 0]
  /\ freeRounds = FALSE

IsOwner(who) == Auth!IsOwner(who)
-----------------------------------------------------------------------------
(* Payments *)

\* owed_payment
Owed(t) ==
  config.billing.observation * (config.latest - transmitters[t].from) + transmitters[t].payment

LinkDue == SumFunction([t \in DOMAIN transmitters |-> Owed(t)])

Paid == [payment |-> 0, from |-> config.latest]

\* pay_oracles: transmitters owed nothing are passed over; the transfers
\* fail, and the whole call with them, when the contract holds too little.
CanPayAll ==
  /\ \A t \in DOMAIN transmitters : Owed(t) > 0 => t \in DOMAIN payees
  /\ LinkDue <= balance[config.token]

\* Mutant: the payment is reset, the round rewards count from is not.
PaidKeepingRound ==
  [t \in DOMAIN transmitters |-> [transmitters[t] EXCEPT !.payment = 0]]

PaidTransmitters ==
  [t \in DOMAIN transmitters |-> IF Owed(t) = 0 THEN transmitters[t] ELSE Paid]

UnpaidAfterPayout ==
  [a \in Accounts |-> IF a \in DOMAIN transmitters THEN unpaid[a] - Owed(a) ELSE unpaid[a]]

PayAll ==
  /\ CanPayAll
  /\ balance' = [balance EXCEPT ![config.token] = @ - LinkDue]
  /\ unpaid' = UnpaidAfterPayout

\* withdraw_payment: the payee collects what one transmitter is owed.
WithdrawPayment(who, t) ==
  /\ t \in DOMAIN payees /\ payees[t] = who
  /\ t \in DOMAIN transmitters
  /\ Owed(t) > 0
  /\ Owed(t) <= balance[config.token]
  /\ balance' = [balance EXCEPT ![config.token] = @ - Owed(t)]
  /\ unpaid' = [unpaid EXCEPT ![t] = @ - Owed(t)]
  /\ transmitters' = [transmitters EXCEPT ![t] = Paid]
  /\ UNCHANGED <<auth, config, proposing, signers, feed, payeeing, freeRounds>>

MayBill(who) == IsOwner(who) \/ who \in Access[config.billingAC]

\* Mutant: dues are not set aside.
WithdrawHeld(who, amount) ==
  /\ MayBill(who)
  /\ amount <= balance[config.token]
  /\ balance' = [balance EXCEPT ![config.token] = @ - amount]
  /\ UNCHANGED <<auth, config, proposing, oracleSet, feed, payeeing, unpaid, freeRounds>>

\* withdraw_funds: whatever is asked, no more than what no oracle is owed.
WithdrawFunds(who, amount) ==
  LET held == balance[config.token]
      available == IF held > LinkDue THEN held - LinkDue ELSE 0
      sent == IF amount < available THEN amount ELSE available
  IN
  /\ MayBill(who)
  /\ balance' = [balance EXCEPT ![config.token] = @ - sent]
  /\ UNCHANGED <<auth, config, proposing, oracleSet, feed, payeeing, unpaid, freeRounds>>

\* set_billing: oracles are paid at the old prices first.
SetBilling(who, billing) ==
  /\ MayBill(who)
  /\ PayAll
  /\ transmitters' = PaidTransmitters
  /\ config' = [config EXCEPT !.billing = billing]
  /\ UNCHANGED <<auth, proposing, signers, feed, payeeing, freeRounds>>

\* set_link_token: oracles are paid in the old token, the rest of it is
\* sent to a recipient.
SetLinkToken(who, tok) ==
  /\ IsOwner(who)
  /\ tok # config.token
  /\ CanPayAll
  /\ balance' = [balance EXCEPT ![config.token] = 0]
  /\ unpaid' = UnpaidAfterPayout
  /\ transmitters' = PaidTransmitters
  /\ config' = [config EXCEPT !.token = tok]
  /\ UNCHANGED <<auth, proposing, signers, feed, payeeing, freeRounds>>

SetBillingAccessController(who, ac) ==
  /\ IsOwner(who)
  /\ config' = [config EXCEPT !.billingAC = ac]
  /\ UNCHANGED <<auth, proposing, oracleSet, feed, payeeing, money, freeRounds>>

SetRequesterAccessController(who, ac) ==
  /\ IsOwner(who)
  /\ config' = [config EXCEPT !.requesterAC = ac]
  /\ UNCHANGED <<auth, proposing, oracleSet, feed, payeeing, money, freeRounds>>

SetValidatorConfig(who, validator) ==
  /\ IsOwner(who)
  /\ config' = [config EXCEPT !.validator = validator]
  /\ UNCHANGED <<auth, proposing, oracleSet, feed, payeeing, money, freeRounds>>

\* Anyone may send LINK to the contract (execute_receive changes nothing).
Deposit(tok, amount) ==
  /\ balance[tok] + amount <= MaxBalance     \* bound
  /\ balance' = [balance EXCEPT ![tok] = @ + amount]
  /\ UNCHANGED <<auth, config, proposing, oracleSet, feed, payeeing, unpaid, freeRounds>>
-----------------------------------------------------------------------------
(* Payees *)

TransferPayeeship(who, t, to) ==
  /\ who # to
  /\ t \in DOMAIN payees /\ payees[t] = who
  /\ proposedPayees' = Save(proposedPayees, t, to)
  /\ UNCHANGED <<auth, config, proposing, oracleSet, feed, payees, money, freeRounds>>

AcceptPayeeship(who, t) ==
  /\ t \in DOMAIN proposedPayees /\ proposedPayees[t] = who
  /\ payees' = Save(payees, t, who)
  /\ proposedPayees' = Remove(proposedPayees, t)
  /\ UNCHANGED <<auth, config, proposing, oracleSet, feed, money, freeRounds>>
-----------------------------------------------------------------------------
(* Proposals *)

NewProposal(who) ==
  [owner |-> who, finalized |-> FALSE, oracles |-> <<>>, f |-> 0, offchain |-> Empty]

\* Proposal::digest covers all but the proposal's owner and status.
ProposalDigest(p) == [oracles |-> p.oracles, f |-> p.f, offchain |-> p.offchain]

MayEdit(who, id) ==
  /\ id \in DOMAIN proposals
  /\ IsOwner(who) \/ proposals[id].owner = who

KeepAllButProposals ==
  UNCHANGED <<auth, config, oracleSet, feed, payeeing, money, freeRounds>>

\* Mutant: the next id is the number of proposals there are.
BeginInFreeSlot(who) ==
  /\ nextProposalId < MaxProposals
  /\ nextProposalId' = nextProposalId + 1
  /\ proposals' = Save(proposals, Cardinality(DOMAIN proposals) + 1, NewProposal(who))
  /\ KeepAllButProposals

BeginProposal(who) ==
  /\ nextProposalId < MaxProposals           \* bound
  /\ nextProposalId' = nextProposalId + 1
  /\ proposals' = Save(proposals, nextProposalId + 1, NewProposal(who))
  /\ KeepAllButProposals

ClearProposal(who, id) ==
  /\ MayEdit(who, id)
  /\ proposals' = Remove(proposals, id)
  /\ UNCHANGED nextProposalId
  /\ KeepAllButProposals

\* Mutant: the number of oracles is not bounded.
ProposeAnySize(who, id, setup) ==
  /\ MayEdit(who, id)
  /\ setup.f # 0 /\ 3 * setup.f < Len(setup.oracles)
  /\ ~proposals[id].finalized
  /\ proposals' = [proposals EXCEPT ![id].f = setup.f, ![id].oracles = setup.oracles]
  /\ UNCHANGED nextProposalId
  /\ KeepAllButProposals

ProposeConfig(who, id, setup) ==
  /\ MayEdit(who, id)
  /\ setup.f # 0
  /\ Len(setup.oracles) <= MaxOracles
  /\ 3 * setup.f < Len(setup.oracles)
  /\ ~proposals[id].finalized
  /\ proposals' = [proposals EXCEPT ![id].f = setup.f, ![id].oracles = setup.oracles]
  /\ UNCHANGED nextProposalId
  /\ KeepAllButProposals

ProposeOffchainConfig(who, id, offchain) ==
  /\ MayEdit(who, id)
  /\ ~proposals[id].finalized
  /\ proposals' = [proposals EXCEPT ![id].offchain = offchain]
  /\ UNCHANGED nextProposalId
  /\ KeepAllButProposals

FinalizeProposal(who, id) ==
  /\ MayEdit(who, id)
  /\ ~proposals[id].finalized
  /\ proposals[id].offchain # Empty
  /\ proposals[id].oracles # <<>>
  /\ proposals' = [proposals EXCEPT ![id].finalized = TRUE]
  /\ UNCHANGED nextProposalId
  /\ KeepAllButProposals

\* The field of every triple.
SignersOf(oracles) == {oracles[i].signer : i \in DOMAIN oracles}
TransmittersOf(oracles) == {oracles[i].transmitter : i \in DOMAIN oracles}

\* Mutant: the digest does not count configurations.
DigestOfContent(count, p) ==
  [count |-> 0, f |-> p.f, offchain |-> p.offchain,
   oracles |-> [i \in DOMAIN p.oracles |->
                  [signer |-> p.oracles[i].signer, transmitter |-> p.oracles[i].transmitter]]]

\* config_digest_from_data; payees are not part of it.
ConfigDigest(count, p) ==
  [count |-> count, f |-> p.f, offchain |-> p.offchain,
   oracles |-> [i \in DOMAIN p.oracles |->
                  [signer |-> p.oracles[i].signer, transmitter |-> p.oracles[i].transmitter]]]

\* Mutant: a repeated signer overwrites the first.
TransmittersDiffer(oracles) ==
  \A i, j \in DOMAIN oracles : i # j => oracles[i].transmitter # oracles[j].transmitter

NoRepeats(oracles) ==
  \A i, j \in DOMAIN oracles : i # j =>
    oracles[i].signer # oracles[j].signer /\ oracles[i].transmitter # oracles[j].transmitter

PayeeIn(oracles, t) == (CHOOSE o \in Range(oracles) : o.transmitter = t).payee

\* The old oracles are paid, then replaced; their payees stay on record.
AcceptProposal(who, id, digest) ==
  LET p == proposals[id]
      new == TransmittersOf(p.oracles)
  IN
  /\ IsOwner(who)
  /\ id \in DOMAIN proposals
  /\ p.finalized
  /\ ProposalDigest(p) = digest
  /\ PayAll
  /\ NoRepeats(p.oracles)
  /\ signers' = SignersOf(p.oracles)
  /\ transmitters' = [t \in new |-> Paid]
  /\ payees' = [t \in DOMAIN payees \cup new |->
                  IF t \in new THEN PayeeIn(p.oracles, t) ELSE payees[t]]
  /\ config' = [config EXCEPT !.f = p.f, !.n = Len(p.oracles), !.count = @ + 1,
                              !.digest = ConfigDigest(config.count + 1, p),
                              !.epoch = 0, !.round = 0]
  /\ proposals' = Remove(proposals, id)
  /\ UNCHANGED <<auth, nextProposalId, feed, proposedPayees, freeRounds>>
-----------------------------------------------------------------------------
(* Reports *)

Newer(epoch, round) ==
  config.epoch < epoch \/ (config.epoch = epoch /\ config.round < round)

\* The middle observation of the list as it was sent.
Median(observations) == observations[Len(observations) \div 2 + 1]

\* Mutant: one oracle may sign more than once.
SignedOften(signatures) ==
  /\ Len(signatures) = config.f + 1
  /\ Range(signatures) \subseteq signers

\* f + 1 signatures by as many oracles.
Signed(signatures) ==
  /\ Len(signatures) = config.f + 1
  /\ Range(signatures) \subseteq signers
  /\ IsInjective(signatures)

\* Mutant: any answer will do.
Enough(observations) ==
  config.f < Len(observations) /\ Len(observations) <= MaxOracles

\* Observations of more than f oracles, with an answer in range.
Sound(observations) ==
  /\ Len(observations) <= MaxOracles
  /\ config.f < Len(observations)
  /\ Median(observations) \in MinAnswer .. MaxAnswer

\* calculate_reimbursement: gas price times gas times the price of the coin.
Reimbursement(juels) == config.billing.gas * juels

\* signatures: the signers in the order of the call.
Transmit(who, digest, epoch, round, signatures, observations, juels) ==
  LET r == config.latest + 1
      reward == config.billing.transmission + Reimbursement(juels)
  IN
  /\ r <= MaxRounds                          \* bound
  /\ Newer(epoch, round)
  /\ who \in DOMAIN transmitters
  /\ config.digest = digest
  /\ Signed(signatures)
  /\ Sound(observations)
  /\ config' = [config EXCEPT !.epoch = epoch, !.round = round, !.latest = r]
  /\ transmissions' = Save(transmissions, r, Median(observations))
  /\ transmitters' = [transmitters EXCEPT ![who].payment = @ + reward]
  /\ log' = Save(log, r, [digest |-> digest, epoch |-> epoch, round |-> round,
                          by |-> Range(signatures), from |-> who])
  /\ unpaid' = [a \in Accounts |->
                  unpaid[a] + (IF a \in DOMAIN transmitters THEN config.billing.observation ELSE 0)
                            + (IF a = who THEN reward ELSE 0)]
  /\ freeRounds' = (freeRounds \/ config.billing.observation = 0)
  /\ UNCHANGED <<auth, proposing, signers, payeeing, balance>>
-----------------------------------------------------------------------------
(* Ownership *)

TransferOwnership(who, to) ==
  /\ Auth!TransferOwnership(who, to)
  /\ UNCHANGED <<config, proposing, oracleSet, feed, payeeing, money, freeRounds>>

AcceptOwnership(who) ==
  /\ Auth!AcceptOwnership(who)
  /\ UNCHANGED <<config, proposing, oracleSet, feed, payeeing, money, freeRounds>>
-----------------------------------------------------------------------------
\* Digests anyone can have seen: of the proposals there are, of the
\* configurations there were.
ProposalDigests == {ProposalDigest(proposals[id]) : id \in DOMAIN proposals}
ConfigDigests == {config.digest} \cup {log[r].digest : r \in DOMAIN log}

Configure(who) ==
  \/ who \in Proposers /\ BeginProposal(who)
  \/ \E id \in DOMAIN proposals :
       \/ ClearProposal(who, id)
       \/ \E setup \in Setups : ProposeConfig(who, id, setup)
       \/ \E offchain \in OffchainConfigs : ProposeOffchainConfig(who, id, offchain)
       \/ FinalizeProposal(who, id)
       \/ \E digest \in ProposalDigests : AcceptProposal(who, id, digest)

Report(who) ==
  \E digest \in ConfigDigests, epoch \in Epochs, round \in Rounds :
    \E signatures \in SignatureLists, observations \in Observations,
       juels \in JuelsPerFeeCoin :
      Transmit(who, digest, epoch, round, signatures, observations, juels)

Administer(who) ==
  \/ \E ac \in Controllers : SetBillingAccessController(who, ac)
  \/ \E ac \in Controllers : SetRequesterAccessController(who, ac)
  \/ \E validator \in Validators \cup {Nobody} : SetValidatorConfig(who, validator)
  \/ \E to \in Successors : TransferOwnership(who, to)
  \/ AcceptOwnership(who)

Bill(who) ==
  \/ \E t \in Accounts : WithdrawPayment(who, t)
  \/ \E amount \in Withdrawals : WithdrawFunds(who, amount)
  \/ \E billing \in Billings : SetBilling(who, billing)
  \/ \E tok \in Tokens : SetLinkToken(who, tok)

NamePayee(who) ==
  \E t \in Accounts :
    \/ \E to \in NewPayees : TransferPayeeship(who, t, to)
    \/ AcceptPayeeship(who, t)

Next ==
  \/ \E who \in Callers :
       Configure(who) \/ Report(who) \/ Administer(who) \/ Bill(who) \/ NamePayee(who)
  \/ \E tok \in Tokens, amount \in Deposits : Deposit(tok, amount)

Spec == Init /\ [][Next]_vars
-----------------------------------------------------------------------------
(* Properties *)

Digest == [count : Nat, f : Nat, offchain : OffchainConfigs \cup {Empty},
           oracles : Seq([signer : Signers, transmitter : Accounts])]

\* Storage holds what its types allow: at most MAX_ORACLES oracles in a
\* proposal, rounds counted without underflow, owners and payees that exist.
TypeOK ==
  /\ Auth!OwnedTypeOK
  /\ config \in [f : Nat, n : 0 .. MaxOracles, count : Nat, digest : Digest, epoch : Nat,
                 round : Nat, latest : 0 .. MaxRounds, billing : Billing, token : Tokens,
                 billingAC : Controllers, requesterAC : Controllers,
                 validator : Validators \cup {Nobody}]
  /\ nextProposalId \in 0 .. MaxProposals
  /\ DOMAIN proposals \subseteq 1 .. nextProposalId
  /\ \A id \in DOMAIN proposals :
       /\ proposals[id] \in [owner : Accounts, finalized : BOOLEAN, f : Nat,
                             oracles : Seq(Oracle), offchain : OffchainConfigs \cup {Empty}]
       /\ Len(proposals[id].oracles) <= MaxOracles
  /\ signers \subseteq Signers
  /\ DOMAIN transmitters \subseteq Accounts
  /\ \A t \in DOMAIN transmitters : transmitters[t] \in [payment : Nat, from : 0 .. config.latest]
  /\ transmissions \in [1 .. config.latest -> MinAnswer .. MaxAnswer]
  /\ DOMAIN log = 1 .. config.latest
  /\ DOMAIN payees \subseteq Accounts /\ Range(payees) \subseteq Accounts
  /\ DOMAIN proposedPayees \subseteq Accounts /\ Range(proposedPayees) \subseteq Accounts
  /\ balance \in [Tokens -> Nat]
  /\ unpaid \in [Accounts -> Int]
  /\ freeRounds \in BOOLEAN

\* Whatever proposals were edited, repeated or accepted, the installed
\* oracles are config.n distinct signers and transmitters, of whom f are
\* less than a third, and each has a payee, so that a payout finds one.
OracleSetSound ==
  /\ Cardinality(signers) = config.n /\ Cardinality(DOMAIN transmitters) = config.n
  /\ config.count > 0 => config.f > 0 /\ 3 * config.f < config.n
  /\ DOMAIN transmitters \subseteq DOMAIN payees

\* No report becomes a round twice or after a newer one, also across
\* configurations, although accepting one resets epoch and round: later
\* rounds carry a later configuration, or a later epoch and round of it.
ReportsOrdered ==
  \A r, s \in DOMAIN log : r < s =>
    LET a == log[r]
        b == log[s]
    IN  \/ a.digest.count < b.digest.count
        \/ /\ a.digest = b.digest
           /\ a.epoch < b.epoch \/ (a.epoch = b.epoch /\ a.round < b.round)

\* Every round was signed by more than f oracles of the configuration its
\* report names, and sent by one of them: oracles that were replaced keep
\* no say (accept_proposal against the checks of transmit).
QuorumOfItsConfig ==
  \A r \in DOMAIN log :
    LET d == log[r].digest IN
    /\ Cardinality(log[r].by) > d.f
    /\ log[r].by \subseteq SignersOf(d.oracles)
    /\ log[r].from \in TransmittersOf(d.oracles)

\* What the owner reviews and accepts by id and digest is what was
\* finalized: a finalized proposal never changes, and an id that was cleared
\* or accepted never names another proposal.
FinalizedFrozen ==
  [][/\ \A id \in DOMAIN proposals :
          proposals[id].finalized /\ id \in DOMAIN proposals' => proposals'[id] = proposals[id]
     /\ \A id \in 1 .. nextProposalId : id \in DOMAIN proposals' => id \in DOMAIN proposals]_vars

\* The contract is an aggregator: rounds without gaps, answers in range and
\* never changed (report against query_round_data).
Feed == INSTANCE Aggregator WITH
  latest <- config.latest,
  answers <- transmissions

FeedSpec == Feed!Spec

\* What the contract says it owes an oracle is what the oracle earned and was
\* not paid: observations at the price of their round, transmissions and
\* gas as they were reported. True of what follows, unless a round was
\* transmitted while the observation price was 0.
PaidAtPriceOfRound ==
  \A a \in Accounts : unpaid[a] = IF a \in DOMAIN transmitters THEN Owed(a) ELSE 0

OwedIsUnpaid == ~freeRounds => PaidAtPriceOfRound

\* LINK that oracles are owed cannot be withdrawn: what the contract holds
\* beyond its dues shrinks by new rounds or by withdrawals that stay above
\* the dues, never by payouts, new prices, payees or oracle sets.
Surplus == balance[config.token] - LinkDue

DuesAreCovered ==
  [][~freeRounds /\ config'.token = config.token =>
       Surplus' >= Surplus \/ Surplus' >= 0 \/ config'.latest > config.latest]_vars

\* set_billing, set_link_token and accept_proposal pay all oracles first
\* ("payout oracles", "reset reward from round"): rewards count from the
\* round of the change.
RewardsRestartOnChange ==
  [][config'.billing # config.billing \/ config'.token # config.token
       \/ config'.count # config.count =>
     \A t \in DOMAIN transmitters' : transmitters'[t] = [payment |-> 0, from |-> config.latest]]_vars
=============================================================================
