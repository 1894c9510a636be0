---------------------------- MODULE InjectiveFeed ----------------------------
(***************************************************************************)
(* A feed of the Injective chain's OCR module and one node that serves it  *)
(* (adapters/injective): the module takes configurations that pass         *)
(* ValidateBasic and gives each a digest, the node reads configuration and *)
(* digest, computes the digest itself as the OCR library asks it to, and   *)
(* transmits the reports its codec builds.                                 *)
(*                                                                         *)
(* External: what the chain's module does with a message it has taken; it  *)
(* is as the node's queries show it. Addresses are model values with their *)
(* bytes; strings are bytes.                                               *)
(***************************************************************************)
EXTENDS InjectiveMessages, Median

CONSTANTS
  MaxNumOracles,     \* 31 in the code
  FeedIDMaxLength,   \* 20 in the code
  Places,            \* [chain, feed] a configuration may be installed at
  Configs,           \* what may be proposed
  Observations,  \* what the codec may get: [time, value, observer]
  MaxInstalled       \* bound: configurations installed

VARIABLES
  stored,            \* each feed's configuration, its count and its digest
  installed,         \* history: every configuration a feed had
  known              \* the configuration the node read last

ivars == <<stored, installed, known>>

Nil == <<>>          \* what there is not
IsAddress(bytes) == Len(bytes) = 1     \* AccAddressFromBech32 without error
-----------------------------------------------------------------------------
(* ValidateBasic *)

Unique(addresses) ==
  /\ \A i \in DOMAIN addresses : IsAddress(addresses[i])
  /\ IsInjective(addresses)

\* checkConfigValid
OracleCountsValid(signers, transmitters, f) ==
  /\ signers <= MaxNumOracles
  /\ f > 0
  /\ signers = transmitters
  /\ signers > 3 * f

\* FeedConfig.ValidateBasic. Left out: the admins' addresses, spaces around
\* the id, and answers and prices that are nil.
ConfigValid(c) ==
  /\ OracleCountsValid(Len(c.signers), Len(c.transmitters), c.f)
  /\ c.feedId # <<>> /\ Len(c.feedId) <= FeedIDMaxLength
  /\ c.linkPerTransmission > 0 /\ c.linkPerObservation > 0
  /\ Unique(c.transmitters) /\ Unique(c.signers)
  /\ c.linkDenom # <<>>

\* MsgTransmit.ValidateBasic
TransmitValid(msg) ==
  /\ msg.transmitter # <<>> /\ msg.configDigest # <<>> /\ msg.feedId # <<>>
  /\ msg.report # Nil
  /\ Len(msg.report.observers) <= MaxNumOracles
  /\ Len(msg.report.observations) = Len(msg.report.observers)
  /\ \A i \in 1 .. Len(msg.report.observations) - 1 :
       msg.report.observations[i] <= msg.report.observations[i + 1]
-----------------------------------------------------------------------------
(* Digests *)

Separator == <<0, 0>>

\* Mutant: nothing between the parts.
RunTogether(place, config) == Marshal(ContractConfig, config) \o place.chain \o place.feed

\* ContractConfig.Digest: what is hashed.
Preimage(place, config) ==
  Marshal(ContractConfig, config) \o Separator \o place.chain \o Separator \o place.feed

\* What the chain digests: a FeedConfig and its count.
OnChain(c, count) ==
  <<count, c.signers, c.transmitters, c.f, c.onchain, c.offchainVersion, c.offchain>>

\* LatestConfig, one answer with the configuration and its count and digest.
ReadConfig(place) ==
  /\ stored[place] # Nil
  /\ known' = [place |-> place, digest |-> stored[place].digest,
               count |-> stored[place].count,
               signers |-> stored[place].config.signers,
               transmitters |-> stored[place].config.transmitters,
               f |-> stored[place].config.f % 256,
               onchain |-> stored[place].config.onchain,
               offchainVersion |-> stored[place].config.offchainVersion,
               offchain |-> stored[place].config.offchain]
  /\ UNCHANGED <<stored, installed>>

\* ConfigDigest, of a configuration of the OCR library.
ConfigDigest(place, cc) ==
  Preimage(place, <<cc.count, cc.signers, cc.transmitters, cc.f, cc.onchain,
                    cc.offchainVersion, cc.offchain>>)
-----------------------------------------------------------------------------
(* Reports *)

Dec(value) == <<value>>      \* one digit: values are below ten

ByTime(list) == [i \in DOMAIN list |-> list[i].time]
ByValue(list) == [i \in DOMAIN list |-> list[i].value]

\* Mutant: the observers are listed before the values are sorted.
ObserversUnsorted(list) ==
  LET time == Middle(CHOOSE byTime \in Orders(list, ByTime(list)) : TRUE).time IN
  {Marshal(Report, <<time, [i \in DOMAIN list |-> list[i].observer],
                     [i \in DOMAIN list |-> Dec(sorted[i].value)]>>) :
     sorted \in Orders(list, ByValue(list))}

\* BuildReport: the bytes of every report it may build.
BuildReport(list) ==
  LET time == Middle(CHOOSE byTime \in Orders(list, ByTime(list)) : TRUE).time IN
  {Marshal(Report, <<time, [i \in DOMAIN list |-> sorted[i].observer],
                     [i \in DOMAIN list |-> Dec(sorted[i].value)]>>) :
     sorted \in Orders(list, ByValue(list))}

\* What a Report message says.
Parsed(m) ==
  [time |-> m[1], observers |-> m[2], observations |-> [i \in DOMAIN m[3] |-> m[3][i][1]]]

ParseReport(bytes) == Parsed(Unmarshal(Report, bytes).value)

\* MedianFromReport, without the 18 decimals that Dec.BigInt keeps.
MedianFromReport(bytes) == Middle(ParseReport(bytes).observations)

\* Transmit: the MsgTransmits it may enqueue.
Transmit(bytes) ==
  [transmitter |-> <<1>>, configDigest |-> known.digest, feedId |-> known.place.feed,
   report |-> ParseReport(bytes)]

FeedInit ==
  /\ stored = [place \in Places |-> Nil]
  /\ installed = {}
  /\ known = Nil

\* A configuration that ValidateBasic lets through, in MsgCreateFeed or in a
\* proposal, becomes the feed's.
Install(place, c) ==
  LET count == IF stored[place] = Nil THEN 1 ELSE stored[place].count + 1
      new == [place |-> place, config |-> c, count |-> count,
              digest |-> Preimage(place, OnChain(c, count))]
  IN
  /\ Cardinality(installed) < MaxInstalled   \* bound
  /\ c.feedId = place.feed
  /\ stored' = [stored EXCEPT ![place] = new]
  /\ installed' = installed \cup {new}
  /\ UNCHANGED known

CreateFeed(place, c) == ConfigValid(c) /\ Install(place, c)

FeedNext ==
  \E place \in Places :
    \/ \E c \in Configs : CreateFeed(place, c)
    \/ ReadConfig(place)

FeedSpec == FeedInit /\ [][FeedNext]_ivars
-----------------------------------------------------------------------------
(* Properties *)

\* A digest stands for one configuration of one feed of one chain: the same
\* content installed again, or elsewhere, has another, whatever bytes the
\* configuration holds. And the node computes, from what it reads, the digest
\* that the chain has.
DigestBinds ==
  /\ \A a, b \in installed : a.digest = b.digest => a = b
  /\ known # Nil => ConfigDigest(known.place, known) = known.digest

\* A report built from the observations of at most MaxNumOracles oracles
\* passes ValidateBasic, names for every observation who made it, and its
\* median is between two honest observations while a minority lies. (Of the
\* configuration only its digest counts here: the first one will do.)
TransmitAccepted ==
  known # Nil /\ Cardinality(installed) = 1 =>
    \A list \in Observations : \A bytes \in BuildReport(list) :
      \A msg \in {Transmit(bytes)} :
      /\ TransmitValid(msg)
      /\ {<<msg.report.observers[i], msg.report.observations[i]>> : i \in DOMAIN list} =
           {<<list[i].observer, list[i].value>> : i \in DOMAIN list}
      /\ IsMedian(list, MedianFromReport(bytes))
=============================================================================
