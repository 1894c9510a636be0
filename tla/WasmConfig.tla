----------------------------- MODULE WasmConfig -----------------------------
(***************************************************************************)
(* How the nodes of an aggregator contract get to know its configuration:  *)
(* the contract tells it in an event and stores its digest, a node reads   *)
(* the event and computes the digest itself (contracts/ocr2,               *)
(* adapters/cosmwasm).                                                     *)
(*                                                                         *)
(* What is hashed is a sequence of cells. Numbers, keys and addresses take *)
(* one cell each: their width in bytes is fixed in the code. Transmitters  *)
(* and contracts are taken to have addresses of one length.                *)
(***************************************************************************)
EXTENDS Integers, Sequences, FiniteSets, Functions

CONSTANTS
  Places,            \* [chain, contract] where configurations are accepted
  Proposals,         \* [oracles, f, version, offchain] that may be accepted
  OnchainConfig,     \* version, min_answer and max_answer of the contract
  VersionBits,       \* width of offchain_config_version: 64 in the code
  MaxAccepted        \* bound: configurations accepted

VARIABLES
  accepted,          \* history: every configuration a contract accepted
  event              \* a set_config event as the node gets it

wasmVars == <<accepted, event>>

None == <<>>
-----------------------------------------------------------------------------
(* The contract: accept_proposal *)

Column(oracles, key) == [i \in DOMAIN oracles |-> oracles[i][key]]

\* Mutant: the digest does not depend on the number of the configuration.
DigestWithoutCount(place, count, p) ==
  <<Len(place.chain)>> \o place.chain \o <<place.contract, Len(p.oracles)>>
    \o Column(p.oracles, "signer") \o Column(p.oracles, "transmitter")
    \o <<p.f, Len(OnchainConfig)>> \o OnchainConfig
    \o <<p.version, Len(p.offchain)>> \o p.offchain

\* config_digest_from_data: what is hashed.
DigestFromData(place, count, p) ==
  <<Len(place.chain)>> \o place.chain \o <<place.contract, count, Len(p.oracles)>>
    \o Column(p.oracles, "signer") \o Column(p.oracles, "transmitter")
    \o <<p.f, Len(OnchainConfig)>> \o OnchainConfig
    \o <<p.version, Len(p.offchain)>> \o p.offchain

Attribute(key, value) == [key |-> key, value |-> value]
Attributes(key, values) == [i \in DOMAIN values |-> Attribute(key, values[i])]

\* The set_config event, with the attribute the chain adds to every event.
SetConfig(place, count, p) ==
  <<Attribute("_contract_address", place.contract),
    Attribute("previous_config_block_number", 0),
    Attribute("latest_config_digest", DigestFromData(place, count, p)),
    Attribute("config_count", count)>>
  \o Attributes("signers", Column(p.oracles, "signer"))
  \o Attributes("transmitters", Column(p.oracles, "transmitter"))
  \o Attributes("payees", Column(p.oracles, "payee"))
  \o <<Attribute("f", p.f), Attribute("onchain_config", OnchainConfig),
       Attribute("offchain_config_version", p.version),
       Attribute("offchain_config", p.offchain)>>

CountAt(place) == Cardinality({a \in accepted : a.place = place}) + 1

AcceptProposal(place, p) ==
  LET count == CountAt(place) IN
  /\ Cardinality(accepted) < MaxAccepted            \* bound
  /\ p.f > 0 /\ 3 * p.f < Len(p.oracles) /\ p.offchain # <<>>   \* finalized
  /\ \A key \in {"signer", "transmitter"} : IsInjective(Column(p.oracles, key))
  /\ accepted' = accepted \cup
       {[place |-> place, count |-> count, proposal |-> p,
         digest |-> DigestFromData(place, count, p)]}
  /\ event' = [place |-> place, attributes |-> SetConfig(place, count, p), whole |-> TRUE]
-----------------------------------------------------------------------------
(* The node: parseAttributes and ConfigDigest *)

UniqueKeys == {"latest_config_digest", "config_count", "f", "onchain_config",
               "offchain_config_version", "offchain_config"}
ListKeys == {"signers", "transmitters"}

Of(attributes, key) == {i \in DOMAIN attributes : attributes[i].key = key}

Value(attributes, key) == attributes[CHOOSE i \in Of(attributes, key) : TRUE].value

Values(attributes, key) ==
  LET at == Of(attributes, key)
      Rank(i) == Cardinality({j \in at : j < i}) + 1
  IN  [n \in 1 .. Cardinality(at) |-> attributes[CHOOSE i \in at : Rank(i) = n].value]

\* ParseInt(value, 10, 64) takes signed numbers only.
FitsInt64(version) == version < 2 ^ (VersionBits - 1)

Parsable(attributes) ==
  /\ \A key \in UniqueKeys : Cardinality(Of(attributes, key)) = 1
  /\ \A key \in ListKeys : Of(attributes, key) # {}
  /\ FitsInt64(Value(attributes, "offchain_config_version"))

\* parseAttributes: the ContractConfig.
ParseAttributes(attributes) ==
  [digest |-> Value(attributes, "latest_config_digest"),
   count |-> Value(attributes, "config_count"),
   signers |-> Values(attributes, "signers"),
   transmitters |-> Values(attributes, "transmitters"),
   f |-> Value(attributes, "f"),
   onchain |-> Value(attributes, "onchain_config"),
   version |-> Value(attributes, "offchain_config_version"),
   offchain |-> Value(attributes, "offchain_config")]

\* OffchainConfigDigester.ConfigDigest
ConfigDigest(place, cfg) ==
  <<Len(place.chain)>> \o place.chain
    \o <<place.contract, cfg.count, Len(cfg.signers)>>
    \o cfg.signers \o cfg.transmitters
    \o <<cfg.f, Len(cfg.onchain)>> \o cfg.onchain
    \o <<cfg.version, Len(cfg.offchain)>> \o cfg.offchain
-----------------------------------------------------------------------------
(* Events that are not as the contract emits them: an attribute is missing *)
(* or comes twice, as when the events of two messages run together.        *)

Disturb ==
  /\ event # None /\ event.whole
  /\ \E i \in DOMAIN event.attributes :
       LET a == event.attributes
           without == SubSeq(a, 1, i - 1) \o SubSeq(a, i + 1, Len(a))
       IN  /\ a[i].key \in UniqueKeys
           /\ \E attributes \in {without, Append(a, a[i])} :
                event' = [event EXCEPT !.attributes = attributes, !.whole = FALSE]
  /\ UNCHANGED accepted
Init == accepted = {} /\ event = None

Next ==
  \/ \E place \in Places, p \in Proposals : AcceptProposal(place, p)
  \/ Disturb

Spec == Init /\ [][Next]_wasmVars
-----------------------------------------------------------------------------
(* Properties *)

\* No two configurations, of one contract or of two, share a digest, and from
\* the event of a configuration the node computes the digest the contract
\* stored: only such a configuration may sign for it. An event with an
\* attribute too few or too many is refused, and so is a version that does
\* not fit the node's signed number.
ConfigUnderstood ==
  /\ \A a, b \in accepted : a.digest = b.digest => a = b
  /\ event # None =>
       LET a == event.attributes IN
       IF event.whole
       THEN FitsInt64(Value(a, "offchain_config_version")) =>
              /\ Parsable(a)
              /\ ConfigDigest(event.place, ParseAttributes(a)) = ParseAttributes(a).digest
       ELSE ~Parsable(a)
=============================================================================
