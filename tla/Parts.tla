------------------------------- MODULE Parts -------------------------------
(***************************************************************************)
(* Six parts that share no state, with constants of their own each: the    *)
(* keystore adapter, the flag of a feed, the proxy of a feed, the report   *)
(* and the configuration of an aggregator, and the simulation of a batch.  *)
(***************************************************************************)
EXTENDS Integers, Sequences

CONSTANTS
  Nobody, Owner, Successor,
  KeyUsers, Keys, NoKeys,                                           \* KeystoreAdapter
  Feed, Validator, Monitor, Stranger, Flags, OtherFlags,              \* FlagFeed
  Controllers, FirstController, Lowering, FlagAnswers, AnswerBits,
  Multiplier, Thresholds, FirstThreshold, MaxRounds,
  Aggregators, First, ProxyAnswers, PhaseBits, RoundBits, MaxPublished,   \* Proxy
  ReportBits, MaxOracles, Slots, ObservationLists,                        \* ReportCodec
  Contracts, Proposals, OnchainConfig, VersionBits, MaxAccepted,          \* WasmConfig
  Batches, Budgets                                                        \* BatchSimulation

VARIABLES
  flagsOwner, proposedFlagsOwner, raisingAC, raised, access, rule, feed, due,   \* FlagFeed
  proxyOwner, proposedProxyOwner, phase, proposed, phases, published, served,   \* Proxy
  accounts, mapped, writer, caller, absent, disturbed,                          \* KeystoreAdapter
  report,                                                                       \* ReportCodec
  accepted, event,                                                              \* WasmConfig
  batch, toSim, succeeded, failed, outcome, verdicts                            \* BatchSimulation

\* A feed is not its validator's stranger, and its answers fit their width.
ASSUME FlagAssumption ==
  /\ Stranger # Feed
  /\ 2 ^ AnswerBits \in Nat \ {0}
  /\ FlagAnswers \subseteq Int
  /\ \A answer \in FlagAnswers : -(2 ^ AnswerBits) <= 2 * answer /\ 2 * answer < 2 ^ AnswerBits
  /\ Multiplier \in Nat
  /\ Thresholds \subseteq Nat /\ FirstThreshold \in Nat

\* Rounds and the first two phases fit their part of a round id.
ASSUME ProxyAssumption ==
  /\ First \in Aggregators
  /\ 2 ^ PhaseBits \in Nat /\ 1 < 2 ^ PhaseBits
  /\ MaxPublished \in Nat /\ 2 ^ RoundBits \in Nat /\ MaxPublished < 2 ^ RoundBits

\* Reports have a slot for every oracle, and no oracle observes twice.
ASSUME ReportAssumption ==
  /\ 2 ^ ReportBits \in Nat \ {0}
  /\ MaxOracles \in Nat /\ Slots \in Nat /\ MaxOracles <= Slots
  /\ \A list \in ObservationLists :
       /\ list \in Seq([time : Int, value : Int, juels : Int, observer : Int])
       /\ Len(list) <= MaxOracles

\* What is hashed is numbers: keys, addresses and the bytes of configurations.
ASSUME ConfigAssumption ==
  /\ Contracts \subseteq [chain : Seq(Int), contract : Int]
  /\ Proposals \subseteq [oracles : Seq([signer : Int, transmitter : Int, payee : Int]),
                          f : Int, version : Int, offchain : Seq(Int)]
  /\ OnchainConfig \in Seq(Int)

\* The messages of a batch have ids of their own, those of their rows.
ASSUME SimulationAssumption ==
  \A messages \in Batches :
    /\ messages \in Seq([id : Int, cost : Int])
    /\ \A i, j \in DOMAIN messages : messages[i].id = messages[j].id => i = j

Adapter == INSTANCE KeystoreAdapter WITH Callers <- KeyUsers, Malformed <- NoKeys

Flag == INSTANCE FlagFeed WITH Answers <- FlagAnswers

Prox == INSTANCE Proxy WITH Answers <- ProxyAnswers

Codec == INSTANCE ReportCodec WITH AnswerBits <- ReportBits

Wasm == INSTANCE WasmConfig WITH Places <- Contracts

Sim == INSTANCE BatchSimulation
-----------------------------------------------------------------------------
(* The parts' properties. *)

\* A key that stays in the keystore is found and signs.
PresentKeySigns == Adapter!PresentKeySigns

\* A feed's flag is up for, and as long as, an answer moved too far.
FlagTellsDeviation == Flag!FlagTellsDeviation

\* Readers of a proxy see one feed over all its aggregators.
ReadersSeeOneFeed == Prox!ReadersSeeOneFeed

\* The aggregator and its nodes read one median from a report.
ReportUnderstood == Codec!ReportUnderstood

\* The aggregator and its nodes compute one digest, from one event.
ConfigUnderstood == Wasm!ConfigUnderstood

\* A batch is split as its simulations said, in order and without loss.
SimulatedOnceInOrder == Sim!SimulatedOnceInOrder
=============================================================================
