--------------------------- MODULE EnvelopeSource ---------------------------
(***************************************************************************)
(* The envelope source of the monitoring (source_envelope.go). A Fetch asks *)
(* in parallel for the latest transmission, at the FCD, and for the latest *)
(* configuration, whose block the node knows and whose content the FCD has; *)
(* a configuration is kept for the next Fetch.                             *)
(*                                                                         *)
(* The kept configuration is copied by a goroutine nobody waits for, into  *)
(* variables that are read without a lock: the reader may see nothing of   *)
(* the copy, all of it, or only its block.                                 *)
(*                                                                         *)
(* Left out: attributes and their parsing; balances, of which only counts  *)
(* whether they were read.                                                 *)
(***************************************************************************)
EXTENDS Fcd

CONSTANTS
  RaceOutcomes,      \* what the race may show: "nothing", "all", "block"
  MaxFaults          \* bound: failed requests

ASSUME RaceAssumption == RaceOutcomes \subseteq {"nothing", "all", "block"} /\ MaxFaults \in Nat

VARIABLES
  cached,            \* [block, digest]: cachedConfigBlock, cachedConfig
  txPart,            \* the goroutine of the transmission, and its result
  configPart,        \* the goroutine of the configuration, and its result
  envelope,          \* the last envelope Fetch returned without error
  faults,
  seen,              \* history: the feed's states since the Fetch began
  known              \* history: newest answer the FCD had when it began

mvars == <<chain, indexed, cached, txPart, configPart, envelope, faults, seen, known>>

NoConfig == [block |-> 0, digest |-> 0]
Asking == [at |-> "ask"]
Failed == [at |-> "failed"]
Over(part) == part.at \in {"ok", "failed"}

Init ==
  /\ ChainInit
  /\ indexed = 0
  /\ cached = NoConfig
  /\ txPart = Asking /\ configPart = Asking
  /\ envelope = [answer |-> 0, block |-> 0, txBlock |-> 0, digest |-> 0]
  /\ faults = 0 /\ seen = {feed} /\ known = 0

Grow(block) ==
  /\ Commit(block)
  /\ seen' = seen \cup {feed'}
  /\ UNCHANGED <<indexed, cached, txPart, configPart, envelope, faults, known>>

IndexBlock ==
  Index /\ UNCHANGED <<chain, cached, txPart, configPart, envelope, faults, seen, known>>
-----------------------------------------------------------------------------
\* Mutant: the oldest first.
Oldest(txs) == CHOOSE tx \in txs : \A t \in txs : ~Before(t.id, tx.id)

\* The first after extractMatchingEvents has sorted them.
Newest(txs) == CHOOSE tx \in txs : \A t \in txs : ~Before(tx.id, t.id)

\* extractMatchingEvents: of this contract, in the first message.
Matching(txs, kind) == {tx \in txs : tx.log # <<>> /\ tx.log[1].kind = kind}

TxFault == faults < MaxFaults /\ faults' = faults + 1    \* bound

\* fetchLatestTransmission; the block is that of the newest transaction.
TransmissionIn(txs) ==
  IF Matching(txs, "transmit") = {} THEN Failed
  ELSE LET tx == Newest(Matching(txs, "transmit")) IN
       [at |-> "ok", answer |-> tx.log[1].state.answer, txBlock |-> tx.height,
        block |-> Newest(txs).height]

FetchTransmission ==
  /\ txPart.at = "ask"
  /\ \/ txPart' = TransmissionIn(TxList) /\ UNCHANGED faults
     \/ txPart' = Failed /\ TxFault
  /\ UNCHANGED <<chain, indexed, cached, configPart, envelope, seen, known>>

\* fetchLatestConfigBlock
FetchConfigBlock ==
  /\ configPart.at = "ask"
  /\ \/ configPart' = [at |-> "block", block |-> feed.block] /\ UNCHANGED faults
     \/ configPart' = Failed /\ TxFault
  /\ UNCHANGED <<chain, indexed, cached, txPart, envelope, seen, known>>

\* What of the kept configuration is seen when it is compared.
Glimpse(outcome) ==
  CASE outcome = "nothing" -> NoConfig
    [] outcome = "all" -> cached
    [] outcome = "block" -> [NoConfig EXCEPT !.block = cached.block]

\* Mutant: any configuration that is kept is good.
CompareNothing ==
  /\ configPart.at = "block"
  /\ \E outcome \in RaceOutcomes :
       LET got == Glimpse(outcome) IN
       configPart' = IF got.block # 0
                     THEN [at |-> "ok", digest |-> got.digest]
                     ELSE [configPart EXCEPT !.at = "logs"]
  /\ UNCHANGED <<chain, indexed, cached, txPart, envelope, faults, seen, known>>

CompareConfigBlock ==
  /\ configPart.at = "block"
  /\ \E outcome \in RaceOutcomes :
       LET got == Glimpse(outcome) IN
       configPart' = IF got.block # 0 /\ got.block = configPart.block
                     THEN [at |-> "ok", digest |-> got.digest]
                     ELSE [configPart EXCEPT !.at = "logs"]
  /\ UNCHANGED <<chain, indexed, cached, txPart, envelope, faults, seen, known>>

\* fetchLatestConfigFromLogs: the FCD may not have the block yet.
ConfigsIn(height) ==
  IF height \in 1 .. indexed THEN Matching(BlockTxs(height), "config") ELSE {}

FetchConfigFromLogs ==
  /\ configPart.at = "logs"
  /\ LET found == ConfigsIn(configPart.block)
         digest == Newest(found).log[1].state.digest
     IN
     \/ found = {} /\ configPart' = Failed /\ UNCHANGED <<cached, faults>>
     \/ /\ found # {}
        /\ configPart' = [at |-> "ok", digest |-> digest]
        /\ cached' = [block |-> configPart.block, digest |-> digest]
        /\ UNCHANGED faults
     \/ configPart' = Failed /\ TxFault /\ UNCHANGED cached
  /\ UNCHANGED <<chain, indexed, txPart, envelope, seen, known>>

\* The newest answer in a first message of what the FCD has.
NewestListed ==
  Max({0} \cup {tx.log[1].state.answer : tx \in Matching(AccountTxs, "transmit")})

\* The end of Fetch; the next begins. The envelope comes with an error when
\* one of its four parts failed, the balances among them.
Join ==
  /\ Over(txPart) /\ Over(configPart)
  /\ \/ /\ txPart.at = "ok" /\ configPart.at = "ok"
        /\ envelope' = [answer |-> txPart.answer, block |-> txPart.block,
                        txBlock |-> txPart.txBlock, digest |-> configPart.digest]
        /\ UNCHANGED faults
     \/ /\ txPart.at = "failed" \/ configPart.at = "failed"
        /\ UNCHANGED <<envelope, faults>>
     \/ TxFault /\ UNCHANGED envelope
  /\ txPart' = Asking /\ configPart' = Asking
  /\ seen' = {feed}
  /\ known' = NewestListed
  /\ UNCHANGED <<chain, indexed, cached>>

Fetch ==
  \/ FetchTransmission
  \/ FetchConfigBlock \/ CompareConfigBlock \/ FetchConfigFromLogs
  \/ Join

Next == (\E block \in Blocks : Grow(block)) \/ IndexBlock \/ Fetch

Spec == Init /\ [][Next]_mvars
-----------------------------------------------------------------------------
(* Properties *)

\* A block that shows its last configuration of this feed, or none, to a
\* reader of first messages.
LastConfigFirst(block) ==
  \/ \A i \in DOMAIN block : \A m \in DOMAIN block[i] : m = 1 => block[i][m] # "config"
  \/ \A i \in DOMAIN block : \A m \in DOMAIN block[i] : block[i][m] = "config" /\ m # 1 =>
       \E j \in DOMAIN block : \E k \in DOMAIN block[j] : k = 1 /\ i < j /\ block[j][k] = "config"

\* The configuration of a Fetch is one the feed had while that Fetch ran:
\* the one kept from before is used only while it still holds, and a failed
\* Fetch leaves nothing behind that a later one would take for it. Of the
\* race with the copy only an empty configuration can come.
ConfigIsOfThisFetch ==
  configPart.at = "ok" =>
    \/ \E s \in seen : s.digest = configPart.digest
    \/ configPart.digest = 0 /\ "block" \in RaceOutcomes

\* An envelope never holds an older round than the FCD had when its Fetch
\* began, so what is reported does not go back: although the FCD lags, lists
\* a few transactions in any order, and hides transmissions behind others.
RoundsKeepUp == [][envelope' # envelope => envelope'.answer >= known]_mvars
=============================================================================
