------------------------------- MODULE Proxy -------------------------------
(***************************************************************************)
(* The proxy of a feed (contracts/proxy-ocr2): readers ask it and it asks  *)
(* the aggregator of its current phase, which the owner replaces in two    *)
(* steps. A round id carries the phase in its high bits.                   *)
(*                                                                         *)
(* The aggregators number their rounds 1, 2, ... and never change one, as  *)
(* Aggregator states and OCR2 is shown to implement.                       *)
(***************************************************************************)
EXTENDS Integers, Sequences

CONSTANTS
  Aggregators, First,      \* aggregator contracts; the one of instantiation
  Owner, Successor, Nobody,
  Answers,
  PhaseBits, RoundBits,    \* 16 and 32 in the code
  MaxPublished             \* bound: rounds of an aggregator, below 2^RoundBits

VARIABLES
  proxyOwner, proposedProxyOwner,
  phase,                   \* CURRENT_PHASE: [id, aggregator]
  proposed,                \* PROPOSED_CONTRACT
  phases,                  \* PHASES: aggregators by phase id
  published,               \* answers of each aggregator
  served                   \* history: what LatestRoundData answered, by round id

proxyVars == <<proxyOwner, proposedProxyOwner, phase, proposed, phases, published, served>>
owning == <<proxyOwner, proposedProxyOwner>>

Auth == INSTANCE Owned WITH
  Accounts <- {Owner, Successor}, owner <- proxyOwner, proposedOwner <- proposedProxyOwner

Init ==
  /\ Auth!Initialize(Owner)
  /\ phase = [id |-> 1, aggregator |-> First]
  /\ proposed = Nobody
  /\ phases = <<First>>
  /\ published = [a \in Aggregators |-> <<>>]
  /\ served = [id \in {} |-> 0]
-----------------------------------------------------------------------------
(* Round ids *)

\* Mutant: ids of the aggregator are passed through.
WithoutPhase(round, phaseId) == round

\* with_phase_id
WithPhaseId(round, phaseId) == phaseId * 2 ^ RoundBits + round

\* parse_round_id: shifted and truncated to a u16, and to a u32.
ParseRoundId(id) ==
  [phase |-> (id \div 2 ^ RoundBits) % 2 ^ PhaseBits, round |-> id % 2 ^ RoundBits]
-----------------------------------------------------------------------------
(* Calls *)

ProposeContract(who, aggregator) ==
  /\ Auth!IsOwner(who)
  /\ proposed' = aggregator
  /\ UNCHANGED <<owning, phase, phases, published, served>>

\* The id is a u16 and the build checks overflow: the last phase stays.
ConfirmContract(who, aggregator) ==
  /\ Auth!IsOwner(who)
  /\ proposed = aggregator
  /\ phase.id + 1 < 2 ^ PhaseBits
  /\ proposed' = Nobody
  /\ phase' = [id |-> phase.id + 1, aggregator |-> aggregator]
  /\ phases' = Append(phases, aggregator)
  /\ UNCHANGED <<owning, published, served>>

ChangeOwner(who) ==
  /\ \/ \E to \in {Owner, Successor} : Auth!TransferOwnership(who, to)
     \/ Auth!AcceptOwnership(who)
  /\ UNCHANGED <<phase, proposed, phases, published, served>>

\* An aggregator publishes a round.
Publish(aggregator, answer) ==
  /\ Len(published[aggregator]) < MaxPublished   \* bound
  /\ published' = [published EXCEPT ![aggregator] = Append(@, answer)]
  /\ UNCHANGED <<owning, phase, proposed, phases, served>>

\* RoundData: [ok, id, answer].
RoundData(id) ==
  LET parsed == ParseRoundId(id) IN
  IF parsed.phase \notin DOMAIN phases THEN [ok |-> FALSE]
  ELSE LET rounds == published[phases[parsed.phase]] IN
       IF parsed.round \notin DOMAIN rounds THEN [ok |-> FALSE]
       ELSE [ok |-> TRUE, id |-> WithPhaseId(parsed.round, parsed.phase),
             answer |-> rounds[parsed.round]]

\* LatestRoundData; an error before the first round of the aggregator.
LatestRoundData ==
  LET rounds == published[phase.aggregator] IN
  IF rounds = <<>> THEN [ok |-> FALSE]
  ELSE [ok |-> TRUE, id |-> WithPhaseId(Len(rounds), phase.id), answer |-> rounds[Len(rounds)]]

ReadLatest ==
  /\ LatestRoundData.ok
  /\ served' = [id \in DOMAIN served \cup {LatestRoundData.id} |->
                  IF id = LatestRoundData.id THEN LatestRoundData.answer ELSE served[id]]
  /\ UNCHANGED <<owning, phase, proposed, phases, published>>

Next ==
  \/ \E who \in {Owner, Successor} :
       \/ \E aggregator \in Aggregators :
            ProposeContract(who, aggregator) \/ ConfirmContract(who, aggregator)
       \/ ChangeOwner(who)
  \/ \E aggregator \in Aggregators, answer \in Answers : Publish(aggregator, answer)
  \/ ReadLatest

Spec == Init /\ [][Next]_proxyVars
-----------------------------------------------------------------------------
(* Properties *)

\* Readers of the proxy see one feed, however often its aggregator is replaced,
\* by another or by one that served before: the latest id is never below one
\* they were given, and by an id they get ever after what they got with it.
ReadersSeeOneFeed ==
  \A id \in DOMAIN served :
    /\ LatestRoundData.ok => id <= LatestRoundData.id
    /\ RoundData(id) = [ok |-> TRUE, id |-> id, answer |-> served[id]]
=============================================================================
