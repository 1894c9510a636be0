------------------------------ MODULE MCParts ------------------------------
(***************************************************************************)
(* The parts that share no state, in one instance: every behaviour is one  *)
(* of one part, chosen by the first step, while the others stay as they    *)
(* began.                                                                  *)
(***************************************************************************)
EXTENDS Parts, InjectiveWire, InjectiveFeed

VARIABLE part        \* whose behaviour this is

wasm == <<accepted, event>>
flag == <<flagsOwner, proposedFlagsOwner, raisingAC, raised, access, rule, feed, due>>
proxy == <<proxyOwner, proposedProxyOwner, phase, proposed, phases, published, served>>
keystore == <<accounts, mapped, writer, caller, absent, disturbed>>
simulation == <<batch, toSim, succeeded, failed, outcome, verdicts>>
vars == <<part, wire, ivars, wasm, report, flag, proxy, keystore, simulation>>

\* A field that is set, and one that is not. Bytes long enough for a length
\* of two bytes are in MessageTypes' larger members when all is set.
RECURSIVE Full(_)
Full(type) ==
  CASE type.kind = "number" -> 300
    [] type.kind = "bool" -> TRUE
    [] type.kind = "bytes" -> <<97, 0>>
    [] type.kind = "custom" -> <<49, 50>>
    [] type.kind = "customPtr" -> <<<<48>>>>
    [] type.kind = "packed" -> <<0, 300>>
    [] type.kind = "each" -> <<Full(type.of), Full(type.of)>>
    [] type.kind = "embedded" -> [n \in DOMAIN type.fields |-> Full(type.fields[n])]
    [] type.kind = "pointer" -> <<[n \in DOMAIN type.fields |-> Full(type.fields[n])]>>
RECURSIVE Plain(_)
Plain(type) ==
  CASE type.kind = "custom" -> <<48>>
    [] type.kind = "embedded" -> [n \in DOMAIN type.fields |-> Plain(type.fields[n])]
    [] OTHER -> type.unset
Filled(fields, set) ==
  [n \in DOMAIN fields |-> IF n \in set THEN Full(fields[n]) ELSE Plain(fields[n])]
Written ==
  UNION {LET all == DOMAIN fields IN
         {[fields |-> fields, value |-> Filled(fields, set)] :
            set \in {{}, all} \cup {{n} : n \in all} \cup {all \ {n} : n \in all}} :
         fields \in MessageTypes}

\* Two feeds whose names run together with their chains' in the same bytes,
\* and configurations that differ in what the separators look like.
Feeds == {[chain |-> <<1>>, feed |-> <<2, 2>>], [chain |-> <<1, 2>>, feed |-> <<2>>]}
Config(feedId) ==
  [feedId |-> feedId, signers |-> <<<<1>>, <<2>>, <<3>>, <<4>>>>,
   transmitters |-> <<<<5>>, <<6>>, <<7>>, <<8>>>>, f |-> 1,
   linkPerTransmission |-> 1, linkPerObservation |-> 1, linkDenom |-> <<9>>,
   onchain |-> <<>>, offchainVersion |-> 2, offchain |-> <<0, 0>>]
FeedConfigs ==
  LET plain == {Config(place.feed) : place \in Feeds} IN
  plain \cup {[c EXCEPT !.offchain = <<0, 0, 1, 0, 0>>] : c \in plain}
        \cup {[c EXCEPT !.f = 2] : c \in plain}
        \cup {[c EXCEPT !.signers[1] = <<2>>] : c \in plain}
Observed ==
  UNION {{[i \in 1 .. n |-> [time |-> 5, value |-> v[i], observer |-> n - i]] :
            v \in [1 .. n -> 0 .. 2]} : n \in 1 .. 4}

\* Two contracts whose chains and addresses run together in the same cells; the
\* larger versions do not fit the node's number.
SomeContracts == {[chain |-> <<7>>, contract |-> 8], [chain |-> <<7, 8>>, contract |-> 1]}
Oracles(first) ==
  [i \in 1 .. 4 |-> [signer |-> first + i, transmitter |-> 20 + i, payee |-> 30 + i]]
SomeProposals ==
  {[oracles |-> Oracles(first), f |-> f, version |-> version, offchain |-> offchain] :
     first \in {10, 11}, f \in {1, 2}, version \in {1, 2, 3},
     offchain \in {<<>>, <<1>>, <<1, 1>>}}
Limits == <<1, 0, 9>>

\* Answers of three bits, -4 .. 3, and one that does not fit.
Reported ==
  UNION {{[i \in 1 .. n |->
            [time |-> i, value |-> v[i], juels |-> ((v[i] + 2 * i) % 5) - 1, observer |-> n - i]] :
            v \in [1 .. n -> {-4, -1, 2, 4}]} : n \in 0 .. 4}

\* Answers of five bits.
SomeAnswers == {-16, -2, 0, 1, 2, 15}

Costs == UNION {[1 .. n -> 0 .. 2] : n \in 1 .. 4}
SomeBatches == {[i \in DOMAIN c |-> [id |-> i, cost |-> c[i]]] : c \in Costs}
SomeBudgets == 0 .. 3

Init ==
  /\ part = "none"
  /\ WireInit /\ FeedInit /\ Wasm!Init /\ Codec!Init /\ Flag!Init /\ Prox!Init /\ Adapter!Init
  /\ Sim!Init

Is(name) == part \in {"none", name} /\ part' = name

Next ==
  \/ Is("wire") /\ WireNext
     /\ UNCHANGED <<ivars, wasm, report, flag, proxy, keystore, simulation>>
  \/ Is("injective") /\ FeedNext
     /\ UNCHANGED <<wire, wasm, report, flag, proxy, keystore, simulation>>
  \/ Is("wasm") /\ Wasm!Next
     /\ UNCHANGED <<wire, ivars, report, flag, proxy, keystore, simulation>>
  \/ Is("report") /\ Codec!Next
     /\ UNCHANGED <<wire, ivars, wasm, flag, proxy, keystore, simulation>>
  \/ Is("flag") /\ Flag!Next
     /\ UNCHANGED <<wire, ivars, wasm, report, proxy, keystore, simulation>>
  \/ Is("proxy") /\ Prox!Next
     /\ UNCHANGED <<wire, ivars, wasm, report, flag, keystore, simulation>>
  \/ Is("keystore") /\ Adapter!Next
     /\ UNCHANGED <<wire, ivars, wasm, report, flag, proxy, simulation>>
  \/ Is("simulation") /\ Sim!Next
     /\ UNCHANGED <<wire, ivars, wasm, report, flag, proxy, keystore>>

Spec == Init /\ [][Next]_vars
=============================================================================
