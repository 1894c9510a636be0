----------------------------- MODULE Aggregator -----------------------------
(***************************************************************************)
(* What readers of a feed rely on (AggregatorInterface): answers come in   *)
(* rounds numbered 1, 2, ... without a gap, each within the range the feed *)
(* was created with, and the answer of a round never changes.              *)
(***************************************************************************)
EXTENDS Integers

CONSTANTS MinAnswer, MaxAnswer

VARIABLES
  latest,    \* the latest round
  answers    \* answers[r]: the answer of round r

feedVars == <<latest, answers>>

Init ==
  /\ latest = 0
  /\ answers = [r \in {} |-> 0]

Publish(answer) ==
  /\ latest' = latest + 1
  /\ answers' = [r \in 1 .. latest + 1 |-> IF r = latest + 1 THEN answer ELSE answers[r]]

Next == \E answer \in MinAnswer .. MaxAnswer : Publish(answer)

Spec == Init /\ [][Next]_feedVars
=============================================================================
