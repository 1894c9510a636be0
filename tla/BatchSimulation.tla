-------------------------- MODULE BatchSimulation --------------------------
(***************************************************************************)
(* BatchSimulateUnsigned (client/client.go): a batch is simulated on the   *)
(* node; when a message fails it is put aside and what follows it is       *)
(* simulated again, until nothing fails.                                   *)
(*                                                                         *)
(* A message takes its cost out of what its sender has; a simulation ends  *)
(* at the first message that costs more than is left. What the sender has  *)
(* may differ from one simulation to the next, as blocks are committed.    *)
(***************************************************************************)
EXTENDS Integers, Sequences, FiniteSets, SequencesExt

CONSTANTS
  Batches,           \* what may be simulated: sequences of [id, cost]
  Budgets            \* what the sender may have

VARIABLES
  batch, toSim, succeeded, failed,
  outcome,           \* "none", "running", "done", or "error": nothing is returned
  verdicts           \* history: by id, what the last simulation of each message said

simVars == <<batch, toSim, succeeded, failed, outcome, verdicts>>

Init ==
  /\ batch = <<>> /\ toSim = <<>> /\ succeeded = <<>> /\ failed = <<>>
  /\ outcome = "none"
  /\ verdicts = [id \in {} |-> "none"]

Call(messages) ==
  /\ outcome = "none"
  /\ batch' = messages /\ toSim' = messages
  /\ outcome' = "running"
  /\ UNCHANGED <<succeeded, failed, verdicts>>

Cost(messages) == FoldLeft(LAMBDA sum, m : sum + m.cost, 0, messages)

Failing(budget) == {i \in DOMAIN toSim : Cost(SubSeq(toSim, 1, i)) > budget}

Ids(messages) == {messages[i].id : i \in DOMAIN messages}

\* verdicts, when these messages pass and these fail.
Told(passing, failing) ==
  [id \in DOMAIN verdicts \cup Ids(passing) \cup Ids(failing) |->
     IF id \in Ids(passing) THEN "passed"
     ELSE IF id \in Ids(failing) THEN "failed" ELSE verdicts[id]]

\* Mutant: the messages before the failing one are simulated again.
WithoutFailing(i) == RemoveAt(toSim, i)

\* toSim[failureIndex+1:]
AfterFailing(i) == SubSeq(toSim, i + 1, Len(toSim))

\* The error names the first message that failed (failedMsgIndex).
MessageFails(budget) ==
  /\ outcome = "running"
  /\ \E i \in Failing(budget) :
       LET before == SubSeq(toSim, 1, i - 1) IN
       /\ \A j \in Failing(budget) : i <= j
       /\ failed' = Append(failed, toSim[i])
       /\ succeeded' = succeeded \o before
       /\ outcome' = IF i = Len(toSim) THEN "done" ELSE "running"
       /\ toSim' = AfterFailing(i)
       /\ verdicts' = Told(before, <<toSim[i]>>)
  /\ UNCHANGED batch

AllPass(budget) ==
  /\ outcome = "running"
  /\ Failing(budget) = {}
  /\ succeeded' = succeeded \o toSim
  /\ outcome' = "done"
  /\ verdicts' = Told(toSim, <<>>)
  /\ UNCHANGED <<batch, toSim, failed>>

\* The node cannot be asked, or refuses for a reason that names no message.
OtherError ==
  /\ outcome = "running"
  /\ outcome' = "error"
  /\ UNCHANGED <<batch, toSim, succeeded, failed, verdicts>>

Next ==
  \/ \E messages \in Batches : Call(messages)
  \/ \E budget \in Budgets : MessageFails(budget) \/ AllPass(budget)
  \/ OtherError

Spec == Init /\ [][Next]_simVars
-----------------------------------------------------------------------------
(* Properties *)

Judged(verdict) ==
  {i \in DOMAIN batch : batch[i].id \in DOMAIN verdicts /\ verdicts[batch[i].id] = verdict}

\* The messages at these places of the batch, in its order.
Lists(messages, places) ==
  /\ Len(messages) = Cardinality(places)
  /\ \A i \in places : messages[Cardinality({j \in places : j <= i})] = batch[i]

\* Every message of the batch ends on one side, once and in the order of the
\* batch, and on the side that its own simulation put it: no message is lost,
\* sent twice, or given up for a failure of another.
SimulatedOnceInOrder ==
  outcome = "done" =>
    /\ Lists(succeeded, Judged("passed")) /\ Lists(failed, Judged("failed"))
    /\ Len(succeeded) + Len(failed) = Len(batch)
=============================================================================
