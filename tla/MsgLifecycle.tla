---------------------------- MODULE MsgLifecycle ----------------------------
(***************************************************************************)
(* What the transaction manager promises about the messages it accepts,    *)
(* whatever its batching, simulation, polling and recovery do: a message   *)
(* is queued, may be handed to the network any number of times while it is *)
(* queued, and ends confirmed or errored; the end is final; only what was  *)
(* handed to the network can be executed on chain; and a message is        *)
(* reported confirmed only once it has been executed.                      *)
(***************************************************************************)
EXTENDS Naturals

CONSTANT Ids        \* identifiers of the messages that may be submitted

VARIABLES
  status,           \* status[m]: where message m is in its life
  attempted,        \* messages the network has been given at least once
  executed          \* messages the chain has executed at least once

lifeVars == <<status, attempted, executed>>

Status == {"absent", "queued", "sent", "confirmed", "errored"}

LifeTypeOK ==
  /\ status \in [Ids -> Status]
  /\ attempted \subseteq Ids
  /\ executed \subseteq attempted

Init ==
  /\ status = [m \in Ids |-> "absent"]
  /\ attempted = {}
  /\ executed = {}

Move(S, from, to) ==
  /\ \A m \in S : status[m] \in from
  /\ status' = [m \in Ids |-> IF m \in S THEN to ELSE status[m]]

Submit(m) ==
  /\ Move({m}, {"absent"}, "queued")
  /\ UNCHANGED <<attempted, executed>>

\* Cancelled, expired, failed in simulation, or given up after broadcast.
GiveUp(S) ==
  /\ Move(S, {"queued", "sent"}, "errored")
  /\ UNCHANGED <<attempted, executed>>

\* The network is given the messages; the caller does not know it yet.
Attempt(S) ==
  /\ \A m \in S : status[m] = "queued"
  /\ attempted' = attempted \cup S
  /\ UNCHANGED <<status, executed>>

MarkSent(S) ==
  /\ S \subseteq attempted
  /\ Move(S, {"queued"}, "sent")
  /\ UNCHANGED <<attempted, executed>>

Execute(S) ==
  /\ S \subseteq attempted
  /\ executed' = executed \cup S
  /\ UNCHANGED <<status, attempted>>

Confirm(S) ==
  /\ S \subseteq executed
  /\ Move(S, {"sent"}, "confirmed")
  /\ UNCHANGED <<attempted, executed>>

Next ==
  \/ \E m \in Ids : Submit(m)
  \/ \E S \in SUBSET Ids :
       GiveUp(S) \/ Attempt(S) \/ MarkSent(S) \/ Execute(S) \/ Confirm(S)

Spec == Init /\ [][Next]_lifeVars
=============================================================================
