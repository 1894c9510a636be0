----------------------------- MODULE Monitoring -----------------------------
(***************************************************************************)
(* Two sources of the monitoring of one feed over one chain and one FCD:   *)
(* the envelope source and the transaction counter. They share the FCD's   *)
(* client and nothing else.                                                *)
(***************************************************************************)
EXTENDS EnvelopeSource

CONSTANT Fetchers    \* Fetches of the counter that may run at the same time

VARIABLES latestTxID, response, totals

counter == <<latestTxID, response, totals>>
source == <<cached, txPart, configPart, envelope, faults, seen, known>>

Results == INSTANCE TxResults

MonitoringInit == Init /\ Results!Init

MonitoringNext ==
  \/ \E block \in Blocks : Grow(block) /\ Results!Grow(block)
  \/ IndexBlock /\ Results!IndexBlock
  \/ Fetch /\ UNCHANGED counter
  \/ \E f \in Fetchers :
       /\ Results!Request(f) \/ Results!Count(f)
       /\ UNCHANGED source

MonitoringSpec == MonitoringInit /\ [][MonitoringNext]_<<mvars, counter>>

\* The counter's property, under a name of this module: see TxResults.
NoneCountedTwice == Results!NoneCountedTwice
=============================================================================
