----------------------------- MODULE TxResults -----------------------------
(***************************************************************************)
(* The transaction counter of the monitoring (source_txresults.go): every  *)
(* Fetch asks the FCD for the latest transactions of the contract and      *)
(* counts those newer than the newest counted before.                      *)
(***************************************************************************)
EXTENDS Fcd

CONSTANT Fetchers    \* Fetches that may run at the same time

VARIABLES
  latestTxID,
  response,          \* what each Fetch has from the FCD
  totals             \* history: the sum of all results

rvars == <<chain, indexed, latestTxID, response, totals>>

Init ==
  /\ ChainInit
  /\ indexed = 0
  /\ latestTxID = NoTx
  /\ response = [f \in Fetchers |-> {}]
  /\ totals = [failed |-> 0, succeeded |-> 0]

Grow(block) == Commit(block) /\ UNCHANGED <<indexed, latestTxID, response, totals>>

IndexBlock == Index /\ UNCHANGED <<chain, latestTxID, response, totals>>

Request(f) ==
  /\ response[f] = {}
  /\ response' = [response EXCEPT ![f] = TxList]
  /\ UNCHANGED <<chain, indexed, latestTxID, totals>>

\* isFailedTransaction
IsFailed(tx) == tx.log[1].kind = "failed"

\* Mutant: the newest of this response alone is remembered.
LatestOfResponse(f) ==
  CHOOSE id \in {tx.id : tx \in response[f]} : \A tx \in response[f] : ~Before(id, tx.id)

NewLatest(f) ==
  CHOOSE id \in {latestTxID} \cup {tx.id : tx \in response[f]} :
    ~Before(id, latestTxID) /\ \A tx \in response[f] : ~Before(id, tx.id)

\* Under latestTxIDMu: the transactions newer than the newest there was.
Count(f) ==
  LET recent == {tx \in response[f] : Before(latestTxID, tx.id)}
      failed == {tx \in recent : IsFailed(tx)}
  IN
  /\ response[f] # {}
  /\ totals' = [failed |-> totals.failed + Cardinality(failed),
                succeeded |-> totals.succeeded + Cardinality(recent \ failed)]
  /\ latestTxID' = NewLatest(f)
  /\ response' = [response EXCEPT ![f] = {}]
  /\ UNCHANGED <<chain, indexed>>

Next ==
  \/ \E block \in Blocks : Grow(block)
  \/ IndexBlock
  \/ \E f \in Fetchers : Request(f) \/ Count(f)

Spec == Init /\ [][Next]_rvars
-----------------------------------------------------------------------------
(* Properties *)

Known(failed) ==
  {tx \in AccountTxs : ~Before(latestTxID, tx.id) /\ IsFailed(tx) = failed}

\* However lists overlap and Fetches finish out of order, no transaction is
\* counted twice, nor a failed one as succeeded: the results add up to no
\* more than there were.
NoneCountedTwice ==
  /\ totals.failed <= Cardinality(Known(TRUE))
  /\ totals.succeeded <= Cardinality(Known(FALSE))
=============================================================================
