-------------------------------- MODULE Fcd --------------------------------
(***************************************************************************)
(* The FCD, which indexes the chain for the monitoring: it knows a prefix  *)
(* of the blocks, and answers with transactions in no order that counts,   *)
(* since its callers sort them by id or use the id alone.                  *)
(***************************************************************************)
EXTENDS FeedChain, FiniteSetsExt

CONSTANT Limit       \* transactions asked for, 10 in the code

ASSUME LimitAssumption == Limit \in Nat

VARIABLE indexed     \* how many blocks the FCD has

Index ==
  /\ indexed < Height
  /\ indexed' = indexed + 1

\* The transactions of a block. Ids grow along the chain; only their order
\* counts.
TxsIn(height) ==
  {[id |-> <<height, i>>, height |-> height, log |-> blocks[height][i]] :
     i \in DOMAIN blocks[height]}

NoTx == <<0, 0>>     \* less than every id

Before(id, other) == id[1] < other[1] \/ (id[1] = other[1] /\ id[2] < other[2])

Touches(tx) == \E m \in DOMAIN tx.log : tx.log[m].kind \in Own \cup {"failed"}

\* All transactions of the contract's account.
AccountTxs == {tx \in UNION {TxsIn(h) : h \in 1 .. indexed} : Touches(tx)}

\* GetTxList: the latest of them.
TxList == {tx \in AccountTxs : Cardinality({t \in AccountTxs : Before(tx.id, t.id)}) < Limit}

\* GetBlockAtHeight.
BlockTxs(height) == TxsIn(height)
=============================================================================
